--------------------------- MODULE NetworkAddress ----------------------------
(***************************************************************************)
(* isBlockedNetworkAddress of src/utils/security/safe-https.ts. An address *)
(* as it is written is a record: its octets, or its groups before and after*)
(* the "::" and the octets of a dotted tail. The code shifts numbers of 32 *)
(* and of 128 bits; here a number is the sequence of its octets (width 8)  *)
(* or groups (width 16), and what a shift keeps is compared part by part.  *)
(* isIP is external: a text it refuses has family 0, those it accepts have *)
(* parts in range. The zone of a link-local address is dropped.            *)
(***************************************************************************)
EXTENDS Integers, Sequences

NotIp == [family |-> 0]
V4(octets) == [family |-> 4, octets |-> octets]
V6(left, gap, right, tail) ==
  [family |-> 6, left |-> left, gap |-> gap, right |-> right, tail |-> tail]

\* What isIP says of the texts it accepts: without a "::" an IPv6 address has
\* all of its groups.
Octet == 0..255
Group == {n \in Nat : n =< 65535}

IsIpv6(text) ==
  /\ text.left \in Seq(Group) /\ text.right \in Seq(Group)
  /\ text.tail = <<>> \/ text.tail \in [1..4 -> Octet]
  /\ text.gap \in BOOLEAN
  /\ LET groups == Len(text.left) + Len(text.right) + (IF text.tail = <<>> THEN 0 ELSE 2)
     IN IF text.gap THEN groups =< 8 ELSE groups = 8

IsAddress(text) ==
  \/ text.family = 0
  \/ text.family = 4 /\ text.octets \in [1..4 -> Octet]
  \/ text.family = 6 /\ IsIpv6(text)

\* The two groups that a dotted tail stands for, and back.
Hextets(octets) ==
  IF octets = <<>> THEN <<>>
  ELSE <<octets[1] * 256 + octets[2], octets[3] * 256 + octets[4]>>

Octets(high, low) == <<high \div 256, high % 256, low \div 256, low % 256>>

\* ipv6ToBigInt: eight groups, or none for null.
Groups(text) ==
  LET tail    == Hextets(text.tail)
      missing == 8 - Len(text.left) - Len(text.right) - Len(tail)
  IN IF missing < 0 \/ (~text.gap /\ missing # 0)
     THEN <<>>
     ELSE text.left \o [k \in 1..missing |-> 0] \o text.right \o tail

-----------------------------------------------------------------------------
\* The bits of the k-th part that a prefix covers.
Kept(prefix, width, k) ==
  LET rest == prefix - width * (k - 1)
  IN IF rest < 0 THEN 0 ELSE IF rest > width THEN width ELSE rest

\* Mutant of InCidr: a part is compared as a whole, or not at all.
InCidrByParts(address, base, prefix, width) ==
  \A k \in DOMAIN address :
    Kept(prefix, width, k) = width => address[k] = base[k]

\* isInIpv4Cidr and isInIpv6Cidr: both divided by the size of the block.
InCidr(address, base, prefix, width) ==
  \A k \in DOMAIN address :
    LET block == 2 ^ (width - Kept(prefix, width, k))
    IN address[k] \div block = base[k] \div block

blockedIpv4Cidrs == {
  <<<<0, 0, 0, 0>>, 8>>,       <<<<10, 0, 0, 0>>, 8>>,
  <<<<100, 64, 0, 0>>, 10>>,   <<<<127, 0, 0, 0>>, 8>>,
  <<<<169, 254, 0, 0>>, 16>>,  <<<<172, 16, 0, 0>>, 12>>,
  <<<<192, 0, 0, 0>>, 24>>,    <<<<192, 0, 2, 0>>, 24>>,
  <<<<192, 168, 0, 0>>, 16>>,  <<<<198, 18, 0, 0>>, 15>>,
  <<<<198, 51, 100, 0>>, 24>>, <<<<203, 0, 113, 0>>, 24>>,
  <<<<224, 0, 0, 0>>, 4>>,     <<<<240, 0, 0, 0>>, 4>>}

\* The bases of blockedIpv6Cidrs. In decimal: 2001 is 8193, db8
\* 3512, fc00 64512, fe80 65152, ff00 65280.
Unspecified   == V6(<<>>, TRUE, <<>>, <<>>)
Loopback      == V6(<<>>, TRUE, <<1>>, <<>>)
LocalNat64    == V6(<<100, 65435, 1>>, TRUE, <<>>, <<>>)
DiscardOnly   == V6(<<256>>, TRUE, <<>>, <<>>)
IetfProtocols == V6(<<8193>>, TRUE, <<>>, <<>>)
Documentation == V6(<<8193, 3512>>, TRUE, <<>>, <<>>)
SixToFour     == V6(<<8194>>, TRUE, <<>>, <<>>)
UniqueLocal   == V6(<<64512>>, TRUE, <<>>, <<>>)
LinkLocal     == V6(<<65152>>, TRUE, <<>>, <<>>)
SiteLocal     == V6(<<65216>>, TRUE, <<>>, <<>>)
Multicast     == V6(<<65280>>, TRUE, <<>>, <<>>)

blockedIpv6Cidrs == {
  <<Unspecified, 128>>,  <<Loopback, 128>>,     <<LocalNat64, 48>>,
  <<DiscardOnly, 64>>,   <<IetfProtocols, 23>>, <<Documentation, 32>>,
  <<SixToFour, 16>>,     <<UniqueLocal, 7>>,    <<LinkLocal, 10>>,
  <<SiteLocal, 10>>,     <<Multicast, 8>>}

BlockedIpv4(octets) ==
  \E cidr \in blockedIpv4Cidrs : InCidr(octets, cidr[1], cidr[2], 8)

\* ::ffff:0:0/96 holds the IPv4 addresses.
MappedPrefix == V6(<<>>, TRUE, <<65535, 0, 0>>, <<>>)

BlockedIpv6(groups) ==
  IF InCidr(groups, Groups(MappedPrefix), 96, 16)
  THEN BlockedIpv4(Octets(groups[7], groups[8]))
  ELSE \E cidr \in blockedIpv6Cidrs : InCidr(groups, Groups(cidr[1]), cidr[2], 16)

isBlockedNetworkAddress(text) ==
  \/ text.family = 0
  \/ text.family = 4 /\ BlockedIpv4(text.octets)
  \/ text.family = 6 /\ (Groups(text) = <<>> \/ BlockedIpv6(Groups(text)))

-----------------------------------------------------------------------------
(* The ranges of those tables, as a network engineer lists them: first and *)
(* last value of the parts that matter. Whether these are all the ranges   *)
(* that are not public is another question.                                *)

ReservedIpv4(o) ==
  \/ o[1] \in {0, 10, 127} \cup 224..255
  \/ o[1] = 100 /\ o[2] \in 64..127
  \/ o[1] = 169 /\ o[2] = 254
  \/ o[1] = 172 /\ o[2] \in 16..31
  \/ o[1] = 192 /\ (o[2] = 168 \/ (o[2] = 0 /\ o[3] \in {0, 2}))
  \/ o[1] = 198 /\ (o[2] \in {18, 19} \/ (o[2] = 51 /\ o[3] = 100))
  \/ o[1] = 203 /\ o[2] = 0 /\ o[3] = 113

ReservedIpv6(g) ==
  \/ (\A k \in 1..7 : g[k] = 0) /\ g[8] \in {0, 1}
  \/ g[1] = 100 /\ g[2] = 65435 /\ g[3] = 1
  \/ g[1] = 256 /\ g[2] = 0 /\ g[3] = 0 /\ g[4] = 0
  \/ g[1] = 8193 /\ (g[2] \in 0..511 \/ g[2] = 3512)
  \/ g[1] = 8194
  \/ g[1] \in 64512..65023 \cup 65152..65535

Mapped(g) == (\A k \in 1..5 : g[k] = 0) /\ g[6] = 65535

Reserved(text) ==
  \/ text.family = 0
  \/ text.family = 4 /\ ReservedIpv4(text.octets)
  \/ /\ text.family = 6
     /\ LET g == Groups(text)
        IN IF Mapped(g) THEN ReservedIpv4(Octets(g[7], g[8])) ELSE ReservedIpv6(g)
=============================================================================
