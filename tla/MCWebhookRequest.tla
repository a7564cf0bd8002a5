-------------------------- MODULE MCWebhookRequest ---------------------------
(* Instances of WebhookRequest for TLC: the addresses at the edges of every*)
(* range of the tables, and the values next to them.                       *)
EXTENDS WebhookRequest

\* The part in which the prefix ends, moved by d from its first or last value.
Edge(base, prefix, width, d) ==
  LET k     == ((prefix - 1) \div width) + 1
      block == 2 ^ (width - Kept(prefix, width, k))
      value == IF d =< 0 THEN base[k] + d ELSE base[k] + block - 2 + d
      top   == (2 ^ width) - 1
  IN [base EXCEPT ![k] = IF value \in 0..top THEN value ELSE top - @]

Moves == {-1, 0, 1, 2}

EdgesIpv4 == {Edge(cidr[1], cidr[2], 8, d) : cidr \in blockedIpv4Cidrs, d \in Moves}
EdgesIpv6 ==
  {Edge(Groups(cidr[1]), cidr[2], 16, d) : cidr \in blockedIpv6Cidrs, d \in Moves}

\* Written out, with a "::" before the last group, and mapped with a tail.
Texts ==
  {V4(o) : o \in EdgesIpv4} \cup
  {V6(<<>>, TRUE, <<65535>>, o) : o \in EdgesIpv4} \cup
  {V6(g, FALSE, <<>>, <<>>) : g \in EdgesIpv6} \cup
  {V6(<<8193, 18528>>, TRUE, <<34952>>, <<>>), NotIp}

BoundaryAnswers ==
  {<<>>} \cup {<<t>> : t \in Texts} \cup
  {<<V4(<<8, 8, 8, 8>>), V4(<<127, 0, 0, 1>>)>>,
   <<V4(<<127, 0, 0, 1>>), V4(<<8, 8, 8, 8>>)>>,
   <<V4(<<8, 8, 8, 8>>), V6(<<8193, 18528>>, TRUE, <<34952>>, <<>>)>>}
=============================================================================
