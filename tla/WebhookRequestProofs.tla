------------------------ MODULE WebhookRequestProofs ------------------------
(***************************************************************************)
(* The safety properties of WebhookRequest, for every limit on the bytes.  *)
(* Inv relates where the connection is to what is settled, which none of   *)
(* the properties says by itself: a promise is open exactly while somebody *)
(* can still settle it, and what was kept is then all that came.           *)
(* The second half is the arithmetic of NetworkAddress: for every address  *)
(* there is, not only those at the edges of the ranges, the verdict of the *)
(* code is the one that the handwritten ranges give.                       *)
(***************************************************************************)
EXTENDS WebhookRequest, TLAPS

Open == outcome = "none"

Inv ==
  /\ settlements = IF Open THEN 0 ELSE 1
  /\ ~Open => timer # "set"
  /\ phase \in {"idle", "resolving", "waiting", "receiving"} => Open
  /\ phase \in {"waiting", "receiving"} => timer = "set"
  /\ phase = "ignoring" => ~Open /\ status = "redirect"
  /\ phase = "ended" => ~Open
  /\ phase \notin {"idle", "resolving", "ended"} => Acceptable(addresses)
  /\ phase \in {"idle", "resolving", "waiting"} => status = "none"
  /\ phase \in {"receiving", "aborted"} /\ status \notin {"none", "redirect"} =>
       /\ kept = received
       /\ declared =< MaxResponseBytes
  /\ phase = "receiving" => status \notin {"none", "redirect"}
  /\ phase \in {"idle", "resolving", "waiting"} => received = 0 /\ kept = 0
  /\ errors > 0 => phase \in {"aborted", "ended"}

\* The invariant of the proofs, with the bound on chunks made explicit.
AllInv == TypeOK /\ Inv /\ AnswerIsSound

USE DEF target, answer, body, promise, vars

LEMMA InitAll == Init => AllInv
BY BytesAssumption, AnswersAssumption DEF Init, AllInv, TypeOK, Inv, AnswerIsSound, Open, Undeclared, Phases, Acceptable

\* A target that was found, and a request that is refused before it is sent.
LEMMA SendKeeps ==
  ASSUME AllInv, phase \in {"idle", "resolving"},
         NEW found \in Answers, Send(found),
         UNCHANGED <<answer, body, errors, job>>
  PROVE  AllInv'
<1>1. TypeOK'
  BY BytesAssumption DEF AllInv, TypeOK, Inv, Open, Phases, Send, Settle
<1>2. Inv'
  <2>1. CASE Acceptable(found)
    <3>1. Acceptable(addresses)'
      BY <2>1 DEF Send, Acceptable
    <3> QED BY <2>1, <3>1 DEF AllInv, TypeOK, Inv, Open, Phases, Send
  <2>2. CASE ~Acceptable(found)
    BY <2>2 DEF AllInv, TypeOK, Inv, Open, Phases, Send, Settle
  <2> QED BY <2>1, <2>2
<1>3. AnswerIsSound'
  BY DEF AllInv, TypeOK, Inv, Open, AnswerIsSound, Send, Settle
<1> QED BY <1>1, <1>2, <1>3 DEF AllInv

LEMMA RefusedKeeps ==
  ASSUME AllInv, phase \in {"idle", "resolving"},
         phase' = "ended", Settle("rejected"), UNCHANGED addresses,
         UNCHANGED <<answer, body, errors, job>>
  PROVE  AllInv'
BY BytesAssumption DEF AllInv, TypeOK, Inv, AnswerIsSound, Open, Phases, Acceptable, Settle

LEMMA BeginKeeps == AllInv /\ Begin => AllInv'
<1> SUFFICES ASSUME AllInv, Begin PROVE AllInv'
  OBVIOUS
<1>1. CASE phase' = "ended" /\ Settle("rejected") /\ UNCHANGED addresses
  BY <1>1, RefusedKeeps DEF Begin
<1>2. ASSUME NEW found \in Answers, Send(found) PROVE AllInv'
  BY <1>2, SendKeeps DEF Begin
<1>3. CASE phase' = "resolving" /\ UNCHANGED <<addresses, promise>>
  BY <1>3 DEF AllInv, TypeOK, Inv, AnswerIsSound, Open, Phases, Acceptable, Begin
<1> QED BY <1>1, <1>2, <1>3 DEF Begin

LEMMA ResolvedKeeps == AllInv /\ Resolved => AllInv'
<1> SUFFICES ASSUME AllInv, Resolved PROVE AllInv'
  OBVIOUS
<1>1. ASSUME NEW found \in Answers, Send(found) PROVE AllInv'
  BY <1>1, SendKeeps DEF Resolved
<1>2. CASE phase' = "ended" /\ Settle("rejected") /\ UNCHANGED addresses
  BY <1>2, RefusedKeeps DEF Resolved
<1> QED BY <1>1, <1>2 DEF Resolved

LEMMA RespondKeeps ==
  ASSUME NEW code \in {"ok", "redirect", "refused"},
         NEW length \in Undeclared..MaxSent,
         AllInv, Respond(code, length)
  PROVE  AllInv'
BY BytesAssumption DEF AllInv, TypeOK, Inv, AnswerIsSound, Open, Undeclared, Phases, Acceptable, Respond, FinishWithError, Settle

LEMMA DataKeeps ==
  ASSUME NEW bytes \in 1..MaxSent, AllInv, Data(bytes)
  PROVE  AllInv'
BY BytesAssumption DEF AllInv, TypeOK, Inv, AnswerIsSound, Open, Undeclared, Phases, Acceptable, Data, FinishWithError, Settle

LEMMA EndKeeps == AllInv /\ End => AllInv'
BY BytesAssumption DEF AllInv, TypeOK, Inv, AnswerIsSound, Open, Undeclared, Phases, Acceptable, End, Settle

LEMMA QuietStepsKeep ==
  AllInv /\ (Drained \/ ConnectionLost \/ Judge) => AllInv'
<1> SUFFICES ASSUME AllInv, Drained \/ ConnectionLost \/ Judge PROVE AllInv'
  OBVIOUS
<1> USE DEF AllInv, TypeOK, Inv, AnswerIsSound, Open, Phases, Acceptable
<1>1. CASE Drained
  BY <1>1 DEF Drained
<1>2. CASE ConnectionLost
  <2>1. Acceptable(addresses)'
    BY <1>2 DEF ConnectionLost
  <2>2. TypeOK' /\ AnswerIsSound'
    BY <1>2 DEF ConnectionLost, Abort
  <2>3. Inv'
    BY <1>2, <2>1 DEF ConnectionLost, Abort
  <2> QED BY <2>2, <2>3
<1>3. CASE Judge
  BY <1>3 DEF Judge, Verdict
<1> QED BY <1>1, <1>2, <1>3

LEMMA TimeoutKeeps == AllInv /\ Timeout => AllInv'
BY BytesAssumption DEF AllInv, TypeOK, Inv, AnswerIsSound, Open, Undeclared, Phases, Acceptable, Timeout, Abort

LEMMA ErrorKeeps == AllInv /\ Error => AllInv'
BY BytesAssumption DEF AllInv, TypeOK, Inv, AnswerIsSound, Open, Undeclared, Phases, Acceptable, Error, FinishWithError, Settle

LEMMA StepKeeps == AllInv /\ [Next]_vars => AllInv'
<1> SUFFICES ASSUME AllInv, [Next]_vars PROVE AllInv'
  OBVIOUS
<1>1. CASE Begin
  BY <1>1, BeginKeeps
<1>2. CASE Resolved
  BY <1>2, ResolvedKeeps
<1>3. CASE Response
  <2>1. ASSUME NEW code \in {"ok", "redirect", "refused"},
               NEW length \in Undeclared..MaxSent,
               Respond(code, length)
        PROVE  AllInv'
    BY <2>1, RespondKeeps
  <2>2. ASSUME NEW bytes \in 1..MaxSent, Data(bytes)
        PROVE  AllInv'
    BY <2>2, DataKeeps
  <2> QED BY <1>3, <2>1, <2>2, EndKeeps DEF Response
<1>4. CASE Drained \/ ConnectionLost \/ Judge
  BY <1>4, QuietStepsKeep
<1>5. CASE Timeout
  BY <1>5, TimeoutKeeps
<1>6. CASE Error
  BY <1>6, ErrorKeeps
<1>7. CASE UNCHANGED vars
  BY <1>7 DEF AllInv, TypeOK, Inv, AnswerIsSound, Open, Acceptable
<1> QED BY <1>1, <1>2, <1>3, <1>4, <1>5, <1>6, <1>7 DEF Next

LEMMA Invariance == Spec => []AllInv
BY InitAll, StepKeeps, PTL DEF Spec

(***************************************************************************)
(* The counters of bytes stay in their limits: no chunk that would go over *)
(* MAX_WEBHOOK_RESPONSE_BYTES is ever kept.                                *)
(***************************************************************************)
THEOREM TypeCorrect == Spec => []TypeOK
BY Invariance, PTL DEF AllInv

(***************************************************************************)
(* resolve or reject is called once, and the timer is off by then.         *)
(***************************************************************************)
THEOREM PromiseSettledOnce == Spec => []SettledOnce
<1>1. AllInv => SettledOnce
  BY DEF AllInv, TypeOK, Inv, SettledOnce, Open
<1> QED BY <1>1, Invariance, PTL

(***************************************************************************)
(* The processor only gets whole answers, within the limit, from hosts all *)
(* of whose addresses were checked.                                        *)
(***************************************************************************)
THEOREM SoundAnswers == Spec => []AnswerIsSound
BY Invariance, PTL DEF AllInv

(***************************************************************************)
(* No chunk is taken once the promise is settled.                          *)
(***************************************************************************)
THEOREM DeafAfterwards == Spec => []DeafOnceSettled
<1>1. AllInv => DeafOnceSettled
  BY DEF AllInv, TypeOK, Inv, DeafOnceSettled, Open, Phases
<1> QED BY <1>1, Invariance, PTL

-----------------------------------------------------------------------------
(* The verdict on an address. A block is compared part by part (Agree);    *)
(* the parts its prefix covers whole must be equal, the one in which it    *)
(* ends is a range, the others are free. So each line of the tables is a   *)
(* condition on the values of the parts, and they add up to the ranges.    *)

\* The parts agree in the bits that are kept.
Agree(x, b, bits, width) == x \div (2 ^ (width - bits)) = b \div (2 ^ (width - bits))

LEMMA WholeOfOctets ==
  ASSUME NEW x \in Octet
  PROVE  x \div 1 = x /\ x \div 256 = 0
<1>1. x \div 1 = x
  BY SMT DEF Octet
<1>2. x \div 256 = 0
  BY SMT DEF Octet
<1> QED
  BY <1>1, <1>2, SMT

\* An octet kept whole is equal, one not kept is free.
LEMMA WholeOctetsAgree ==
  ASSUME NEW x \in Octet, NEW b \in Octet
  PROVE  (Agree(x, b, 8, 8) <=> x = b) /\ Agree(x, b, 0, 8)
<1>1. 2 ^ (8 - 8) = 1 /\ 2 ^ (8 - 0) = 256
  BY SMT
<1>2. x \div 1 = x /\ x \div 256 = 0
  BY WholeOfOctets
<1>3. b \div 1 = b /\ b \div 256 = 0
  BY WholeOfOctets
<1>4. Agree(x, b, 8, 8) <=> x = b
  BY <1>1, <1>2, <1>3, SMT DEF Agree
<1>5. Agree(x, b, 0, 8)
  BY <1>1, <1>2, <1>3, SMT DEF Agree
<1> QED
  BY <1>4, <1>5

\* The octets in which a prefix ends are ranges.
LEMMA Octets64To127 ==
  ASSUME NEW x \in Octet PROVE Agree(x, 64, 2, 8) <=> x \in 64..127
<1>1. 2 ^ (8 - 2) = 64
  BY SMT
<1>2. 64 \div 64 = 1
  BY SMT
<1>3. Agree(x, 64, 2, 8) <=> x \div 64 = 1
  BY <1>1, <1>2, SMT DEF Agree
<1>4. x \div 64 = 1 => x \in 64..127
  BY SMT DEF Octet
<1>5. x \in 64..127 => x \div 64 = 1
  BY SMT
<1> QED
  BY <1>3, <1>4, <1>5, SMT

LEMMA Octets16To31 ==
  ASSUME NEW x \in Octet PROVE Agree(x, 16, 4, 8) <=> x \in 16..31
<1>1. 2 ^ (8 - 4) = 16
  BY SMT
<1>2. 16 \div 16 = 1
  BY SMT
<1>3. Agree(x, 16, 4, 8) <=> x \div 16 = 1
  BY <1>1, <1>2, SMT DEF Agree
<1>4. x \div 16 = 1 => x \in 16..31
  BY SMT DEF Octet
<1>5. x \in 16..31 => x \div 16 = 1
  BY SMT
<1> QED
  BY <1>3, <1>4, <1>5, SMT

LEMMA Octets18To19 ==
  ASSUME NEW x \in Octet PROVE Agree(x, 18, 7, 8) <=> x \in 18..19
<1>1. 2 ^ (8 - 7) = 2
  BY SMT
<1>2. 18 \div 2 = 9
  BY SMT
<1>3. Agree(x, 18, 7, 8) <=> x \div 2 = 9
  BY <1>1, <1>2, SMT DEF Agree
<1>4. x \div 2 = 9 => x \in 18..19
  BY SMT DEF Octet
<1>5. x \in 18..19 => x \div 2 = 9
  BY SMT
<1> QED
  BY <1>3, <1>4, <1>5, SMT

LEMMA Octets224To239 ==
  ASSUME NEW x \in Octet PROVE Agree(x, 224, 4, 8) <=> x \in 224..239
<1>1. 2 ^ (8 - 4) = 16
  BY SMT
<1>2. 224 \div 16 = 14
  BY SMT
<1>3. Agree(x, 224, 4, 8) <=> x \div 16 = 14
  BY <1>1, <1>2, SMT DEF Agree
<1>4. x \div 16 = 14 => x \in 224..239
  BY SMT DEF Octet
<1>5. x \in 224..239 => x \div 16 = 14
  BY SMT
<1> QED
  BY <1>3, <1>4, <1>5, SMT

LEMMA Octets240To255 ==
  ASSUME NEW x \in Octet PROVE Agree(x, 240, 4, 8) <=> x \in 240..255
<1>1. 2 ^ (8 - 4) = 16
  BY SMT
<1>2. 240 \div 16 = 15
  BY SMT
<1>3. Agree(x, 240, 4, 8) <=> x \div 16 = 15
  BY <1>1, <1>2, SMT DEF Agree
<1>4. x \div 16 = 15 => x \in 240..255
  BY SMT DEF Octet
<1>5. x \in 240..255 => x \div 16 = 15
  BY SMT
<1> QED
  BY <1>3, <1>4, <1>5, SMT

LEMMA WholeOfGroups ==
  ASSUME NEW x \in Group
  PROVE  x \div 1 = x /\ x \div 65536 = 0
<1>1. x \div 1 = x
  BY SMT DEF Group
<1>2. x \div 65536 = 0
  BY SMT DEF Group
<1> QED
  BY <1>1, <1>2, SMT

\* The same of groups.
LEMMA WholeGroupsAgree ==
  ASSUME NEW x \in Group, NEW b \in Group
  PROVE  (Agree(x, b, 16, 16) <=> x = b) /\ Agree(x, b, 0, 16)
<1>1. 2 ^ (16 - 16) = 1 /\ 2 ^ (16 - 0) = 65536
  BY SMT
<1>2. x \div 1 = x /\ x \div 65536 = 0
  BY WholeOfGroups
<1>3. b \div 1 = b /\ b \div 65536 = 0
  BY WholeOfGroups
<1>4. Agree(x, b, 16, 16) <=> x = b
  BY <1>1, <1>2, <1>3, SMT DEF Agree
<1>5. Agree(x, b, 0, 16)
  BY <1>1, <1>2, <1>3, SMT DEF Agree
<1> QED
  BY <1>4, <1>5

\* The groups in which a prefix ends.
LEMMA Groups0To511 ==
  ASSUME NEW x \in Group PROVE Agree(x, 0, 7, 16) <=> x \in 0..511
<1>1. 2 ^ (16 - 7) = 512
  BY SMT
<1>2. 0 \div 512 = 0
  BY SMT
<1>3. Agree(x, 0, 7, 16) <=> x \div 512 = 0
  BY <1>1, <1>2, SMT DEF Agree
<1>4. x \div 512 = 0 => x \in 0..511
  BY SMT DEF Group
<1>5. x \in 0..511 => x \div 512 = 0
  BY SMT
<1> QED
  BY <1>3, <1>4, <1>5, SMT

LEMMA Groups64512To65023 ==
  ASSUME NEW x \in Group PROVE Agree(x, 64512, 7, 16) <=> x \in 64512..65023
<1>1. 2 ^ (16 - 7) = 512
  BY SMT
<1>2. 64512 \div 512 = 126
  BY SMT
<1>3. Agree(x, 64512, 7, 16) <=> x \div 512 = 126
  BY <1>1, <1>2, SMT DEF Agree
<1>4. x \div 512 = 126 => x \in 64512..65023
  BY SMT DEF Group
<1>5. x \in 64512..65023 => x \div 512 = 126
  BY SMT
<1> QED
  BY <1>3, <1>4, <1>5, SMT

LEMMA Groups65152To65215 ==
  ASSUME NEW x \in Group PROVE Agree(x, 65152, 10, 16) <=> x \in 65152..65215
<1>1. 2 ^ (16 - 10) = 64
  BY SMT
<1>2. 65152 \div 64 = 1018
  BY SMT
<1>3. Agree(x, 65152, 10, 16) <=> x \div 64 = 1018
  BY <1>1, <1>2, SMT DEF Agree
<1>4. x \div 64 = 1018 => x \in 65152..65215
  BY SMT DEF Group
<1>5. x \in 65152..65215 => x \div 64 = 1018
  BY SMT
<1> QED
  BY <1>3, <1>4, <1>5, SMT

LEMMA Groups65216To65279 ==
  ASSUME NEW x \in Group PROVE Agree(x, 65216, 10, 16) <=> x \in 65216..65279
<1>1. 2 ^ (16 - 10) = 64
  BY SMT
<1>2. 65216 \div 64 = 1019
  BY SMT
<1>3. Agree(x, 65216, 10, 16) <=> x \div 64 = 1019
  BY <1>1, <1>2, SMT DEF Agree
<1>4. x \div 64 = 1019 => x \in 65216..65279
  BY SMT DEF Group
<1>5. x \in 65216..65279 => x \div 64 = 1019
  BY SMT
<1> QED
  BY <1>3, <1>4, <1>5, SMT

LEMMA Groups65280To65535 ==
  ASSUME NEW x \in Group PROVE Agree(x, 65280, 8, 16) <=> x \in 65280..65535
<1>1. 2 ^ (16 - 8) = 256
  BY SMT
<1>2. 65280 \div 256 = 255
  BY SMT
<1>3. Agree(x, 65280, 8, 16) <=> x \div 256 = 255
  BY <1>1, <1>2, SMT DEF Agree
<1>4. x \div 256 = 255 => x \in 65280..65535
  BY SMT DEF Group
<1>5. x \in 65280..65535 => x \div 256 = 255
  BY SMT
<1> QED
  BY <1>3, <1>4, <1>5, SMT

LEMMA CidrOfOctets ==
  ASSUME NEW o \in [1..4 -> Octet], NEW base, NEW prefix
  PROVE  InCidr(o, base, prefix, 8) <=>
           /\ Agree(o[1], base[1], Kept(prefix, 8, 1), 8)
           /\ Agree(o[2], base[2], Kept(prefix, 8, 2), 8)
           /\ Agree(o[3], base[3], Kept(prefix, 8, 3), 8)
           /\ Agree(o[4], base[4], Kept(prefix, 8, 4), 8)
<1>1. DOMAIN o = {1, 2, 3, 4}
  OBVIOUS
<1>2. InCidr(o, base, prefix, 8) <=> \A k \in DOMAIN o : Agree(o[k], base[k], Kept(prefix, 8, k), 8)
  BY Zenon DEF InCidr, Agree
<1> QED
  BY <1>1, <1>2, Zenon

LEMMA KeptOfOctets ==
  /\ Kept(4, 8, 1) = 4 /\ Kept(4, 8, 2) = 0 /\ Kept(4, 8, 3) = 0 /\ Kept(4, 8, 4) = 0
  /\ Kept(8, 8, 1) = 8 /\ Kept(8, 8, 2) = 0 /\ Kept(8, 8, 3) = 0 /\ Kept(8, 8, 4) = 0
  /\ Kept(10, 8, 1) = 8 /\ Kept(10, 8, 2) = 2 /\ Kept(10, 8, 3) = 0 /\ Kept(10, 8, 4) = 0
  /\ Kept(12, 8, 1) = 8 /\ Kept(12, 8, 2) = 4 /\ Kept(12, 8, 3) = 0 /\ Kept(12, 8, 4) = 0
  /\ Kept(15, 8, 1) = 8 /\ Kept(15, 8, 2) = 7 /\ Kept(15, 8, 3) = 0 /\ Kept(15, 8, 4) = 0
  /\ Kept(16, 8, 1) = 8 /\ Kept(16, 8, 2) = 8 /\ Kept(16, 8, 3) = 0 /\ Kept(16, 8, 4) = 0
  /\ Kept(24, 8, 1) = 8 /\ Kept(24, 8, 2) = 8 /\ Kept(24, 8, 3) = 8 /\ Kept(24, 8, 4) = 0
BY DEF Kept

\* The blocks that end with an octet.
LEMMA WholeOctetBlocks ==
  ASSUME NEW o \in [1..4 -> Octet],
         NEW a \in Octet, NEW b \in Octet, NEW c \in Octet, NEW d \in Octet
  PROVE  /\ InCidr(o, <<a, b, c, d>>, 8, 8) <=> o[1] = a
         /\ InCidr(o, <<a, b, c, d>>, 16, 8) <=> o[1] = a /\ o[2] = b
         /\ InCidr(o, <<a, b, c, d>>, 24, 8) <=> o[1] = a /\ o[2] = b /\ o[3] = c
<1> DEFINE base == <<a, b, c, d>>
<1>1. o[1] \in Octet /\ o[2] \in Octet /\ o[3] \in Octet /\ o[4] \in Octet
  OBVIOUS
<1>2. base[1] = a /\ base[2] = b /\ base[3] = c /\ base[4] = d
  OBVIOUS
<1> HIDE DEF base
<1>3. /\ Agree(o[1], a, 8, 8) <=> o[1] = a
      /\ Agree(o[2], b, 8, 8) <=> o[2] = b
      /\ Agree(o[3], c, 8, 8) <=> o[3] = c
      /\ Agree(o[2], b, 0, 8) /\ Agree(o[3], c, 0, 8) /\ Agree(o[4], d, 0, 8)
  BY <1>1, WholeOctetsAgree
<1>4. InCidr(o, base, 8, 8) <=> o[1] = a
  BY <1>2, <1>3, CidrOfOctets, KeptOfOctets
<1>5. InCidr(o, base, 16, 8) <=> o[1] = a /\ o[2] = b
  BY <1>2, <1>3, CidrOfOctets, KeptOfOctets
<1>6. InCidr(o, base, 24, 8) <=> o[1] = a /\ o[2] = b /\ o[3] = c
  BY <1>2, <1>3, CidrOfOctets, KeptOfOctets
<1> QED
  BY <1>4, <1>5, <1>6 DEF base

\* The others.
LEMMA PartOctetBlocks ==
  ASSUME NEW o \in [1..4 -> Octet]
  PROVE  /\ InCidr(o, <<100, 64, 0, 0>>, 10, 8) <=> o[1] = 100 /\ o[2] \in 64..127
         /\ InCidr(o, <<172, 16, 0, 0>>, 12, 8) <=> o[1] = 172 /\ o[2] \in 16..31
         /\ InCidr(o, <<198, 18, 0, 0>>, 15, 8) <=> o[1] = 198 /\ o[2] \in 18..19
         /\ InCidr(o, <<224, 0, 0, 0>>, 4, 8) <=> o[1] \in 224..239
         /\ InCidr(o, <<240, 0, 0, 0>>, 4, 8) <=> o[1] \in 240..255
<1>1. o[1] \in Octet /\ o[2] \in Octet /\ o[3] \in Octet /\ o[4] \in Octet
  OBVIOUS
<1>2. \A x \in {0, 100, 172, 198} : x \in Octet
  BY DEF Octet
<1>3. /\ Agree(o[1], 100, 8, 8) <=> o[1] = 100
      /\ Agree(o[1], 172, 8, 8) <=> o[1] = 172
      /\ Agree(o[1], 198, 8, 8) <=> o[1] = 198
      /\ Agree(o[2], 0, 0, 8) /\ Agree(o[3], 0, 0, 8) /\ Agree(o[4], 0, 0, 8)
  BY <1>1, <1>2, WholeOctetsAgree
<1>4. InCidr(o, <<100, 64, 0, 0>>, 10, 8) <=> o[1] = 100 /\ o[2] \in 64..127
  BY <1>1, <1>3, CidrOfOctets, KeptOfOctets, Octets64To127
<1>5. InCidr(o, <<172, 16, 0, 0>>, 12, 8) <=> o[1] = 172 /\ o[2] \in 16..31
  BY <1>1, <1>3, CidrOfOctets, KeptOfOctets, Octets16To31
<1>6. InCidr(o, <<198, 18, 0, 0>>, 15, 8) <=> o[1] = 198 /\ o[2] \in 18..19
  BY <1>1, <1>3, CidrOfOctets, KeptOfOctets, Octets18To19
<1>7. InCidr(o, <<224, 0, 0, 0>>, 4, 8) <=> o[1] \in 224..239
  BY <1>1, <1>3, CidrOfOctets, KeptOfOctets, Octets224To239
<1>8. InCidr(o, <<240, 0, 0, 0>>, 4, 8) <=> o[1] \in 240..255
  BY <1>1, <1>3, CidrOfOctets, KeptOfOctets, Octets240To255
<1> QED
  BY <1>4, <1>5, <1>6, <1>7, <1>8

LEMMA TableOfIpv4 ==
  ASSUME NEW o
  PROVE  BlockedIpv4(o) <=>
           \/ InCidr(o, <<0, 0, 0, 0>>, 8, 8)
           \/ InCidr(o, <<10, 0, 0, 0>>, 8, 8)
           \/ InCidr(o, <<100, 64, 0, 0>>, 10, 8)
           \/ InCidr(o, <<127, 0, 0, 0>>, 8, 8)
           \/ InCidr(o, <<169, 254, 0, 0>>, 16, 8)
           \/ InCidr(o, <<172, 16, 0, 0>>, 12, 8)
           \/ InCidr(o, <<192, 0, 0, 0>>, 24, 8)
           \/ InCidr(o, <<192, 0, 2, 0>>, 24, 8)
           \/ InCidr(o, <<192, 168, 0, 0>>, 16, 8)
           \/ InCidr(o, <<198, 18, 0, 0>>, 15, 8)
           \/ InCidr(o, <<198, 51, 100, 0>>, 24, 8)
           \/ InCidr(o, <<203, 0, 113, 0>>, 24, 8)
           \/ InCidr(o, <<224, 0, 0, 0>>, 4, 8)
           \/ InCidr(o, <<240, 0, 0, 0>>, 4, 8)
BY DEF BlockedIpv4, blockedIpv4Cidrs

\* The table of IPv4.
LEMMA Ipv4Ranges ==
  ASSUME NEW o \in [1..4 -> Octet]
  PROVE  BlockedIpv4(o) <=> ReservedIpv4(o)
<1>1. 0 \in Octet /\ 2 \in Octet /\ 10 \in Octet /\ 51 \in Octet /\ 100 \in Octet /\ 113 \in Octet
      /\ 127 \in Octet /\ 168 \in Octet /\ 169 \in Octet /\ 192 \in Octet /\ 198 \in Octet
      /\ 203 \in Octet /\ 254 \in Octet
  BY DEF Octet
<1>2. InCidr(o, <<0, 0, 0, 0>>, 8, 8) <=> o[1] = 0
  BY <1>1, WholeOctetBlocks
<1>3. InCidr(o, <<10, 0, 0, 0>>, 8, 8) <=> o[1] = 10
  BY <1>1, WholeOctetBlocks
<1>4. InCidr(o, <<127, 0, 0, 0>>, 8, 8) <=> o[1] = 127
  BY <1>1, WholeOctetBlocks
<1>5. InCidr(o, <<169, 254, 0, 0>>, 16, 8) <=> o[1] = 169 /\ o[2] = 254
  BY <1>1, WholeOctetBlocks
<1>6. InCidr(o, <<192, 168, 0, 0>>, 16, 8) <=> o[1] = 192 /\ o[2] = 168
  BY <1>1, WholeOctetBlocks
<1>7. InCidr(o, <<192, 0, 0, 0>>, 24, 8) <=> o[1] = 192 /\ o[2] = 0 /\ o[3] = 0
  BY <1>1, WholeOctetBlocks
<1>8. InCidr(o, <<192, 0, 2, 0>>, 24, 8) <=> o[1] = 192 /\ o[2] = 0 /\ o[3] = 2
  BY <1>1, WholeOctetBlocks
<1>9. InCidr(o, <<198, 51, 100, 0>>, 24, 8) <=> o[1] = 198 /\ o[2] = 51 /\ o[3] = 100
  BY <1>1, WholeOctetBlocks
<1>10. InCidr(o, <<203, 0, 113, 0>>, 24, 8) <=> o[1] = 203 /\ o[2] = 0 /\ o[3] = 113
  BY <1>1, WholeOctetBlocks
<1>11. o[1] \in Octet /\ o[2] \in Octet /\ o[3] \in Octet
  OBVIOUS
<1> QED
  BY <1>2, <1>3, <1>4, <1>5, <1>6, <1>7, <1>8, <1>9, <1>10, <1>11,
     PartOctetBlocks, TableOfIpv4 DEF ReservedIpv4, Octet

-----------------------------------------------------------------------------
(* Groups                                                                  *)

LEMMA Concatenation ==
  ASSUME NEW S, NEW a \in Seq(S), NEW b \in Seq(S)
  PROVE  /\ a \o b \in Seq(S) /\ Len(a \o b) = Len(a) + Len(b)
         /\ \A k \in 1..Len(a) : (a \o b)[k] = a[k]
         /\ \A k \in 1..Len(b) : (a \o b)[Len(a) + k] = b[k]
OBVIOUS

\* Where the parts of a concatenation are found in it.
LEMMA Concatenations ==
  ASSUME NEW S, NEW a \in Seq(S), NEW b \in Seq(S), NEW c \in Seq(S), NEW d \in Seq(S),
         NEW s, s = a \o b \o c \o d
  PROVE  /\ s \in Seq(S) /\ Len(s) = Len(a) + Len(b) + Len(c) + Len(d)
         /\ \A k \in 1..Len(a) : s[k] = a[k]
         /\ \A k \in 1..Len(b) : s[Len(a) + k] = b[k]
         /\ \A k \in 1..Len(c) : s[Len(a) + Len(b) + k] = c[k]
<1> DEFINE ab == a \o b
<1>1. /\ ab \in Seq(S) /\ Len(ab) = Len(a) + Len(b)
      /\ \A k \in 1..Len(a) : ab[k] = a[k]
      /\ \A k \in 1..Len(b) : ab[Len(a) + k] = b[k]
  BY Concatenation
<1>a. ab \in Seq(S)
  BY <1>1
<1> HIDE DEF ab
<1> DEFINE abc == ab \o c
<1>2. /\ abc \in Seq(S) /\ Len(abc) = Len(ab) + Len(c)
      /\ \A k \in 1..Len(ab) : abc[k] = ab[k]
      /\ \A k \in 1..Len(c) : abc[Len(ab) + k] = c[k]
  BY <1>a, Concatenation
<1>b. abc \in Seq(S)
  BY <1>2
<1> HIDE DEF abc
<1>d. s = abc \o d
  BY DEF abc, ab
<1>3. /\ s \in Seq(S) /\ Len(s) = Len(abc) + Len(d)
      /\ \A k \in 1..Len(abc) : s[k] = abc[k]
  BY <1>b, <1>d, Concatenation
<1> DEFINE A == Len(a)
           B == Len(b)
           C == Len(c)
           D == Len(d)
<1>4. A \in Nat /\ B \in Nat /\ C \in Nat /\ D \in Nat
  OBVIOUS
<1>c. Len(ab) = A + B /\ Len(abc) = Len(ab) + C /\ Len(s) = Len(abc) + D
  BY <1>1, <1>2, <1>3
<1> HIDE DEF A, B, C, D
<1>5. Len(ab) = A + B /\ Len(abc) = A + B + C /\ Len(s) = A + B + C + D
  BY <1>c, <1>4
<1>6. ASSUME NEW k \in 1..A
      PROVE  s[k] = a[k]
  <2>1. k \in 1..(A + B) /\ k \in 1..(A + B + C)
    BY <1>4
  <2>2. ab[k] = a[k]
    BY <1>1 DEF A
  <2>3. abc[k] = ab[k] /\ s[k] = abc[k]
    BY <1>2, <1>3, <1>5, <2>1
  <2> QED
    BY <2>2, <2>3
<1>7. ASSUME NEW k \in 1..B
      PROVE  s[A + k] = b[k]
  <2>1. A + k \in 1..(A + B) /\ A + k \in 1..(A + B + C)
    BY <1>4
  <2>2. ab[A + k] = b[k]
    BY <1>1 DEF A, B
  <2>3. abc[A + k] = ab[A + k] /\ s[A + k] = abc[A + k]
    BY <1>2, <1>3, <1>5, <2>1
  <2> QED
    BY <2>2, <2>3
<1>8. ASSUME NEW k \in 1..C
      PROVE  s[A + B + k] = c[k]
  <2>1. A + B + k \in 1..(A + B + C)
    BY <1>4
  <2>2. abc[A + B + k] = c[k]
    BY <1>2, <1>5 DEF C
  <2>3. s[A + B + k] = abc[A + B + k]
    BY <1>3, <1>5, <2>1
  <2> QED
    BY <2>2, <2>3
<1> QED
  BY <1>3, <1>5, <1>6, <1>7, <1>8 DEF A, B, C, D

LEMMA TwoOctets ==
  ASSUME NEW high \in Octet, NEW low \in Octet
  PROVE  high * 256 + low \in Group
<1>1. high \in Int /\ 0 =< high /\ high =< 255 /\ low \in Int /\ 0 =< low /\ low =< 255
  BY DEF Octet
<1>2. high * 256 \in Int /\ 0 =< high * 256 /\ high * 256 =< 65280
  BY <1>1
<1> QED
  BY <1>1, <1>2 DEF Group

LEMMA TailIsTwoGroups ==
  ASSUME NEW octets, octets = <<>> \/ octets \in [1..4 -> Octet]
  PROVE  /\ Hextets(octets) \in Seq(Group)
         /\ Len(Hextets(octets)) = IF octets = <<>> THEN 0 ELSE 2
<1>1. CASE octets = <<>>
  BY <1>1 DEF Hextets
<1>2. CASE octets # <<>> /\ octets \in [1..4 -> Octet]
  <2> DEFINE high == octets[1] * 256 + octets[2]
             low  == octets[3] * 256 + octets[4]
  <2>1. octets[1] \in Octet /\ octets[2] \in Octet /\ octets[3] \in Octet /\ octets[4] \in Octet
    BY <1>2
  <2>2. high \in Group /\ low \in Group
    BY <2>1, TwoOctets
  <2>3. Hextets(octets) = <<high, low>>
    BY <1>2 DEF Hextets
  <2> HIDE DEF high, low
  <2> QED
    BY <1>2, <2>2, <2>3
<1> QED
  BY <1>1, <1>2

LEMMA ZerosAreGroups ==
  ASSUME NEW n \in Nat
  PROVE  /\ [k \in 1..n |-> 0] \in Seq(Group) /\ Len([k \in 1..n |-> 0]) = n
         /\ \A k \in 1..n : [j \in 1..n |-> 0][k] = 0
BY DEF Group

LEMMA SequenceOfEight ==
  ASSUME NEW g \in Seq(Group), Len(g) = 8
  PROVE  g \in [1..8 -> Group] /\ g # <<>>
<1>1. DOMAIN g = 1..8 /\ \A k \in 1..8 : g[k] \in Group
  OBVIOUS
<1>2. g = [k \in 1..8 |-> g[k]]
  BY <1>1
<1>3. g # <<>>
  <2>1. Len(<<>>) = 0
    OBVIOUS
  <2> HIDE DEF Group
  <2>2. Len(g) = 8 /\ 8 # 0
    OBVIOUS
  <2> QED
    BY <2>1, <2>2, Zenon
<1> QED
  BY <1>1, <1>2, <1>3

\* An address has eight groups, never none.
LEMMA EightGroups ==
  ASSUME NEW text, IsIpv6(text)
  PROVE  /\ Groups(text) \in [1..8 -> Group] /\ Groups(text) # <<>>
         /\ \A k \in 1..Len(text.left) : Groups(text)[k] = text.left[k]
         /\ text.tail = <<>> =>
              /\ \A k \in 1..8 : Len(text.left) < k /\ k =< 8 - Len(text.right) => Groups(text)[k] = 0
              /\ \A k \in 1..Len(text.right) :
                   Groups(text)[8 - Len(text.right) + k] = text.right[k]
<1> DEFINE left    == text.left
           right   == text.right
           tail    == Hextets(text.tail)
           missing == 8 - Len(left) - Len(right) - Len(tail)
           zeros   == [k \in 1..missing |-> 0]
           g       == left \o zeros \o right \o tail
           L == Len(left)
           R == Len(right)
           T == Len(tail)
<1>1. /\ left \in Seq(Group) /\ right \in Seq(Group)
      /\ text.tail = <<>> \/ text.tail \in [1..4 -> Octet]
      /\ text.gap \in BOOLEAN
      /\ LET groups == L + R + (IF text.tail = <<>> THEN 0 ELSE 2)
         IN IF text.gap THEN groups =< 8 ELSE groups = 8
  BY DEF IsIpv6
<1>2. tail \in Seq(Group) /\ T = IF text.tail = <<>> THEN 0 ELSE 2
  BY <1>1, TailIsTwoGroups
<1>3. Groups(text) = IF missing < 0 \/ (~text.gap /\ missing # 0) THEN <<>> ELSE g
  BY DEF Groups
<1> HIDE DEF left, right, tail
<1>4. L \in Nat /\ R \in Nat /\ T \in Nat
  BY <1>1, <1>2
<1> HIDE DEF L, R, T
<1>5. missing = 8 - L - R - T
  BY DEF L, R, T
<1> HIDE DEF missing
<1>6. missing \in Nat /\ ~(missing < 0) /\ (text.gap \/ missing = 0)
  BY <1>1, <1>2, <1>4, <1>5
<1>7. Groups(text) = g
  BY <1>3, <1>6
<1>8. zeros \in Seq(Group) /\ Len(zeros) = missing /\ \A k \in 1..missing : zeros[k] = 0
  BY <1>6, ZerosAreGroups
<1>a. zeros \in Seq(Group)
  BY <1>8
<1> HIDE DEF zeros
<1>b. left \in Seq(Group) /\ right \in Seq(Group) /\ tail \in Seq(Group)
  BY <1>1, <1>2
<1>c. g = left \o zeros \o right \o tail
  OBVIOUS
<1> HIDE DEF g
<1>9. /\ g \in Seq(Group) /\ Len(g) = Len(left) + Len(zeros) + Len(right) + Len(tail)
      /\ \A k \in 1..Len(left) : g[k] = left[k]
      /\ \A k \in 1..Len(zeros) : g[Len(left) + k] = zeros[k]
      /\ \A k \in 1..Len(right) : g[Len(left) + Len(zeros) + k] = right[k]
  BY <1>b, <1>a, <1>c, Concatenations
<1>10. /\ g \in Seq(Group) /\ Len(g) = L + missing + R + T
       /\ \A k \in 1..L : g[k] = left[k]
       /\ \A k \in 1..missing : g[L + k] = 0
       /\ \A k \in 1..R : g[L + missing + k] = right[k]
  BY <1>8, <1>9 DEF L, R, T
<1>11. Len(g) = 8
  BY <1>4, <1>5, <1>10
<1>12. g \in [1..8 -> Group] /\ g # <<>>
  BY <1>10, <1>11, SequenceOfEight
<1>13. ASSUME text.tail = <<>>
       PROVE  L + missing = 8 - R
  BY <1>2, <1>4, <1>5, <1>13
<1>14. ASSUME text.tail = <<>>, NEW k \in 1..8, L < k, k =< 8 - R
       PROVE  g[k] = 0
  <2>1. k - L \in 1..missing /\ L + (k - L) = k
    BY <1>4, <1>6, <1>13, <1>14
  <2>2. g[L + (k - L)] = 0
    BY <1>10, <2>1
  <2> QED
    BY <2>1, <2>2
<1>15. ASSUME text.tail = <<>>, NEW k \in 1..R
       PROVE  g[8 - R + k] = right[k]
  BY <1>10, <1>13, <1>15
<1> QED
  BY <1>7, <1>10, <1>12, <1>14, <1>15 DEF left, right, L, R

\* What a prefix of n groups and m bits of the next says of a group.
LEMMA KeptOfGroups ==
  ASSUME NEW n \in 0..7, NEW m \in 1..16, NEW k \in 1..8
  PROVE  /\ k =< n => Kept(16 * n + m, 16, k) = 16
         /\ k = n + 1 => Kept(16 * n + m, 16, k) = m
         /\ k > n + 1 => Kept(16 * n + m, 16, k) = 0
<1> DEFINE rest == 16 * n + m - 16 * (k - 1)
<1>1. Kept(16 * n + m, 16, k) = IF rest < 0 THEN 0 ELSE IF rest > 16 THEN 16 ELSE rest
  BY DEF Kept
<1>2. k =< n => rest > 16
  OBVIOUS
<1>3. k = n + 1 => rest = m
  OBVIOUS
<1>4. k > n + 1 => rest =< 0
  OBVIOUS
<1>5. rest \in Int /\ m \in Int /\ 0 < m /\ m =< 16
  OBVIOUS
<1> HIDE DEF rest
<1> QED
  BY <1>1, <1>2, <1>3, <1>4, <1>5

\* A block of groups: its first n are equal, and the next agrees in m bits.
LEMMA CidrOfGroups ==
  ASSUME NEW g \in [1..8 -> Group], NEW base \in [1..8 -> Group],
         NEW n \in 0..7, NEW m \in 1..16, NEW prefix, prefix = 16 * n + m
  PROVE  InCidr(g, base, prefix, 16) <=>
           (\A k \in 1..n : g[k] = base[k]) /\ Agree(g[n + 1], base[n + 1], m, 16)
<1>1. InCidr(g, base, prefix, 16) <=>
        \A k \in 1..8 : Agree(g[k], base[k], Kept(prefix, 16, k), 16)
  BY Zenon DEF InCidr, Agree
<1>2. ASSUME NEW k \in 1..8
      PROVE  /\ k =< n => (Agree(g[k], base[k], Kept(prefix, 16, k), 16) <=> g[k] = base[k])
             /\ k = n + 1 => (Agree(g[k], base[k], Kept(prefix, 16, k), 16) <=>
                               Agree(g[n + 1], base[n + 1], m, 16))
             /\ k > n + 1 => Agree(g[k], base[k], Kept(prefix, 16, k), 16)
  <2>1. g[k] \in Group /\ base[k] \in Group
    OBVIOUS
  <2>2. (Agree(g[k], base[k], 16, 16) <=> g[k] = base[k]) /\ Agree(g[k], base[k], 0, 16)
    BY <2>1, WholeGroupsAgree
  <2> QED
    BY <2>2, KeptOfGroups
<1>3. n \in Int /\ 0 =< n /\ n =< 7
  OBVIOUS
<1>4. ASSUME \A k \in 1..8 : Agree(g[k], base[k], Kept(prefix, 16, k), 16)
      PROVE  (\A k \in 1..n : g[k] = base[k]) /\ Agree(g[n + 1], base[n + 1], m, 16)
  <2>1. ASSUME NEW k \in 1..n
        PROVE  g[k] = base[k]
    <3>1. k \in 1..8 /\ k =< n
      BY <1>3
    <3> QED
      BY <1>2, <1>4, <3>1
  <2>2. n + 1 \in 1..8
    BY <1>3
  <2> QED
    BY <1>2, <1>4, <2>1, <2>2
<1>5. ASSUME \A k \in 1..n : g[k] = base[k], Agree(g[n + 1], base[n + 1], m, 16), NEW k \in 1..8
      PROVE  Agree(g[k], base[k], Kept(prefix, 16, k), 16)
  <2>1. CASE k =< n
    <3>1. k \in 1..n
      BY <2>1, <1>3
    <3> QED
      BY <1>2, <1>5, <2>1, <3>1
  <2>2. CASE k = n + 1
    BY <1>2, <1>5, <2>2
  <2>3. CASE k > n + 1
    BY <1>2, <2>3
  <2> QED
    BY <2>1, <2>2, <2>3, <1>3
<1> QED
  BY <1>1, <1>4, <1>5

\* An address written with a "::" after l groups and before r.
IsBase(text, l, r) ==
  /\ text.left \in Seq(Group) /\ Len(text.left) = l
  /\ text.right \in Seq(Group) /\ Len(text.right) = r
  /\ text.gap = TRUE /\ text.tail = <<>>

LEMMA GroupsOfBase ==
  ASSUME NEW text, NEW l \in 0..8, NEW r \in 0..8, l + r =< 8, IsBase(text, l, r)
  PROVE  /\ Groups(text) \in [1..8 -> Group]
         /\ \A k \in 1..l : Groups(text)[k] = text.left[k]
         /\ \A k \in 1..8 : l < k /\ k =< 8 - r => Groups(text)[k] = 0
         /\ \A k \in 1..r : Groups(text)[8 - r + k] = text.right[k]
<1>1. l + r + 0 =< 8
  OBVIOUS
<1>2. IsIpv6(text)
  BY <1>1 DEF IsBase, IsIpv6
<1> QED
  BY <1>2, EightGroups DEF IsBase

\* No group before the "::" and none after it.
LEMMA BaseOfNone ==
  ASSUME NEW text, IsBase(text, 0, 0)
  PROVE  LET base == Groups(text)
         IN base \in [1..8 -> Group] /\ \A k \in 1..8 : base[k] = 0
<1> DEFINE base == Groups(text)
<1>1. /\ base \in [1..8 -> Group]
      /\ \A k \in 1..0 : base[k] = text.left[k]
      /\ \A k \in 1..8 : 0 < k /\ k =< 8 - 0 => base[k] = 0
      /\ \A k \in 1..0 : base[8 - 0 + k] = text.right[k]
  <2>1. 0 \in 0..8 /\ 0 \in 0..8 /\ 0 + 0 =< 8
    OBVIOUS
  <2> QED
    BY <2>1, GroupsOfBase
<1> HIDE DEF base
<1>3. base \in [1..8 -> Group] /\ \A k \in 1..8 : base[k] = 0
  BY <1>1
<1> QED
  BY <1>3 DEF base

\* One group after the "::".
LEMMA BaseOfLast ==
  ASSUME NEW text, IsBase(text, 0, 1)
  PROVE  LET base == Groups(text)
         IN base \in [1..8 -> Group] /\ base[8] = text.right[1] /\ \A k \in 1..7 : base[k] = 0
<1> DEFINE base == Groups(text)
<1>1. /\ base \in [1..8 -> Group]
      /\ \A k \in 1..0 : base[k] = text.left[k]
      /\ \A k \in 1..8 : 0 < k /\ k =< 8 - 1 => base[k] = 0
      /\ \A k \in 1..1 : base[8 - 1 + k] = text.right[k]
  <2>1. 0 \in 0..8 /\ 1 \in 0..8 /\ 0 + 1 =< 8
    OBVIOUS
  <2> QED
    BY <2>1, GroupsOfBase
<1> HIDE DEF base
<1>2. base[8] = text.right[1]
  <2>1. base[8 - 1 + 1] = text.right[1]
    BY <1>1
  <2> QED
    BY <2>1
<1>3. base \in [1..8 -> Group] /\ base[8] = text.right[1] /\ \A k \in 1..7 : base[k] = 0
  BY <1>1, <1>2
<1> QED
  BY <1>3 DEF base

\* Three groups after the "::".
LEMMA BaseOfMapped ==
  ASSUME NEW text, IsBase(text, 0, 3)
  PROVE  LET base == Groups(text)
         IN base \in [1..8 -> Group] /\ base[6] = text.right[1] /\ \A k \in 1..5 : base[k] = 0
<1> DEFINE base == Groups(text)
<1>1. /\ base \in [1..8 -> Group]
      /\ \A k \in 1..0 : base[k] = text.left[k]
      /\ \A k \in 1..8 : 0 < k /\ k =< 8 - 3 => base[k] = 0
      /\ \A k \in 1..3 : base[8 - 3 + k] = text.right[k]
  <2>1. 0 \in 0..8 /\ 3 \in 0..8 /\ 0 + 3 =< 8
    OBVIOUS
  <2> QED
    BY <2>1, GroupsOfBase
<1> HIDE DEF base
<1>2. base[6] = text.right[1]
  <2>1. base[8 - 3 + 1] = text.right[1]
    BY <1>1
  <2> QED
    BY <2>1
<1>3. base \in [1..8 -> Group] /\ base[6] = text.right[1] /\ \A k \in 1..5 : base[k] = 0
  BY <1>1, <1>2
<1> QED
  BY <1>3 DEF base

\* One group before the "::".
LEMMA BaseOfOne ==
  ASSUME NEW text, IsBase(text, 1, 0)
  PROVE  LET base == Groups(text)
         IN base \in [1..8 -> Group] /\ base[1] = text.left[1] /\ \A k \in 2..8 : base[k] = 0
<1> DEFINE base == Groups(text)
<1>1. /\ base \in [1..8 -> Group]
      /\ \A k \in 1..1 : base[k] = text.left[k]
      /\ \A k \in 1..8 : 1 < k /\ k =< 8 - 0 => base[k] = 0
      /\ \A k \in 1..0 : base[8 - 0 + k] = text.right[k]
  <2>1. 1 \in 0..8 /\ 0 \in 0..8 /\ 1 + 0 =< 8
    OBVIOUS
  <2> QED
    BY <2>1, GroupsOfBase
<1> HIDE DEF base
<1>3. base \in [1..8 -> Group] /\ base[1] = text.left[1] /\ \A k \in 2..8 : base[k] = 0
  BY <1>1
<1> QED
  BY <1>3 DEF base

\* Two groups before it.
LEMMA BaseOfTwo ==
  ASSUME NEW text, IsBase(text, 2, 0)
  PROVE  LET base == Groups(text)
         IN base \in [1..8 -> Group] /\ base[1] = text.left[1] /\ base[2] = text.left[2] /\ \A k \in 3..8 : base[k] = 0
<1> DEFINE base == Groups(text)
<1>1. /\ base \in [1..8 -> Group]
      /\ \A k \in 1..2 : base[k] = text.left[k]
      /\ \A k \in 1..8 : 2 < k /\ k =< 8 - 0 => base[k] = 0
      /\ \A k \in 1..0 : base[8 - 0 + k] = text.right[k]
  <2>1. 2 \in 0..8 /\ 0 \in 0..8 /\ 2 + 0 =< 8
    OBVIOUS
  <2> QED
    BY <2>1, GroupsOfBase
<1> HIDE DEF base
<1>3. base \in [1..8 -> Group] /\ base[1] = text.left[1] /\ base[2] = text.left[2] /\ \A k \in 3..8 : base[k] = 0
  BY <1>1
<1> QED
  BY <1>3 DEF base

\* Three groups before it.
LEMMA BaseOfThree ==
  ASSUME NEW text, IsBase(text, 3, 0)
  PROVE  LET base == Groups(text)
         IN base \in [1..8 -> Group] /\ base[1] = text.left[1] /\ base[2] = text.left[2] /\ base[3] = text.left[3] /\ \A k \in 4..8 : base[k] = 0
<1> DEFINE base == Groups(text)
<1>1. /\ base \in [1..8 -> Group]
      /\ \A k \in 1..3 : base[k] = text.left[k]
      /\ \A k \in 1..8 : 3 < k /\ k =< 8 - 0 => base[k] = 0
      /\ \A k \in 1..0 : base[8 - 0 + k] = text.right[k]
  <2>1. 3 \in 0..8 /\ 0 \in 0..8 /\ 3 + 0 =< 8
    OBVIOUS
  <2> QED
    BY <2>1, GroupsOfBase
<1> HIDE DEF base
<1>3. base \in [1..8 -> Group] /\ base[1] = text.left[1] /\ base[2] = text.left[2] /\ base[3] = text.left[3] /\ \A k \in 4..8 : base[k] = 0
  BY <1>1
<1> QED
  BY <1>3 DEF base

\* ::/128
LEMMA InTheUnspecified ==
  ASSUME NEW g \in [1..8 -> Group]
  PROVE  InCidr(g, Groups(Unspecified), 128, 16) <=>
           \A k \in 1..8 : g[k] = 0
<1>1. Unspecified.left = <<>> /\ Unspecified.right = <<>>
      /\ Unspecified.gap = TRUE /\ Unspecified.tail = <<>>
  BY SMT DEF V6, Unspecified
<1>2. IsBase(Unspecified, 0, 0)
  <2>1. <<>> \in Seq(Group) /\ Len(<<>>) = 0
    BY SMT DEF Group
  <2>2. <<>> \in Seq(Group) /\ Len(<<>>) = 0
    BY SMT DEF Group
  <2> QED
    BY <1>1, <2>1, <2>2, SMT DEF IsBase
<1> DEFINE base == Groups(Unspecified)
<1>4. base \in [1..8 -> Group] /\ \A k \in 1..8 : base[k] = 0
  BY <1>2, BaseOfNone, SMT
<1> HIDE DEF base
<1>5. InCidr(g, base, 128, 16) <=>
        (\A k \in 1..7 : g[k] = base[k]) /\ Agree(g[7 + 1], base[7 + 1], 16, 16)
  <2>1. 7 \in 0..7 /\ 16 \in 1..16 /\ 128 = 16 * 7 + 16
    BY SMT
  <2> QED
    BY <1>4, <2>1, CidrOfGroups, SMT
<1>6. 7 + 1 = 8 /\ g[8] \in Group /\ base[8] \in Group
  BY <1>4, SMT
<1>7. Agree(g[7 + 1], base[7 + 1], 16, 16) <=> g[8] = base[8]
  BY <1>6, WholeGroupsAgree, SMT
<1>8. InCidr(g, base, 128, 16) <=>
        \A k \in 1..8 : g[k] = 0
  BY <1>4, <1>5, <1>7, SMT
<1> QED
  BY <1>8, SMT DEF base

\* ::1/128
LEMMA InTheLoopback ==
  ASSUME NEW g \in [1..8 -> Group]
  PROVE  InCidr(g, Groups(Loopback), 128, 16) <=>
           (\A k \in 1..7 : g[k] = 0) /\ g[8] = 1
<1>1. Loopback.left = <<>> /\ Loopback.right = <<1>>
      /\ Loopback.gap = TRUE /\ Loopback.tail = <<>>
  BY SMT DEF V6, Loopback
<1>2. IsBase(Loopback, 0, 1)
  <2>1. <<>> \in Seq(Group) /\ Len(<<>>) = 0
    BY SMT DEF Group
  <2>2. <<1>> \in Seq(Group) /\ Len(<<1>>) = 1
    BY SMT DEF Group
  <2> QED
    BY <1>1, <2>1, <2>2, SMT DEF IsBase
<1>3. Loopback.right[1] = 1
  <2>1. <<1>>[1] = 1
    BY SMT
  <2> QED
    BY <1>1, <2>1, SMT
<1> DEFINE base == Groups(Loopback)
<1>4. base \in [1..8 -> Group] /\ base[8] = 1 /\ \A k \in 1..7 : base[k] = 0
  BY <1>2, <1>3, BaseOfLast, SMT
<1> HIDE DEF base
<1>5. InCidr(g, base, 128, 16) <=>
        (\A k \in 1..7 : g[k] = base[k]) /\ Agree(g[7 + 1], base[7 + 1], 16, 16)
  <2>1. 7 \in 0..7 /\ 16 \in 1..16 /\ 128 = 16 * 7 + 16
    BY SMT
  <2> QED
    BY <1>4, <2>1, CidrOfGroups, SMT
<1>6. 7 + 1 = 8 /\ g[8] \in Group /\ base[8] \in Group
  BY <1>4, SMT
<1>7. Agree(g[7 + 1], base[7 + 1], 16, 16) <=> g[8] = base[8]
  BY <1>6, WholeGroupsAgree, SMT
<1>8. InCidr(g, base, 128, 16) <=>
        (\A k \in 1..7 : g[k] = 0) /\ g[8] = 1
  BY <1>4, <1>5, <1>7, SMT
<1> QED
  BY <1>8, SMT DEF base

\* 64:ff9b:1::/48
LEMMA InTheLocalNat64 ==
  ASSUME NEW g \in [1..8 -> Group]
  PROVE  InCidr(g, Groups(LocalNat64), 48, 16) <=>
           g[1] = 100 /\ g[2] = 65435 /\ g[3] = 1
<1>1. LocalNat64.left = <<100, 65435, 1>> /\ LocalNat64.right = <<>>
      /\ LocalNat64.gap = TRUE /\ LocalNat64.tail = <<>>
  BY SMT DEF V6, LocalNat64
<1>2. IsBase(LocalNat64, 3, 0)
  <2>1. <<100, 65435, 1>> \in Seq(Group) /\ Len(<<100, 65435, 1>>) = 3
    BY SMT DEF Group
  <2>2. <<>> \in Seq(Group) /\ Len(<<>>) = 0
    BY SMT DEF Group
  <2> QED
    BY <1>1, <2>1, <2>2, SMT DEF IsBase
<1>3. LocalNat64.left[1] = 100 /\ LocalNat64.left[2] = 65435 /\ LocalNat64.left[3] = 1
  <2>1. <<100, 65435, 1>>[1] = 100 /\ <<100, 65435, 1>>[2] = 65435 /\ <<100, 65435, 1>>[3] = 1
    BY SMT
  <2> QED
    BY <1>1, <2>1, SMT
<1> DEFINE base == Groups(LocalNat64)
<1>4. base \in [1..8 -> Group] /\ base[1] = 100 /\ base[2] = 65435 /\ base[3] = 1 /\ \A k \in 4..8 : base[k] = 0
  BY <1>2, <1>3, BaseOfThree, SMT
<1> HIDE DEF base
<1>5. InCidr(g, base, 48, 16) <=>
        (\A k \in 1..2 : g[k] = base[k]) /\ Agree(g[2 + 1], base[2 + 1], 16, 16)
  <2>1. 2 \in 0..7 /\ 16 \in 1..16 /\ 48 = 16 * 2 + 16
    BY SMT
  <2> QED
    BY <1>4, <2>1, CidrOfGroups, SMT
<1>6. 2 + 1 = 3 /\ g[3] \in Group /\ base[3] \in Group
  BY <1>4, SMT
<1>7. Agree(g[2 + 1], base[2 + 1], 16, 16) <=> g[3] = base[3]
  BY <1>6, WholeGroupsAgree, SMT
<1>8. InCidr(g, base, 48, 16) <=>
        g[1] = 100 /\ g[2] = 65435 /\ g[3] = 1
  BY <1>4, <1>5, <1>7, SMT
<1> QED
  BY <1>8, SMT DEF base

\* 100::/64
LEMMA InTheDiscardOnly ==
  ASSUME NEW g \in [1..8 -> Group]
  PROVE  InCidr(g, Groups(DiscardOnly), 64, 16) <=>
           g[1] = 256 /\ g[2] = 0 /\ g[3] = 0 /\ g[4] = 0
<1>1. DiscardOnly.left = <<256>> /\ DiscardOnly.right = <<>>
      /\ DiscardOnly.gap = TRUE /\ DiscardOnly.tail = <<>>
  BY SMT DEF V6, DiscardOnly
<1>2. IsBase(DiscardOnly, 1, 0)
  <2>1. <<256>> \in Seq(Group) /\ Len(<<256>>) = 1
    BY SMT DEF Group
  <2>2. <<>> \in Seq(Group) /\ Len(<<>>) = 0
    BY SMT DEF Group
  <2> QED
    BY <1>1, <2>1, <2>2, SMT DEF IsBase
<1>3. DiscardOnly.left[1] = 256
  <2>1. <<256>>[1] = 256
    BY SMT
  <2> QED
    BY <1>1, <2>1, SMT
<1> DEFINE base == Groups(DiscardOnly)
<1>4. base \in [1..8 -> Group] /\ base[1] = 256 /\ \A k \in 2..8 : base[k] = 0
  BY <1>2, <1>3, BaseOfOne, SMT
<1> HIDE DEF base
<1>5. InCidr(g, base, 64, 16) <=>
        (\A k \in 1..3 : g[k] = base[k]) /\ Agree(g[3 + 1], base[3 + 1], 16, 16)
  <2>1. 3 \in 0..7 /\ 16 \in 1..16 /\ 64 = 16 * 3 + 16
    BY SMT
  <2> QED
    BY <1>4, <2>1, CidrOfGroups, SMT
<1>6. 3 + 1 = 4 /\ g[4] \in Group /\ base[4] \in Group
  BY <1>4, SMT
<1>7. Agree(g[3 + 1], base[3 + 1], 16, 16) <=> g[4] = base[4]
  BY <1>6, WholeGroupsAgree, SMT
<1>8. InCidr(g, base, 64, 16) <=>
        g[1] = 256 /\ g[2] = 0 /\ g[3] = 0 /\ g[4] = 0
  BY <1>4, <1>5, <1>7, SMT
<1> QED
  BY <1>8, SMT DEF base

\* 2001::/23
LEMMA InTheIetfProtocols ==
  ASSUME NEW g \in [1..8 -> Group]
  PROVE  InCidr(g, Groups(IetfProtocols), 23, 16) <=>
           g[1] = 8193 /\ g[2] \in 0..511
<1>1. IetfProtocols.left = <<8193>> /\ IetfProtocols.right = <<>>
      /\ IetfProtocols.gap = TRUE /\ IetfProtocols.tail = <<>>
  BY SMT DEF V6, IetfProtocols
<1>2. IsBase(IetfProtocols, 1, 0)
  <2>1. <<8193>> \in Seq(Group) /\ Len(<<8193>>) = 1
    BY SMT DEF Group
  <2>2. <<>> \in Seq(Group) /\ Len(<<>>) = 0
    BY SMT DEF Group
  <2> QED
    BY <1>1, <2>1, <2>2, SMT DEF IsBase
<1>3. IetfProtocols.left[1] = 8193
  <2>1. <<8193>>[1] = 8193
    BY SMT
  <2> QED
    BY <1>1, <2>1, SMT
<1> DEFINE base == Groups(IetfProtocols)
<1>4. base \in [1..8 -> Group] /\ base[1] = 8193 /\ \A k \in 2..8 : base[k] = 0
  BY <1>2, <1>3, BaseOfOne, SMT
<1> HIDE DEF base
<1>5. InCidr(g, base, 23, 16) <=>
        (\A k \in 1..1 : g[k] = base[k]) /\ Agree(g[1 + 1], base[1 + 1], 7, 16)
  <2>1. 1 \in 0..7 /\ 7 \in 1..16 /\ 23 = 16 * 1 + 7
    BY SMT
  <2> QED
    BY <1>4, <2>1, CidrOfGroups, SMT
<1>6. 1 + 1 = 2 /\ g[2] \in Group /\ base[2] \in Group
  BY <1>4, SMT
<1>7. Agree(g[1 + 1], base[1 + 1], 7, 16) <=> g[2] \in 0..511
  BY <1>4, <1>6, Groups0To511, SMT
<1>8. InCidr(g, base, 23, 16) <=>
        g[1] = 8193 /\ g[2] \in 0..511
  BY <1>4, <1>5, <1>7, SMT
<1> QED
  BY <1>8, SMT DEF base

\* 2001:db8::/32
LEMMA InTheDocumentation ==
  ASSUME NEW g \in [1..8 -> Group]
  PROVE  InCidr(g, Groups(Documentation), 32, 16) <=>
           g[1] = 8193 /\ g[2] = 3512
<1>1. Documentation.left = <<8193, 3512>> /\ Documentation.right = <<>>
      /\ Documentation.gap = TRUE /\ Documentation.tail = <<>>
  BY SMT DEF V6, Documentation
<1>2. IsBase(Documentation, 2, 0)
  <2>1. <<8193, 3512>> \in Seq(Group) /\ Len(<<8193, 3512>>) = 2
    BY SMT DEF Group
  <2>2. <<>> \in Seq(Group) /\ Len(<<>>) = 0
    BY SMT DEF Group
  <2> QED
    BY <1>1, <2>1, <2>2, SMT DEF IsBase
<1>3. Documentation.left[1] = 8193 /\ Documentation.left[2] = 3512
  <2>1. <<8193, 3512>>[1] = 8193 /\ <<8193, 3512>>[2] = 3512
    BY SMT
  <2> QED
    BY <1>1, <2>1, SMT
<1> DEFINE base == Groups(Documentation)
<1>4. base \in [1..8 -> Group] /\ base[1] = 8193 /\ base[2] = 3512 /\ \A k \in 3..8 : base[k] = 0
  BY <1>2, <1>3, BaseOfTwo, SMT
<1> HIDE DEF base
<1>5. InCidr(g, base, 32, 16) <=>
        (\A k \in 1..1 : g[k] = base[k]) /\ Agree(g[1 + 1], base[1 + 1], 16, 16)
  <2>1. 1 \in 0..7 /\ 16 \in 1..16 /\ 32 = 16 * 1 + 16
    BY SMT
  <2> QED
    BY <1>4, <2>1, CidrOfGroups, SMT
<1>6. 1 + 1 = 2 /\ g[2] \in Group /\ base[2] \in Group
  BY <1>4, SMT
<1>7. Agree(g[1 + 1], base[1 + 1], 16, 16) <=> g[2] = base[2]
  BY <1>6, WholeGroupsAgree, SMT
<1>8. InCidr(g, base, 32, 16) <=>
        g[1] = 8193 /\ g[2] = 3512
  BY <1>4, <1>5, <1>7, SMT
<1> QED
  BY <1>8, SMT DEF base

\* 2002::/16
LEMMA InTheSixToFour ==
  ASSUME NEW g \in [1..8 -> Group]
  PROVE  InCidr(g, Groups(SixToFour), 16, 16) <=>
           g[1] = 8194
<1>1. SixToFour.left = <<8194>> /\ SixToFour.right = <<>>
      /\ SixToFour.gap = TRUE /\ SixToFour.tail = <<>>
  BY SMT DEF V6, SixToFour
<1>2. IsBase(SixToFour, 1, 0)
  <2>1. <<8194>> \in Seq(Group) /\ Len(<<8194>>) = 1
    BY SMT DEF Group
  <2>2. <<>> \in Seq(Group) /\ Len(<<>>) = 0
    BY SMT DEF Group
  <2> QED
    BY <1>1, <2>1, <2>2, SMT DEF IsBase
<1>3. SixToFour.left[1] = 8194
  <2>1. <<8194>>[1] = 8194
    BY SMT
  <2> QED
    BY <1>1, <2>1, SMT
<1> DEFINE base == Groups(SixToFour)
<1>4. base \in [1..8 -> Group] /\ base[1] = 8194 /\ \A k \in 2..8 : base[k] = 0
  BY <1>2, <1>3, BaseOfOne, SMT
<1> HIDE DEF base
<1>5. InCidr(g, base, 16, 16) <=>
        (\A k \in 1..0 : g[k] = base[k]) /\ Agree(g[0 + 1], base[0 + 1], 16, 16)
  <2>1. 0 \in 0..7 /\ 16 \in 1..16 /\ 16 = 16 * 0 + 16
    BY SMT
  <2> QED
    BY <1>4, <2>1, CidrOfGroups, SMT
<1>6. 0 + 1 = 1 /\ g[1] \in Group /\ base[1] \in Group
  BY <1>4, SMT
<1>7. Agree(g[0 + 1], base[0 + 1], 16, 16) <=> g[1] = base[1]
  BY <1>6, WholeGroupsAgree, SMT
<1>8. InCidr(g, base, 16, 16) <=>
        g[1] = 8194
  BY <1>4, <1>5, <1>7, SMT
<1> QED
  BY <1>8, SMT DEF base

\* fc00::/7
LEMMA InTheUniqueLocal ==
  ASSUME NEW g \in [1..8 -> Group]
  PROVE  InCidr(g, Groups(UniqueLocal), 7, 16) <=>
           g[1] \in 64512..65023
<1>1. UniqueLocal.left = <<64512>> /\ UniqueLocal.right = <<>>
      /\ UniqueLocal.gap = TRUE /\ UniqueLocal.tail = <<>>
  BY SMT DEF V6, UniqueLocal
<1>2. IsBase(UniqueLocal, 1, 0)
  <2>1. <<64512>> \in Seq(Group) /\ Len(<<64512>>) = 1
    BY SMT DEF Group
  <2>2. <<>> \in Seq(Group) /\ Len(<<>>) = 0
    BY SMT DEF Group
  <2> QED
    BY <1>1, <2>1, <2>2, SMT DEF IsBase
<1>3. UniqueLocal.left[1] = 64512
  <2>1. <<64512>>[1] = 64512
    BY SMT
  <2> QED
    BY <1>1, <2>1, SMT
<1> DEFINE base == Groups(UniqueLocal)
<1>4. base \in [1..8 -> Group] /\ base[1] = 64512 /\ \A k \in 2..8 : base[k] = 0
  BY <1>2, <1>3, BaseOfOne, SMT
<1> HIDE DEF base
<1>5. InCidr(g, base, 7, 16) <=>
        (\A k \in 1..0 : g[k] = base[k]) /\ Agree(g[0 + 1], base[0 + 1], 7, 16)
  <2>1. 0 \in 0..7 /\ 7 \in 1..16 /\ 7 = 16 * 0 + 7
    BY SMT
  <2> QED
    BY <1>4, <2>1, CidrOfGroups, SMT
<1>6. 0 + 1 = 1 /\ g[1] \in Group /\ base[1] \in Group
  BY <1>4, SMT
<1>7. Agree(g[0 + 1], base[0 + 1], 7, 16) <=> g[1] \in 64512..65023
  BY <1>4, <1>6, Groups64512To65023, SMT
<1>8. InCidr(g, base, 7, 16) <=>
        g[1] \in 64512..65023
  BY <1>4, <1>5, <1>7, SMT
<1> QED
  BY <1>8, SMT DEF base

\* fe80::/10
LEMMA InTheLinkLocal ==
  ASSUME NEW g \in [1..8 -> Group]
  PROVE  InCidr(g, Groups(LinkLocal), 10, 16) <=>
           g[1] \in 65152..65215
<1>1. LinkLocal.left = <<65152>> /\ LinkLocal.right = <<>>
      /\ LinkLocal.gap = TRUE /\ LinkLocal.tail = <<>>
  BY SMT DEF V6, LinkLocal
<1>2. IsBase(LinkLocal, 1, 0)
  <2>1. <<65152>> \in Seq(Group) /\ Len(<<65152>>) = 1
    BY SMT DEF Group
  <2>2. <<>> \in Seq(Group) /\ Len(<<>>) = 0
    BY SMT DEF Group
  <2> QED
    BY <1>1, <2>1, <2>2, SMT DEF IsBase
<1>3. LinkLocal.left[1] = 65152
  <2>1. <<65152>>[1] = 65152
    BY SMT
  <2> QED
    BY <1>1, <2>1, SMT
<1> DEFINE base == Groups(LinkLocal)
<1>4. base \in [1..8 -> Group] /\ base[1] = 65152 /\ \A k \in 2..8 : base[k] = 0
  BY <1>2, <1>3, BaseOfOne, SMT
<1> HIDE DEF base
<1>5. InCidr(g, base, 10, 16) <=>
        (\A k \in 1..0 : g[k] = base[k]) /\ Agree(g[0 + 1], base[0 + 1], 10, 16)
  <2>1. 0 \in 0..7 /\ 10 \in 1..16 /\ 10 = 16 * 0 + 10
    BY SMT
  <2> QED
    BY <1>4, <2>1, CidrOfGroups, SMT
<1>6. 0 + 1 = 1 /\ g[1] \in Group /\ base[1] \in Group
  BY <1>4, SMT
<1>7. Agree(g[0 + 1], base[0 + 1], 10, 16) <=> g[1] \in 65152..65215
  BY <1>4, <1>6, Groups65152To65215, SMT
<1>8. InCidr(g, base, 10, 16) <=>
        g[1] \in 65152..65215
  BY <1>4, <1>5, <1>7, SMT
<1> QED
  BY <1>8, SMT DEF base

\* fec0::/10
LEMMA InTheSiteLocal ==
  ASSUME NEW g \in [1..8 -> Group]
  PROVE  InCidr(g, Groups(SiteLocal), 10, 16) <=>
           g[1] \in 65216..65279
<1>1. SiteLocal.left = <<65216>> /\ SiteLocal.right = <<>>
      /\ SiteLocal.gap = TRUE /\ SiteLocal.tail = <<>>
  BY SMT DEF V6, SiteLocal
<1>2. IsBase(SiteLocal, 1, 0)
  <2>1. <<65216>> \in Seq(Group) /\ Len(<<65216>>) = 1
    BY SMT DEF Group
  <2>2. <<>> \in Seq(Group) /\ Len(<<>>) = 0
    BY SMT DEF Group
  <2> QED
    BY <1>1, <2>1, <2>2, SMT DEF IsBase
<1>3. SiteLocal.left[1] = 65216
  <2>1. <<65216>>[1] = 65216
    BY SMT
  <2> QED
    BY <1>1, <2>1, SMT
<1> DEFINE base == Groups(SiteLocal)
<1>4. base \in [1..8 -> Group] /\ base[1] = 65216 /\ \A k \in 2..8 : base[k] = 0
  BY <1>2, <1>3, BaseOfOne, SMT
<1> HIDE DEF base
<1>5. InCidr(g, base, 10, 16) <=>
        (\A k \in 1..0 : g[k] = base[k]) /\ Agree(g[0 + 1], base[0 + 1], 10, 16)
  <2>1. 0 \in 0..7 /\ 10 \in 1..16 /\ 10 = 16 * 0 + 10
    BY SMT
  <2> QED
    BY <1>4, <2>1, CidrOfGroups, SMT
<1>6. 0 + 1 = 1 /\ g[1] \in Group /\ base[1] \in Group
  BY <1>4, SMT
<1>7. Agree(g[0 + 1], base[0 + 1], 10, 16) <=> g[1] \in 65216..65279
  BY <1>4, <1>6, Groups65216To65279, SMT
<1>8. InCidr(g, base, 10, 16) <=>
        g[1] \in 65216..65279
  BY <1>4, <1>5, <1>7, SMT
<1> QED
  BY <1>8, SMT DEF base

\* ff00::/8
LEMMA InTheMulticast ==
  ASSUME NEW g \in [1..8 -> Group]
  PROVE  InCidr(g, Groups(Multicast), 8, 16) <=>
           g[1] \in 65280..65535
<1>1. Multicast.left = <<65280>> /\ Multicast.right = <<>>
      /\ Multicast.gap = TRUE /\ Multicast.tail = <<>>
  BY SMT DEF V6, Multicast
<1>2. IsBase(Multicast, 1, 0)
  <2>1. <<65280>> \in Seq(Group) /\ Len(<<65280>>) = 1
    BY SMT DEF Group
  <2>2. <<>> \in Seq(Group) /\ Len(<<>>) = 0
    BY SMT DEF Group
  <2> QED
    BY <1>1, <2>1, <2>2, SMT DEF IsBase
<1>3. Multicast.left[1] = 65280
  <2>1. <<65280>>[1] = 65280
    BY SMT
  <2> QED
    BY <1>1, <2>1, SMT
<1> DEFINE base == Groups(Multicast)
<1>4. base \in [1..8 -> Group] /\ base[1] = 65280 /\ \A k \in 2..8 : base[k] = 0
  BY <1>2, <1>3, BaseOfOne, SMT
<1> HIDE DEF base
<1>5. InCidr(g, base, 8, 16) <=>
        (\A k \in 1..0 : g[k] = base[k]) /\ Agree(g[0 + 1], base[0 + 1], 8, 16)
  <2>1. 0 \in 0..7 /\ 8 \in 1..16 /\ 8 = 16 * 0 + 8
    BY SMT
  <2> QED
    BY <1>4, <2>1, CidrOfGroups, SMT
<1>6. 0 + 1 = 1 /\ g[1] \in Group /\ base[1] \in Group
  BY <1>4, SMT
<1>7. Agree(g[0 + 1], base[0 + 1], 8, 16) <=> g[1] \in 65280..65535
  BY <1>4, <1>6, Groups65280To65535, SMT
<1>8. InCidr(g, base, 8, 16) <=>
        g[1] \in 65280..65535
  BY <1>4, <1>5, <1>7, SMT
<1> QED
  BY <1>8, SMT DEF base

\* ::ffff:0:0/96
LEMMA InTheMappedPrefix ==
  ASSUME NEW g \in [1..8 -> Group]
  PROVE  InCidr(g, Groups(MappedPrefix), 96, 16) <=>
           (\A k \in 1..5 : g[k] = 0) /\ g[6] = 65535
<1>1. MappedPrefix.left = <<>> /\ MappedPrefix.right = <<65535, 0, 0>>
      /\ MappedPrefix.gap = TRUE /\ MappedPrefix.tail = <<>>
  BY SMT DEF V6, MappedPrefix
<1>2. IsBase(MappedPrefix, 0, 3)
  <2>1. <<>> \in Seq(Group) /\ Len(<<>>) = 0
    BY SMT DEF Group
  <2>2. <<65535, 0, 0>> \in Seq(Group) /\ Len(<<65535, 0, 0>>) = 3
    BY SMT DEF Group
  <2> QED
    BY <1>1, <2>1, <2>2, SMT DEF IsBase
<1>3. MappedPrefix.right[1] = 65535
  <2>1. <<65535, 0, 0>>[1] = 65535
    BY SMT
  <2> QED
    BY <1>1, <2>1, SMT
<1> DEFINE base == Groups(MappedPrefix)
<1>4. base \in [1..8 -> Group] /\ base[6] = 65535 /\ \A k \in 1..5 : base[k] = 0
  BY <1>2, <1>3, BaseOfMapped, SMT
<1> HIDE DEF base
<1>5. InCidr(g, base, 96, 16) <=>
        (\A k \in 1..5 : g[k] = base[k]) /\ Agree(g[5 + 1], base[5 + 1], 16, 16)
  <2>1. 5 \in 0..7 /\ 16 \in 1..16 /\ 96 = 16 * 5 + 16
    BY SMT
  <2> QED
    BY <1>4, <2>1, CidrOfGroups, SMT
<1>6. 5 + 1 = 6 /\ g[6] \in Group /\ base[6] \in Group
  BY <1>4, SMT
<1>7. Agree(g[5 + 1], base[5 + 1], 16, 16) <=> g[6] = base[6]
  BY <1>6, WholeGroupsAgree, SMT
<1>8. InCidr(g, base, 96, 16) <=>
        (\A k \in 1..5 : g[k] = 0) /\ g[6] = 65535
  BY <1>4, <1>5, <1>7, SMT
<1> QED
  BY <1>8, SMT DEF base

LEMMA TableOfIpv6 ==
  ASSUME NEW g
  PROVE  BlockedIpv6(g) <=>
           IF InCidr(g, Groups(MappedPrefix), 96, 16)
           THEN BlockedIpv4(Octets(g[7], g[8]))
           ELSE \/ InCidr(g, Groups(Unspecified), 128, 16)
                \/ InCidr(g, Groups(Loopback), 128, 16)
                \/ InCidr(g, Groups(LocalNat64), 48, 16)
                \/ InCidr(g, Groups(DiscardOnly), 64, 16)
                \/ InCidr(g, Groups(IetfProtocols), 23, 16)
                \/ InCidr(g, Groups(Documentation), 32, 16)
                \/ InCidr(g, Groups(SixToFour), 16, 16)
                \/ InCidr(g, Groups(UniqueLocal), 7, 16)
                \/ InCidr(g, Groups(LinkLocal), 10, 16)
                \/ InCidr(g, Groups(SiteLocal), 10, 16)
                \/ InCidr(g, Groups(Multicast), 8, 16)
BY DEF BlockedIpv6, blockedIpv6Cidrs

\* The octets that a mapped address holds.
LEMMA OctetsOfGroups ==
  ASSUME NEW high \in Group, NEW low \in Group
  PROVE  Octets(high, low) \in [1..4 -> Octet]
<1>1. /\ high \div 256 \in Octet /\ high % 256 \in Octet
      /\ low \div 256 \in Octet /\ low % 256 \in Octet
  BY SMT DEF Group, Octet
<1> DEFINE a == high \div 256
           b == high % 256
           c == low \div 256
           d == low % 256
<1>2. Octets(high, low) = <<a, b, c, d>>
  BY DEF Octets
<1> HIDE DEF a, b, c, d
<1>3. a \in Octet /\ b \in Octet /\ c \in Octet /\ d \in Octet
  BY <1>1 DEF a, b, c, d
<1> QED
  BY <1>2, <1>3

\* The table of IPv6, and the addresses that hold one of IPv4.
LEMMA Ipv6Ranges ==
  ASSUME NEW g \in [1..8 -> Group]
  PROVE  BlockedIpv6(g) <=>
           IF Mapped(g) THEN ReservedIpv4(Octets(g[7], g[8])) ELSE ReservedIpv6(g)
<1>1. InCidr(g, Groups(MappedPrefix), 96, 16) <=> Mapped(g)
  BY InTheMappedPrefix DEF Mapped
<1>2. BlockedIpv4(Octets(g[7], g[8])) <=> ReservedIpv4(Octets(g[7], g[8]))
  <2>1. g[7] \in Group /\ g[8] \in Group
    OBVIOUS
  <2> QED
    BY <2>1, OctetsOfGroups, Ipv4Ranges
<1> DEFINE Table ==
             \/ InCidr(g, Groups(Unspecified), 128, 16)
             \/ InCidr(g, Groups(Loopback), 128, 16)
             \/ InCidr(g, Groups(LocalNat64), 48, 16)
             \/ InCidr(g, Groups(DiscardOnly), 64, 16)
             \/ InCidr(g, Groups(IetfProtocols), 23, 16)
             \/ InCidr(g, Groups(Documentation), 32, 16)
             \/ InCidr(g, Groups(SixToFour), 16, 16)
             \/ InCidr(g, Groups(UniqueLocal), 7, 16)
             \/ InCidr(g, Groups(LinkLocal), 10, 16)
             \/ InCidr(g, Groups(SiteLocal), 10, 16)
             \/ InCidr(g, Groups(Multicast), 8, 16)
<1>3. Table <=> ReservedIpv6(g)
  <2>1. InCidr(g, Groups(Unspecified), 128, 16) \/ InCidr(g, Groups(Loopback), 128, 16) <=>
          (\A k \in 1..7 : g[k] = 0) /\ g[8] \in {0, 1}
    BY InTheUnspecified, InTheLoopback, SMT
  <2>2. InCidr(g, Groups(IetfProtocols), 23, 16) \/ InCidr(g, Groups(Documentation), 32, 16) <=>
          g[1] = 8193 /\ (g[2] \in 0..511 \/ g[2] = 3512)
    BY InTheIetfProtocols, InTheDocumentation, SMT
  <2>3. \/ InCidr(g, Groups(UniqueLocal), 7, 16)
        \/ InCidr(g, Groups(LinkLocal), 10, 16)
        \/ InCidr(g, Groups(SiteLocal), 10, 16)
        \/ InCidr(g, Groups(Multicast), 8, 16)
        <=> g[1] \in 64512..65023 \cup 65152..65535
    <3>1. /\ InCidr(g, Groups(UniqueLocal), 7, 16) <=> g[1] \in 64512..65023
          /\ InCidr(g, Groups(LinkLocal), 10, 16) <=> g[1] \in 65152..65215
          /\ InCidr(g, Groups(SiteLocal), 10, 16) <=> g[1] \in 65216..65279
          /\ InCidr(g, Groups(Multicast), 8, 16) <=> g[1] \in 65280..65535
      BY InTheUniqueLocal, InTheLinkLocal, InTheSiteLocal, InTheMulticast, SMT
    <3>2. g[1] \in 65152..65535 <=>
            g[1] \in 65152..65215 \/ g[1] \in 65216..65279 \/ g[1] \in 65280..65535
      BY SMT
    <3> QED
      BY <3>1, <3>2, SMT
  <2>4. /\ InCidr(g, Groups(LocalNat64), 48, 16) <=> g[1] = 100 /\ g[2] = 65435 /\ g[3] = 1
        /\ InCidr(g, Groups(DiscardOnly), 64, 16) <=>
             g[1] = 256 /\ g[2] = 0 /\ g[3] = 0 /\ g[4] = 0
        /\ InCidr(g, Groups(SixToFour), 16, 16) <=> g[1] = 8194
    BY InTheLocalNat64, InTheDiscardOnly, InTheSixToFour, SMT
  <2> QED
    BY <2>1, <2>2, <2>3, <2>4, SMT DEF ReservedIpv6
<1> QED
  BY <1>1, <1>2, <1>3, TableOfIpv6

\* The verdict on any text that isIP accepts or refuses.
LEMMA VerdictOnAddress ==
  ASSUME NEW text, IsAddress(text)
  PROVE  isBlockedNetworkAddress(text) <=> Reserved(text)
<1>1. CASE text.family = 0
  BY <1>1 DEF isBlockedNetworkAddress, Reserved
<1>2. CASE text.family = 4 /\ text.octets \in [1..4 -> Octet]
  BY <1>2, Ipv4Ranges DEF isBlockedNetworkAddress, Reserved
<1>3. CASE text.family = 6 /\ IsIpv6(text)
  <2>1. Groups(text) \in [1..8 -> Group] /\ Groups(text) # <<>>
    BY <1>3, EightGroups
  <2>2. BlockedIpv6(Groups(text)) <=>
          IF Mapped(Groups(text)) THEN ReservedIpv4(Octets(Groups(text)[7], Groups(text)[8]))
                                  ELSE ReservedIpv6(Groups(text))
    BY <2>1, Ipv6Ranges
  <2> QED
    BY <1>3, <2>1, <2>2 DEF isBlockedNetworkAddress, Reserved
<1> QED
  BY <1>1, <1>2, <1>3 DEF IsAddress

(***************************************************************************)
(* The addresses an attempt is checked by come from the resolver, and each *)
(* of them is blocked exactly when it is in a range of the tables.         *)
(***************************************************************************)
THEOREM VerdictOnAnswers == Spec => []VerdictMatchesRanges
<1>1. AllInv => VerdictMatchesRanges
  <2> SUFFICES ASSUME AllInv, NEW k \in DOMAIN addresses
               PROVE  isBlockedNetworkAddress(addresses[k]) <=> Reserved(addresses[k])
    BY DEF VerdictMatchesRanges
  <2>1. addresses \in Answers
    BY DEF AllInv, TypeOK
  <2>2. IsAddress(addresses[k])
    BY <2>1, AnswersAssumption
  <2> QED
    BY <2>2, VerdictOnAddress
<1> QED BY <1>1, Invariance, PTL
=============================================================================
