-------------------------- MODULE MigrationsProofs ---------------------------
(***************************************************************************)
(* Proofs about the log of the migrations and what they make, for any      *)
(* number of runs of umzug.ts, of kills and of reverts. PlaceInv says      *)
(* where a run is, OrderInv what its list of migrations has to do with the *)
(* log, AppliedInv what a run has made of the migration it is at. They     *)
(* carry the log through every interleaving. LeaderInv is about runs of    *)
(* migrate:up alone: nothing is made or logged that is not made or logged  *)
(* by a run that still goes on, or by one that has completed.              *)
(***************************************************************************)
EXTENDS Migrations, TLAPS

-----------------------------------------------------------------------------
(* Sequences and sets as the tables of the module need them               *)

LEMMA TripleFacts ==
  ASSUME NEW a, NEW b, NEW c
  PROVE  LET s == <<a, b, c>>
         IN Len(s) = 3 /\ DOMAIN s = {1, 2, 3} /\ s[1] = a /\ s[2] = b /\ s[3] = c
OBVIOUS

LEMMA PairFacts ==
  ASSUME NEW a, NEW b
  PROVE  LET s == <<a, b>>
         IN Len(s) = 2 /\ DOMAIN s = {1, 2} /\ s[1] = a /\ s[2] = b
OBVIOUS

LEMMA SingleFacts ==
  ASSUME NEW a
  PROVE  LET s == <<a>> IN Len(s) = 1 /\ DOMAIN s = {1} /\ s[1] = a
OBVIOUS

LEMMA QuadrupleFacts ==
  ASSUME NEW a, NEW b, NEW c, NEW d
  PROVE  LET s == <<a, b, c, d>>
         IN Len(s) = 4 /\ s[1] = a /\ s[2] = b /\ s[3] = c /\ s[4] = d
OBVIOUS

LEMMA ImageOfRange ==
  ASSUME NEW s
  PROVE  /\ {s[k] : k \in {1}} = {s[1]}
         /\ {s[k] : k \in {1, 2}} = {s[1], s[2]}
         /\ {s[k] : k \in {1, 2, 3}} = {s[1], s[2], s[3]}
OBVIOUS

-----------------------------------------------------------------------------
(* The tables                                                              *)

LEMMA Statements ==
  /\ Makes[1] = <<"bots", "token index", "owner index">>
  /\ Makes[2] = <<"updates", "updates index">>
  /\ Makes[3] = <<"commands">>
  /\ Makes[4] = <<"backfill">>
  /\ Names = 1..4
BY QuadrupleFacts DEF Makes, Names

LEMMA StatementsOfBots ==
  /\ Len(Makes[1]) = 3 /\ DOMAIN Makes[1] = {1, 2, 3}
  /\ Makes[1][1] = "bots" /\ Makes[1][2] = "token index" /\ Makes[1][3] = "owner index"
<1> DEFINE s == <<"bots", "token index", "owner index">>
<1>1. /\ Len(s) = 3 /\ DOMAIN s = {1, 2, 3}
      /\ s[1] = "bots" /\ s[2] = "token index" /\ s[3] = "owner index"
  BY TripleFacts
<1>2. Makes[1] = s
  BY Statements
<1> HIDE DEF s
<1> QED
  BY <1>1, <1>2, Zenon

LEMMA StatementsOfUpdates ==
  /\ Len(Makes[2]) = 2 /\ DOMAIN Makes[2] = {1, 2}
  /\ Makes[2][1] = "updates" /\ Makes[2][2] = "updates index"
<1> DEFINE s == <<"updates", "updates index">>
<1>1. Len(s) = 2 /\ DOMAIN s = {1, 2} /\ s[1] = "updates" /\ s[2] = "updates index"
  BY PairFacts
<1>2. Makes[2] = s
  BY Statements
<1> HIDE DEF s
<1> QED
  BY <1>1, <1>2, Zenon

LEMMA StatementsOfTheRest ==
  /\ Len(Makes[3]) = 1 /\ DOMAIN Makes[3] = {1} /\ Makes[3][1] = "commands"
  /\ Len(Makes[4]) = 1 /\ DOMAIN Makes[4] = {1} /\ Makes[4][1] = "backfill"
BY SingleFacts, Statements, Zenon

LEMMA Numbers == Names = {1, 2, 3, 4}
<1>1. 1..4 = {1, 2, 3, 4}
  OBVIOUS
<1> QED
  BY <1>1, Statements, Zenon

LEMMA EffectsTabulated ==
  /\ Effects(1) = {"bots", "token index", "owner index"}
  /\ Effects(2) = {"updates", "updates index"}
  /\ Effects(3) = {"commands"}
  /\ Effects(4) = {"backfill"}
  /\ Objects = Effects(1) \cup Effects(2) \cup Effects(3) \cup Effects(4)
<1>1. \A m : Effects(m) = {Makes[m][k] : k \in DOMAIN Makes[m]}
  BY DEF Effects
<1>2. Effects(1) = {"bots", "token index", "owner index"}
  <2>1. Effects(1) = {Makes[1][k] : k \in {1, 2, 3}}
    BY <1>1, StatementsOfBots, Zenon
  <2>2. @ = {Makes[1][1], Makes[1][2], Makes[1][3]}
    BY ImageOfRange, Zenon
  <2> QED
    BY <2>1, <2>2, StatementsOfBots, Zenon
<1>3. Effects(2) = {"updates", "updates index"}
  <2>1. Effects(2) = {Makes[2][k] : k \in {1, 2}}
    BY <1>1, StatementsOfUpdates, Zenon
  <2>2. @ = {Makes[2][1], Makes[2][2]}
    BY ImageOfRange, Zenon
  <2> QED
    BY <2>1, <2>2, StatementsOfUpdates, Zenon
<1>4. Effects(3) = {"commands"} /\ Effects(4) = {"backfill"}
  <2>1. Effects(3) = {Makes[3][k] : k \in {1}} /\ Effects(4) = {Makes[4][k] : k \in {1}}
    BY <1>1, StatementsOfTheRest, Zenon
  <2> QED
    BY <2>1, ImageOfRange, StatementsOfTheRest, Zenon
<1>5. Objects = Effects(1) \cup Effects(2) \cup Effects(3) \cup Effects(4)
  <2>1. Objects = UNION {Effects(m) : m \in {1, 2, 3, 4}}
    BY Numbers DEF Objects
  <2> HIDE DEF Effects
  <2> QED
    BY <2>1
<1> QED
  BY <1>2, <1>3, <1>4, <1>5

LEMMA NamesAreNumbers == Names \subseteq Nat
<1>1. Names = 1..4
  BY Statements, Zenon
<1> QED
  BY <1>1

LEMMA Lengths ==
  /\ Len(Makes[1]) = 3 /\ Len(Makes[2]) = 2 /\ Len(Makes[3]) = 1 /\ Len(Makes[4]) = 1
  /\ \A m \in Names : Len(Makes[m]) \in 1..3
<1>1. Len(Makes[1]) = 3 /\ Len(Makes[2]) = 2 /\ Len(Makes[3]) = 1 /\ Len(Makes[4]) = 1
  BY StatementsOfBots, StatementsOfUpdates, StatementsOfTheRest, Zenon
<1>2. ASSUME NEW m \in Names PROVE Len(Makes[m]) \in 1..3
  <2>1. Len(Makes[m]) = 3 \/ Len(Makes[m]) = 2 \/ Len(Makes[m]) = 1
    BY <1>1, Numbers, Zenon
  <2> QED
    BY <2>1
<1> QED
  BY <1>1, <1>2, Zenon

\* The statements of a migration, from the first to the last, make its effects.
LEMMA StatementsMakeEffects ==
  ASSUME NEW m \in Names
  PROVE  /\ DOMAIN Makes[m] = 1..Len(Makes[m])
         /\ Effects(m) = {Makes[m][k] : k \in 1..Len(Makes[m])}
         /\ Effects(m) \subseteq Objects
<1>1. DOMAIN Makes[m] = 1..Len(Makes[m])
  <2>1. 1..1 = {1} /\ 1..2 = {1, 2} /\ 1..3 = {1, 2, 3}
    OBVIOUS
  <2>2. m = 1 \/ m = 2 \/ m = 3 \/ m = 4
    BY Numbers
  <2> QED
    BY <2>1, <2>2, StatementsOfBots, StatementsOfUpdates, StatementsOfTheRest, Zenon
<1>2. Effects(m) = {Makes[m][k] : k \in 1..Len(Makes[m])}
  BY <1>1, Zenon DEF Effects
<1>3. Effects(m) \subseteq Objects
  BY Zenon DEF Objects
<1> QED
  BY <1>1, <1>2, <1>3

\* No two migrations make the same object.
LEMMA EffectsAreApart ==
  ASSUME NEW m \in Names, NEW n \in Names, NEW o, o \in Effects(m), o \in Effects(n)
  PROVE  m = n
<1>1. /\ "bots" \notin Effects(2) /\ "token index" \notin Effects(2) /\ "owner index" \notin Effects(2)
      /\ "bots" \notin Effects(3) /\ "token index" \notin Effects(3) /\ "owner index" \notin Effects(3)
      /\ "bots" \notin Effects(4) /\ "token index" \notin Effects(4) /\ "owner index" \notin Effects(4)
      /\ "updates" \notin Effects(3) /\ "updates index" \notin Effects(3)
      /\ "updates" \notin Effects(4) /\ "updates index" \notin Effects(4)
      /\ "commands" \notin Effects(4)
  BY EffectsTabulated
<1>2. /\ Effects(1) \cap (Effects(2) \cup Effects(3) \cup Effects(4)) = {}
      /\ Effects(2) \cap (Effects(3) \cup Effects(4)) = {}
      /\ Effects(3) \cap Effects(4) = {}
  BY <1>1, EffectsTabulated, Zenon
<1>3. CASE m = 1
  BY <1>2, <1>3, Numbers, Zenon
<1>4. CASE m = 2
  BY <1>2, <1>4, Numbers, Zenon
<1>5. CASE m = 3
  BY <1>2, <1>5, Numbers, Zenon
<1>6. CASE m = 4
  BY <1>2, <1>6, Numbers, Zenon
<1> QED
  BY <1>3, <1>4, <1>5, <1>6, Numbers, Zenon

\* No two statements of a migration do.
LEMMA StatementsAreApart ==
  ASSUME NEW m \in Names, NEW j \in 1..Len(Makes[m]), NEW k \in 1..Len(Makes[m]),
         Makes[m][j] = Makes[m][k]
  PROVE  j = k
<1>1. CASE m = 1
  <2>1. j \in {1, 2, 3} /\ k \in {1, 2, 3} /\ Makes[1][j] = Makes[1][k]
    BY <1>1, StatementsMakeEffects, StatementsOfBots, Zenon
  <2>2. Makes[1][1] # Makes[1][2] /\ Makes[1][1] # Makes[1][3] /\ Makes[1][2] # Makes[1][3]
    BY StatementsOfBots, Zenon
  <2>3. CASE j = 1
    BY <2>1, <2>2, <2>3, Zenon
  <2>4. CASE j = 2
    BY <2>1, <2>2, <2>4, Zenon
  <2>5. CASE j = 3
    BY <2>1, <2>2, <2>5, Zenon
  <2> QED
    BY <2>1, <2>3, <2>4, <2>5, Zenon
<1>2. CASE m = 2
  <2>1. j \in {1, 2} /\ k \in {1, 2} /\ Makes[2][j] = Makes[2][k]
    BY <1>2, StatementsMakeEffects, StatementsOfUpdates, Zenon
  <2>2. Makes[2][1] # Makes[2][2]
    BY StatementsOfUpdates, Zenon
  <2>3. CASE j = 1
    BY <2>1, <2>2, <2>3, Zenon
  <2>4. CASE j = 2
    BY <2>1, <2>2, <2>4, Zenon
  <2> QED
    BY <2>1, <2>3, <2>4, Zenon
<1>3. CASE m \in {3, 4}
  <2>1. j \in {1} /\ k \in {1}
    BY <1>3, StatementsMakeEffects, StatementsOfTheRest, Zenon
  <2> QED
    BY <2>1
<1> QED
  BY <1>1, <1>2, <1>3, Numbers, Zenon

LEMMA FirstIsLeast ==
  ASSUME NEW S, S \subseteq Names, S # {}
  PROVE  First(S) \in S /\ \A n \in S : First(S) =< n
<1>1. \E m \in S : \A n \in S : m =< n
  <2>1. CASE 1 \in S
    BY <2>1, Numbers
  <2>2. CASE 1 \notin S /\ 2 \in S
    BY <2>2, Numbers
  <2>3. CASE 1 \notin S /\ 2 \notin S /\ 3 \in S
    BY <2>3, Numbers
  <2>4. CASE S = {4}
    BY <2>4
  <2> QED
    BY <2>1, <2>2, <2>3, <2>4, Numbers
<1> QED
  BY <1>1 DEF First

LEMMA LastIsGreatest ==
  ASSUME NEW S, S \subseteq Names, S # {}
  PROVE  Last(S) \in S /\ \A n \in S : n =< Last(S)
<1>1. \E m \in S : \A n \in S : n =< m
  <2>1. CASE 4 \in S
    BY <2>1, Numbers
  <2>2. CASE 4 \notin S /\ 3 \in S
    BY <2>2, Numbers
  <2>3. CASE 4 \notin S /\ 3 \notin S /\ 2 \in S
    BY <2>3, Numbers
  <2>4. CASE S = {1}
    BY <2>4
  <2> QED
    BY <2>1, <2>2, <2>3, <2>4, Numbers
<1> QED
  BY <1>1 DEF Last

-----------------------------------------------------------------------------
(* What the steps of a run do to it, and leave of the others               *)

\* The statement of a live run is one of its migration's, and only a
\* migration that looks is looking.
PlaceInv ==
  \A r \in Runs : Live(r) =>
    /\ step[r] =< Len(Makes[Present(r)])
    /\ pc[r] = "looking" => Present(r) \in Looking

Alone(r) ==
  \A q \in Runs \ {r} :
    command'[q] = command[q] /\ pc'[q] = pc[q] /\ todo'[q] = todo[q] /\ step'[q] = step[q]

LEMMA OthersStay ==
  ASSUME NEW r \in Runs, Alone(r), NEW q \in Runs, q # r
  PROVE  /\ Live(q)' <=> Live(q)
         /\ Present(q)' = Present(q)
         /\ command'[q] = command[q] /\ pc'[q] = pc[q] /\ todo'[q] = todo[q] /\ step'[q] = step[q]
BY DEF Alone, Live, Present

LEMMA PresentIsToDo ==
  ASSUME TypeOK, NEW r \in Runs, Live(r)
  PROVE  /\ Present(r) \in todo[r] /\ Present(r) \in Names
         /\ todo[r] \subseteq Names /\ todo[r] # {}
         /\ command[r] \in {"up", "down"}
         /\ command[r] = "up" => Present(r) = First(todo[r]) /\ \A n \in todo[r] : Present(r) =< n
         /\ command[r] = "down" => Present(r) = Last(todo[r]) /\ \A n \in todo[r] : n =< Present(r)
<1>1. todo[r] \subseteq Names /\ todo[r] # {} /\ command[r] \in {"up", "down"}
  BY DEF TypeOK
<1>2. CASE command[r] = "up"
  <2>1. Present(r) = First(todo[r])
    BY <1>2 DEF Present
  <2> QED
    BY <1>1, <1>2, <2>1, FirstIsLeast
<1>3. CASE command[r] = "down"
  <2>1. Present(r) = Last(todo[r])
    BY <1>3 DEF Present
  <2> QED
    BY <1>1, <1>3, <2>1, LastIsGreatest
<1> QED
  BY <1>1, <1>2, <1>3

LEMMA BeginsLive ==
  \A m : Begin(m) \in {"looking", "running"} /\ (Begin(m) = "looking" => m \in Looking)
BY DEF Begin

\* The keys are all the same, so the last executed migration is the first.
LEMMA LastIsExecuted ==
  ASSUME NEW S, S \subseteq Names, S # {}
  PROVE  LastMigration(S) \in S /\ \A n \in S : LastMigration(S) =< n
<1> DEFINE ties == {m \in S : \A n \in S : Key[n] =< Key[m]}
<1>1. \A m \in Names : Key[m] = 2026
  <2>1. \A m \in 1..4 : Key[m] = 2026
    BY DEF Key
  <2>2. Names = 1..4
    BY Statements, Zenon
  <2> QED
    BY <2>1, <2>2
<1>2. ties = S
  <2>1. \A m, n \in S : Key[n] =< Key[m]
    BY <1>1
  <2> QED
    BY <2>1, Zenon
<1>3. LastMigration(S) = First(ties)
  BY Zenon DEF LastMigration
<1> HIDE DEF ties
<1> QED
  BY <1>2, <1>3, FirstIsLeast

LEMMA EndMoves ==
  ASSUME TypeOK, NEW r \in Runs, NEW how, End(r, how)
  PROVE  /\ Alone(r) /\ pc'[r] = how
         /\ command' = command /\ todo' = todo /\ step' = step
         /\ Present(r)' = Present(r)
BY DEF End, TypeOK, Alone, Present

LEMMA ContinueMoves ==
  ASSUME TypeOK, NEW r \in Runs, NEW m, Continue(r, todo[r] \ {m})
  PROVE  /\ Alone(r) /\ command' = command
         /\ todo'[r] = todo[r] \ {m} /\ step'[r] = 1
         /\ todo'[r] = {} => pc'[r] = "done"
         /\ todo'[r] # {} =>
              /\ pc'[r] \in {"looking", "running"}
              /\ pc'[r] = "looking" => Present(r)' \in Looking
<1> DEFINE rest == todo[r] \ {m}
<1>1. /\ Alone(r) /\ command' = command
      /\ todo'[r] = rest /\ step'[r] = 1
      /\ pc'[r] = IF rest = {} THEN "done"
                  ELSE Begin(IF command[r] = "up" THEN First(rest) ELSE Last(rest))
  BY DEF Continue, TypeOK, Alone
<1>2. Present(r)' = IF command[r] = "up" THEN First(rest) ELSE Last(rest)
  BY <1>1 DEF Present
<1> HIDE DEF rest
<1>3. todo'[r] = {} => pc'[r] = "done"
  BY <1>1
<1>4. todo'[r] # {} => pc'[r] = Begin(Present(r)')
  BY <1>1, <1>2
<1> QED
  BY <1>1, <1>3, <1>4, BeginsLive DEF rest

LEMMA StartUpMoves ==
  ASSUME TypeOK, NEW r \in Runs, StartUp(r)
  PROVE  /\ Alone(r) /\ UNCHANGED <<schema, meta, broken, downs>>
         /\ pc[r] = "idle" /\ \A q \in Runs : Live(q) => command[q] = "up"
         /\ command'[r] = "up" /\ todo'[r] = Names \ meta /\ step'[r] = 1
         /\ meta = Names => pc'[r] = "done"
         /\ meta # Names =>
              /\ pc'[r] \in {"looking", "running"}
              /\ pc'[r] = "looking" => Present(r)' \in Looking
<1> DEFINE pending == Names \ meta
<1>1. /\ Alone(r) /\ UNCHANGED <<schema, meta, broken, downs>>
      /\ pc[r] = "idle" /\ \A q \in Runs : Live(q) => command[q] = "up"
      /\ command'[r] = "up" /\ todo'[r] = pending /\ step'[r] = 1
      /\ pc'[r] = IF pending = {} THEN "done" ELSE Begin(First(pending))
  BY DEF StartUp, TypeOK, Alone
<1>2. Present(r)' = First(pending)
  BY <1>1 DEF Present
<1>3. pending = {} <=> meta = Names
  BY DEF TypeOK
<1> HIDE DEF pending
<1>4. pending # {} => pc'[r] = Begin(Present(r)')
  BY <1>1, <1>2
<1> QED
  BY <1>1, <1>3, <1>4, BeginsLive DEF pending

LEMMA StartDownMoves ==
  ASSUME TypeOK, NEW r \in Runs, StartDown(r)
  PROVE  /\ Alone(r) /\ UNCHANGED <<schema, meta, broken>> /\ downs' = downs + 1
         /\ pc[r] = "idle" /\ \A q \in Runs : ~Live(q)
         /\ command'[r] = "down"
         /\ meta = {} => pc'[r] = "failed"
         /\ meta # {} =>
              /\ pc'[r] \in {"looking", "running"}
              /\ pc'[r] = "looking" => Present(r)' \in Looking
              /\ step'[r] = 1
              /\ todo'[r] # {} /\ todo'[r] \subseteq meta
              /\ \A m \in meta \ todo'[r], n \in todo'[r] : m < n
<1> DEFINE reverted == {m \in meta : m >= LastMigration(meta)}
<1>1. /\ Alone(r) /\ UNCHANGED <<schema, meta, broken>> /\ downs' = downs + 1
      /\ pc[r] = "idle" /\ \A q \in Runs : ~Live(q)
      /\ command'[r] = "down"
  BY DEF StartDown, TypeOK, Alone
<1>2. CASE meta = {}
  BY <1>1, <1>2 DEF StartDown, TypeOK
<1>3. CASE meta # {}
  <2>1. todo'[r] = reverted /\ step'[r] = 1 /\ pc'[r] = Begin(Last(reverted))
    BY <1>3 DEF StartDown, TypeOK
  <2>2. Present(r)' = Last(reverted)
    BY <1>1, <2>1 DEF Present
  <2>3. meta \subseteq Names
    BY DEF TypeOK
  <2>4. LastMigration(meta) \in meta /\ \A n \in meta : LastMigration(meta) =< n
    BY <1>3, <2>3, LastIsExecuted
  <2>5. reverted = meta
    <3>1. meta \subseteq Nat
      BY <2>3, NamesAreNumbers
    <3> QED
      BY <2>4, <3>1
  <2> HIDE DEF reverted
  <2>6. todo'[r] # {} /\ todo'[r] \subseteq meta /\ \A m \in meta \ todo'[r], n \in todo'[r] : m < n
    BY <1>3, <2>1, <2>5
  <2>7. pc'[r] = Begin(Present(r)')
    BY <2>1, <2>2
  <2> QED
    BY <1>1, <1>3, <2>1, <2>6, <2>7, BeginsLive
<1> QED
  BY <1>1, <1>2, <1>3

-----------------------------------------------------------------------------
(* Types and places                                                        *)

LEMMA NextTypeOK == TypeOK /\ PlaceInv /\ [Next]_vars => TypeOK'
<1> SUFFICES ASSUME TypeOK, PlaceInv, [Next]_vars PROVE TypeOK'
  OBVIOUS
<1> USE BoundsAssumption DEF TypeOK, Live, Ended
<1>1. ASSUME NEW r \in Runs, StartUp(r) PROVE TypeOK'
  <2>1. pc'[r] # "done" => todo'[r] # {}
    BY <1>1 DEF StartUp
  <2>2. pc' \in [Runs -> {"idle", "looking", "running", "logging"} \cup Ended]
    BY <1>1, BeginsLive DEF StartUp
  <2> QED
    BY <1>1, <2>1, <2>2 DEF StartUp
<1>2. ASSUME NEW r \in Runs, StartDown(r) PROVE TypeOK'
  <2>1. CASE meta = {}
    BY <1>2, <2>1 DEF StartDown
  <2>2. CASE meta # {}
    <3> DEFINE reverted == {m \in meta : m >= LastMigration(meta)}
    <3>1. reverted \subseteq Names
      OBVIOUS
    <3>2. /\ downs' = downs + 1 /\ downs < MaxDowns
          /\ command' = [command EXCEPT ![r] = "down"]
          /\ todo' = [todo EXCEPT ![r] = reverted]
          /\ step' = [step EXCEPT ![r] = 1]
          /\ pc' = [pc EXCEPT ![r] = Begin(Last(reverted))]
          /\ UNCHANGED <<schema, meta, broken, undone>>
      BY <1>2, <2>2 DEF StartDown
    <3>3. todo'[r] # {}
      BY <1>2, <2>2, StartDownMoves
    <3> HIDE DEF reverted
    <3> QED
      BY <3>1, <3>2, <3>3, BeginsLive
  <2> QED
    BY <2>1, <2>2
<1>3. ASSUME NEW r \in Runs, Look(r) PROVE TypeOK'
  BY <1>3 DEF Look, End
<1>4. ASSUME NEW r \in Runs, UpStatement(r) PROVE TypeOK'
  <2> DEFINE m == Present(r)
             o == Makes[m][step[r]]
             last == Len(Makes[m])
  <2>1. Live(r) /\ step[r] \in 1..3
    BY <1>4 DEF UpStatement
  <2>2. m \in Names /\ step[r] =< last
    BY <2>1, PresentIsToDo DEF PlaceInv
  <2>3. last \in 1..3
    BY <2>2, Lengths
  <2>4. o \in Objects
    <3> HIDE DEF last
    <3>1. step[r] \in 1..last
      BY <2>1, <2>2, <2>3
    <3> USE DEF last
    <3> QED
      BY <2>2, <3>1, StatementsMakeEffects
  <2> HIDE DEF m, o, last
  <2>5. /\ UNCHANGED <<meta, broken, downs, undone>>
        /\ \/ End(r, "failed") /\ UNCHANGED schema
           \/ /\ schema' = schema \cup {o}
              /\ IF step[r] < last
                 THEN step' = [step EXCEPT ![r] = @ + 1] /\ UNCHANGED <<command, pc, todo>>
                 ELSE End(r, "logging")
    BY <1>4 DEF UpStatement, m, o, last
  <2>6. CASE End(r, "failed") /\ UNCHANGED schema
    BY <2>5, <2>6 DEF End
  <2>7. CASE /\ schema' = schema \cup {o}
             /\ step[r] < last
             /\ step' = [step EXCEPT ![r] = @ + 1] /\ UNCHANGED <<command, pc, todo>>
    <3>1. step[r] + 1 \in 1..3
      BY <2>1, <2>3, <2>7
    <3>2. step' \in [Runs -> 1..3]
      BY <2>7, <3>1
    <3> QED
      BY <2>4, <2>5, <2>7, <3>2
  <2>8. CASE schema' = schema \cup {o} /\ End(r, "logging")
    BY <2>1, <2>4, <2>5, <2>8 DEF End
  <2> QED
    BY <2>5, <2>6, <2>7, <2>8
<1>5. ASSUME NEW r \in Runs, DownStatement(r) PROVE TypeOK'
  BY <1>5 DEF DownStatement, End
<1>6. ASSUME NEW r \in Runs, NEW m \in todo[r], Continue(r, todo[r] \ {m}),
             meta' = meta \cup {m} \/ meta' = meta \ {m},
             undone' = undone \/ undone' = [undone EXCEPT ![r] = @ \cup {m}],
             UNCHANGED <<schema, broken, downs>>
      PROVE  TypeOK'
  BY <1>6, BeginsLive DEF Continue
<1>7. ASSUME NEW r \in Runs, LogUp(r) PROVE TypeOK'
  <2>1. Present(r) \in todo[r]
    BY <1>7, PresentIsToDo DEF LogUp
  <2> QED
    BY <1>6, <1>7, <2>1 DEF LogUp, End
<1>8. ASSUME NEW r \in Runs, LogDown(r) PROVE TypeOK'
  <2>1. Present(r) \in todo[r]
    BY <1>8, PresentIsToDo DEF LogDown
  <2> QED
    BY <1>6, <1>8, <2>1 DEF LogDown
<1>9. ASSUME NEW r \in Runs, Breaks(r) PROVE TypeOK'
  BY <1>9 DEF Breaks, End
<1>10. CASE UNCHANGED vars
  BY <1>10 DEF vars, run
<1> HIDE DEF TypeOK
<1> QED
  BY <1>1, <1>2, <1>3, <1>4, <1>5, <1>7, <1>8, <1>9, <1>10
  DEF Next, StartStep, MigrationStep, StorageStep, BreakStep

\* Only the run that moves has a new place.
LEMMA PlaceKept ==
  ASSUME TypeOK, TypeOK', PlaceInv, NEW r \in Runs, Alone(r),
         Live(r)' => \/ /\ step'[r] = 1
                        /\ pc'[r] = "looking" => Present(r)' \in Looking
                     \/ /\ Live(r) /\ Present(r)' = Present(r)
                        /\ step'[r] =< Len(Makes[Present(r)])
                        /\ pc'[r] = "looking" => pc[r] = "looking"
  PROVE  PlaceInv'
<1>1. ASSUME NEW q \in Runs, Live(q)', q # r
      PROVE  step'[q] =< Len(Makes[Present(q)']) /\ (pc'[q] = "looking" => Present(q)' \in Looking)
  BY <1>1, OthersStay DEF PlaceInv
<1>2. ASSUME Live(r)', step'[r] = 1
      PROVE  step'[r] =< Len(Makes[Present(r)'])
  <2>1. Present(r)' \in Names
    <3>1. todo'[r] \subseteq Names /\ todo'[r] # {} /\ command'[r] \in {"up", "down"}
      BY <1>2 DEF TypeOK
    <3>2. First(todo'[r]) \in Names /\ Last(todo'[r]) \in Names
      BY <3>1, FirstIsLeast, LastIsGreatest
    <3> QED
      BY <3>2 DEF Present
  <2> DEFINE last == Len(Makes[Present(r)'])
  <2>2. last \in 1..3
    BY <2>1, Lengths
  <2> HIDE DEF last
  <2>3. step'[r] =< last
    BY <1>2, <2>2
  <2> QED
    BY <2>3 DEF last
<1> QED
  BY <1>1, <1>2 DEF PlaceInv

LEMMA NextPlaceInv == TypeOK /\ TypeOK' /\ PlaceInv /\ [Next]_vars => PlaceInv'
<1> SUFFICES ASSUME TypeOK, TypeOK', PlaceInv, [Next]_vars PROVE PlaceInv'
  OBVIOUS
<1>1. ASSUME NEW r \in Runs, StartUp(r) PROVE PlaceInv'
  <2>1. Live(r)' => pc'[r] # "done"
    BY DEF Live
  <2> QED
    BY <1>1, <2>1, StartUpMoves, PlaceKept
<1>2. ASSUME NEW r \in Runs, StartDown(r) PROVE PlaceInv'
  <2>1. Live(r)' => pc'[r] # "failed"
    BY DEF Live
  <2> QED
    BY <1>2, <2>1, StartDownMoves, PlaceKept
<1>3. ASSUME NEW r \in Runs, NEW how, End(r, how), Live(r), how # "looking" PROVE PlaceInv'
  <2>1. step[r] =< Len(Makes[Present(r)])
    BY <1>3 DEF PlaceInv
  <2> QED
    BY <1>3, <2>1, EndMoves, PlaceKept
<1>4. ASSUME NEW r \in Runs, Look(r) PROVE PlaceInv'
  BY <1>3, <1>4 DEF Look, Live
<1>5. ASSUME NEW r \in Runs, UpStatement(r) PROVE PlaceInv'
  <2>1. CASE End(r, "failed") \/ End(r, "logging")
    BY <1>3, <1>5, <2>1 DEF UpStatement, Live
  <2>2. CASE /\ step[r] < Len(Makes[Present(r)])
             /\ step' = [step EXCEPT ![r] = @ + 1] /\ UNCHANGED <<command, pc, todo>>
    <3>1. Alone(r) /\ Present(r)' = Present(r) /\ pc'[r] = pc[r] /\ step'[r] = step[r] + 1
      BY <2>2 DEF Alone, Present, TypeOK
    <3>2. Live(r) /\ Present(r) \in Names
      BY <1>5, PresentIsToDo DEF UpStatement, Live
    <3>3. Len(Makes[Present(r)]) \in 1..3 /\ step[r] \in 1..3
      BY <3>2, Lengths DEF TypeOK
    <3>4. step'[r] =< Len(Makes[Present(r)])
      BY <2>2, <3>1, <3>3
    <3> QED
      BY <3>1, <3>2, <3>4, PlaceKept
  <2> QED
    BY <1>5, <2>1, <2>2 DEF UpStatement
<1>6. ASSUME NEW r \in Runs, DownStatement(r) PROVE PlaceInv'
  BY <1>3, <1>6 DEF DownStatement, Live
<1>7. ASSUME NEW r \in Runs, NEW m, Continue(r, todo[r] \ {m}) PROVE PlaceInv'
  <2>1. Live(r)' => pc'[r] # "done"
    BY DEF Live
  <2> QED
    BY <1>7, <2>1, ContinueMoves, PlaceKept
<1>8. ASSUME NEW r \in Runs, LogUp(r) PROVE PlaceInv'
  BY <1>3, <1>7, <1>8 DEF LogUp, Live
<1>9. ASSUME NEW r \in Runs, LogDown(r) PROVE PlaceInv'
  BY <1>7, <1>9 DEF LogDown
<1>10. ASSUME NEW r \in Runs, Breaks(r) PROVE PlaceInv'
  BY <1>3, <1>10 DEF Breaks
<1>11. CASE UNCHANGED vars
  BY <1>11 DEF vars, run, PlaceInv, Live, Present
<1> QED
  BY <1>1, <1>2, <1>4, <1>5, <1>6, <1>8, <1>9, <1>10, <1>11
  DEF Next, StartStep, MigrationStep, StorageStep, BreakStep

-----------------------------------------------------------------------------
(* The order of the log                                                    *)

\* What a run of up still has to do is the end of the list of migrations, and
\* what it has not to do is logged. A run of down is alone; what it still has
\* to do is the end of the log.
RunInv(r) ==
  /\ command[r] = "up" =>
       /\ \A m \in todo[r], n \in Names : m =< n => n \in todo[r]
       /\ Names \ todo[r] \subseteq meta
  /\ command[r] = "down" =>
       /\ \A q \in Runs : Live(q) => q = r
       /\ todo[r] \subseteq meta
       /\ \A m \in meta \ todo[r], n \in todo[r] : m < n

OrderInv ==
  /\ LoggedInOrder
  /\ \A r \in Runs : Live(r) => RunInv(r)

LEMMA OrderKept ==
  ASSUME OrderInv, NEW r \in Runs, Alone(r), meta' = meta,
         command'[r] = command[r], todo'[r] = todo[r], Live(r)' => Live(r)
  PROVE  OrderInv'
<1>1. \A q \in Runs : /\ command'[q] = command[q] /\ todo'[q] = todo[q]
                      /\ Live(q)' => Live(q)
  BY OthersStay
<1> QED
  BY <1>1 DEF OrderInv, LoggedInOrder, RunInv

LEMMA NextOrderInv == TypeOK /\ TypeOK' /\ OrderInv /\ [Next]_vars => OrderInv'
<1> SUFFICES ASSUME TypeOK, TypeOK', OrderInv, [Next]_vars PROVE OrderInv'
  OBVIOUS
<1>1. ASSUME NEW r \in Runs, StartUp(r) PROVE OrderInv'
  <2>1. /\ Alone(r) /\ meta' = meta /\ \A q \in Runs : Live(q) => command[q] = "up"
        /\ command'[r] = "up" /\ todo'[r] = Names \ meta
    BY <1>1, StartUpMoves
  <2>2. LoggedInOrder'
    BY <2>1 DEF OrderInv, LoggedInOrder
  <2>3. RunInv(r)'
    <3>1. \A m \in Names \ meta, n \in Names : m =< n => n \in Names \ meta
      <4> SUFFICES ASSUME NEW m \in Names \ meta, NEW n \in meta, m =< n PROVE FALSE
        OBVIOUS
      <4>1. n \in Names
        BY DEF TypeOK
      <4>2. m \in Nat /\ n \in Nat /\ n # m
        BY <4>1, NamesAreNumbers
      <4>3. m < n
        BY <4>2
      <4> QED
        BY <4>3 DEF OrderInv, LoggedInOrder
    <3> QED
      BY <2>1, <3>1 DEF RunInv
  <2>4. ASSUME NEW q \in Runs, Live(q)', q # r PROVE RunInv(q)'
    <3>1. Live(q) /\ command'[q] = "up" /\ command[q] = "up" /\ todo'[q] = todo[q]
      BY <2>1, <2>4, OthersStay
    <3> QED
      BY <2>1, <3>1 DEF OrderInv, RunInv
  <2> QED
    BY <2>2, <2>3, <2>4 DEF OrderInv
<1>2. ASSUME NEW r \in Runs, StartDown(r) PROVE OrderInv'
  <2>1. Alone(r) /\ meta' = meta /\ command'[r] = "down" /\ \A q \in Runs : ~Live(q)
    BY <1>2, StartDownMoves
  <2>2. \A q \in Runs : Live(q)' => q = r
    BY <2>1, OthersStay
  <2>3. LoggedInOrder'
    BY <2>1 DEF OrderInv, LoggedInOrder
  <2>4. ASSUME Live(r)' PROVE RunInv(r)'
    <3>1. meta # {}
      BY <1>2, <2>4, StartDownMoves DEF Live
    <3>2. todo'[r] \subseteq meta /\ \A m \in meta \ todo'[r], n \in todo'[r] : m < n
      BY <1>2, <3>1, StartDownMoves
    <3> QED
      BY <2>1, <2>2, <3>2 DEF RunInv
  <2> QED
    BY <2>2, <2>3, <2>4 DEF OrderInv
<1>3. ASSUME NEW r \in Runs, NEW how, End(r, how), Live(r), meta' = meta PROVE OrderInv'
  BY <1>3, EndMoves, OrderKept
<1>4. ASSUME NEW r \in Runs, Look(r) PROVE OrderInv'
  BY <1>3, <1>4 DEF Look, Live
<1>5. ASSUME NEW r \in Runs, UpStatement(r) PROVE OrderInv'
  <2>1. Live(r) /\ meta' = meta
    BY <1>5 DEF UpStatement, Live
  <2>2. CASE End(r, "failed") \/ End(r, "logging")
    BY <1>3, <2>1, <2>2
  <2>3. CASE step' = [step EXCEPT ![r] = @ + 1] /\ UNCHANGED <<command, pc, todo>>
    <3>1. Alone(r)
      BY <2>3 DEF Alone, TypeOK
    <3> QED
      BY <2>1, <2>3, <3>1, OrderKept
  <2> QED
    BY <1>5, <2>2, <2>3 DEF UpStatement
<1>6. ASSUME NEW r \in Runs, DownStatement(r) PROVE OrderInv'
  BY <1>3, <1>6 DEF DownStatement, Live
<1>7. ASSUME NEW r \in Runs, LogUp(r) PROVE OrderInv'
  <2> DEFINE m == Present(r)
  <2>1. Live(r) /\ command[r] = "up"
    BY <1>7 DEF LogUp, Live
  <2>2. m \in todo[r] /\ m \in Names /\ todo[r] \subseteq Names /\ \A n \in todo[r] : m =< n
    BY <2>1, PresentIsToDo
  <2>3. RunInv(r)
    BY <2>1 DEF OrderInv
  <2>4. \A n \in Names : n < m => n \in meta
    <3> SUFFICES ASSUME NEW n \in Names, n < m, n \in todo[r] PROVE FALSE
      BY <2>1, <2>3 DEF RunInv
    <3>1. m \in Nat /\ n \in Nat /\ m =< n
      BY <2>2, NamesAreNumbers
    <3> QED
      BY <3>1
  <2> HIDE DEF m
  <2>5. CASE End(r, "failed") /\ meta' = meta
    BY <1>3, <2>1, <2>5
  <2>6. CASE Continue(r, todo[r] \ {m}) /\ meta' = meta \cup {m}
    <3>1. Alone(r) /\ command' = command /\ todo'[r] = todo[r] \ {m}
      BY <2>6, ContinueMoves
    <3>2. LoggedInOrder'
      BY <2>4, <2>6 DEF OrderInv, LoggedInOrder
    <3>3. RunInv(r)'
      <4>1. \A a \in todo[r], n \in Names : a =< n => n \in todo[r]
        BY <2>1, <2>3 DEF RunInv
      <4>2. \A a \in todo[r] \ {m}, n \in Names : a =< n => n \in todo[r] \ {m}
        <5> SUFFICES ASSUME NEW a \in todo[r] \ {m}, a =< m PROVE FALSE
          BY <4>1
        <5>1. a \in Nat /\ m \in Nat /\ m =< a /\ a # m
          BY <2>2, NamesAreNumbers
        <5> QED
          BY <5>1
      <4>3. Names \ (todo[r] \ {m}) \subseteq meta \cup {m}
        BY <2>1, <2>3 DEF RunInv
      <4> QED
        BY <2>1, <2>6, <3>1, <4>2, <4>3 DEF RunInv
    <3>4. ASSUME NEW q \in Runs, Live(q)', q # r PROVE RunInv(q)'
      <4>1. Live(q) /\ todo'[q] = todo[q] /\ RunInv(q)
        BY <3>1, <3>4, OthersStay DEF OrderInv
      <4>2. command[q] # "down"
        BY <2>1, <3>4, <4>1 DEF RunInv
      <4> QED
        BY <2>6, <3>1, <4>1, <4>2 DEF RunInv
    <3> QED
      BY <3>2, <3>3, <3>4 DEF OrderInv
  <2> QED
    BY <1>7, <2>5, <2>6 DEF LogUp, m
<1>8. ASSUME NEW r \in Runs, LogDown(r) PROVE OrderInv'
  <2> DEFINE m == Present(r)
  <2>1. Live(r) /\ command[r] = "down"
    BY <1>8 DEF LogDown, Live
  <2>2. m \in todo[r] /\ m \in Names /\ todo[r] \subseteq Names /\ \A n \in todo[r] : n =< m
    BY <2>1, PresentIsToDo
  <2>3. /\ \A q \in Runs : Live(q) => q = r
        /\ todo[r] \subseteq meta
        /\ \A a \in meta \ todo[r], n \in todo[r] : a < n
    BY <2>1 DEF OrderInv, RunInv
  <2>4. Continue(r, todo[r] \ {m}) /\ meta' = meta \ {m}
    BY <1>8 DEF LogDown
  <2>5. Alone(r) /\ command' = command /\ todo'[r] = todo[r] \ {m}
    BY <2>4, ContinueMoves
  <2> HIDE DEF m
  <2>6. \A q \in Runs : Live(q)' => q = r
    BY <2>3, <2>5, OthersStay
  <2>7. \A a \in meta : ~(m < a)
    <3> SUFFICES ASSUME NEW a \in meta, m < a PROVE FALSE
      OBVIOUS
    <3>1. a \in Nat /\ m \in Nat
      BY <2>2, NamesAreNumbers DEF TypeOK
    <3>2. a =< m
      BY <2>2, <2>3, <3>1
    <3> QED
      BY <3>1, <3>2
  <2>8. LoggedInOrder'
    BY <2>4, <2>7 DEF OrderInv, LoggedInOrder
  <2>9. RunInv(r)'
    <3>1. todo[r] \ {m} \subseteq meta \ {m}
      BY <2>3
    <3>2. \A a \in (meta \ {m}) \ (todo[r] \ {m}), n \in todo[r] \ {m} : a < n
      BY <2>3
    <3> QED
      BY <2>1, <2>4, <2>5, <2>6, <3>1, <3>2 DEF RunInv
  <2> QED
    BY <2>6, <2>8, <2>9 DEF OrderInv
<1>9. ASSUME NEW r \in Runs, Breaks(r) PROVE OrderInv'
  BY <1>3, <1>9 DEF Breaks
<1>10. CASE UNCHANGED vars
  BY <1>10 DEF vars, run, OrderInv, LoggedInOrder, RunInv, Live
<1> QED
  BY <1>1, <1>2, <1>4, <1>5, <1>6, <1>7, <1>8, <1>9, <1>10
  DEF Next, StartStep, MigrationStep, StorageStep, BreakStep

-----------------------------------------------------------------------------
(* What is logged is applied                                               *)

\* What a run of up has made of the migration it is at.
MadeBy(r) ==
  IF pc[r] = "looking" THEN {} ELSE
  IF pc[r] = "running" THEN {Makes[Present(r)][k] : k \in 1..(step[r] - 1)}
                       ELSE Effects(Present(r))

\* It is there, unless a run of down dropped it and broke before it was off
\* the list: then the run found nothing to do.
MadeIsThere(r) ==
  MadeBy(r) \subseteq schema \/ (pc[r] = "logging" /\ HalfReverted(Present(r)))

AppliedInv ==
  /\ LoggedIsApplied
  /\ \A r \in Runs : Live(r) /\ command[r] = "up" => MadeIsThere(r)
  /\ \A r \in Runs : pc[r] = "broken" => todo[r] # {}

LEMMA HalfRevertedUpwards ==
  ASSUME TypeOK, AppliedInv, NEW m \in Names, NEW n \in Names, m =< n, HalfReverted(m)
  PROVE  HalfReverted(n)
<1>1. PICK r \in Runs : /\ command[r] = "down" /\ pc[r] \in {"logging", "broken"}
                        /\ Last(todo[r]) =< m
  BY DEF HalfReverted
<1>2. todo[r] # {} /\ todo[r] \subseteq Names
  BY <1>1 DEF TypeOK, AppliedInv, Live
<1>3. Last(todo[r]) \in Nat /\ m \in Nat /\ n \in Nat
  BY <1>2, LastIsGreatest, NamesAreNumbers
<1>4. Last(todo[r]) =< n
  BY <1>1, <1>3
<1> QED
  BY <1>1, <1>4 DEF HalfReverted

\* A run of down that reverts a migration, or broke there, stays until it
\* logs it.
LEMMA HalfRevertedKept ==
  ASSUME NEW r \in Runs, Alone(r),
         command[r] = "down" /\ pc[r] \in {"logging", "broken"} =>
           command'[r] = "down" /\ pc'[r] \in {"logging", "broken"} /\ todo'[r] = todo[r]
  PROVE  \A m : HalfReverted(m) => HalfReverted(m)'
<1> SUFFICES ASSUME NEW m, HalfReverted(m) PROVE HalfReverted(m)'
  OBVIOUS
<1>1. PICK q \in Runs : /\ command[q] = "down" /\ pc[q] \in {"logging", "broken"}
                        /\ Last(todo[q]) =< m
  BY DEF HalfReverted
<1>2. command'[q] = "down" /\ pc'[q] \in {"logging", "broken"} /\ todo'[q] = todo[q]
  BY <1>1 DEF Alone
<1> QED
  BY <1>1, <1>2 DEF HalfReverted

LEMMA OthersMade ==
  ASSUME NEW r \in Runs, Alone(r), NEW q \in Runs, q # r
  PROVE  MadeBy(q)' = MadeBy(q)
BY OthersStay DEF MadeBy

LEMMA NothingMadeYet ==
  ASSUME NEW r \in Runs, pc'[r] \in {"looking", "running"}, step'[r] = 1
  PROVE  MadeBy(r)' = {}
<1>1. 1..(step'[r] - 1) = {}
  OBVIOUS
<1> QED
  BY <1>1 DEF MadeBy

LEMMA AppliedKept ==
  ASSUME AppliedInv, NEW r \in Runs, Alone(r), meta' = meta, schema \subseteq schema',
         command[r] = "down" /\ pc[r] \in {"logging", "broken"} =>
           command'[r] = "down" /\ pc'[r] \in {"logging", "broken"} /\ todo'[r] = todo[r],
         Live(r)' /\ command'[r] = "up" => MadeIsThere(r)',
         pc'[r] = "broken" => todo'[r] # {}
  PROVE  AppliedInv'
<1>1. \A m : HalfReverted(m) => HalfReverted(m)'
  BY HalfRevertedKept
<1>2. LoggedIsApplied'
  BY <1>1 DEF AppliedInv, LoggedIsApplied
<1>3. ASSUME NEW q \in Runs, Live(q)', command'[q] = "up", q # r PROVE MadeIsThere(q)'
  <2>1. /\ Live(q) /\ command[q] = "up" /\ pc'[q] = pc[q] /\ Present(q)' = Present(q)
        /\ MadeBy(q)' = MadeBy(q)
    BY <1>3, OthersStay, OthersMade
  <2>2. MadeIsThere(q)
    BY <2>1 DEF AppliedInv
  <2>3. CASE MadeBy(q) \subseteq schema
    BY <2>1, <2>3 DEF MadeIsThere
  <2>4. CASE pc[q] = "logging" /\ HalfReverted(Present(q))
    <3>1. \E x \in Runs : /\ command'[x] = "down" /\ pc'[x] \in {"logging", "broken"}
                          /\ Last(todo'[x]) =< Present(q)
      BY <1>1, <2>4 DEF HalfReverted
    <3> QED
      BY <2>1, <2>4, <3>1 DEF MadeIsThere, HalfReverted
  <2> QED
    BY <2>2, <2>3, <2>4 DEF MadeIsThere
<1>4. \A q \in Runs : pc'[q] = "broken" => todo'[q] # {}
  BY OthersStay DEF AppliedInv
<1> QED
  BY <1>2, <1>3, <1>4 DEF AppliedInv

\* Objects that a statement of down drops belong to its migration or to later
\* ones.
LEMMA DropsLaterOnes ==
  ASSUME NEW m \in Names, NEW n \in Names, n < m
  PROVE  Effects(n) \cap Drops(Makes[m][1]) = {}
<1>1. /\ Needs["bots"] = {} /\ Needs["token index"] = {"bots"} /\ Needs["owner index"] = {"bots"}
      /\ Needs["updates"] = {"bots"} /\ Needs["updates index"] = {"updates"}
      /\ Needs["commands"] = {"bots"} /\ Needs["backfill"] = {"bots", "commands"}
  BY EffectsTabulated DEF Needs
<1>2. CASE m = 1
  BY <1>2, Numbers
<1>3. CASE m = 2
  <2>1. n = 1
    BY <1>3, Numbers
  <2> QED
    BY <1>1, <1>3, <2>1, EffectsTabulated, StatementsOfUpdates DEF Drops
<1>4. CASE m = 3
  <2>1. n = 1 \/ n = 2
    BY <1>4, Numbers
  <2> QED
    BY <1>1, <1>4, <2>1, EffectsTabulated, StatementsOfTheRest DEF Drops
<1>5. CASE m = 4
  <2>1. n = 1 \/ n = 2 \/ n = 3
    BY <1>5, Numbers
  <2> QED
    BY <1>1, <1>5, <2>1, EffectsTabulated, StatementsOfTheRest DEF Drops
<1> QED
  BY <1>2, <1>3, <1>4, <1>5, Numbers, Zenon

LEMMA NextAppliedInv ==
  TypeOK /\ TypeOK' /\ PlaceInv /\ OrderInv /\ AppliedInv /\ [Next]_vars => AppliedInv'
<1> SUFFICES ASSUME TypeOK, TypeOK', PlaceInv, OrderInv, AppliedInv, [Next]_vars PROVE AppliedInv'
  OBVIOUS
<1>1. ASSUME NEW r \in Runs, StartUp(r) PROVE AppliedInv'
  <2>1. /\ Alone(r) /\ schema' = schema /\ meta' = meta /\ pc[r] = "idle" /\ step'[r] = 1
        /\ pc'[r] \in {"done", "looking", "running"}
    BY <1>1, StartUpMoves
  <2>2. Live(r)' => MadeIsThere(r)'
    BY <2>1, NothingMadeYet DEF MadeIsThere, Live
  <2> QED
    BY <2>1, <2>2, AppliedKept
<1>2. ASSUME NEW r \in Runs, StartDown(r) PROVE AppliedInv'
  <2>1. /\ Alone(r) /\ schema' = schema /\ meta' = meta /\ pc[r] = "idle" /\ command'[r] = "down"
        /\ pc'[r] \in {"failed", "looking", "running"}
    BY <1>2, StartDownMoves
  <2> QED
    BY <2>1, AppliedKept
<1>3. ASSUME NEW r \in Runs, NEW how, End(r, how), Live(r), meta' = meta, schema' = schema,
             how \in {"failed", "broken"}, pc[r] = "logging" => how = "broken" \/ command[r] = "up"
      PROVE  AppliedInv'
  <2>1. /\ Alone(r) /\ pc'[r] = how /\ command' = command /\ todo' = todo
    BY <1>3, EndMoves
  <2>2. ~Live(r)' /\ pc[r] # "broken" /\ todo[r] # {}
    BY <1>3, <2>1 DEF Live, TypeOK
  <2> QED
    BY <1>3, <2>1, <2>2, AppliedKept
<1>4. ASSUME NEW r \in Runs, Look(r) PROVE AppliedInv'
  <2>1. Live(r) /\ pc[r] = "looking" /\ meta' = meta /\ schema' = schema
    BY <1>4 DEF Look, Live
  <2>2. CASE End(r, "failed")
    BY <1>3, <2>1, <2>2
  <2>3. ASSUME NEW how, End(r, how), how \in {"logging", "running"},
               command[r] = "up" => MadeIsThere(r)'
        PROVE  AppliedInv'
    <3>1. Alone(r) /\ pc'[r] = how /\ command' = command /\ todo' = todo
      BY <2>3, EndMoves
    <3> QED
      BY <2>1, <2>3, <3>1, AppliedKept
  <2>4. CASE End(r, "running") /\ ~NothingToDo(r)
    <3>1. pc'[r] = "running" /\ step' = step /\ Present(r)' = Present(r)
      BY <2>4, EndMoves
    <3>2. step'[r] = 1
      <4> DEFINE last == Len(Makes[Present(r)])
      <4>1. Present(r) \in {3, 4} /\ step[r] =< last
        BY <2>1 DEF PlaceInv, Looking
      <4>2. last = 1
        BY <4>1, StatementsOfTheRest, Zenon
      <4> HIDE DEF last
      <4> QED
        BY <3>1, <4>1, <4>2 DEF TypeOK
    <3>3. MadeIsThere(r)'
      BY <3>1, <3>2, NothingMadeYet DEF MadeIsThere
    <3> QED
      BY <2>3, <2>4, <3>3
  <2>5. CASE End(r, "logging") /\ NothingToDo(r)
    <3>1. pc'[r] = "logging" /\ Alone(r) /\ command' = command /\ todo' = todo /\ Present(r)' = Present(r)
      BY <2>5, EndMoves
    <3>2. MadeBy(r)' = Effects(Present(r))
      BY <3>1 DEF MadeBy
    <3>3. Present(r) \in {3, 4}
      BY <2>1 DEF PlaceInv, Looking
    <3>4. ASSUME command[r] = "up" PROVE MadeIsThere(r)'
      <4>1. CASE Present(r) = 3
        <5>1. "commands" \in schema
          BY <2>5, <3>4, <4>1 DEF NothingToDo
        <5> QED
          BY <2>1, <3>2, <4>1, <5>1, EffectsTabulated DEF MadeIsThere
      <4>2. CASE Present(r) = 4
        <5>1. "commands" \notin schema
          BY <2>5, <3>4, <4>2 DEF NothingToDo
        <5>2. 3 \notin todo[r]
          BY <2>1, <3>4, <4>2, PresentIsToDo
        <5>3. 3 \in meta
          BY <2>1, <3>4, <5>2, Numbers DEF OrderInv, RunInv
        <5>4. HalfReverted(3)
          BY <5>1, <5>3, EffectsTabulated DEF AppliedInv, LoggedIsApplied
        <5>5. HalfReverted(4)
          BY <5>4, HalfRevertedUpwards, Numbers
        <5>6. HalfReverted(4)'
          BY <3>1, <3>4, <5>5, HalfRevertedKept
        <5> QED
          BY <3>1, <4>2, <5>6 DEF MadeIsThere, HalfReverted
      <4> QED
        BY <3>3, <4>1, <4>2
    <3> QED
      BY <2>3, <2>5, <3>4
  <2> QED
    BY <1>4, <2>2, <2>4, <2>5 DEF Look
<1>5. ASSUME NEW r \in Runs, UpStatement(r) PROVE AppliedInv'
  <2> DEFINE m == Present(r)
             o == Makes[m][step[r]]
             last == Len(Makes[m])
  <2>1. Live(r) /\ pc[r] = "running" /\ command[r] = "up" /\ meta' = meta
    BY <1>5 DEF UpStatement, Live
  <2>2. m \in Names /\ step[r] =< last /\ step[r] \in 1..3
    BY <2>1, PresentIsToDo DEF PlaceInv, TypeOK
  <2>3. last \in 1..3
    BY <2>2, Lengths
  <2>4. {Makes[m][k] : k \in 1..(step[r] - 1)} \subseteq schema
    BY <2>1 DEF AppliedInv, MadeIsThere, MadeBy
  <2>5. CASE End(r, "failed") /\ schema' = schema
    BY <1>3, <2>1, <2>5
  <2>6. CASE /\ schema' = schema \cup {o} /\ step[r] < last
             /\ step' = [step EXCEPT ![r] = @ + 1] /\ UNCHANGED <<command, pc, todo>>
    <3>1. Alone(r) /\ step'[r] = step[r] + 1 /\ Present(r)' = m
      BY <2>6 DEF Alone, Present, TypeOK
    <3>2. MadeBy(r)' = {Makes[m][k] : k \in 1..step[r]}
      <4>1. step'[r] - 1 = step[r]
        BY <2>2, <3>1
      <4> QED
        BY <2>1, <2>6, <3>1, <4>1 DEF MadeBy
    <3>3. 1..step[r] = 1..(step[r] - 1) \cup {step[r]}
      BY <2>2
    <3>4. MadeBy(r)' \subseteq schema'
      BY <2>4, <2>6, <3>2, <3>3
    <3> QED
      BY <2>1, <2>6, <3>1, <3>4, AppliedKept DEF MadeIsThere
  <2>7. CASE schema' = schema \cup {o} /\ ~(step[r] < last) /\ End(r, "logging")
    <3>1. Alone(r) /\ pc'[r] = "logging" /\ command' = command /\ todo' = todo /\ Present(r)' = m
      BY <2>7, EndMoves
    <3>2. step[r] = last
      <4> HIDE DEF last
      <4> QED
        BY <2>2, <2>3, <2>7
    <3>3. 1..last = 1..(step[r] - 1) \cup {step[r]}
      <4> HIDE DEF last
      <4> QED
        BY <2>2, <3>2
    <3>4. Effects(m) = {Makes[m][k] : k \in 1..last}
      BY <2>2, StatementsMakeEffects
    <3>5. MadeBy(r)' = Effects(m)
      BY <3>1 DEF MadeBy
    <3>6. MadeBy(r)' \subseteq schema'
      <4> HIDE DEF last
      <4> QED
        BY <2>4, <2>7, <3>3, <3>4, <3>5
    <3> QED
      BY <2>1, <2>7, <3>1, <3>6, AppliedKept DEF MadeIsThere
  <2> QED
    BY <1>5, <2>5, <2>6, <2>7 DEF UpStatement
<1>6. ASSUME NEW r \in Runs, DownStatement(r) PROVE AppliedInv'
  <2> DEFINE m == Present(r)
  <2>1. Live(r) /\ pc[r] = "running" /\ command[r] = "down" /\ meta' = meta
    BY <1>6 DEF DownStatement, Live
  <2>2. CASE End(r, "failed") /\ schema' = schema
    BY <1>3, <2>1, <2>2
  <2>3. CASE End(r, "logging") /\ schema' = schema \ Drops(Makes[m][1])
    <3>1. Alone(r) /\ pc'[r] = "logging" /\ command' = command /\ todo' = todo
      BY <2>3, EndMoves
    <3>2. m \in Names /\ m = Last(todo[r])
      BY <2>1, PresentIsToDo
    <3>3. \A a : HalfReverted(a) => HalfReverted(a)'
      BY <2>1, <3>1, HalfRevertedKept
    <3>4. ASSUME NEW a \in meta PROVE Effects(a) \subseteq schema' \/ HalfReverted(a)'
      <4>0. a \in Names /\ a \in Nat /\ m \in Nat
        BY <3>2, NamesAreNumbers DEF TypeOK
      <4>1. CASE m =< a
        BY <2>1, <3>1, <3>2, <4>1 DEF HalfReverted
      <4>2. CASE a < m
        <5>1. Effects(a) \cap Drops(Makes[m][1]) = {}
          BY <3>2, <4>0, <4>2, DropsLaterOnes
        <5>2. Effects(a) \subseteq schema \/ HalfReverted(a)
          BY DEF AppliedInv, LoggedIsApplied
        <5> QED
          BY <2>3, <3>3, <5>1, <5>2
      <4> QED
        BY <4>0, <4>1, <4>2
    <3>5. LoggedIsApplied'
      BY <2>1, <3>4 DEF LoggedIsApplied
    <3>6. \A q \in Runs : Live(q)' => command'[q] = "down"
      BY <2>1, <3>1, OthersStay DEF OrderInv, RunInv
    <3>7. \A q \in Runs : pc'[q] = "broken" => todo'[q] # {}
      BY <3>1, OthersStay DEF AppliedInv
    <3> QED
      BY <3>5, <3>6, <3>7 DEF AppliedInv
  <2> QED
    BY <1>6, <2>2, <2>3 DEF DownStatement
<1>7. ASSUME NEW r \in Runs, LogUp(r) PROVE AppliedInv'
  <2> DEFINE m == Present(r)
  <2>1. Live(r) /\ pc[r] = "logging" /\ command[r] = "up" /\ schema' = schema
    BY <1>7 DEF LogUp, Live
  <2>2. CASE End(r, "failed") /\ meta' = meta
    BY <1>3, <2>1, <2>2
  <2>3. CASE Continue(r, todo[r] \ {m}) /\ meta' = meta \cup {m}
    <3>1. /\ Alone(r) /\ command' = command /\ step'[r] = 1
          /\ pc'[r] \in {"done", "looking", "running"}
      BY <2>3, ContinueMoves
    <3>2. \A a : HalfReverted(a) => HalfReverted(a)'
      BY <2>1, <3>1, HalfRevertedKept
    <3>3. MadeIsThere(r) /\ MadeBy(r) = Effects(m)
      BY <2>1 DEF AppliedInv, MadeBy
    <3>4. Effects(m) \subseteq schema \/ HalfReverted(m)
      BY <3>3 DEF MadeIsThere
    <3>5. LoggedIsApplied'
      BY <2>1, <2>3, <3>2, <3>4 DEF AppliedInv, LoggedIsApplied
    <3>6. MadeBy(r)' = {} \/ ~Live(r)'
      BY <3>1, NothingMadeYet DEF Live
    <3>7. ASSUME NEW q \in Runs, Live(q)', command'[q] = "up", q # r PROVE MadeIsThere(q)'
      <4>1. /\ Live(q) /\ command[q] = "up" /\ pc'[q] = pc[q] /\ Present(q)' = Present(q)
            /\ MadeBy(q)' = MadeBy(q)
        BY <3>1, <3>7, OthersStay, OthersMade
      <4>2. MadeIsThere(q)
        BY <4>1 DEF AppliedInv
      <4>3. CASE MadeBy(q) \subseteq schema
        BY <2>1, <4>1, <4>3 DEF MadeIsThere
      <4>4. CASE pc[q] = "logging" /\ HalfReverted(Present(q))
        <5>1. \E x \in Runs : /\ command'[x] = "down" /\ pc'[x] \in {"logging", "broken"}
                              /\ Last(todo'[x]) =< Present(q)
          BY <3>2, <4>4 DEF HalfReverted
        <5> QED
          BY <4>1, <4>4, <5>1 DEF MadeIsThere, HalfReverted
      <4> QED
        BY <4>2, <4>3, <4>4 DEF MadeIsThere
    <3>8. \A q \in Runs : pc'[q] = "broken" => todo'[q] # {}
      BY <3>1, OthersStay DEF AppliedInv
    <3> QED
      BY <3>5, <3>6, <3>7, <3>8 DEF AppliedInv, MadeIsThere
  <2> QED
    BY <1>7, <2>2, <2>3 DEF LogUp
<1>8. ASSUME NEW r \in Runs, LogDown(r) PROVE AppliedInv'
  <2> DEFINE m == Present(r)
  <2>1. Live(r) /\ pc[r] = "logging" /\ command[r] = "down" /\ schema' = schema
    BY <1>8 DEF LogDown, Live
  <2>2. Continue(r, todo[r] \ {m}) /\ meta' = meta \ {m}
    BY <1>8 DEF LogDown
  <2>3. /\ Alone(r) /\ command' = command /\ pc'[r] \in {"done", "looking", "running"}
    BY <2>2, ContinueMoves
  <2>4. m = Last(todo[r]) /\ m \in Names
    BY <2>1, PresentIsToDo
  <2>5. ASSUME NEW a \in meta, a # m PROVE a < m
    <3>1. a \in Nat /\ m \in Nat
      BY <2>4, NamesAreNumbers DEF TypeOK
    <3>2. CASE a \in todo[r]
      BY <2>1, <2>5, <3>1, <3>2, PresentIsToDo
    <3>3. CASE a \notin todo[r]
      <4>1. m \in todo[r]
        BY <2>1, PresentIsToDo
      <4> QED
        BY <2>1, <3>3, <4>1 DEF OrderInv, RunInv
    <3> QED
      BY <3>2, <3>3
  <2>6. ASSUME NEW a \in meta, a # m PROVE Effects(a) \subseteq schema' \/ HalfReverted(a)'
    <3>1. Effects(a) \subseteq schema \/ HalfReverted(a)
      BY DEF AppliedInv, LoggedIsApplied
    <3>2. ASSUME HalfReverted(a) PROVE HalfReverted(a)'
      <4>1. PICK q \in Runs : /\ command[q] = "down" /\ pc[q] \in {"logging", "broken"}
                              /\ Last(todo[q]) =< a
        BY <3>2 DEF HalfReverted
      <4>2. q # r
        <5>1. a < m /\ a \in Nat /\ m \in Nat
          BY <2>4, <2>5, <2>6, NamesAreNumbers DEF TypeOK
        <5>2. ~(m =< a)
          BY <5>1
        <5> QED
          BY <2>4, <4>1, <5>2
      <4>3. command'[q] = "down" /\ pc'[q] = pc[q] /\ todo'[q] = todo[q]
        BY <2>3, <4>1, <4>2, OthersStay
      <4> QED
        BY <4>1, <4>3 DEF HalfReverted
    <3> QED
      BY <2>1, <3>1, <3>2
  <2>7. LoggedIsApplied'
    BY <2>2, <2>6 DEF LoggedIsApplied
  <2>8. \A q \in Runs : Live(q)' => command'[q] = "down"
    BY <2>1, <2>3, OthersStay DEF OrderInv, RunInv
  <2>9. \A q \in Runs : pc'[q] = "broken" => todo'[q] # {}
    BY <2>3, OthersStay DEF AppliedInv
  <2> QED
    BY <2>7, <2>8, <2>9 DEF AppliedInv
<1>9. ASSUME NEW r \in Runs, Breaks(r) PROVE AppliedInv'
  BY <1>3, <1>9 DEF Breaks
<1>10. CASE UNCHANGED vars
  BY <1>10 DEF vars, run, AppliedInv, LoggedIsApplied, MadeIsThere, MadeBy, HalfReverted, Live, Present
<1> QED
  BY <1>1, <1>2, <1>4, <1>5, <1>6, <1>7, <1>8, <1>9, <1>10
  DEF Next, StartStep, MigrationStep, StorageStep, BreakStep

-----------------------------------------------------------------------------
(* One run survives                                                        *)

\* What the migrations make that a run has not to do any more.
Behind(r) == UNION {Effects(m) : m \in Names \ todo[r]}

\* A run that leads is the first everywhere: nothing is logged or made that it
\* has not behind it or found as it goes.
Leads(r) ==
  /\ Live(r)
  /\ meta = Names \ todo[r]
  /\ schema = Behind(r) \cup MadeBy(r)

Untouched == (\A r \in Runs : pc[r] = "idle") /\ meta = {} /\ schema = {}
Complete  == meta = Names /\ schema = Objects

LeaderInv ==
  downs = 0 =>
    /\ \A r \in Runs : command[r] = "up"
    /\ broken = 0 => Untouched \/ Complete \/ \E r \in Runs : Leads(r)

LEMMA TableOfNeeds ==
  /\ Needs["bots"] = {} /\ Needs["token index"] = {"bots"} /\ Needs["owner index"] = {"bots"}
  /\ Needs["updates"] = {"bots"} /\ Needs["updates index"] = {"updates"}
  /\ Needs["commands"] = {"bots"} /\ Needs["backfill"] = {"bots", "commands"}
BY EffectsTabulated DEF Needs

\* What a statement needs is made by the ones before it.
LEMMA NeedsComeFirst ==
  ASSUME NEW m \in Names, NEW k \in 1..Len(Makes[m])
  PROVE  Needs[Makes[m][k]] \subseteq
           {Makes[m][j] : j \in 1..(k - 1)} \cup UNION {Effects(n) : n \in {x \in Names : x < m}}
<1> DEFINE before == {Makes[m][j] : j \in 1..(k - 1)}
           below  == UNION {Effects(n) : n \in {x \in Names : x < m}}
<1>1. ASSUME m > 1 PROVE "bots" \in below
  <2>1. 1 \in Names /\ 1 < m
    BY <1>1, Numbers
  <2>2. "bots" \in Effects(1)
    BY EffectsTabulated
  <2> QED
    BY <2>1, <2>2
<1>2. CASE m = 1
  <2>1. k \in {1, 2, 3}
    BY <1>2, StatementsMakeEffects, StatementsOfBots, Zenon
  <2>2. CASE k = 1
    BY <1>2, <2>2, StatementsOfBots, TableOfNeeds
  <2>3. CASE k \in {2, 3}
    <3>1. 1 \in 1..(k - 1)
      BY <2>3
    <3>2. "bots" \in before
      BY <1>2, <3>1, StatementsOfBots
    <3>3. Needs[Makes[m][k]] = {"bots"}
      BY <1>2, <2>3, StatementsOfBots, TableOfNeeds, Zenon
    <3> QED
      BY <3>2, <3>3
  <2> QED
    BY <2>1, <2>2, <2>3
<1>3. CASE m = 2
  <2>1. k \in {1, 2}
    BY <1>3, StatementsMakeEffects, StatementsOfUpdates, Zenon
  <2>2. CASE k = 1
    <3>1. Needs[Makes[m][k]] = {"bots"}
      BY <1>3, <2>2, StatementsOfUpdates, TableOfNeeds, Zenon
    <3> QED
      BY <1>1, <1>3, <3>1
  <2>3. CASE k = 2
    <3>1. 1 \in 1..(k - 1)
      BY <2>3
    <3>2. "updates" \in before
      BY <1>3, <3>1, StatementsOfUpdates
    <3>3. Needs[Makes[m][k]] = {"updates"}
      BY <1>3, <2>3, StatementsOfUpdates, TableOfNeeds, Zenon
    <3> QED
      BY <3>2, <3>3
  <2> QED
    BY <2>1, <2>2, <2>3
<1>4. CASE m = 3
  <2>1. k = 1
    BY <1>4, StatementsMakeEffects, StatementsOfTheRest, Zenon
  <2>2. Needs[Makes[m][k]] = {"bots"}
    BY <1>4, <2>1, StatementsOfTheRest, TableOfNeeds, Zenon
  <2> QED
    BY <1>1, <1>4, <2>2
<1>5. CASE m = 4
  <2>1. k = 1
    BY <1>5, StatementsMakeEffects, StatementsOfTheRest, Zenon
  <2>2. Needs[Makes[m][k]] = {"bots", "commands"}
    BY <1>5, <2>1, StatementsOfTheRest, TableOfNeeds, Zenon
  <2>3. "commands" \in below
    <3>1. 3 \in Names /\ 3 < m
      BY <1>5, Numbers
    <3>2. "commands" \in Effects(3)
      BY EffectsTabulated
    <3> QED
      BY <3>1, <3>2
  <2> QED
    BY <1>1, <1>5, <2>2, <2>3
<1> QED
  BY <1>2, <1>3, <1>4, <1>5, Numbers, Zenon

LEMMA MadeIsOfThePresent ==
  ASSUME TypeOK, PlaceInv, NEW r \in Runs, Live(r)
  PROVE  MadeBy(r) \subseteq Effects(Present(r))
<1> DEFINE m == Present(r)
           last == Len(Makes[m])
<1>1. m \in Names /\ step[r] =< last /\ step[r] \in 1..3
  BY PresentIsToDo DEF PlaceInv, TypeOK
<1>2. last \in 1..3
  BY <1>1, Lengths
<1>3. Effects(m) = {Makes[m][k] : k \in 1..last}
  BY <1>1, StatementsMakeEffects
<1>4. 1..(step[r] - 1) \subseteq 1..last
  <2> HIDE DEF last
  <2> QED
    BY <1>1, <1>2
<1>5. {Makes[m][k] : k \in 1..(step[r] - 1)} \subseteq Effects(m)
  <2> HIDE DEF last
  <2> QED
    BY <1>3, <1>4
<1> QED
  BY <1>5 DEF MadeBy

\* A statement that is to come is no object of the schema of a run that leads.
LEMMA LeaderMakesTheNext ==
  ASSUME TypeOK, PlaceInv, NEW r \in Runs, Leads(r), pc[r] = "running", command[r] = "up", RunInv(r)
  PROVE  LET o == Makes[Present(r)][step[r]]
         IN o \notin schema /\ Needs[o] \subseteq schema
<1> DEFINE m == Present(r)
           o == Makes[m][step[r]]
           last == Len(Makes[m])
           before == {Makes[m][j] : j \in 1..(step[r] - 1)}
<1>1. /\ Live(r) /\ m \in Names /\ m \in todo[r] /\ step[r] \in 1..3 /\ step[r] =< last
      /\ \A n \in todo[r] : m =< n
  BY PresentIsToDo DEF Leads, PlaceInv, TypeOK
<1>2. last \in 1..3
  BY <1>1, Lengths
<1>3. step[r] \in 1..last
  <2> HIDE DEF last
  <2> QED
    BY <1>1, <1>2
<1>4. o \in Effects(m)
  BY <1>1, <1>3, StatementsMakeEffects
<1>5. schema = Behind(r) \cup before
  BY DEF Leads, MadeBy
<1>6. o \notin Behind(r)
  BY <1>1, <1>4, EffectsAreApart DEF Behind
<1>7. o \notin before
  <2> SUFFICES ASSUME NEW j \in 1..(step[r] - 1), Makes[m][j] = Makes[m][step[r]] PROVE FALSE
    OBVIOUS
  <2>1. j \in 1..last
    <3> HIDE DEF last
    <3> QED
      BY <1>1, <1>2
  <2>2. j = step[r]
    BY <1>1, <1>3, <2>1, StatementsAreApart
  <2> QED
    BY <1>1, <2>2
<1>8. Needs[o] \subseteq before \cup UNION {Effects(n) : n \in {x \in Names : x < m}}
  BY <1>1, <1>3, NeedsComeFirst
<1>9. \A n \in Names : n < m => n \in Names \ todo[r]
  <2> SUFFICES ASSUME NEW n \in Names, n < m, n \in todo[r] PROVE FALSE
    OBVIOUS
  <2>1. m =< n /\ m \in Nat /\ n \in Nat
    BY <1>1, NamesAreNumbers
  <2> HIDE DEF m
  <2> QED
    BY <2>1
<1>10. UNION {Effects(n) : n \in {x \in Names : x < m}} \subseteq Behind(r)
  BY <1>9 DEF Behind
<1> QED
  BY <1>5, <1>6, <1>7, <1>8, <1>10

\* A run at a migration that is not logged is where the leader is.
LEMMA SamePlace ==
  ASSUME TypeOK, OrderInv, NEW l \in Runs, Leads(l), command[l] = "up",
         NEW r \in Runs, Live(r), command[r] = "up", Present(r) \notin meta
  PROVE  todo[r] = todo[l] /\ Present(r) = Present(l)
<1>1. /\ Present(r) \in todo[l] /\ Present(r) \in Nat /\ todo[r] \subseteq Names /\ todo[l] \subseteq Names
      /\ \A n \in todo[r] : Present(r) =< n
  BY PresentIsToDo, NamesAreNumbers DEF Leads, TypeOK
<1>2. RunInv(r) /\ RunInv(l)
  BY DEF OrderInv, Leads
<1>3. todo[l] \subseteq todo[r]
  BY <1>1, <1>2 DEF RunInv, Leads
<1>4. todo[r] \subseteq todo[l]
  BY <1>1, <1>2 DEF RunInv
<1>5. todo[r] = todo[l]
  BY <1>3, <1>4
<1> QED
  BY <1>5 DEF Present

LEMMA LeaderKept ==
  ASSUME NEW r \in Runs, Alone(r), schema' = schema, meta' = meta,
         NEW l \in Runs, Leads(l), l # r
  PROVE  Leads(l)'
<1>1. Live(l)' /\ todo'[l] = todo[l] /\ MadeBy(l)' = MadeBy(l)
  BY OthersStay, OthersMade DEF Leads
<1> QED
  BY <1>1 DEF Leads, Behind

\* A statement that makes what the schema has not is the leader's, or makes
\* its run a leader.
LEMMA StatementOfALeader ==
  ASSUME TypeOK, PlaceInv, OrderInv, AppliedInv, \A q \in Runs : command[q] = "up",
         NEW l \in Runs, Leads(l),
         NEW r \in Runs, Live(r), pc[r] = "running",
         Makes[Present(r)][step[r]] \notin schema
  PROVE  Leads(r)
<1> DEFINE m == Present(r)
           o == Makes[m][step[r]]
           last == Len(Makes[m])
           before(k) == {Makes[m][j] : j \in 1..(k - 1)}
<1>1. /\ m \in Names /\ m \in todo[r] /\ step[r] \in 1..3 /\ step[r] =< last
      /\ step[l] \in 1..3
  BY PresentIsToDo DEF PlaceInv, TypeOK
<1>2. last \in 1..3
  BY <1>1, Lengths
<1>3. step[r] \in 1..last
  <2> HIDE DEF last
  <2> QED
    BY <1>1, <1>2
<1>4. o \in Effects(m)
  BY <1>1, <1>3, StatementsMakeEffects
<1>5. m \notin meta
  <2>1. \A q \in Runs : command[q] # "down"
    OBVIOUS
  <2>2. m \in meta => Effects(m) \subseteq schema
    BY <2>1 DEF AppliedInv, LoggedIsApplied, HalfReverted
  <2> QED
    BY <1>4, <2>2
<1>6. todo[r] = todo[l] /\ m = Present(l)
  BY <1>5, SamePlace
<1>7. MadeBy(r) = before(step[r])
  BY DEF MadeBy
<1>8. before(step[r]) \subseteq schema
  BY <1>7 DEF AppliedInv, MadeIsThere
<1>9. before(step[r]) \subseteq Effects(m)
  BY <1>7, MadeIsOfThePresent
<1>10. before(step[r]) \cap Behind(l) = {}
  BY <1>1, <1>6, <1>9, EffectsAreApart DEF Behind
<1>11. before(step[r]) \subseteq MadeBy(l)
  BY <1>8, <1>10 DEF Leads
<1>12. MadeBy(l) \subseteq before(step[r])
  <2>1. CASE pc[l] = "looking"
    BY <2>1 DEF MadeBy
  <2>2. CASE pc[l] = "running"
    <3>1. MadeBy(l) = before(step[l])
      BY <1>6, <2>2 DEF MadeBy
    <3>2. ~(step[r] \in 1..(step[l] - 1))
      BY <3>1 DEF Leads
    <3>3. 1..(step[l] - 1) \subseteq 1..(step[r] - 1)
      BY <1>1, <3>2
    <3> QED
      BY <3>1, <3>3
  <2>3. CASE pc[l] = "logging"
    <3>1. MadeBy(l) = Effects(m)
      BY <1>6, <2>3 DEF MadeBy
    <3> QED
      BY <1>4, <3>1 DEF Leads
  <2> QED
    BY <2>1, <2>2, <2>3 DEF Leads, Live
<1>13. MadeBy(r) = MadeBy(l) /\ Behind(r) = Behind(l)
  BY <1>6, <1>7, <1>11, <1>12 DEF Behind
<1> QED
  BY <1>6, <1>13 DEF Leads

\* So does logging what is not logged.
LEMMA LoggingOfALeader ==
  ASSUME TypeOK, PlaceInv, OrderInv, AppliedInv, \A q \in Runs : command[q] = "up",
         NEW l \in Runs, Leads(l),
         NEW r \in Runs, Live(r), pc[r] = "logging", Present(r) \notin meta
  PROVE  Leads(r)
<1>1. todo[r] = todo[l] /\ Present(r) = Present(l)
  BY SamePlace
<1>2. MadeBy(r) = Effects(Present(r))
  BY DEF MadeBy
<1>3. MadeBy(r) \subseteq schema
  <2>1. \A q \in Runs : command[q] # "down"
    OBVIOUS
  <2> QED
    BY <2>1 DEF AppliedInv, MadeIsThere, HalfReverted
<1>4. MadeBy(l) \subseteq MadeBy(r)
  BY <1>1, <1>2, MadeIsOfThePresent DEF Leads
<1>5. Behind(r) = Behind(l)
  BY <1>1 DEF Behind
<1>6. schema = Behind(r) \cup MadeBy(r)
  BY <1>3, <1>4, <1>5 DEF Leads
<1> QED
  BY <1>1, <1>6 DEF Leads

LEMMA NextLeaderInv ==
  TypeOK /\ TypeOK' /\ PlaceInv /\ OrderInv /\ AppliedInv /\ LeaderInv /\ [Next]_vars => LeaderInv'
<1> SUFFICES ASSUME TypeOK, TypeOK', PlaceInv, OrderInv, AppliedInv, LeaderInv, [Next]_vars
             PROVE  LeaderInv'
  OBVIOUS
<1>0. downs \in Nat /\ broken \in Nat
  BY BoundsAssumption DEF TypeOK
<1>1. ASSUME NEW r \in Runs, StartUp(r) PROVE LeaderInv'
  <2>1. /\ Alone(r) /\ UNCHANGED <<schema, meta, broken, downs>> /\ pc[r] = "idle"
        /\ command'[r] = "up" /\ todo'[r] = Names \ meta /\ step'[r] = 1
    BY <1>1, StartUpMoves
  <2>2. ASSUME downs = 0 PROVE \A q \in Runs : command'[q] = "up"
    BY <2>1, <2>2, OthersStay DEF LeaderInv
  <2>3. ASSUME Untouched PROVE Leads(r)'
    <3>1. meta # Names
      BY <2>3, Numbers DEF Untouched
    <3>2. pc'[r] \in {"looking", "running"}
      BY <1>1, <3>1, StartUpMoves
    <3>3. MadeBy(r)' = {}
      BY <2>1, <3>2, NothingMadeYet
    <3>4. todo'[r] = Names
      BY <2>1, <2>3 DEF Untouched
    <3> QED
      BY <2>1, <2>3, <3>2, <3>3, <3>4 DEF Untouched, Leads, Live, Behind
  <2>4. ASSUME NEW l \in Runs, Leads(l) PROVE Leads(l)'
    <3>1. l # r
      BY <2>1, <2>4 DEF Leads, Live
    <3> QED
      BY <2>1, <2>4, <3>1, LeaderKept
  <2>5. Complete => Complete'
    BY <2>1 DEF Complete
  <2> QED
    BY <2>1, <2>2, <2>3, <2>4, <2>5 DEF LeaderInv
<1>2. ASSUME NEW r \in Runs, StartDown(r) PROVE LeaderInv'
  <2>1. downs' # 0
    BY <1>0, <1>2 DEF StartDown
  <2> QED
    BY <2>1 DEF LeaderInv
<1>3. ASSUME NEW r \in Runs, Live(r), Alone(r), command' = command, UNCHANGED <<broken, downs>>,
             downs = 0, \A q \in Runs : command[q] = "up",
             Complete => Complete',
             \A l \in Runs : Leads(l) => Complete' \/ \E q \in Runs : Leads(q)'
      PROVE  LeaderInv'
  <2>1. ~Untouched
    BY <1>3 DEF Untouched, Live
  <2> QED
    BY <1>3, <2>1 DEF LeaderInv
<1>4. ASSUME downs' # 0 \/ downs' = downs, downs' = downs /\ downs = 0 => LeaderInv' PROVE LeaderInv'
  BY <1>4 DEF LeaderInv
<1>5. ASSUME NEW r \in Runs, Look(r), downs = 0 PROVE LeaderInv'
  <2>1. /\ Live(r) /\ pc[r] = "looking" /\ UNCHANGED <<schema, meta, broken, downs>>
        /\ \A q \in Runs : command[q] = "up"
    BY <1>5 DEF Look, Live, LeaderInv
  <2>2. \E how : End(r, how)
    BY <1>5 DEF Look
  <2>3. Alone(r) /\ command' = command /\ todo' = todo /\ step' = step /\ Present(r)' = Present(r)
    BY <2>2, EndMoves
  <2>4. ASSUME Leads(r) PROVE Leads(r)'
    <3>1. MadeBy(r) = {} /\ schema = Behind(r)
      BY <2>1, <2>4 DEF MadeBy, Leads
    <3>2. /\ Present(r) \in {3, 4} /\ Present(r) \in todo[r] /\ \A n \in todo[r] : Present(r) =< n
      BY <2>1, PresentIsToDo DEF PlaceInv, Looking
    <3>3. 1 \notin todo[r] /\ 2 \notin todo[r] /\ (Present(r) = 4 => 3 \notin todo[r])
      BY <3>2
    <3>4. "bots" \in schema
      BY <3>1, <3>3, Numbers, EffectsTabulated DEF Behind
    <3>5. CASE End(r, "logging") /\ NothingToDo(r)
      <4>1. pc'[r] = "logging"
        BY <3>5, EndMoves
      <4>2. MadeBy(r)' = Effects(Present(r))
        BY <2>3, <4>1 DEF MadeBy
      <4>3. CASE Present(r) = 3
        <5>1. Effects(3) \subseteq schema
          BY <2>1, <3>5, <4>3, EffectsTabulated DEF NothingToDo
        <5> QED
          BY <2>1, <2>3, <2>4, <3>1, <4>1, <4>2, <4>3, <5>1 DEF Leads, Behind, Live
      <4>4. CASE Present(r) = 4
        <5>1. "commands" \notin schema
          BY <2>1, <3>5, <4>4 DEF NothingToDo
        <5>2. "commands" \in schema
          BY <3>1, <3>3, <4>4, Numbers, EffectsTabulated DEF Behind
        <5> QED
          BY <5>1, <5>2
      <4> QED
        BY <3>2, <4>3, <4>4
    <3>6. CASE End(r, "running")
      <4>1. pc'[r] = "running"
        BY <3>6, EndMoves
      <4>2. step'[r] = 1
        <5> DEFINE last == Len(Makes[Present(r)])
        <5>1. step[r] =< last
          BY <2>1 DEF PlaceInv
        <5>2. last = 1
          BY <3>2, StatementsOfTheRest, Zenon
        <5> HIDE DEF last
        <5> QED
          BY <2>3, <5>1, <5>2 DEF TypeOK
      <4>3. MadeBy(r)' = {}
        BY <4>1, <4>2, NothingMadeYet
      <4> QED
        BY <2>1, <2>3, <2>4, <3>1, <4>1, <4>3 DEF Leads, Behind, Live
    <3> QED
      BY <1>5, <2>1, <3>4, <3>5, <3>6 DEF Look
  <2>5. \A l \in Runs : Leads(l) => Leads(l)'
    BY <2>1, <2>3, <2>4, LeaderKept
  <2> QED
    BY <1>3, <1>5, <2>1, <2>3, <2>5 DEF Complete
<1>6. ASSUME NEW r \in Runs, UpStatement(r), downs = 0 PROVE LeaderInv'
  <2> DEFINE m == Present(r)
             o == Makes[m][step[r]]
             last == Len(Makes[m])
  <2>1. /\ Live(r) /\ pc[r] = "running" /\ UNCHANGED <<meta, broken, downs>>
        /\ \A q \in Runs : command[q] = "up"
    BY <1>6 DEF UpStatement, Live, LeaderInv
  <2>2. m \in Names /\ step[r] =< last /\ step[r] \in 1..3
    BY <2>1, PresentIsToDo DEF PlaceInv, TypeOK
  <2>3. last \in 1..3
    BY <2>2, Lengths
  <2>4. step[r] \in 1..last
    <3> HIDE DEF last
    <3> QED
      BY <2>2, <2>3
  <2>5. o \in Effects(m) /\ Effects(m) \subseteq Objects
    BY <2>2, <2>4, StatementsMakeEffects
  <2>6. Leads(r) => o \notin schema /\ Needs[o] \subseteq schema
    BY <2>1, LeaderMakesTheNext DEF OrderInv
  <2>7. CASE End(r, "failed") /\ schema' = schema /\ UpFails(r, o)
    <3>1. Alone(r) /\ command' = command
      BY <2>7, EndMoves
    <3>2. ~Leads(r)
      BY <2>6, <2>7 DEF UpFails
    <3>3. \A l \in Runs : Leads(l) => Leads(l)'
      BY <2>1, <2>7, <3>1, <3>2, LeaderKept
    <3> QED
      BY <1>3, <1>6, <2>1, <2>7, <3>1, <3>3 DEF Complete
  <2>8. ASSUME schema' = schema \cup {o}, Alone(r), command' = command, todo' = todo,
               Live(r)', MadeBy(r)' = MadeBy(r) \cup {o}
        PROVE  LeaderInv'
    <3>1. Complete => Complete'
      BY <2>1, <2>5, <2>8 DEF Complete
    <3>2. ASSUME NEW l \in Runs, Leads(l) PROVE \E q \in Runs : Leads(q)'
      <4>1. CASE o \in schema
        <5>1. l # r
          BY <2>6, <3>2, <4>1
        <5> QED
          BY <2>1, <2>8, <3>2, <4>1, <5>1, LeaderKept
      <4>2. CASE o \notin schema
        <5>1. Leads(r)
          BY <2>1, <3>2, <4>2, StatementOfALeader
        <5>2. Behind(r)' = Behind(r)
          BY <2>8 DEF Behind
        <5>3. Leads(r)'
          BY <2>1, <2>8, <5>1, <5>2 DEF Leads
        <5> QED
          BY <5>3
      <4> QED
        BY <4>1, <4>2
    <3> QED
      BY <1>3, <1>6, <2>1, <2>8, <3>1, <3>2
  <2>9. MadeBy(r) = {Makes[m][k] : k \in 1..(step[r] - 1)}
    BY <2>1 DEF MadeBy
  <2>10. 1..step[r] = 1..(step[r] - 1) \cup {step[r]}
    BY <2>2
  <2>11. {Makes[m][k] : k \in 1..step[r]} = MadeBy(r) \cup {o}
    BY <2>9, <2>10
  <2>12. CASE /\ schema' = schema \cup {o} /\ step[r] < last
              /\ step' = [step EXCEPT ![r] = @ + 1] /\ UNCHANGED <<command, pc, todo>>
    <3>1. Alone(r) /\ step'[r] = step[r] + 1 /\ Present(r)' = m
      BY <2>12 DEF Alone, Present, TypeOK
    <3>2. step'[r] - 1 = step[r]
      BY <2>2, <3>1
    <3>3. MadeBy(r)' = {Makes[m][k] : k \in 1..step[r]}
      BY <2>1, <2>12, <3>1, <3>2 DEF MadeBy
    <3>4. Live(r)'
      BY <2>1, <2>12 DEF Live
    <3> HIDE DEF o
    <3> QED
      BY <2>8, <2>11, <2>12, <3>1, <3>3, <3>4
  <2>13. CASE schema' = schema \cup {o} /\ ~(step[r] < last) /\ End(r, "logging")
    <3>1. Alone(r) /\ pc'[r] = "logging" /\ command' = command /\ todo' = todo /\ Present(r)' = m
      BY <2>13, EndMoves
    <3>2. step[r] = last
      <4> HIDE DEF last
      <4> QED
        BY <2>2, <2>3, <2>13
    <3>3. Effects(m) = {Makes[m][k] : k \in 1..last}
      BY <2>2, StatementsMakeEffects
    <3>4. MadeBy(r)' = {Makes[m][k] : k \in 1..step[r]}
      BY <3>1, <3>2, <3>3 DEF MadeBy
    <3>5. Live(r)'
      BY <3>1 DEF Live
    <3> HIDE DEF o
    <3> QED
      BY <2>8, <2>11, <2>13, <3>1, <3>4, <3>5
  <2> QED
    BY <1>6, <2>7, <2>12, <2>13 DEF UpStatement
<1>7. ASSUME NEW r \in Runs, DownStatement(r), downs = 0 PROVE LeaderInv'
  BY <1>7 DEF DownStatement, LeaderInv
<1>8. ASSUME NEW r \in Runs, LogUp(r), downs = 0 PROVE LeaderInv'
  <2> DEFINE m == Present(r)
  <2>1. /\ Live(r) /\ pc[r] = "logging" /\ UNCHANGED <<schema, broken, downs>>
        /\ \A q \in Runs : command[q] = "up"
    BY <1>8 DEF LogUp, Live, LeaderInv
  <2>2. m \in todo[r] /\ m \in Names /\ todo[r] \subseteq Names
    BY <2>1, PresentIsToDo
  <2>3. CASE m \in meta /\ End(r, "failed") /\ meta' = meta
    <3>1. Alone(r) /\ command' = command
      BY <2>3, EndMoves
    <3>2. ~Leads(r)
      BY <2>2, <2>3 DEF Leads
    <3>3. \A l \in Runs : Leads(l) => Leads(l)'
      BY <2>1, <2>3, <3>1, <3>2, LeaderKept
    <3> QED
      BY <1>3, <1>8, <2>1, <2>3, <3>1, <3>3 DEF Complete
  <2>4. CASE m \notin meta /\ Continue(r, todo[r] \ {m}) /\ meta' = meta \cup {m}
    <3>1. /\ Alone(r) /\ command' = command /\ todo'[r] = todo[r] \ {m} /\ step'[r] = 1
          /\ todo'[r] # {} => pc'[r] \in {"looking", "running"}
      BY <2>4, ContinueMoves
    <3>2. ~Complete
      BY <2>2, <2>4 DEF Complete
    <3>3. ASSUME Leads(r) PROVE Complete' \/ Leads(r)'
      <4>1. meta' = Names \ todo'[r]
        BY <2>2, <2>4, <3>1, <3>3 DEF Leads
      <4>2. Names \ todo'[r] = (Names \ todo[r]) \cup {m}
        BY <2>2, <3>1
      <4>3. MadeBy(r) = Effects(m)
        BY <2>1 DEF MadeBy
      <4>4. schema' = UNION {Effects(n) : n \in Names \ todo'[r]}
        BY <2>1, <3>3, <4>2, <4>3 DEF Leads, Behind
      <4>5. CASE todo'[r] = {}
        BY <4>1, <4>4, <4>5 DEF Complete, Objects
      <4>6. CASE todo'[r] # {}
        <5>1. MadeBy(r)' = {} /\ Live(r)'
          BY <3>1, <4>6, NothingMadeYet DEF Live
        <5> QED
          BY <4>1, <4>4, <5>1 DEF Leads, Behind
      <4> QED
        BY <4>5, <4>6
    <3>4. ASSUME NEW l \in Runs, Leads(l) PROVE Leads(r)
      BY <2>1, <2>4, <3>4, LoggingOfALeader
    <3> QED
      BY <1>3, <1>8, <2>1, <3>1, <3>2, <3>3, <3>4
  <2> QED
    BY <1>8, <2>3, <2>4 DEF LogUp
<1>9. ASSUME NEW r \in Runs, LogDown(r), downs = 0 PROVE LeaderInv'
  BY <1>9 DEF LogDown, LeaderInv
<1>10. ASSUME NEW r \in Runs, Breaks(r) PROVE LeaderInv'
  <2>1. broken' # 0 /\ downs' = downs /\ command' = command
    BY <1>0, <1>10 DEF Breaks, End
  <2> QED
    BY <2>1 DEF LeaderInv
<1>11. CASE UNCHANGED vars
  BY <1>11 DEF vars, run, LeaderInv, Untouched, Complete, Leads, Live, Behind, MadeBy, Present
<1>12. ASSUME NEW r \in Runs,
              Look(r) \/ UpStatement(r) \/ DownStatement(r) \/ LogUp(r) \/ LogDown(r)
       PROVE  downs' = downs
  BY <1>12 DEF Look, UpStatement, DownStatement, LogUp, LogDown
<1> QED
  BY <1>1, <1>2, <1>4, <1>5, <1>6, <1>7, <1>8, <1>9, <1>10, <1>11, <1>12
  DEF Next, StartStep, MigrationStep, StorageStep, BreakStep

-----------------------------------------------------------------------------
(* The theorems                                                            *)

IInv == TypeOK /\ PlaceInv /\ OrderInv /\ AppliedInv /\ LeaderInv

LEMMA InitIInv == Init => IInv
<1> SUFFICES ASSUME Init PROVE IInv
  OBVIOUS
<1>1. \A r \in Runs : pc[r] = "idle" /\ command[r] = "up" /\ ~Live(r)
  BY DEF Init, Live
<1>2. TypeOK
  BY <1>1, BoundsAssumption DEF Init, TypeOK
<1>3. PlaceInv
  BY <1>1 DEF PlaceInv
<1>4. OrderInv
  BY <1>1 DEF Init, OrderInv, LoggedInOrder
<1>5. AppliedInv
  BY <1>1 DEF Init, AppliedInv, LoggedIsApplied
<1>6. LeaderInv
  BY <1>1 DEF Init, LeaderInv, Untouched
<1> QED
  BY <1>2, <1>3, <1>4, <1>5, <1>6 DEF IInv

LEMMA NextIInv == IInv /\ [Next]_vars => IInv'
BY NextTypeOK, NextPlaceInv, NextOrderInv, NextAppliedInv, NextLeaderInv DEF IInv

\* In every reachable state the run of each invocation is where its migrations
\* and their statements put it, and the log and the schema are as they left
\* them.
THEOREM Invariant == Spec => []IInv
BY InitIInv, NextIInv, PTL DEF Spec

\* SequelizeMeta lists no migration whose objects the database lacks, but for
\* those a run of down dropped and could not take off the list: for any number
\* of runs, of kills and of reverts.
THEOREM MigrationsAreApplied == Spec => []LoggedIsApplied
<1>1. IInv => LoggedIsApplied
  BY DEF IInv, AppliedInv
<1> QED
  BY <1>1, Invariant, PTL

\* SequelizeMeta lists no migration before one it builds on.
THEOREM MigrationsAreInOrder == Spec => []LoggedInOrder
<1>1. IInv => LoggedInOrder
  BY DEF IInv, OrderInv
<1> QED
  BY <1>1, Invariant, PTL

\* However many replicas start together and fail each other's runs, one of
\* them completes the schema.
THEOREM OneRunCompletes == Spec => []OneRunSurvives
<1>1. IInv => OneRunSurvives
  <2> SUFFICES ASSUME LeaderInv, broken = 0, downs = 0, \A r \in Runs : ~Live(r),
                      NEW q \in Runs, pc[q] \in Ended
               PROVE  Complete
    BY DEF OneRunSurvives, Complete, IInv
  <2>1. ~Untouched
    BY DEF Untouched, Ended
  <2> QED
    BY <2>1 DEF LeaderInv, Leads
<1> QED
  BY <1>1, Invariant, PTL
=============================================================================
