-------------------------- MODULE UpdateLogProofs ---------------------------
(***************************************************************************)
(* Proofs, for any number of updates, managers, limits and timeouts, of    *)
(* the safety properties of UpdateLog and that it implements UpdateFeed.   *)
(***************************************************************************)
EXTENDS UpdateLog, FiniteSetTheorems, TLAPS

-----------------------------------------------------------------------------
(* Types. A sleep starts only before the deadline, so waited is bounded.   *)

TypeInv == TypeOK /\ \A m \in Managers : pc[m] = "sleeping" => waited[m] < Timeout

LEMMA InitTypeInv == Init => TypeInv
<1> SUFFICES ASSUME Init PROVE TypeInv
  OBVIOUS
<1> USE BoundsAssumption DEF Init, Managers, InFlight
<1>1. processed \in [Managers -> Seq((SUBSET Ids) \ {{}})]
  OBVIOUS
<1>2. offset \in [Managers -> 0..MaxUpdates + 1] /\ waited \in [Managers -> 0..Timeout]
  OBVIOUS
<1> QED
  BY <1>1, <1>2 DEF TypeInv, TypeOK

LEMMA FirstRowsType == \A m \in Managers : FirstRows(m) \subseteq Ids
  BY DEF FirstRows, Matching

LEMMA NextTypeInv == TypeInv /\ [Next]_vars => TypeInv'
<1> SUFFICES ASSUME TypeInv, [Next]_vars PROVE TypeInv'
  OBVIOUS
<1> USE BoundsAssumption DEF TypeInv, TypeOK, table, server, client, InFlight
<1>1. CASE UNCHANGED vars
  BY <1>1 DEF vars
<1>2. ASSUME NEW b \in Bots, NEW i \in Ids, Insert(b, i) PROVE TypeInv'
  BY <1>2 DEF Insert
<1>3. ASSUME NEW i \in Ids, NEW o \in {"committed", "failed"}, InsertEnds(i, o)
      PROVE  TypeInv'
  BY <1>3 DEF InsertEnds
<1>4. ASSUME NEW m \in Managers, QueryFinds(m) PROVE TypeInv'
  <2>1. overtaken' \subseteq Ids
    BY <1>4 DEF QueryFinds, Overtaken
  <2> QED
    BY <1>4, <2>1, FirstRowsType DEF QueryFinds
<1>5. ASSUME NEW m \in Managers, QueryFindsNothing(m) PROVE TypeInv'
  BY <1>5 DEF QueryFindsNothing
<1>6. ASSUME NEW m \in Managers, Wake(m) PROVE TypeInv'
  <2>1. waited[m] + 1 \in 0..Timeout
    BY <1>6 DEF Wake
  <2> QED
    BY <1>6, <2>1 DEF Wake
<1>7. ASSUME NEW m \in Managers, Poll(m) PROVE TypeInv'
  <2>1. 0 \in 0..Timeout
    OBVIOUS
  <2>2. waited' \in [Managers -> 0..Timeout] /\ result' \in [Managers -> SUBSET Ids]
    BY <1>7, <2>1 DEF Poll
  <2>3. \A n \in Managers : pc'[n] = "sleeping" => waited'[n] < Timeout
    BY <1>7 DEF Poll
  <2> QED
    BY <1>7, <2>2, <2>3 DEF Poll
<1>8. ASSUME NEW m \in Managers, Receive(m) PROVE TypeInv'
  <2>1. CASE result[m] = {} /\ UNCHANGED <<offset, processed>>
    BY <1>8, <2>1 DEF Receive, AfterPoll
  <2>2. ASSUME NEW last \in result[m],
               offset' = [offset EXCEPT ![m] = last + 1],
               processed' = [processed EXCEPT ![m] = Append(@, result[m])]
        PROVE  TypeInv'
    <3>1. last + 1 \in 0..MaxUpdates + 1
      BY DEF Ids
    <3>2. result[m] \in (SUBSET Ids) \ {{}}
      OBVIOUS
    <3>3. processed' \in [Managers -> Seq((SUBSET Ids) \ {{}})]
      <4> DEFINE B == (SUBSET Ids) \ {{}}
      <4>1. processed \in [Managers -> Seq(B)] /\ result[m] \in B
        BY <3>2
      <4> HIDE DEF B
      <4>2. Append(processed[m], result[m]) \in Seq(B)
        BY <4>1
      <4>3. processed' \in [Managers -> Seq(B)]
        BY <2>2, <4>1, <4>2
      <4> QED
        BY <4>3 DEF B
    <3> QED
      <4>1. offset' \in [Managers -> 0..MaxUpdates + 1]
        BY <2>2, <3>1
      <4>2. \A n \in Managers : pc'[n] = "sleeping" => waited'[n] < Timeout
        BY <1>8 DEF Receive, AfterPoll
      <4> QED
        BY <1>8, <3>3, <4>1, <4>2 DEF Receive, AfterPoll
  <2> QED
    BY <1>8, <2>1, <2>2 DEF Receive
<1>9. ASSUME NEW m \in Managers, PollFails(m) PROVE TypeInv'
  <2>1. faults' \in 0..MaxFaults
    BY <1>9 DEF PollFails
  <2>2. pc' \in [Managers -> {"off", "timer"} \cup InFlight]
        /\ \A n \in Managers : pc'[n] = "sleeping" => pc[n] = "sleeping"
    BY <1>9 DEF PollFails, AfterPoll
  <2> QED
    BY <1>9, <2>1, <2>2 DEF PollFails
<1>10. CASE StartPolling
  BY <1>10 DEF StartPolling, Stop
<1> QED
  BY <1>1, <1>2, <1>3, <1>4, <1>5, <1>6, <1>7, <1>8, <1>9, <1>10
  DEF Next, TableStep, GetUpdatesStep, PollingStep

(***************************************************************************)
(* Type correctness: offsets, batches and sleeps stay within the bounds    *)
(* the code sets them.                                                     *)
(***************************************************************************)
THEOREM TypeCorrect == Spec => []TypeOK
<1>1. TypeInv => TypeOK
  BY DEF TypeInv
<1> QED
  BY <1>1, InitTypeInv, NextTypeInv, PTL DEF Spec

-----------------------------------------------------------------------------
(* Managers not started yet are untouched, and stopped ones have no timer. *)

ManagersInv ==
  \A m \in Managers :
    /\ m > current => pc[m] = "off" /\ result[m] = {}
    /\ pc[m] \in {"querying", "sleeping"} => result[m] = {}
    /\ m # current => pc[m] # "timer"

LEMMA NextManagersInv == TypeInv /\ ManagersInv /\ [Next]_vars => ManagersInv'
<1> SUFFICES ASSUME TypeInv, ManagersInv, [Next]_vars PROVE ManagersInv'
  OBVIOUS
<1> USE BoundsAssumption
    DEF TypeInv, TypeOK, ManagersInv, Managers, table, server, client, InFlight
<1>1. CASE UNCHANGED <<current, pc, result>>
  BY <1>1
<1>2. ASSUME NEW m \in Managers, QueryFinds(m) PROVE ManagersInv'
  BY <1>2 DEF QueryFinds
<1>3. ASSUME NEW m \in Managers, QueryFindsNothing(m) PROVE ManagersInv'
  BY <1>3 DEF QueryFindsNothing
<1>4. ASSUME NEW m \in Managers, Wake(m) \/ Poll(m) PROVE ManagersInv'
  <2>1. CASE Wake(m)
    BY <2>1 DEF Wake
  <2>2. CASE Poll(m)
    BY <2>2 DEF Poll
  <2> QED
    BY <1>4, <2>1, <2>2
<1>5. ASSUME NEW m \in Managers, Receive(m) \/ PollFails(m) PROVE ManagersInv'
  BY <1>5 DEF Receive, PollFails, AfterPoll
<1>6. CASE StartPolling
  <2>1. current' = current + 1 /\ current + 1 \in 1..MaxManagers /\ UNCHANGED result
    BY <1>6 DEF StartPolling
  <2>2. pc'[current] # "timer" /\ pc'[current + 1] = "querying"
    BY <1>6, <2>1 DEF StartPolling, Stop
  <2>3. \A m \in Managers : m \notin {current, current + 1} => pc'[m] = pc[m]
    BY <1>6 DEF StartPolling
  <2>4. pc'[current] \in {"off", pc[current]}
    BY <1>6, <2>1 DEF StartPolling, Stop
  <2>5. ASSUME NEW m \in Managers
        PROVE  /\ m > current + 1 => pc'[m] = "off" /\ result[m] = {}
               /\ pc'[m] \in {"querying", "sleeping"} => result[m] = {}
               /\ m # current + 1 => pc'[m] # "timer"
    <3>1. CASE m \in {current, current + 1}
      BY <2>2, <2>4, <3>1
    <3>2. CASE m \notin {current, current + 1}
      BY <2>3, <3>2
    <3> QED
      BY <3>1, <3>2
  <2> QED
    BY <2>1, <2>5
<1> QED
  BY <1>1, <1>2, <1>3, <1>4, <1>5, <1>6
  DEF Next, vars, TableStep, GetUpdatesStep, PollingStep, Insert, InsertEnds

(***************************************************************************)
(* A stopped PollingManager never polls again.                             *)
(***************************************************************************)
THEOREM StoppedManagersStop == Spec => []StoppedPollsNoMore
<1>1. Init => ManagersInv
  BY DEF Init, ManagersInv, Managers
<1>2. ManagersInv => StoppedPollsNoMore
  BY DEF ManagersInv, StoppedPollsNoMore
<1> QED
  BY <1>1, <1>2, InitTypeInv, NextTypeInv, NextManagersInv, PTL DEF Spec

-----------------------------------------------------------------------------
(* Answers on their way: visible rows of the bot, from the offset on. An   *)
(* offset moves only when its answer arrives.                              *)

AnswerInv ==
  \A m \in Managers : pc[m] = "answered" =>
    \A i \in result[m] : i \in Logged /\ i >= offset[m]

LEMMA NextAnswerInv ==
  TypeInv /\ ManagersInv /\ AnswerInv /\ [Next]_vars => AnswerInv'
<1> SUFFICES ASSUME TypeInv, ManagersInv, AnswerInv, [Next]_vars PROVE AnswerInv'
  OBVIOUS
<1> USE DEF TypeInv, TypeOK, AnswerInv, Logged, table, server, client, InFlight
<1>1. CASE UNCHANGED vars
  BY <1>1 DEF vars
<1>2. ASSUME NEW b \in Bots, NEW i \in Ids, Insert(b, i) PROVE AnswerInv'
  BY <1>2 DEF Insert
<1>3. ASSUME NEW i \in Ids, NEW o, InsertEnds(i, o) PROVE AnswerInv'
  BY <1>3 DEF InsertEnds
<1>4. ASSUME NEW m \in Managers, QueryFinds(m) PROVE AnswerInv'
  BY <1>4 DEF QueryFinds, FirstRows, Matching
<1>5. ASSUME NEW m \in Managers, QueryFindsNothing(m) PROVE AnswerInv'
  BY <1>5 DEF QueryFindsNothing, ManagersInv
<1>6. ASSUME NEW m \in Managers, Wake(m) \/ Poll(m) PROVE AnswerInv'
  BY <1>6 DEF Wake, Poll
<1>7. ASSUME NEW m \in Managers, Receive(m) \/ PollFails(m) PROVE AnswerInv'
  BY <1>7 DEF Receive, PollFails, AfterPoll
<1>8. CASE StartPolling
  BY <1>8 DEF StartPolling, Stop
<1> QED
  BY <1>1, <1>2, <1>3, <1>4, <1>5, <1>6, <1>7, <1>8
  DEF Next, TableStep, GetUpdatesStep, PollingStep

(***************************************************************************)
(* Long polling implements the abstract update feed: every query, timeout, *)
(* loss and restart is a stutter of the feed, a commit logs an update and  *)
(* an answer that arrives is consumed.                                     *)
(***************************************************************************)
LEMMA StepImplementsFeed ==
  ASSUME TypeInv, ManagersInv, AnswerInv, [Next]_vars
  PROVE  [Feed!Next]_(Feed!vars)
<1> USE DEF TypeInv, TypeOK, table, server, client, InFlight
<1>1. CASE UNCHANGED <<table, offset, processed>>
  BY <1>1 DEF Feed!vars, Logged
<1>2. ASSUME NEW b \in Bots, NEW i \in Ids, Insert(b, i) PROVE UNCHANGED Feed!vars
  <2>1. Logged' = Logged
    BY <1>2 DEF Logged, Insert
  <2> QED
    BY <1>2, <2>1 DEF Insert, Feed!vars
<1>3. ASSUME NEW i \in Ids, NEW o \in {"committed", "failed"}, InsertEnds(i, o)
      PROVE  Feed!Log(i) \/ UNCHANGED Feed!vars
  <2>1. Logged' \in {Logged, Logged \cup {i}}
    BY <1>3 DEF Logged, InsertEnds
  <2> QED
    BY <1>3, <2>1 DEF InsertEnds, Feed!Log, Feed!vars
<1>4. ASSUME NEW m \in Managers, Receive(m)
      PROVE  Feed!Consume(m) \/ UNCHANGED Feed!vars
  <2>1. Logged' = Logged
    BY <1>4 DEF Receive, Logged
  <2>2. CASE UNCHANGED <<offset, processed>>
    BY <2>1, <2>2 DEF Feed!vars
  <2>3. ASSUME NEW last \in result[m],
               \A i \in result[m] : i =< last,
               offset' = [offset EXCEPT ![m] = last + 1],
               processed' = [processed EXCEPT ![m] = Append(@, result[m])]
        PROVE  Feed!Consume(m)
    <3>1. result[m] \in SUBSET Logged /\ \A i \in result[m] : offset[m] =< i
      BY <1>4 DEF Receive, AnswerInv, Ids, Managers
    <3> QED
      BY <2>1, <2>3, <3>1 DEF Feed!Consume
  <2> QED
    BY <1>4, <2>2, <2>3 DEF Receive
<1> QED
  BY <1>1, <1>2, <1>3, <1>4
  DEF Next, vars, TableStep, GetUpdatesStep, PollingStep, QueryFinds,
      QueryFindsNothing, Wake, Poll, PollFails, StartPolling, Feed!Next,
      Feed!Ids, Ids

THEOREM ImplementsFeed == Spec => IsUpdateFeed
<1>1. Init => Feed!Init
  BY DEF Init, Feed!Init, Logged
<1>2. Init => ManagersInv /\ AnswerInv
  BY DEF Init, ManagersInv, AnswerInv, Managers
<1> QED
  BY <1>1, <1>2, InitTypeInv, NextTypeInv, NextManagersInv, NextAnswerInv,
     StepImplementsFeed, PTL
  DEF Spec, IsUpdateFeed, Feed!Spec

-----------------------------------------------------------------------------
(* What the feed promises: every batch lies behind the cursor of its       *)
(* reader, and a reader consumes from its cursor on.                       *)

Batches == SUBSET Feed!Ids

LEMMA IdsAreNumbers == Feed!Ids \subseteq Nat
  BY DEF Feed!Ids

Behind(batches, c) == \A n \in 1..Len(batches) : \A i \in batches[n] : i < c

FeedInv ==
  /\ Logged \subseteq Feed!Ids
  /\ offset \in [Managers -> Nat]
  /\ processed \in [Managers -> Seq(Batches)]
  /\ \A r \in Managers : Behind(processed[r], offset[r]) /\ Feed!Ascending(processed[r])

\* A batch from the offset on may follow batches behind the offset.
LEMMA AppendAscending ==
  ASSUME NEW s \in Seq(Batches), NEW batch \in Batches, NEW c \in Nat, NEW d \in Nat,
         Behind(s, c), Feed!Ascending(s), \A i \in batch : c =< i /\ i < d, c =< d
  PROVE  Behind(Append(s, batch), d) /\ Feed!Ascending(Append(s, batch))
<1> DEFINE t == Append(s, batch)
<1>1. /\ Len(s) \in Nat /\ Len(t) = Len(s) + 1 /\ t[Len(s) + 1] = batch
      /\ \A n \in 1..Len(s) : t[n] = s[n] /\ s[n] \in Batches
  OBVIOUS
<1> HIDE DEF t
<1>2. \A n \in 1..Len(s) : \A i \in s[n] : i \in Nat /\ i < c
  BY <1>1, IdsAreNumbers DEF Behind, Batches
<1>3. \A i \in batch : i \in Nat
  BY IdsAreNumbers DEF Batches
<1>4. Behind(t, d)
  BY <1>1, <1>2, <1>3 DEF Behind
<1>5. ASSUME NEW m \in 1..Len(t), NEW n \in 1..Len(t), m < n, NEW i \in t[m], NEW j \in t[n]
      PROVE  i < j
  <2>1. m \in 1..Len(s)
    BY <1>1, <1>5
  <2>2. CASE n \in 1..Len(s)
    BY <1>1, <1>5, <2>1, <2>2 DEF Feed!Ascending
  <2>3. CASE n = Len(s) + 1
    BY <1>1, <1>2, <1>3, <1>5, <2>1, <2>3
  <2> QED
    BY <1>1, <2>2, <2>3
<1>6. Feed!Ascending(t)
  BY <1>5 DEF Feed!Ascending
<1> QED
  BY <1>4, <1>6 DEF t

LEMMA NextFeedInv == FeedInv /\ [Feed!Next]_(Feed!vars) => FeedInv'
<1> SUFFICES ASSUME FeedInv, [Feed!Next]_(Feed!vars) PROVE FeedInv'
  OBVIOUS
<1> USE DEF FeedInv
<1>1. CASE UNCHANGED Feed!vars
  BY <1>1 DEF Feed!vars
<1>2. ASSUME NEW i \in Feed!Ids, Feed!Log(i) PROVE FeedInv'
  BY <1>2 DEF Feed!Log
<1>3. ASSUME NEW r \in Managers, NEW batch \in SUBSET Logged, NEW last \in batch,
             \A i \in batch : offset[r] =< i /\ i =< last,
             offset' = [offset EXCEPT ![r] = last + 1],
             processed' = [processed EXCEPT ![r] = Append(@, batch)],
             UNCHANGED Logged
      PROVE  FeedInv'
  <2>1. batch \in Batches /\ last \in Nat /\ \A i \in batch : i \in Nat
    BY IdsAreNumbers DEF Batches
  <2>2. processed[r] \in Seq(Batches) /\ offset[r] \in Nat /\ offset[r] =< last + 1
    BY <1>3, <2>1
  <2>3. ASSUME NEW i \in batch PROVE offset[r] =< i /\ i < last + 1
    <3>1. offset[r] =< i /\ i =< last /\ i \in Nat /\ last \in Nat
      BY <1>3, <2>1
    <3> QED
      BY <3>1
  <2>4. Behind(Append(processed[r], batch), last + 1) /\ Feed!Ascending(Append(processed[r], batch))
    <3>1. Behind(processed[r], offset[r]) /\ Feed!Ascending(processed[r]) /\ last + 1 \in Nat
      BY <2>1
    <3> QED
      BY <2>1, <2>2, <2>3, <3>1, AppendAscending
  <2>5. offset'[r] = last + 1 /\ processed'[r] = Append(processed[r], batch)
    BY <1>3
  <2>6. Behind(processed'[r], offset'[r]) /\ Feed!Ascending(processed'[r])
    BY <2>4, <2>5
  <2>7. \A q \in Managers \ {r} : processed'[q] = processed[q] /\ offset'[q] = offset[q]
    BY <1>3
  <2>8. \A q \in Managers : Behind(processed'[q], offset'[q]) /\ Feed!Ascending(processed'[q])
    BY <2>6, <2>7
  <2>9. offset' \in [Managers -> Nat]
    BY <1>3, <2>1
  <2>10. Append(processed[r], batch) \in Seq(Batches)
    BY <2>1, <2>2
  <2>11. processed' \in [Managers -> Seq(Batches)]
    BY <1>3, <2>10
  <2> QED
    BY <1>3, <2>8, <2>9, <2>11
<1> QED
  BY <1>1, <1>2, <1>3 DEF Feed!Next, Feed!Consume

(***************************************************************************)
(* No reader of a feed consumes an update twice or out of order.           *)
(***************************************************************************)
THEOREM ReadersConsumeInOrder == IsUpdateFeed => []Feed!ConsumedInOrderOnce
<1>1. Feed!Init => FeedInv
  BY DEF Feed!Init, FeedInv, Behind, Feed!Ascending
<1>2. FeedInv => Feed!ConsumedInOrderOnce
  BY DEF FeedInv, Feed!ConsumedInOrderOnce
<1> QED
  BY <1>1, <1>2, NextFeedInv, PTL DEF IsUpdateFeed, Feed!Spec

(***************************************************************************)
(* Hence a PollingManager hands over every update at most once, in order.  *)
(***************************************************************************)
THEOREM HandedOverInOrder == Spec => []InOrderOnce
<1>1. Feed!ConsumedInOrderOnce <=> InOrderOnce
  BY DEF InOrderOnce
<1> QED
  BY <1>1, ImplementsFeed, ReadersConsumeInOrder, PTL

-----------------------------------------------------------------------------
(* What a manager leaves behind. Ids are drawn in order, so an id below an *)
(* answered one is visible, in flight, or settled and not for the bot.     *)

Settled(i) == row[i] = "failed" \/ (row[i] = "committed" /\ owner[i] # Self)

DrawnInv ==
  \A i, j \in Ids : j < i /\ row[i] # "free" => row[j] # "free"

\* An answer holds what lies below its last id, but for these two causes.
NoGapInv ==
  \A m \in Managers : pc[m] = "answered" =>
    \A i \in Ids, j \in result[m] :
      offset[m] =< i /\ i < j => i \in result[m] \cup overtaken \/ Settled(i)

BelowInv ==
  \A m \in Managers, i \in Ids :
    i < offset[m] => i \in Processed(m) \cup overtaken \/ Settled(i)

SkipInv == DrawnInv /\ NoGapInv /\ BelowInv

\* What was decided stays decided.
LEMMA SettledStays ==
  TypeInv /\ [Next]_vars =>
    /\ \A i \in Ids : Settled(i) => Settled(i)'
    /\ overtaken \subseteq overtaken'
<1> SUFFICES ASSUME TypeInv, [Next]_vars
             PROVE  /\ \A i \in Ids : Settled(i) => Settled(i)'
                    /\ overtaken \subseteq overtaken'
  OBVIOUS
<1> USE DEF TypeInv, TypeOK, Settled, table, server, client
<1>1. CASE UNCHANGED <<row, owner>> /\ overtaken \subseteq overtaken'
  BY <1>1
<1>2. ASSUME NEW b \in Bots, NEW i \in Ids, Insert(b, i)
      PROVE  (\A k \in Ids : Settled(k) => Settled(k)') /\ UNCHANGED overtaken
  BY <1>2 DEF Insert
<1>3. ASSUME NEW i \in Ids, NEW o, InsertEnds(i, o)
      PROVE  (\A k \in Ids : Settled(k) => Settled(k)') /\ UNCHANGED overtaken
  BY <1>3 DEF InsertEnds
<1> QED
  BY <1>1, <1>2, <1>3
  DEF Next, vars, TableStep, GetUpdatesStep, PollingStep, QueryFinds,
      QueryFindsNothing, Wake, Poll, Receive, PollFails, StartPolling

\* The limit cuts from above: below a row of the answer none is missing.
LEMMA FirstRowsPrefix ==
  ASSUME TypeInv, NEW m \in Managers, NEW i \in Matching(m), NEW j \in FirstRows(m), i < j
  PROVE  i \in FirstRows(m)
<1> DEFINE Upto(k) == {l \in Matching(m) : l =< k}
<1>1. Matching(m) \subseteq Ids /\ i \in Nat /\ j \in Nat /\ j \in Matching(m)
  BY DEF Matching, FirstRows, Ids
<1>2. IsFiniteSet(Ids)
  BY BoundsAssumption, FS_Interval DEF Ids
<1>3. IsFiniteSet(Upto(j))
  BY <1>1, <1>2, FS_Subset
<1>4. \A l \in Ids : l \in Nat
  BY DEF Ids
<1>5. Upto(i) \subseteq Upto(j)
  BY <1>1, <1>4
<1>6. /\ Cardinality(Upto(i)) \in Nat /\ Cardinality(Upto(j)) \in Nat
      /\ Cardinality(Upto(i)) =< Cardinality(Upto(j))
  BY <1>3, <1>5, FS_Subset, FS_CardinalityType
<1>7. Cardinality(Upto(j)) =< Limit
  BY DEF FirstRows
<1>8. Cardinality(Upto(i)) =< Limit
  BY <1>6, <1>7, BoundsAssumption
<1> QED
  BY <1>8 DEF FirstRows

LEMMA NextDrawnInv == TypeInv /\ DrawnInv /\ [Next]_vars => DrawnInv'
<1> SUFFICES ASSUME TypeInv, DrawnInv, [Next]_vars PROVE DrawnInv'
  OBVIOUS
<1> USE DEF TypeInv, TypeOK, DrawnInv, table, server, client
<1>1. CASE UNCHANGED row
  BY <1>1
<1>2. ASSUME NEW b \in Bots, NEW i \in Ids, Insert(b, i) PROVE DrawnInv'
  BY <1>2 DEF Insert
<1>3. ASSUME NEW i \in Ids, NEW o \in {"committed", "failed"}, InsertEnds(i, o)
      PROVE  DrawnInv'
  BY <1>3 DEF InsertEnds
<1> QED
  BY <1>1, <1>2, <1>3
  DEF Next, vars, TableStep, GetUpdatesStep, PollingStep, QueryFinds,
      QueryFindsNothing, Wake, Poll, Receive, PollFails, StartPolling

LEMMA QueryLeavesNoGap ==
  ASSUME TypeInv, DrawnInv, NEW m \in Managers, QueryFinds(m),
         NEW i \in Ids, NEW j \in result'[m], offset[m] =< i, i < j
  PROVE  i \in result'[m] \cup overtaken' \/ Settled(i)
<1>1. result'[m] = FirstRows(m) /\ overtaken' = overtaken \cup Overtaken(m)
  BY DEF QueryFinds, TypeInv, TypeOK
<1>2. j \in FirstRows(m) /\ j \in Ids /\ row[j] = "committed"
  BY <1>1 DEF FirstRows, Matching
<1>3. row[i] # "free"
  BY <1>2 DEF DrawnInv
<1>4. CASE row[i] = "inserting"
  BY <1>1, <1>2, <1>4 DEF Overtaken
<1>5. CASE row[i] = "committed" /\ owner[i] = Self
  <2>1. i \in Matching(m)
    BY <1>5 DEF Matching, TypeInv, TypeOK, Ids
  <2> QED
    BY <1>1, <1>2, <2>1, FirstRowsPrefix
<1> QED
  BY <1>3, <1>4, <1>5 DEF Settled, TypeInv, TypeOK

LEMMA NextNoGapInv ==
  TypeInv /\ ManagersInv /\ DrawnInv /\ NoGapInv /\ [Next]_vars => NoGapInv'
<1> SUFFICES ASSUME TypeInv, ManagersInv, DrawnInv, NoGapInv, [Next]_vars,
                    NEW m \in Managers, pc'[m] = "answered",
                    NEW i \in Ids, NEW j \in result'[m], offset'[m] =< i, i < j
             PROVE  i \in result'[m] \cup overtaken' \/ Settled(i)'
  BY DEF NoGapInv
<1>1. (Settled(i) => Settled(i)') /\ overtaken \subseteq overtaken'
  BY SettledStays
<1>2. CASE QueryFinds(m)
  <2>1. UNCHANGED offset
    BY <1>2 DEF QueryFinds, client
  <2> QED
    BY <1>1, <1>2, <2>1, QueryLeavesNoGap
<1>3. CASE QueryFindsNothing(m)
  BY <1>3 DEF QueryFindsNothing, ManagersInv, server, client
<1>4. CASE pc[m] = "answered" /\ result'[m] = result[m] /\ offset'[m] = offset[m]
  BY <1>1, <1>4 DEF NoGapInv
<1>5. CASE ~QueryFinds(m) /\ ~QueryFindsNothing(m)
  <2> USE <1>5 DEF TypeInv, TypeOK, table, server, client, InFlight
  <2>1. CASE UNCHANGED <<pc, result, offset>>
    BY <1>4, <2>1
  <2>2. ASSUME NEW n \in Managers, QueryFinds(n) \/ QueryFindsNothing(n)
        PROVE  n # m /\ pc'[m] = pc[m] /\ result'[m] = result[m] /\ offset'[m] = offset[m]
    BY <2>2 DEF QueryFinds, QueryFindsNothing
  <2>3. ASSUME NEW n \in Managers, Wake(n) \/ Poll(n)
        PROVE  n # m /\ pc'[m] = pc[m] /\ result'[m] = result[m] /\ offset'[m] = offset[m]
    BY <2>3 DEF Wake, Poll
  <2>4. ASSUME NEW n \in Managers, Receive(n) \/ PollFails(n)
        PROVE  n # m /\ pc'[m] = pc[m] /\ result'[m] = result[m] /\ offset'[m] = offset[m]
    BY <2>4 DEF Receive, PollFails, AfterPoll
  <2>5. CASE StartPolling
    BY <1>4, <2>5 DEF StartPolling, Stop
  <2> QED
    BY <1>4, <2>1, <2>2, <2>3, <2>4, <2>5
    DEF Next, vars, TableStep, GetUpdatesStep, PollingStep, Insert, InsertEnds
<1> QED
  BY <1>2, <1>3, <1>5

LEMMA ProcessedGrows ==
  ASSUME TypeInv, NEW m \in Managers, NEW batch \in (SUBSET Ids) \ {{}},
         processed' = [processed EXCEPT ![m] = Append(@, batch)]
  PROVE  Processed(m)' = Processed(m) \cup batch
<1> DEFINE B == (SUBSET Ids) \ {{}}
           s == processed[m]
           t == Append(s, batch)
<1>1. processed'[m] = t /\ s \in Seq(B) /\ batch \in B
  BY DEF TypeInv, TypeOK
<1> HIDE DEF B
<1>2. /\ Len(s) \in Nat /\ Len(t) = Len(s) + 1 /\ t[Len(s) + 1] = batch
      /\ \A n \in 1..Len(s) : t[n] = s[n]
  BY <1>1
<1> HIDE DEF s, t
<1>3. 1..Len(t) = (1..Len(s)) \cup {Len(s) + 1}
  BY <1>2
<1>4. UNION {t[n] : n \in 1..Len(t)} = (UNION {s[n] : n \in 1..Len(s)}) \cup batch
  BY <1>2, <1>3
<1> QED
  BY <1>1, <1>4 DEF Processed, s

LEMMA NextBelowInv ==
  TypeInv /\ NoGapInv /\ BelowInv /\ [Next]_vars => BelowInv'
<1> SUFFICES ASSUME TypeInv, NoGapInv, BelowInv, [Next]_vars,
                    NEW m \in Managers, NEW i \in Ids, i < offset'[m]
             PROVE  i \in (Processed(m)' \cup overtaken') \/ Settled(i)'
  BY DEF BelowInv
<1>1. (Settled(i) => Settled(i)') /\ overtaken \subseteq overtaken'
  BY SettledStays
<1>2. CASE offset'[m] = offset[m] /\ processed'[m] = processed[m]
  BY <1>1, <1>2 DEF BelowInv, Processed
<1>3. CASE Receive(m)
  <2>1. CASE UNCHANGED <<offset, processed>>
    BY <1>2, <2>1
  <2>2. ASSUME NEW last \in result[m], \A k \in result[m] : k =< last,
               offset' = [offset EXCEPT ![m] = last + 1],
               processed' = [processed EXCEPT ![m] = Append(@, result[m])]
        PROVE  i \in (Processed(m)' \cup overtaken') \/ Settled(i)'
    <3>1. result[m] \in (SUBSET Ids) \ {{}}
      BY DEF TypeInv, TypeOK
    <3>2. Processed(m)' = Processed(m) \cup result[m]
      BY <2>2, <3>1, ProcessedGrows
    <3>3. offset'[m] = last + 1 /\ i \in Nat /\ last \in Nat /\ offset[m] \in Nat
      BY <2>2 DEF TypeInv, TypeOK, Ids
    <3>4. CASE i < offset[m]
      BY <1>1, <3>2, <3>4 DEF BelowInv
    <3>5. CASE i = last
      BY <3>2, <3>5
    <3>6. CASE offset[m] =< i /\ i < last
      BY <1>1, <1>3, <3>2, <3>6 DEF NoGapInv, Receive
    <3> QED
      BY <3>3, <3>4, <3>5, <3>6
  <2> QED
    BY <1>3, <2>1, <2>2 DEF Receive
<1>4. ASSUME NEW n \in Managers, Receive(n), n # m
      PROVE  offset'[m] = offset[m] /\ processed'[m] = processed[m]
  BY <1>4 DEF Receive, TypeInv, TypeOK
<1>5. CASE UNCHANGED <<offset, processed>>
  BY <1>2, <1>5
<1> QED
  BY <1>2, <1>3, <1>4, <1>5
  DEF Next, vars, TableStep, GetUpdatesStep, PollingStep, QueryFinds, QueryFindsNothing,
      Wake, Poll, PollFails, StartPolling, Insert, InsertEnds, server, client

(***************************************************************************)
(* Whatever the limit, the offsets, the losses and the restarts, a manager *)
(* passes over an update for good only if its INSERT was in flight when an *)
(* update with a higher id was answered.                                   *)
(***************************************************************************)
THEOREM SkipsAreOvertaken == Spec => []SkippedOnlyIfOvertaken
<1>1. Init => SkipInv
  BY DEF Init, SkipInv, DrawnInv, NoGapInv, BelowInv, Managers, Ids
<1>2. Init => ManagersInv
  BY DEF Init, ManagersInv, Managers
<1>3. TypeInv /\ SkipInv => SkippedOnlyIfOvertaken
  BY DEF TypeInv, TypeOK, SkipInv, BelowInv, SkippedOnlyIfOvertaken, Settled, Logged
<1>4. TypeInv /\ ManagersInv /\ SkipInv /\ [Next]_vars => SkipInv'
  BY NextDrawnInv, NextNoGapInv, NextBelowInv DEF SkipInv
<1> QED
  BY <1>1, <1>2, <1>3, <1>4, InitTypeInv, NextTypeInv, NextManagersInv, PTL DEF Spec
=============================================================================
