----------------------- MODULE WebhookDeliveryProofs ------------------------
(***************************************************************************)
(* Proofs about webhook delivery, for any number of updates, webhooks,     *)
(* processes, attempts and faults. WorkersInv says which processes have an *)
(* update, StallsInv how many lost its lock, JobsInv what its job carries, *)
(* CountsInv how often it was posted, QueueInv where the job is.           *)
(***************************************************************************)
EXTENDS WebhookDelivery, SequenceTheorems, FiniteSetTheorems, TLAPS

Enqueued == {"waiting", "delayed", "stalled", "completed", "failed"} \cup Active

\* The workers without the lock of the job of u that have yet to reach the
\* endpoint, and the POSTs that reached it or are going to.
Late(u) == {p \in Processes : <<p, u>> \in late}
Begun(u) == received[u] + Cardinality(Late(u))

\* An update that is handled or posted is in a process; a worker has one job,
\* with its lock or without it.
WorkersInv ==
  /\ \A u \in Updates :
       /\ stage[u] \in Handling \cup Active => process[u] \in Processes
       /\ stage[u] \in Enqueued \ Active => process[u] = Nobody
  /\ \A u, v \in Updates :
       u # v /\ stage[u] \in Active /\ stage[v] \in Active => process[u] # process[v]
  /\ \A u, v \in Updates : stage[u] \in Active => process[u] \notin Straying(v)
  /\ \A u, v \in Updates : u # v => Straying(u) \cap Straying(v) = {}
  /\ \A u \in Updates : Straying(u) # {} => stage[u] \in Enqueued

\* Each worker without the lock was stalled, and all but the last are counted.
StallsInv ==
  \A u \in Updates :
    /\ IsFiniteSet(Straying(u))
    /\ Cardinality(Straying(u)) =< stalls[u] + (IF stage[u] = "stalled" THEN 1 ELSE 0)

Added == {"adding"} \cup Enqueued

JobsInv ==
  \A u \in Updates :
    /\ stage[u] = "stored" => config \in inForce[u]
    /\ stage[u] \in Added => url[u] \in inForce[u] \ {NoHook} /\ secret[u] = url[u]

\* One POST is not accounted for yet.
Posted == {"answering", "stalled", "completed"}

CountsInv ==
  \A u \in Updates :
    /\ Begun(u) =< attempts[u] + stalls[u] + (IF stage[u] \in Posted THEN 1 ELSE 0)
    /\ stage[u] = "failed" => attempts[u] = Attempts \/ stalls[u] > MaxStalled
    /\ stage[u] # "failed" => attempts[u] < Attempts /\ stalls[u] =< MaxStalled

QueueInv ==
  /\ \A i, j \in DOMAIN queue : queue[i] = queue[j] => i = j
  /\ \A u \in Updates : stage[u] = "waiting" <=> \E i \in DOMAIN queue : queue[i] = u

IInv == TypeOK /\ WorkersInv /\ StallsInv /\ JobsInv /\ CountsInv /\ QueueInv

\* TypeOK in parts, each of which a few actions disturb.
StagesOK ==
  /\ config \in Hooks \cup {NoHook}
  /\ unset \subseteq Hooks
  /\ stage \in [Updates -> {"none", "waiting", "delayed", "stalled"}
                             \cup Handling \cup Active \cup Ended]
  /\ process \in [Updates -> Processes \cup {Nobody}]
  /\ faults \in 0..MaxFaults

ContentsOK ==
  /\ url \in [Updates -> Hooks \cup {NoHook}]
  /\ secret \in [Updates -> Hooks \cup {NoHook}]
  /\ inForce \in [Updates -> SUBSET (Hooks \cup {NoHook})]

NumbersOK ==
  /\ attempts \in [Updates -> 0..Attempts]
  /\ stalls \in [Updates -> 0..MaxStalled + 1]
  /\ received \in [Updates -> Nat]

ListsOK == queue \in Seq(Updates) /\ added \in Seq(Updates)

StraysOK == unlocked \subseteq Processes \X Updates /\ late \subseteq unlocked

LEMMA TypeParts == TypeOK <=> StagesOK /\ ContentsOK /\ NumbersOK /\ ListsOK /\ StraysOK
BY DEF TypeOK, StagesOK, ContentsOK, NumbersOK, ListsOK, StraysOK

\* The job a worker takes is one that waits.
LEMMA HeadWaits ==
  ASSUME IInv, queue # <<>>
  PROVE  Head(queue) \in Updates /\ stage[Head(queue)] = "waiting"
<1>1. ListsOK /\ QueueInv
  BY TypeParts DEF IInv
<1>2. Head(queue) \in Updates /\ 1 \in DOMAIN queue /\ Head(queue) = queue[1]
  BY <1>1 DEF ListsOK
<1> QED
  BY <1>1, <1>2 DEF QueueInv

-----------------------------------------------------------------------------
(* The workers that go on without a lock                                   *)

LEMMA StraysKept ==
  ASSUME UNCHANGED strays
  PROVE  \A u \in Updates : Straying(u)' = Straying(u) /\ Late(u)' = Late(u)
BY DEF strays, Straying, Late

LEMMA StraysJoined ==
  ASSUME NEW u \in Updates, LosesLock(u), process[u] \in Processes
  PROVE  /\ Straying(u)' = Straying(u) \cup {process[u]}
         /\ Late(u)' = IF stage[u] = "sending" THEN Late(u) \cup {process[u]} ELSE Late(u)
         /\ \A v \in Updates \ {u} : Straying(v)' = Straying(v) /\ Late(v)' = Late(v)
BY DEF LosesLock, Straying, Late

LEMMA StraysReceived ==
  ASSUME NEW p \in Processes, NEW u \in Updates, ReceiveLate(p, u)
  PROVE  /\ p \in Late(u) /\ Late(u)' = Late(u) \ {p}
         /\ \A v \in Updates : Straying(v)' = Straying(v)
         /\ \A v \in Updates \ {u} : Late(v)' = Late(v)
BY DEF ReceiveLate, Straying, Late

LEMMA StraysLess ==
  ASSUME NEW p \in Processes,
         Crash(p) \/ \E u \in Updates : ReceiveLate(p, u) \/ EndsUnlocked(p, u)
  PROVE  \A v \in Updates : Straying(v)' \subseteq Straying(v) /\ Late(v)' \subseteq Late(v)
BY DEF Crash, ReceiveLate, EndsUnlocked, Straying, Late

LEMMA NextStraysOK == IInv /\ [Next]_vars => StraysOK'
<1> SUFFICES ASSUME IInv, [Next]_vars PROVE StraysOK'
  OBVIOUS
<1>0. StraysOK
  BY TypeParts DEF IInv
<1>1. ASSUME NEW u \in Updates, LosesLock(u) PROVE StraysOK'
  <2>1. process[u] \in Processes
    BY <1>1 DEF LosesLock, IInv, WorkersInv
  <2> QED
    BY <1>0, <1>1, <2>1 DEF LosesLock, StraysOK
<1>2. ASSUME NEW p \in Processes, NEW u \in Updates, ReceiveLate(p, u) \/ EndsUnlocked(p, u)
      PROVE  StraysOK'
  BY <1>0, <1>2 DEF ReceiveLate, EndsUnlocked, StraysOK
<1>3. ASSUME NEW p \in Processes, Crash(p) PROVE StraysOK'
  BY <1>0, <1>3 DEF Crash, StraysOK
<1>4. CASE UNCHANGED strays
  BY <1>0, <1>4 DEF strays, StraysOK
<1>5. CASE DeveloperStep \/ HandlerStep
  BY <1>4, <1>5
  DEF DeveloperStep, DeleteWebhook, SetWebhook, HandlerStep, Store, LookUp, AddJob, EnqueueFails
<1>6. CASE WorkerStep
  BY <1>1, <1>2, <1>4, <1>6 DEF WorkerStep, Receive, Completes, Throws
<1>7. CASE QueueStep
  BY <1>3, <1>4, <1>7 DEF QueueStep, Take, Retry, Recover
<1> QED
  BY <1>4, <1>5, <1>6, <1>7 DEF Next, vars

-----------------------------------------------------------------------------
(* The type of the other variables                                         *)

LEMMA NextStagesOK == IInv /\ [Next]_vars => StagesOK'
<1> SUFFICES ASSUME IInv, [Next]_vars PROVE StagesOK'
  OBVIOUS
<1>0. StagesOK
  BY TypeParts DEF IInv
<1>f. Fault => faults' \in 0..MaxFaults
  BY <1>0, BoundsAssumption DEF Fault, StagesOK
<1> USE DEF StagesOK, Move, Release, Handling, Active, Ended
<1>1. CASE DeveloperStep
  BY <1>0, <1>1 DEF DeveloperStep, DeleteWebhook, SetWebhook, Configure
<1>2. CASE HandlerStep
  BY <1>0, <1>f, <1>2 DEF HandlerStep, Store, LookUp, AddJob, EnqueueFails, hook
<1>3. CASE WorkerStep
  BY <1>0, <1>f, <1>3
  DEF WorkerStep, Receive, Completes, Throws, LosesLock, ReceiveLate, EndsUnlocked, hook
<1>4. ASSUME NEW p \in Processes, Take(p) PROVE StagesOK'
  BY <1>0, <1>4, HeadWaits DEF Take, hook
<1>5. ASSUME NEW p \in Processes, Crash(p) PROVE StagesOK'
  BY <1>0, <1>f, <1>5 DEF Crash, hook
<1>6. ASSUME NEW u \in Updates, Retry(u) \/ Recover(u) PROVE StagesOK'
  BY <1>0, <1>6 DEF Retry, Recover, hook
<1>7. CASE UNCHANGED vars
  BY <1>0, <1>7 DEF vars, hook
<1> HIDE DEF StagesOK
<1> QED
  BY <1>1, <1>2, <1>3, <1>4, <1>5, <1>6, <1>7 DEF Next, QueueStep

LEMMA NextContentsOK == IInv /\ [Next]_vars => ContentsOK'
<1> SUFFICES ASSUME IInv, [Next]_vars PROVE ContentsOK'
  OBVIOUS
<1>0. StagesOK /\ ContentsOK
  BY TypeParts DEF IInv
<1>1. CASE DeveloperStep
  BY <1>0, <1>1
  DEF DeveloperStep, DeleteWebhook, SetWebhook, Configure, job, ContentsOK, StagesOK
<1>2. CASE HandlerStep
  BY <1>0, <1>2
  DEF HandlerStep, Store, LookUp, AddJob, EnqueueFails, job, history, ContentsOK, StagesOK
<1>3. CASE UNCHANGED <<url, secret, inForce>>
  BY <1>0, <1>3 DEF ContentsOK
<1> QED
  BY <1>1, <1>2, <1>3
  DEF Next, vars, job, history, WorkerStep, Receive, Completes, Throws, LosesLock, ReceiveLate,
      EndsUnlocked, QueueStep, Take, Crash, Retry, Recover

LEMMA NextNumbersOK == IInv /\ [Next]_vars => NumbersOK'
<1> SUFFICES ASSUME IInv, [Next]_vars PROVE NumbersOK'
  OBVIOUS
<1>0. NumbersOK
  BY TypeParts DEF IInv
<1>1. ASSUME NEW u \in Updates, Receive(u) PROVE NumbersOK'
  BY <1>0, <1>1 DEF Receive, job, NumbersOK
<1>1a. ASSUME NEW p \in Processes, NEW u \in Updates, ReceiveLate(p, u) PROVE NumbersOK'
  BY <1>0, <1>1a DEF ReceiveLate, job, NumbersOK
<1>2. ASSUME NEW u \in Updates, Throws(u) PROVE NumbersOK'
  <2>0. attempts[u] < Attempts
    BY <1>2 DEF Throws, Active, IInv, CountsInv
  <2>1. attempts[u] + 1 \in 0..Attempts
    BY <1>0, <2>0, BoundsAssumption DEF NumbersOK
  <2> QED
    BY <1>0, <1>2, <2>1 DEF Throws, NumbersOK
<1>3. ASSUME NEW u \in Updates, Recover(u) PROVE NumbersOK'
  <2>0. stalls[u] =< MaxStalled
    BY <1>3 DEF Recover, IInv, CountsInv
  <2>1. stalls[u] + 1 \in 0..MaxStalled + 1
    BY <1>0, <2>0, BoundsAssumption DEF NumbersOK
  <2> QED
    BY <1>0, <1>3, <2>1 DEF Recover, NumbersOK
<1>4. CASE UNCHANGED <<attempts, stalls, received>>
  BY <1>0, <1>4 DEF NumbersOK
<1>5. CASE DeveloperStep \/ HandlerStep
  BY <1>4, <1>5
  DEF job, DeveloperStep, DeleteWebhook, SetWebhook, HandlerStep, Store, LookUp, AddJob,
      EnqueueFails
<1>6. CASE WorkerStep
  BY <1>1, <1>1a, <1>2, <1>4, <1>6 DEF job, WorkerStep, Completes, LosesLock, EndsUnlocked
<1>7. CASE QueueStep
  BY <1>3, <1>4, <1>7 DEF job, QueueStep, Take, Crash, Retry
<1> QED
  BY <1>4, <1>5, <1>6, <1>7 DEF Next, vars, job

LEMMA NextListsOK == IInv /\ [Next]_vars => ListsOK'
<1> SUFFICES ASSUME IInv, [Next]_vars PROVE ListsOK'
  OBVIOUS
<1>0. ListsOK
  BY TypeParts DEF IInv
<1>1. ASSUME NEW u \in Updates, AddJob(u) \/ Retry(u) PROVE ListsOK'
  <2>1. Append(queue, u) \in Seq(Updates)
    BY <1>0, AppendProperties DEF ListsOK
  <2>2. CASE AddJob(u)
    BY <1>0, <2>1, <2>2 DEF AddJob, ListsOK
  <2>3. CASE Retry(u)
    BY <1>0, <2>1, <2>3 DEF Retry, history, ListsOK
  <2> QED
    BY <1>1, <2>2, <2>3
<1>2. ASSUME NEW p \in Processes, Take(p) PROVE ListsOK'
  BY <1>0, <1>2 DEF Take, history, ListsOK
<1>3. ASSUME NEW u \in Updates, Recover(u) PROVE ListsOK'
  BY <1>0, <1>3 DEF Recover, history, ListsOK
<1>4. CASE UNCHANGED <<queue, added>>
  BY <1>0, <1>4 DEF ListsOK
<1> QED
  BY <1>1, <1>2, <1>3, <1>4
  DEF Next, vars, history, DeveloperStep, DeleteWebhook, SetWebhook, HandlerStep, Store, LookUp,
      EnqueueFails, WorkerStep, Receive, Completes, Throws, LosesLock, ReceiveLate, EndsUnlocked,
      QueueStep, Crash

LEMMA NextType == IInv /\ [Next]_vars => TypeOK'
BY NextStagesOK, NextContentsOK, NextNumbersOK, NextListsOK, NextStraysOK, TypeParts
DEF TypeOK, StagesOK, ContentsOK, NumbersOK, ListsOK, StraysOK

-----------------------------------------------------------------------------
LEMMA NextWorkers == IInv /\ [Next]_vars => WorkersInv'
<1> SUFFICES ASSUME IInv, [Next]_vars PROVE WorkersInv'
  OBVIOUS
<1>0. StagesOK /\ WorkersInv
  BY TypeParts DEF IInv
<1> USE DEF StagesOK, WorkersInv, Move, Release, Handling, Active, Ended, Enqueued
<1>1. ASSUME NEW u \in Updates,
             (\E p \in Processes : Store(u, p)) \/ LookUp(u) \/ AddJob(u) \/ EnqueueFails(u)
      PROVE  WorkersInv'
  <2>1. \A v \in Updates : Straying(v)' = Straying(v)
    BY <1>1, StraysKept DEF Store, LookUp, AddJob, EnqueueFails
  <2>2. ASSUME NEW p \in Processes, Store(u, p) PROVE WorkersInv'
    <3>1. /\ stage[u] = "none" /\ stage'[u] = "stored" /\ process'[u] = p
          /\ \A v \in Updates \ {u} : stage'[v] = stage[v] /\ process'[v] = process[v]
      BY <1>0, <2>2 DEF Store
    <3>2. Straying(u) = {}
      BY <1>0, <3>1
    <3> QED
      BY <1>0, <2>1, <3>1, <3>2
  <2>3. CASE LookUp(u)
    BY <1>0, <2>1, <2>3 DEF LookUp
  <2>4. CASE AddJob(u) \/ EnqueueFails(u)
    <3>1. /\ stage[u] \in Handling /\ stage'[u] \in {"waiting", "lost"} /\ process'[u] = Nobody
          /\ \A v \in Updates \ {u} : stage'[v] = stage[v] /\ process'[v] = process[v]
      BY <1>0, <2>4 DEF AddJob, EnqueueFails
    <3>2. Straying(u) = {}
      BY <1>0, <3>1
    <3> QED
      BY <1>0, <2>1, <3>1, <3>2
  <2> QED
    BY <1>1, <2>2, <2>3, <2>4
<1>2. ASSUME NEW u \in Updates, Receive(u) \/ Completes(u) \/ Throws(u) PROVE WorkersInv'
  <2>1. \A v \in Updates : Straying(v)' = Straying(v)
    BY <1>2, StraysKept DEF Receive, Completes, Throws
  <2> QED
    BY <1>0, <1>2, <2>1 DEF Receive, Completes, Throws
<1>3. ASSUME NEW p \in Processes, Take(p) PROVE WorkersInv'
  <2>1. \A v \in Updates : Straying(v)' = Straying(v)
    BY <1>3, StraysKept DEF Take
  <2>2. \A v \in Updates : p \notin Straying(v) /\ (stage[v] \in Active => process[v] # p)
    BY <1>3 DEF Take, Idle, Workers
  <2> QED
    BY <1>0, <1>3, <2>1, <2>2, HeadWaits DEF Take
<1>4. ASSUME NEW p \in Processes, Crash(p) PROVE WorkersInv'
  <2>1. \A v \in Updates : Straying(v)' \subseteq Straying(v)
    BY <1>4, StraysLess
  <2> QED
    BY <1>0, <1>4, <2>1, BoundsAssumption DEF Crash
<1>5. ASSUME NEW u \in Updates, Retry(u) \/ Recover(u) PROVE WorkersInv'
  <2>1. \A v \in Updates : Straying(v)' = Straying(v)
    BY <1>5, StraysKept DEF Retry, Recover
  <2>2. /\ stage[u] \in {"delayed", "stalled"} /\ stage'[u] \in {"waiting", "failed"}
        /\ process' = process /\ \A v \in Updates \ {u} : stage'[v] = stage[v]
    BY <1>0, <1>5 DEF Retry, Recover
  <2> QED
    BY <1>0, <2>1, <2>2
<1>6. ASSUME NEW u \in Updates, LosesLock(u) PROVE WorkersInv'
  <2>1. /\ Straying(u)' = Straying(u) \cup {process[u]}
        /\ \A v \in Updates \ {u} : Straying(v)' = Straying(v)
    BY <1>0, <1>6, StraysJoined DEF LosesLock
  <2> QED
    BY <1>0, <1>6, <2>1 DEF LosesLock
<1>7. ASSUME NEW p \in Processes, NEW u \in Updates, ReceiveLate(p, u) \/ EndsUnlocked(p, u)
      PROVE  WorkersInv'
  <2>1. \A v \in Updates : Straying(v)' \subseteq Straying(v)
    BY <1>7, StraysLess
  <2> QED
    BY <1>0, <1>7, <2>1 DEF ReceiveLate, EndsUnlocked
<1>8. CASE UNCHANGED <<stage, process, strays>>
  BY <1>0, <1>8, StraysKept
<1> HIDE DEF WorkersInv
<1>9. CASE DeveloperStep \/ UNCHANGED vars
  BY <1>8, <1>9 DEF DeveloperStep, DeleteWebhook, SetWebhook, vars
<1> QED
  BY <1>1, <1>2, <1>3, <1>4, <1>5, <1>6, <1>7, <1>9 DEF Next, HandlerStep, WorkerStep, QueueStep

\* What a step that leaves the locks alone must keep.
LEMMA StallsKept ==
  ASSUME StallsInv,
         \A u \in Updates :
           /\ Straying(u)' \subseteq Straying(u)
           /\ stalls[u] \in Nat /\ stalls'[u] \in Nat
           /\ stalls[u] + (IF stage[u] = "stalled" THEN 1 ELSE 0)
                =< stalls'[u] + (IF stage'[u] = "stalled" THEN 1 ELSE 0)
  PROVE  StallsInv'
<1> SUFFICES ASSUME NEW u \in Updates
             PROVE  /\ IsFiniteSet(Straying(u)')
                    /\ Cardinality(Straying(u)') =<
                         stalls'[u] + (IF stage'[u] = "stalled" THEN 1 ELSE 0)
  BY DEF StallsInv
<1>1. IsFiniteSet(Straying(u)') /\ Cardinality(Straying(u)') =< Cardinality(Straying(u))
  BY FS_Subset DEF StallsInv
<1>2. Cardinality(Straying(u)') \in Nat /\ Cardinality(Straying(u)) \in Nat
  BY <1>1, FS_CardinalityType DEF StallsInv
<1> QED
  BY <1>1, <1>2 DEF StallsInv

LEMMA NextStalls == IInv /\ [Next]_vars => StallsInv'
<1> SUFFICES ASSUME IInv, [Next]_vars PROVE StallsInv'
  OBVIOUS
<1>0. StagesOK /\ NumbersOK /\ NumbersOK' /\ StallsInv
  BY TypeParts, NextNumbersOK DEF IInv
<1>n. \A u \in Updates : stalls[u] \in Nat /\ stalls'[u] \in Nat
  BY <1>0, BoundsAssumption DEF NumbersOK
<1>k. ASSUME \A u \in Updates : Straying(u)' \subseteq Straying(u), stalls' = stalls,
             \A u \in Updates : stage[u] = "stalled" => stage'[u] = "stalled"
      PROVE  StallsInv'
  BY <1>0, <1>k, <1>n, StallsKept
<1> USE DEF StagesOK, Move, Handling, Active, Ended
<1>1. CASE HandlerStep
  <2>1. \A u \in Updates : Straying(u)' = Straying(u)
    BY <1>1, StraysKept DEF HandlerStep, Store, LookUp, AddJob, EnqueueFails
  <2> QED
    BY <1>0, <1>1, <1>k, <2>1 DEF HandlerStep, Store, LookUp, AddJob, EnqueueFails, job
<1>2. ASSUME NEW u \in Updates, Receive(u) \/ Completes(u) \/ Throws(u) PROVE StallsInv'
  <2>1. \A v \in Updates : Straying(v)' = Straying(v)
    BY <1>2, StraysKept DEF Receive, Completes, Throws
  <2> QED
    BY <1>0, <1>2, <1>k, <2>1 DEF Receive, Completes, Throws, job
<1>3. ASSUME NEW p \in Processes, Take(p) PROVE StallsInv'
  <2>1. \A v \in Updates : Straying(v)' = Straying(v)
    BY <1>3, StraysKept DEF Take
  <2> QED
    BY <1>0, <1>3, <1>k, <2>1, HeadWaits DEF Take, job
<1>4. ASSUME NEW p \in Processes, Crash(p) PROVE StallsInv'
  <2>1. \A v \in Updates : Straying(v)' \subseteq Straying(v)
    BY <1>4, StraysLess
  <2> QED
    BY <1>0, <1>4, <1>k, <2>1 DEF Crash, job
<1>5. ASSUME NEW u \in Updates, Retry(u) PROVE StallsInv'
  <2>1. \A v \in Updates : Straying(v)' = Straying(v)
    BY <1>5, StraysKept DEF Retry
  <2> QED
    BY <1>0, <1>5, <1>k, <2>1 DEF Retry, job
<1>6. ASSUME NEW u \in Updates, Recover(u) PROVE StallsInv'
  <2>1. \A v \in Updates : Straying(v)' = Straying(v)
    BY <1>6, StraysKept DEF Recover
  <2>2. stage[u] = "stalled" /\ stalls'[u] = stalls[u] + 1
    BY <1>0, <1>6 DEF Recover, NumbersOK
  <2>3. \A v \in Updates \ {u} : stalls'[v] = stalls[v] /\ stage'[v] = stage[v]
    BY <1>0, <1>6 DEF Recover, NumbersOK
  <2>4. ASSUME NEW v \in Updates
        PROVE  stalls[v] + (IF stage[v] = "stalled" THEN 1 ELSE 0)
                 =< stalls'[v] + (IF stage'[v] = "stalled" THEN 1 ELSE 0)
    BY <1>n, <2>2, <2>3
  <2> QED
    BY <1>0, <1>n, <2>1, <2>4, StallsKept
<1>7. ASSUME NEW u \in Updates, LosesLock(u) PROVE StallsInv'
  <2>1. stage[u] \in Active /\ process[u] \in Processes
    BY <1>7 DEF LosesLock, IInv, WorkersInv
  <2>2. /\ Straying(u)' = Straying(u) \cup {process[u]} /\ process[u] \notin Straying(u)
        /\ \A v \in Updates \ {u} : Straying(v)' = Straying(v)
    BY <1>7, <2>1, StraysJoined DEF IInv, WorkersInv
  <2>3. stalls' = stalls /\ stage'[u] = "stalled" /\ \A v \in Updates \ {u} : stage'[v] = stage[v]
    BY <1>0, <1>7 DEF LosesLock, job
  <2>4. IsFiniteSet(Straying(u)) /\ Cardinality(Straying(u)) =< stalls[u]
    BY <1>0, <1>n, <2>1 DEF StallsInv
  <2>5. /\ IsFiniteSet(Straying(u) \cup {process[u]})
        /\ Cardinality(Straying(u) \cup {process[u]}) = Cardinality(Straying(u)) + 1
        /\ Cardinality(Straying(u)) \in Nat
    BY <2>2, <2>4, FS_AddElement, FS_CardinalityType
  <2>6. Cardinality(Straying(u)) + 1 =< stalls[u] + 1
    BY <1>n, <2>4, <2>5
  <2> QED
    BY <1>0, <2>2, <2>3, <2>5, <2>6 DEF StallsInv
<1>8. ASSUME NEW p \in Processes, NEW u \in Updates, ReceiveLate(p, u) \/ EndsUnlocked(p, u)
      PROVE  StallsInv'
  <2>1. \A v \in Updates : Straying(v)' \subseteq Straying(v)
    BY <1>8, StraysLess
  <2> QED
    BY <1>8, <1>k, <2>1 DEF ReceiveLate, EndsUnlocked, job
<1>9. CASE UNCHANGED <<stage, stalls, strays>>
  BY <1>9, <1>k, StraysKept
<1> HIDE DEF StallsInv
<1>10. CASE DeveloperStep \/ UNCHANGED vars
  BY <1>9, <1>10 DEF DeveloperStep, DeleteWebhook, SetWebhook, vars, job
<1> QED
  BY <1>1, <1>2, <1>3, <1>4, <1>5, <1>6, <1>7, <1>8, <1>10 DEF Next, WorkerStep, QueueStep

LEMMA NextJobs == IInv /\ [Next]_vars => JobsInv'
<1> SUFFICES ASSUME IInv, [Next]_vars PROVE JobsInv'
  OBVIOUS
<1>0. StagesOK /\ ContentsOK /\ JobsInv
  BY TypeParts DEF IInv
<1> USE DEF StagesOK, ContentsOK, JobsInv, Added, Enqueued, Move, Handling, Active, Ended
<1>1. CASE DeveloperStep
  BY <1>0, <1>1 DEF DeveloperStep, DeleteWebhook, SetWebhook, Configure, job
<1>2. CASE HandlerStep
  BY <1>0, <1>2 DEF HandlerStep, Store, LookUp, AddJob, EnqueueFails, hook, job, history
<1>3. ASSUME NEW u \in Updates, Receive(u) \/ Completes(u) \/ Throws(u) \/ LosesLock(u)
      PROVE  JobsInv'
  BY <1>0, <1>3 DEF Receive, Completes, Throws, LosesLock, hook, job, history
<1>8. ASSUME NEW p \in Processes, NEW u \in Updates, ReceiveLate(p, u) \/ EndsUnlocked(p, u)
      PROVE  JobsInv'
  BY <1>0, <1>8 DEF ReceiveLate, EndsUnlocked, hook, job, history
<1>4. ASSUME NEW p \in Processes, Take(p) PROVE JobsInv'
  BY <1>0, <1>4, HeadWaits DEF Take, hook, job, history
<1>5. ASSUME NEW p \in Processes, Crash(p) PROVE JobsInv'
  BY <1>0, <1>5 DEF Crash, hook, job, history
<1>6. ASSUME NEW u \in Updates, Retry(u) \/ Recover(u) PROVE JobsInv'
  BY <1>0, <1>6 DEF Retry, Recover, hook, job, history
<1>7. CASE UNCHANGED vars
  BY <1>0, <1>7 DEF vars, hook, job, history
<1> HIDE DEF JobsInv
<1> QED
  BY <1>1, <1>2, <1>3, <1>4, <1>5, <1>6, <1>7, <1>8 DEF Next, WorkerStep, QueueStep

LEMMA LateFinite ==
  ASSUME IInv, NEW u \in Updates
  PROVE  IsFiniteSet(Late(u)) /\ Cardinality(Late(u)) \in Nat /\ Begun(u) \in Nat
<1>1. Late(u) \subseteq Straying(u) /\ NumbersOK
  BY TypeParts DEF IInv, StraysOK, Late, Straying
<1>2. IsFiniteSet(Late(u))
  BY <1>1, FS_Subset DEF IInv, StallsInv
<1> QED
  BY <1>1, <1>2, FS_CardinalityType DEF Begun, NumbersOK

LEMMA BegunKept ==
  ASSUME UNCHANGED <<received, strays>>
  PROVE  \A u \in Updates : Begun(u)' = Begun(u)
BY StraysKept DEF Begun

LEMMA BegunReceive ==
  ASSUME IInv, NEW u \in Updates, Receive(u)
  PROVE  Begun(u)' = Begun(u) + 1 /\ \A v \in Updates \ {u} : Begun(v)' = Begun(v)
<1>1. /\ received'[u] = received[u] + 1 /\ received[u] \in Nat
      /\ \A v \in Updates \ {u} : received'[v] = received[v]
  BY TypeParts DEF IInv, NumbersOK, Receive
<1>2. \A v \in Updates : Late(v)' = Late(v)
  BY StraysKept DEF Receive
<1> QED
  BY <1>1, <1>2, LateFinite DEF Begun

LEMMA BegunLosesLock ==
  ASSUME IInv, NEW u \in Updates, LosesLock(u)
  PROVE  /\ Begun(u)' =< Begun(u) + (IF stage[u] = "sending" THEN 1 ELSE 0)
         /\ Begun(u)' \in Nat
         /\ \A v \in Updates \ {u} : Begun(v)' = Begun(v)
<1>1. received' = received /\ process[u] \in Processes
  BY DEF LosesLock, IInv, WorkersInv
<1>2. /\ Late(u)' = IF stage[u] = "sending" THEN Late(u) \cup {process[u]} ELSE Late(u)
      /\ \A v \in Updates \ {u} : Late(v)' = Late(v)
  BY <1>1, StraysJoined
<1>3. IsFiniteSet(Late(u)) /\ Cardinality(Late(u)) \in Nat /\ received[u] \in Nat
  BY LateFinite, TypeParts DEF IInv, NumbersOK
<1> DEFINE grown == Late(u) \cup {process[u]}
<1>4. grown = Late(u) \/ Cardinality(grown) = Cardinality(Late(u)) + 1
  <2>1. process[u] \in Late(u) => grown = Late(u)
    OBVIOUS
  <2>2. process[u] \notin Late(u) => Cardinality(grown) = Cardinality(Late(u)) + 1
    BY <1>3, FS_AddElement
  <2> QED
    BY <2>1, <2>2
<1>5. Late(u)' = (IF stage[u] = "sending" THEN grown ELSE Late(u))
  BY <1>2
<1> HIDE DEF grown
<1>6. Cardinality(grown) \in Nat /\ Cardinality(grown) =< Cardinality(Late(u)) + 1
  <2>1. CASE grown = Late(u)
    BY <1>3, <2>1
  <2>2. CASE Cardinality(grown) = Cardinality(Late(u)) + 1
    BY <1>3, <2>2
  <2> QED
    BY <1>4, <2>1, <2>2
<1>7. /\ Cardinality(Late(u)') \in Nat
      /\ Cardinality(Late(u)') =< Cardinality(Late(u)) + (IF stage[u] = "sending" THEN 1 ELSE 0)
  BY <1>3, <1>5, <1>6
<1>8. \A v \in Updates \ {u} : Begun(v)' = Begun(v)
  BY <1>1, <1>2 DEF Begun
<1> QED
  BY <1>1, <1>3, <1>7, <1>8 DEF Begun

LEMMA BegunReceiveLate ==
  ASSUME IInv, NEW p \in Processes, NEW u \in Updates, ReceiveLate(p, u)
  PROVE  \A v \in Updates : Begun(v)' = Begun(v)
<1>1. /\ received'[u] = received[u] + 1 /\ received[u] \in Nat
      /\ \A v \in Updates \ {u} : received'[v] = received[v]
  BY TypeParts DEF IInv, NumbersOK, ReceiveLate
<1>2. /\ p \in Late(u) /\ Late(u)' = Late(u) \ {p}
      /\ \A v \in Updates \ {u} : Late(v)' = Late(v)
  BY StraysReceived
<1>3. IsFiniteSet(Late(u)) /\ Cardinality(Late(u)) \in Nat
  BY LateFinite
<1>4. Cardinality(Late(u) \ {p}) = Cardinality(Late(u)) - 1
  BY <1>2, <1>3, FS_RemoveElement
<1>5. Cardinality(Late(u)') = Cardinality(Late(u)) - 1
  BY <1>2, <1>4
<1>6. Begun(u)' = Begun(u)
  BY <1>1, <1>3, <1>5 DEF Begun
<1>7. \A v \in Updates \ {u} : Begun(v)' = Begun(v)
  BY <1>1, <1>2 DEF Begun
<1> QED
  BY <1>6, <1>7

LEMMA BegunLess ==
  ASSUME IInv, UNCHANGED received, \A u \in Updates : Late(u)' \subseteq Late(u)
  PROVE  \A u \in Updates : Begun(u)' =< Begun(u) /\ Begun(u)' \in Nat
<1> SUFFICES ASSUME NEW u \in Updates PROVE Begun(u)' =< Begun(u) /\ Begun(u)' \in Nat
  OBVIOUS
<1>1. IsFiniteSet(Late(u)) /\ Cardinality(Late(u)) \in Nat /\ received[u] \in Nat
  BY LateFinite, TypeParts DEF IInv, NumbersOK
<1>2. IsFiniteSet(Late(u)') /\ Cardinality(Late(u)') =< Cardinality(Late(u))
  BY <1>1, FS_Subset
<1>3. Cardinality(Late(u)') \in Nat
  BY <1>2, FS_CardinalityType
<1> QED
  BY <1>1, <1>2, <1>3 DEF Begun

LEMMA NextCounts == IInv /\ [Next]_vars => CountsInv'
<1> SUFFICES ASSUME IInv, [Next]_vars PROVE CountsInv'
  OBVIOUS
<1>0. StagesOK /\ NumbersOK /\ CountsInv
  BY TypeParts DEF IInv
<1>a. \A u \in Updates : attempts[u] \in Nat /\ stalls[u] \in Nat /\ Begun(u) \in Nat
  BY <1>0, BoundsAssumption, LateFinite DEF NumbersOK
<1>b. ASSUME NEW u \in Updates,
             \A v \in Updates \ {u} : /\ stage'[v] = stage[v] /\ attempts'[v] = attempts[v]
                                     /\ stalls'[v] = stalls[v] /\ Begun(v)' = Begun(v),
             Begun(u)' =< attempts'[u] + stalls'[u] + (IF stage'[u] \in Posted THEN 1 ELSE 0),
             stage'[u] = "failed" => attempts'[u] = Attempts \/ stalls'[u] > MaxStalled,
             stage'[u] # "failed" => attempts'[u] < Attempts /\ stalls'[u] =< MaxStalled
      PROVE  CountsInv'
  BY <1>0, <1>b DEF CountsInv, Posted
<1>c. ASSUME NEW u \in Updates, NEW to, stage' = [stage EXCEPT ![u] = to]
      PROVE  stage'[u] = to /\ \A v \in Updates \ {u} : stage'[v] = stage[v]
  BY <1>0, <1>c DEF StagesOK
<1>d. ASSUME UNCHANGED <<attempts, stalls>>,
             \A u \in Updates : Begun(u)' =< Begun(u) /\ Begun(u)' \in Nat,
             \A u \in Updates :
               \/ stage'[u] = stage[u]
               \/ stage[u] \in {"stored", "adding"} /\ stage'[u] = "lost"
               \/ stage[u] \in {"sending", "answering"} /\ stage'[u] = "stalled"
      PROVE  CountsInv'
  <2> SUFFICES ASSUME NEW u \in Updates
               PROVE  /\ Begun(u)' =< attempts[u] + stalls[u] + (IF stage'[u] \in Posted THEN 1 ELSE 0)
                      /\ stage'[u] = "failed" => attempts[u] = Attempts \/ stalls[u] > MaxStalled
                      /\ stage'[u] # "failed" => attempts[u] < Attempts /\ stalls[u] =< MaxStalled
    BY <1>d DEF CountsInv
  <2>1. Begun(u) =< attempts[u] + stalls[u] + (IF stage'[u] \in Posted THEN 1 ELSE 0)
    BY <1>0, <1>a, <1>d DEF CountsInv, Posted
  <2>2. Begun(u)' =< Begun(u) /\ Begun(u)' \in Nat
    BY <1>d
  <2>3. stage'[u] = "failed" <=> stage[u] = "failed"
    BY <1>d
  <2> QED
    BY <1>0, <1>a, <2>1, <2>2, <2>3 DEF CountsInv
<1>e. ASSUME UNCHANGED <<stage, attempts, stalls>>, \A u \in Updates : Begun(u)' = Begun(u)
      PROVE  CountsInv'
  BY <1>0, <1>e DEF CountsInv
<1>1. CASE HandlerStep
  <2>1. PICK u \in Updates : \/ \E p \in Processes : Store(u, p)
                             \/ LookUp(u) \/ AddJob(u) \/ EnqueueFails(u)
    BY <1>1 DEF HandlerStep
  <2>2. UNCHANGED <<attempts, stalls, received, strays>> /\ stage[u] \in {"none"} \cup Handling
    BY <2>1 DEF Store, LookUp, AddJob, EnqueueFails, job, Handling
  <2>3. PICK to \in {"stored", "noHook", "adding", "waiting", "lost"} :
               stage' = [stage EXCEPT ![u] = to]
    BY <2>1 DEF Store, LookUp, AddJob, EnqueueFails, Move
  <2>4. stage'[u] = to /\ \A v \in Updates \ {u} : stage'[v] = stage[v]
    BY <2>3, <1>c
  <2>5. stage[u] \notin Posted /\ stage[u] # "failed" /\ to \notin Posted /\ to # "failed"
    BY <2>2, <2>3 DEF Posted, Handling
  <2>6. /\ Begun(u) =< attempts[u] + stalls[u]
        /\ attempts[u] < Attempts /\ stalls[u] =< MaxStalled
    BY <1>0, <1>a, <2>5 DEF CountsInv
  <2>7. \A v \in Updates : Begun(v)' = Begun(v)
    BY <2>2, BegunKept
  <2> QED
    BY <1>a, <1>b, <2>2, <2>4, <2>5, <2>6, <2>7
<1>2. ASSUME NEW u \in Updates, Receive(u) PROVE CountsInv'
  <2>1. UNCHANGED <<attempts, stalls>> /\ stage[u] = "sending" /\ stage' = [stage EXCEPT ![u] = "answering"]
    BY <1>2 DEF Receive, job, Move
  <2>2. Begun(u)' = Begun(u) + 1 /\ \A v \in Updates \ {u} : Begun(v)' = Begun(v)
    BY <1>2, BegunReceive
  <2>3. stage'[u] = "answering" /\ \A v \in Updates \ {u} : stage'[v] = stage[v]
    BY <2>1, <1>c
  <2>4. Begun(u) =< attempts[u] + stalls[u] /\ attempts[u] < Attempts /\ stalls[u] =< MaxStalled
    BY <1>0, <1>a, <2>1 DEF CountsInv, Posted
  <2>5. Begun(u)' =< attempts[u] + stalls[u] + 1
    BY <1>a, <2>2, <2>4
  <2>6. "answering" \in Posted
    BY DEF Posted
  <2> QED
    BY <1>b, <2>1, <2>2, <2>3, <2>4, <2>5, <2>6
<1>3. ASSUME NEW u \in Updates, Completes(u) PROVE CountsInv'
  <2>1. UNCHANGED <<attempts, stalls>> /\ stage[u] = "answering" /\ stage' = [stage EXCEPT ![u] = "completed"]
    BY <1>3 DEF Completes, job, Move
  <2>2. \A v \in Updates : Begun(v)' = Begun(v)
    BY <1>3, BegunKept DEF Completes
  <2>3. stage'[u] = "completed" /\ \A v \in Updates \ {u} : stage'[v] = stage[v]
    BY <2>1, <1>c
  <2>4. Begun(u) =< attempts[u] + stalls[u] + 1 /\ attempts[u] < Attempts /\ stalls[u] =< MaxStalled
    BY <1>0, <1>a, <2>1 DEF CountsInv, Posted
  <2>5. "completed" \in Posted
    BY DEF Posted
  <2> QED
    BY <1>b, <2>1, <2>2, <2>3, <2>4, <2>5
<1>4. ASSUME NEW u \in Updates, Throws(u) PROVE CountsInv'
  <2> DEFINE to == IF attempts'[u] < Attempts THEN "delayed" ELSE "failed"
  <2>1. /\ stage[u] \in Active /\ stage' = [stage EXCEPT ![u] = to]
        /\ attempts' = [attempts EXCEPT ![u] = @ + 1] /\ UNCHANGED <<stalls, received, strays>>
    BY <1>4 DEF Throws, Move
  <2>2. /\ attempts'[u] = attempts[u] + 1
        /\ \A v \in Updates \ {u} : attempts'[v] = attempts[v]
    BY <1>0, <2>1 DEF NumbersOK
  <2>3. stage'[u] = to /\ \A v \in Updates \ {u} : stage'[v] = stage[v]
    BY <2>1, <1>c
  <2>4. /\ Begun(u) =< attempts[u] + stalls[u] + 1
        /\ attempts[u] < Attempts /\ stalls[u] =< MaxStalled
    <3>1. stage[u] # "failed"
      BY <2>1 DEF Active
    <3> QED
      BY <1>0, <1>a, <3>1 DEF CountsInv
  <2>5. attempts'[u] =< Attempts /\ Begun(u) =< attempts'[u] + stalls[u]
    BY <1>a, <2>2, <2>4, BoundsAssumption
  <2>6. \A v \in Updates \ {u} : /\ stage'[v] = stage[v] /\ attempts'[v] = attempts[v]
                                 /\ stalls'[v] = stalls[v] /\ Begun(v)' = Begun(v)
    BY <2>1, <2>2, <2>3, BegunKept
  <2>7. stage'[u] \notin Posted /\ (stage'[u] = "failed" <=> ~(attempts'[u] < Attempts))
    BY <2>3 DEF Posted
  <2>8. ~(attempts'[u] < Attempts) => attempts'[u] = Attempts
    BY <1>a, <2>2, <2>5, BoundsAssumption
  <2>9. stalls'[u] = stalls[u] /\ Begun(u)' = Begun(u) /\ attempts'[u] \in Nat
    BY <1>a, <2>1, <2>2, BegunKept
  <2>10. Begun(u)' =< attempts'[u] + stalls'[u] + 0
    BY <1>a, <2>5, <2>9
  <2> HIDE DEF to
  <2> QED
    BY <1>b, <2>4, <2>6, <2>7, <2>8, <2>9, <2>10
<1>5. ASSUME NEW p \in Processes, Take(p) PROVE CountsInv'
  <2>1. UNCHANGED <<attempts, stalls>> /\ queue # <<>> /\ stage' = [stage EXCEPT ![Head(queue)] = "sending"]
    BY <1>5 DEF Take, job, Move
  <2>2. \A v \in Updates : Begun(v)' = Begun(v)
    BY <1>5, BegunKept DEF Take
  <2>3. Head(queue) \in Updates /\ stage[Head(queue)] = "waiting"
    BY <2>1, HeadWaits
  <2>4. \A v \in Updates : stage'[v] = stage[v] \/ (stage[v] = "waiting" /\ stage'[v] = "sending")
    BY <1>0, <2>1, <2>3 DEF StagesOK
  <2>5. "waiting" \notin Posted /\ "sending" \notin Posted
    BY DEF Posted
  <2> QED
    BY <1>0, <2>1, <2>2, <2>4, <2>5 DEF CountsInv
<1>6. ASSUME NEW p \in Processes, Crash(p) PROVE CountsInv'
  <2>1. \A u \in Updates : Late(u)' \subseteq Late(u)
    BY <1>6, StraysLess
  <2>2. \A u \in Updates : Begun(u)' =< Begun(u) /\ Begun(u)' \in Nat
    BY <1>6, <2>1, BegunLess DEF Crash
  <2> QED
    BY <1>6, <1>d, <2>2 DEF Crash, job, Handling, Active
<1>7. ASSUME NEW u \in Updates, Retry(u) PROVE CountsInv'
  <2>1. UNCHANGED <<attempts, stalls>> /\ stage[u] = "delayed" /\ stage' = [stage EXCEPT ![u] = "waiting"]
    BY <1>7 DEF Retry, job, Move
  <2>2. \A v \in Updates : Begun(v)' = Begun(v)
    BY <1>7, BegunKept DEF Retry
  <2>3. \A v \in Updates : stage'[v] = stage[v] \/ (stage[v] = "delayed" /\ stage'[v] = "waiting")
    BY <1>0, <2>1 DEF StagesOK
  <2>4. "waiting" \notin Posted /\ "delayed" \notin Posted
    BY DEF Posted
  <2> QED
    BY <1>0, <2>1, <2>2, <2>3, <2>4 DEF CountsInv
<1>8. ASSUME NEW u \in Updates, Recover(u) PROVE CountsInv'
  <2> DEFINE to == IF stalls'[u] > MaxStalled THEN "failed" ELSE "waiting"
  <2>1. /\ stage[u] = "stalled" /\ stage' = [stage EXCEPT ![u] = to]
        /\ stalls' = [stalls EXCEPT ![u] = @ + 1] /\ UNCHANGED <<attempts, received, strays>>
    BY <1>8 DEF Recover, Move
  <2>2. /\ stalls'[u] = stalls[u] + 1
        /\ \A v \in Updates \ {u} : stalls'[v] = stalls[v]
    BY <1>0, <2>1 DEF NumbersOK
  <2>3. stage'[u] = to /\ \A v \in Updates \ {u} : stage'[v] = stage[v]
    BY <2>1, <1>c
  <2>4. /\ Begun(u) =< attempts[u] + stalls[u] + 1
        /\ attempts[u] < Attempts /\ stalls[u] =< MaxStalled
    BY <1>0, <1>a, <2>1 DEF CountsInv
  <2>5. Begun(u) =< attempts[u] + stalls'[u]
    BY <1>a, <2>2, <2>4
  <2>6. \A v \in Updates \ {u} : /\ stage'[v] = stage[v] /\ attempts'[v] = attempts[v]
                                 /\ stalls'[v] = stalls[v] /\ Begun(v)' = Begun(v)
    BY <2>1, <2>2, <2>3, BegunKept
  <2>7. stage'[u] \notin Posted /\ (stage'[u] = "failed" <=> stalls'[u] > MaxStalled)
    BY <2>3 DEF Posted
  <2>8. ~(stalls'[u] > MaxStalled) => stalls'[u] =< MaxStalled
    BY <1>a, <2>2, BoundsAssumption
  <2>9. attempts'[u] = attempts[u] /\ Begun(u)' = Begun(u) /\ stalls'[u] \in Nat
    BY <1>a, <2>1, <2>2, BegunKept
  <2>10. Begun(u)' =< attempts'[u] + stalls'[u] + 0
    BY <1>a, <2>5, <2>9
  <2> HIDE DEF to
  <2> QED
    BY <1>b, <2>4, <2>6, <2>7, <2>8, <2>9, <2>10
<1>9. ASSUME NEW u \in Updates, LosesLock(u) PROVE CountsInv'
  <2>1. UNCHANGED <<attempts, stalls>> /\ stage[u] \in Active /\ stage' = [stage EXCEPT ![u] = "stalled"]
    BY <1>9 DEF LosesLock, job, Move
  <2>2. /\ Begun(u)' =< Begun(u) + (IF stage[u] = "sending" THEN 1 ELSE 0)
        /\ Begun(u)' \in Nat /\ \A v \in Updates \ {u} : Begun(v)' = Begun(v)
    BY <1>9, BegunLosesLock
  <2>3. stage'[u] = "stalled" /\ \A v \in Updates \ {u} : stage'[v] = stage[v]
    BY <2>1, <1>c
  <2>4. /\ Begun(u) + (IF stage[u] = "sending" THEN 1 ELSE 0) =< attempts[u] + stalls[u] + 1
        /\ attempts[u] < Attempts /\ stalls[u] =< MaxStalled
    BY <1>0, <1>a, <2>1 DEF CountsInv, Posted, Active
  <2>5. Begun(u)' =< attempts[u] + stalls[u] + 1
    BY <1>a, <2>2, <2>4
  <2>6. "stalled" \in Posted
    BY DEF Posted
  <2> QED
    BY <1>b, <2>1, <2>2, <2>3, <2>4, <2>5, <2>6
<1>10. ASSUME NEW p \in Processes, NEW u \in Updates, ReceiveLate(p, u) PROVE CountsInv'
  BY <1>10, <1>e, BegunReceiveLate DEF ReceiveLate, job
<1>11. ASSUME NEW p \in Processes, NEW u \in Updates, EndsUnlocked(p, u) PROVE CountsInv'
  <2>1. \A v \in Updates : Late(v)' \subseteq Late(v)
    BY <1>11, StraysLess
  <2>2. \A v \in Updates : Begun(v)' =< Begun(v) /\ Begun(v)' \in Nat
    BY <1>11, <2>1, BegunLess DEF EndsUnlocked
  <2> QED
    BY <1>11, <1>d, <2>2 DEF EndsUnlocked, job
<1>12. CASE UNCHANGED <<stage, attempts, stalls, received, strays>>
  BY <1>12, <1>e, BegunKept
<1>13. CASE DeveloperStep \/ UNCHANGED vars
  BY <1>12, <1>13 DEF DeveloperStep, DeleteWebhook, SetWebhook, vars, job
<1> QED
  BY <1>1, <1>2, <1>3, <1>4, <1>5, <1>6, <1>7, <1>8, <1>9, <1>10, <1>11, <1>13
  DEF Next, WorkerStep, QueueStep

-----------------------------------------------------------------------------
(* The queue                                                               *)

Once(q) == \A i, j \in DOMAIN q : q[i] = q[j] => i = j
In(u, q) == \E i \in DOMAIN q : q[i] = u

LEMMA AppendOnce ==
  ASSUME NEW q \in Seq(Updates), NEW u \in Updates, Once(q), ~In(u, q)
  PROVE  /\ Once(Append(q, u))
         /\ \A v \in Updates : In(v, Append(q, u)) <=> v = u \/ In(v, q)
<1> DEFINE n == Len(q)
           s == Append(q, u)
<1>1. n \in Nat /\ DOMAIN q = 1..n /\ Len(s) = n + 1 /\ s \in Seq(Updates)
        /\ (\A i \in 1..n : s[i] = q[i]) /\ s[n + 1] = u
  BY AppendProperties, LenProperties
<1>2. DOMAIN s = 1..n + 1
  BY <1>1, LenProperties
<1> HIDE DEF n, s
<1>3. ASSUME NEW i \in 1..n + 1, NEW j \in 1..n + 1, s[i] = s[j] PROVE i = j
  <2>1. CASE i \in 1..n /\ j \in 1..n
    BY <1>1, <1>3, <2>1 DEF Once
  <2>2. CASE i = n + 1 \/ j = n + 1
    <3>1. \A k \in 1..n : s[k] # u
      BY <1>1 DEF In
    <3> QED
      BY <1>1, <1>3, <2>2, <3>1
  <2> QED
    BY <1>1, <2>1, <2>2
<1>4. ASSUME NEW v \in Updates PROVE In(v, s) <=> v = u \/ In(v, q)
  <2>1. n + 1 \in 1..n + 1 /\ \A i \in 1..n : i \in 1..n + 1
    BY <1>1
  <2>2. \A i \in 1..n + 1 : i \in 1..n \/ i = n + 1
    BY <1>1
  <2> QED
    BY <1>1, <1>2, <2>1, <2>2 DEF In
<1> QED
  BY <1>2, <1>3, <1>4 DEF Once, s

LEMMA PutFirstOnce ==
  ASSUME NEW q \in Seq(Updates), NEW u \in Updates, Once(q), ~In(u, q)
  PROVE  /\ Once(<<u>> \o q) /\ <<u>> \o q \in Seq(Updates)
         /\ \A v \in Updates : In(v, <<u>> \o q) <=> v = u \/ In(v, q)
<1> DEFINE n == Len(q)
           s == <<u>> \o q
<1>1. n \in Nat /\ DOMAIN q = 1..n
  BY LenProperties
<1>2. <<u>> \in Seq(Updates) /\ Len(<<u>>) = 1 /\ <<u>>[1] = u
  OBVIOUS
<1>3. s \in Seq(Updates) /\ Len(s) = 1 + n
        /\ \A i \in 1..1 + n : s[i] = IF i =< 1 THEN <<u>>[i] ELSE q[i - 1]
  BY <1>2, ConcatProperties
<1>4. DOMAIN s = 1..n + 1 /\ s[1] = u /\ \A i \in 1..n : s[i + 1] = q[i]
  <2>1. DOMAIN s = 1..1 + n
    BY <1>3, LenProperties
  <2> HIDE DEF n, s
  <2> QED
    BY <1>1, <1>2, <1>3, <2>1
<1> HIDE DEF n, s
<1>5. \A i \in 1..n + 1 : i = 1 \/ \E k \in 1..n : i = k + 1
  <2> SUFFICES ASSUME NEW i \in 1..n + 1, i # 1 PROVE \E k \in 1..n : i = k + 1
    OBVIOUS
  <2>1. i - 1 \in 1..n /\ i = (i - 1) + 1
    BY <1>1
  <2> QED
    BY <2>1
<1>6. ASSUME NEW i \in 1..n + 1, NEW j \in 1..n + 1, s[i] = s[j] PROVE i = j
  <2>1. \A k \in 1..n : s[k + 1] # u
    BY <1>1, <1>4 DEF In
  <2>2. CASE i = 1 \/ j = 1
    BY <1>4, <1>5, <1>6, <2>1, <2>2
  <2>3. CASE i # 1 /\ j # 1
    <3>1. PICK k \in 1..n : i = k + 1
      BY <1>5, <2>3
    <3>2. PICK l \in 1..n : j = l + 1
      BY <1>5, <2>3
    <3>3. q[k] = q[l]
      BY <1>4, <1>6, <3>1, <3>2
    <3> QED
      BY <1>1, <3>1, <3>2, <3>3 DEF Once
  <2> QED
    BY <2>2, <2>3
<1>7. ASSUME NEW v \in Updates PROVE In(v, s) <=> v = u \/ In(v, q)
  <2>1. 1 \in 1..n + 1 /\ \A i \in 1..n : i + 1 \in 1..n + 1
    BY <1>1
  <2>2. ASSUME In(v, s), v # u PROVE In(v, q)
    <3>1. PICK i \in 1..n + 1 : s[i] = v
      BY <1>4, <2>2 DEF In
    <3>2. PICK k \in 1..n : i = k + 1
      BY <1>4, <1>5, <2>2, <3>1
    <3> QED
      BY <1>1, <1>4, <3>1, <3>2 DEF In
  <2>3. v = u \/ In(v, q) => In(v, s)
    BY <1>1, <1>4, <2>1 DEF In
  <2> QED
    BY <2>2, <2>3
<1> QED
  BY <1>3, <1>4, <1>6, <1>7 DEF Once, s

LEMMA TailOnce ==
  ASSUME NEW q \in Seq(Updates), q # <<>>, Once(q)
  PROVE  /\ Once(Tail(q))
         /\ \A v \in Updates : In(v, Tail(q)) <=> v # Head(q) /\ In(v, q)
<1> DEFINE n == Len(Tail(q))
           s == Tail(q)
<1>1. s \in Seq(Updates) /\ n = Len(q) - 1 /\ (\A i \in 1..n : s[i] = q[i + 1]) /\ Head(q) = q[1]
  BY HeadTailProperties
<1>2. n \in Nat /\ DOMAIN s = 1..n /\ DOMAIN q = 1..n + 1
  BY <1>1, LenProperties
<1> HIDE DEF n, s
<1>3. \A i \in 1..n + 1 : i = 1 \/ \E k \in 1..n : i = k + 1
  <2> SUFFICES ASSUME NEW i \in 1..n + 1, i # 1 PROVE \E k \in 1..n : i = k + 1
    OBVIOUS
  <2>1. i - 1 \in 1..n /\ i = (i - 1) + 1
    BY <1>2
  <2> QED
    BY <2>1
<1>4. 1 \in 1..n + 1 /\ \A i \in 1..n : i + 1 \in 1..n + 1 /\ i + 1 # 1
  BY <1>2
<1>5. ASSUME NEW i \in 1..n, NEW j \in 1..n, s[i] = s[j] PROVE i = j
  <2>1. i + 1 \in DOMAIN q /\ j + 1 \in DOMAIN q /\ q[i + 1] = q[j + 1]
    BY <1>1, <1>2, <1>4, <1>5
  <2>2. i + 1 = j + 1
    BY <2>1 DEF Once
  <2> QED
    BY <1>2, <2>2
<1>6. ASSUME NEW v \in Updates PROVE In(v, s) <=> v # Head(q) /\ In(v, q)
  <2>1. ASSUME In(v, s) PROVE v # Head(q) /\ In(v, q)
    <3>1. PICK i \in 1..n : s[i] = v
      BY <1>2, <2>1 DEF In
    <3>2. 1 \in DOMAIN q /\ i + 1 \in DOMAIN q /\ i + 1 # 1 /\ q[i + 1] = v
      BY <1>1, <1>2, <1>4, <3>1
    <3>3. v # q[1]
      BY <3>2 DEF Once
    <3> QED
      BY <1>1, <3>2, <3>3 DEF In
  <2>2. ASSUME v # Head(q), In(v, q) PROVE In(v, s)
    <3>1. PICK i \in 1..n + 1 : q[i] = v
      BY <1>2, <2>2 DEF In
    <3>2. PICK k \in 1..n : i = k + 1
      BY <1>1, <1>3, <2>2, <3>1
    <3> QED
      BY <1>1, <1>2, <3>1, <3>2 DEF In
  <2> QED
    BY <2>1, <2>2
<1> QED
  BY <1>2, <1>5, <1>6 DEF Once, s

LEMMA NextQueue == IInv /\ [Next]_vars => QueueInv'
<1> SUFFICES ASSUME IInv, [Next]_vars PROVE QueueInv'
  OBVIOUS
<1>0. StagesOK /\ ListsOK
  BY TypeParts DEF IInv
<1>1. Once(queue) /\ \A u \in Updates : stage[u] = "waiting" <=> In(u, queue)
  BY DEF IInv, QueueInv, Once, In
<1> SUFFICES Once(queue)' /\ \A u \in Updates : stage'[u] = "waiting" <=> In(u, queue)'
  BY DEF QueueInv, Once, In
<1> DEFINE Goal == Once(queue') /\ \A u \in Updates : stage'[u] = "waiting" <=> In(u, queue')
<1>2. ASSUME NEW u \in Updates, AddJob(u) \/ Retry(u) PROVE Goal
  <2>1. stage[u] # "waiting" /\ queue' = Append(queue, u)
          /\ stage' = [stage EXCEPT ![u] = "waiting"]
    BY <1>2 DEF AddJob, Retry, Move
  <2>2. Once(Append(queue, u)) /\ \A v \in Updates : In(v, Append(queue, u)) <=> v = u \/ In(v, queue)
    BY <1>0, <1>1, <2>1, AppendOnce DEF ListsOK
  <2> QED
    BY <1>0, <1>1, <2>1, <2>2 DEF StagesOK
<1>3. ASSUME NEW u \in Updates, Recover(u) PROVE Goal
  <2>1. stage[u] = "stalled"
    BY <1>3 DEF Recover
  <2>2. CASE queue' = queue /\ stage' = [stage EXCEPT ![u] = "failed"]
    BY <1>0, <1>1, <2>1, <2>2 DEF StagesOK
  <2>3. CASE queue' = <<u>> \o queue /\ stage' = [stage EXCEPT ![u] = "waiting"]
    <3>1. Once(<<u>> \o queue) /\ \A v \in Updates : In(v, <<u>> \o queue) <=> v = u \/ In(v, queue)
      BY <1>0, <1>1, <2>1, PutFirstOnce DEF ListsOK
    <3> QED
      BY <1>0, <1>1, <2>3, <3>1 DEF StagesOK
  <2> QED
    BY <1>3, <2>2, <2>3 DEF Recover, Move
<1>4. ASSUME NEW p \in Processes, Take(p) PROVE Goal
  <2>1. queue # <<>> /\ queue' = Tail(queue) /\ stage' = [stage EXCEPT ![Head(queue)] = "sending"]
    BY <1>4 DEF Take, Move
  <2>2. Once(Tail(queue)) /\ \A v \in Updates : In(v, Tail(queue)) <=> v # Head(queue) /\ In(v, queue)
    BY <1>0, <1>1, <2>1, TailOnce DEF ListsOK
  <2> QED
    BY <1>0, <1>1, <2>1, <2>2, HeadWaits DEF StagesOK
<1>5. ASSUME queue' = queue, \A u \in Updates : stage'[u] = "waiting" <=> stage[u] = "waiting"
      PROVE  Goal
  BY <1>1, <1>5
<1>6. ASSUME NEW u \in Updates, (\E p \in Processes : Store(u, p)) \/ LookUp(u) \/ EnqueueFails(u)
      PROVE  Goal
  BY <1>0, <1>5, <1>6 DEF Store, LookUp, EnqueueFails, Move, Handling, StagesOK
<1>7. ASSUME WorkerStep PROVE Goal
  BY <1>0, <1>5, <1>7
  DEF WorkerStep, Receive, Completes, Throws, LosesLock, ReceiveLate, EndsUnlocked, Move, Active,
      StagesOK
<1>8. ASSUME NEW p \in Processes, Crash(p) PROVE Goal
  BY <1>0, <1>5, <1>8 DEF Crash, Handling, Active, StagesOK
<1>9. ASSUME DeveloperStep \/ UNCHANGED vars PROVE Goal
  BY <1>5, <1>9 DEF DeveloperStep, DeleteWebhook, SetWebhook, vars
<1> HIDE DEF Goal
<1>10. Goal
  BY <1>2, <1>3, <1>4, <1>6, <1>7, <1>8, <1>9 DEF Next, HandlerStep, QueueStep
<1> QED
  BY <1>10 DEF Goal, Once, In

-----------------------------------------------------------------------------
(* The order of jobs                                                       *)

Before(u, v, q) == \A m, n \in DOMAIN q : q[m] = u /\ q[n] = v => m < n
Earlier(u, v) == \E i, j \in DOMAIN added : i < j /\ added[i] = u /\ added[j] = v

\* The job waits for its first worker.
Fresh(u) == stage[u] = "waiting" /\ attempts[u] = 0 /\ stalls[u] = 0

TracesInv ==
  \A u \in Updates :
    /\ stage[u] = "delayed" => attempts[u] > 0
    /\ stage[u] \in {"answering", "completed"} => received[u] > 0

\* A job that has waited since it was added keeps those added later behind it.
OrderInv ==
  /\ Once(added)
  /\ \A u \in Updates : In(u, added) <=> stage[u] \in Enqueued
  /\ \A u, v \in Updates :
       Earlier(u, v) /\ Fresh(u) =>
         stage[v] = "waiting" /\ Straying(v) = {} /\ Before(u, v, queue)

LEMMA BeforeAppend ==
  ASSUME NEW q \in Seq(Updates), NEW u \in Updates, NEW v \in Updates, NEW w \in Updates,
         w # u, Before(u, v, q)
  PROVE  Before(u, v, Append(q, w))
<1> DEFINE n == Len(q)
           s == Append(q, w)
<1>1. n \in Nat /\ DOMAIN q = 1..n /\ Len(s) = n + 1 /\ s \in Seq(Updates)
        /\ (\A i \in 1..n : s[i] = q[i]) /\ s[n + 1] = w
  BY AppendProperties, LenProperties
<1>2. DOMAIN s = 1..n + 1
  BY <1>1, LenProperties
<1> HIDE DEF n, s
<1>3. ASSUME NEW i \in 1..n + 1, NEW j \in 1..n + 1, s[i] = u, s[j] = v PROVE i < j
  <2>1. i \in 1..n /\ q[i] = u
    BY <1>1, <1>3
  <2>2. CASE j = n + 1
    BY <1>1, <2>1, <2>2
  <2>3. CASE j \in 1..n
    <3>1. q[j] = v
      BY <1>1, <1>3, <2>3
    <3> QED
      BY <1>1, <2>1, <2>3, <3>1 DEF Before
  <2> QED
    BY <1>1, <2>2, <2>3
<1> QED
  BY <1>2, <1>3 DEF Before, s

LEMMA BeforePutFirst ==
  ASSUME NEW q \in Seq(Updates), NEW u \in Updates, NEW v \in Updates, NEW w \in Updates,
         w # v, Before(u, v, q)
  PROVE  Before(u, v, <<w>> \o q)
<1> DEFINE n == Len(q)
           s == <<w>> \o q
<1>1. n \in Nat /\ DOMAIN q = 1..n
  BY LenProperties
<1>2. <<w>> \in Seq(Updates) /\ Len(<<w>>) = 1 /\ <<w>>[1] = w
  OBVIOUS
<1>3. s \in Seq(Updates) /\ Len(s) = 1 + n
        /\ \A i \in 1..1 + n : s[i] = IF i =< 1 THEN <<w>>[i] ELSE q[i - 1]
  BY <1>2, ConcatProperties
<1>4. DOMAIN s = 1..1 + n
  BY <1>3, LenProperties
<1> HIDE DEF n, s
<1>5. ASSUME NEW i \in 1..1 + n, NEW j \in 1..1 + n, s[i] = u, s[j] = v PROVE i < j
  <2>1. j - 1 \in 1..n /\ q[j - 1] = v
    BY <1>1, <1>2, <1>3, <1>5
  <2>2. CASE i = 1
    BY <1>1, <2>1, <2>2
  <2>3. CASE i # 1
    <3>1. i - 1 \in 1..n /\ q[i - 1] = u
      BY <1>1, <1>3, <1>5, <2>3
    <3>2. i - 1 < j - 1
      BY <1>1, <2>1, <3>1 DEF Before
    <3> QED
      BY <1>1, <3>2
  <2> QED
    BY <2>2, <2>3
<1> QED
  BY <1>4, <1>5 DEF Before, s

LEMMA BeforeTail ==
  ASSUME NEW q \in Seq(Updates), q # <<>>, NEW u \in Updates, NEW v \in Updates, Before(u, v, q)
  PROVE  Before(u, v, Tail(q))
<1> DEFINE s == Tail(q)
           n == Len(s)
<1>1. s \in Seq(Updates) /\ n = Len(q) - 1 /\ (\A i \in 1..n : s[i] = q[i + 1])
  BY HeadTailProperties
<1>2. n \in Nat /\ DOMAIN s = 1..n /\ DOMAIN q = 1..n + 1
  BY <1>1, LenProperties
<1> HIDE DEF n, s
<1>3. ASSUME NEW i \in 1..n, NEW j \in 1..n, s[i] = u, s[j] = v PROVE i < j
  <2>1. i + 1 \in DOMAIN q /\ j + 1 \in DOMAIN q /\ q[i + 1] = u /\ q[j + 1] = v
    BY <1>1, <1>2, <1>3
  <2>2. i + 1 < j + 1
    BY <2>1 DEF Before
  <2> QED
    BY <1>2, <2>2
<1> QED
  BY <1>2, <1>3 DEF Before, s

\* What is at the head is behind nothing that waits.
LEMMA HeadFirst ==
  ASSUME NEW q \in Seq(Updates), q # <<>>, NEW u \in Updates, In(u, q), Before(u, Head(q), q)
  PROVE  FALSE
<1>1. 1 \in DOMAIN q /\ q[1] = Head(q)
  BY LenProperties
<1>2. PICK m \in DOMAIN q : q[m] = u
  BY DEF In
<1>3. m < 1 /\ m \in 1..Len(q) /\ Len(q) \in Nat
  BY <1>1, <1>2, LenProperties DEF Before
<1> QED
  BY <1>3

LEMMA NextTraces == IInv /\ TracesInv /\ [Next]_vars => TracesInv'
<1> SUFFICES ASSUME IInv, TracesInv, [Next]_vars PROVE TracesInv'
  OBVIOUS
<1>0. StagesOK /\ NumbersOK
  BY TypeParts DEF IInv
<1> USE BoundsAssumption DEF StagesOK, NumbersOK, TracesInv, Move, Handling, Active, Ended
<1>1. CASE HandlerStep
  BY <1>0, <1>1 DEF HandlerStep, Store, LookUp, AddJob, EnqueueFails, job
<1>2. ASSUME NEW u \in Updates, Receive(u) \/ Completes(u) PROVE TracesInv'
  BY <1>0, <1>2 DEF Receive, Completes, job
<1>3. ASSUME NEW u \in Updates, Throws(u) PROVE TracesInv'
  BY <1>0, <1>3 DEF Throws
<1>4. ASSUME NEW p \in Processes, Take(p) PROVE TracesInv'
  BY <1>0, <1>4, HeadWaits DEF Take, job
<1>5. ASSUME NEW p \in Processes, Crash(p) PROVE TracesInv'
  BY <1>0, <1>5 DEF Crash, job
<1>6. ASSUME NEW u \in Updates, Retry(u) \/ Recover(u) PROVE TracesInv'
  BY <1>0, <1>6 DEF Retry, Recover, job
<1>7. ASSUME NEW u \in Updates, LosesLock(u) PROVE TracesInv'
  BY <1>0, <1>7 DEF LosesLock, job
<1>8. ASSUME NEW p \in Processes, NEW u \in Updates, ReceiveLate(p, u) PROVE TracesInv'
  BY <1>0, <1>8 DEF ReceiveLate, job
<1>9. CASE UNCHANGED <<stage, attempts, received>>
  BY <1>0, <1>9
<1> HIDE DEF TracesInv
<1> QED
  BY <1>1, <1>2, <1>3, <1>4, <1>5, <1>6, <1>7, <1>8, <1>9
  DEF EndsUnlocked, Next, vars, job, DeveloperStep, DeleteWebhook, SetWebhook, WorkerStep, QueueStep

LEMMA NextAdded ==
  IInv /\ OrderInv /\ [Next]_vars =>
    Once(added') /\ \A u \in Updates : In(u, added') <=> stage'[u] \in Enqueued
<1> DEFINE Goal == Once(added') /\ \A u \in Updates : In(u, added') <=> stage'[u] \in Enqueued
<1> SUFFICES ASSUME IInv, OrderInv, [Next]_vars PROVE Goal
  OBVIOUS
<1>0. StagesOK /\ ListsOK /\ Once(added) /\ \A u \in Updates : In(u, added) <=> stage[u] \in Enqueued
  BY TypeParts DEF IInv, OrderInv
<1>1. ASSUME NEW u \in Updates, AddJob(u) PROVE Goal
  <2>1. stage[u] = "adding" /\ added' = Append(added, u)
          /\ stage' = [stage EXCEPT ![u] = "waiting"]
    BY <1>1 DEF AddJob, Move
  <2>2. ~In(u, added)
    BY <1>0, <2>1 DEF Enqueued, Active
  <2>3. Once(Append(added, u)) /\ \A v \in Updates : In(v, Append(added, u)) <=> v = u \/ In(v, added)
    BY <1>0, <2>2, AppendOnce DEF ListsOK
  <2> QED
    BY <1>0, <2>1, <2>3 DEF StagesOK, Enqueued
<1>2. ASSUME added' = added, \A u \in Updates : stage'[u] \in Enqueued <=> stage[u] \in Enqueued
      PROVE  Goal
  BY <1>0, <1>2
<1> HIDE DEF Goal
<1>3. ASSUME NEW u \in Updates, (\E p \in Processes : Store(u, p)) \/ LookUp(u) \/ EnqueueFails(u)
      PROVE  Goal
  BY <1>0, <1>2, <1>3
  DEF Store, LookUp, EnqueueFails, Move, Handling, StagesOK, history, Enqueued, Active
<1>4. ASSUME WorkerStep PROVE Goal
  BY <1>0, <1>2, <1>4
  DEF WorkerStep, Receive, Completes, Throws, LosesLock, ReceiveLate, EndsUnlocked, Move, Active,
      StagesOK, history, Enqueued
<1>5. ASSUME NEW p \in Processes, Take(p) PROVE Goal
  BY <1>0, <1>2, <1>5, HeadWaits DEF Take, Move, StagesOK, history, Enqueued, Active
<1>6. ASSUME NEW p \in Processes, Crash(p) PROVE Goal
  BY <1>0, <1>2, <1>6 DEF Crash, Handling, Active, StagesOK, history, Enqueued
<1>7. ASSUME NEW u \in Updates, Retry(u) \/ Recover(u) PROVE Goal
  BY <1>0, <1>2, <1>7 DEF Retry, Recover, Move, StagesOK, history, Enqueued, Active
<1>8. ASSUME DeveloperStep \/ UNCHANGED vars PROVE Goal
  BY <1>2, <1>8 DEF DeveloperStep, DeleteWebhook, SetWebhook, vars, history
<1> QED
  BY <1>1, <1>3, <1>4, <1>5, <1>6, <1>7, <1>8 DEF Next, HandlerStep, QueueStep

LEMMA EarlierAppend ==
  ASSUME added \in Seq(Updates), NEW u \in Updates, NEW v \in Updates, NEW w \in Updates,
         added' = Append(added, w), Earlier(u, v)'
  PROVE  Earlier(u, v) \/ (v = w /\ In(u, added))
<1> DEFINE n == Len(added)
           s == Append(added, w)
<1>1. n \in Nat /\ DOMAIN added = 1..n /\ Len(s) = n + 1 /\ s \in Seq(Updates)
        /\ (\A i \in 1..n : s[i] = added[i]) /\ s[n + 1] = w
  BY AppendProperties, LenProperties
<1>2. DOMAIN s = 1..n + 1 /\ added' = s
  BY <1>1, LenProperties
<1> HIDE DEF n, s
<1>3. PICK i \in 1..n + 1, j \in 1..n + 1 : i < j /\ s[i] = u /\ s[j] = v
  BY <1>2 DEF Earlier
<1>4. i \in 1..n /\ added[i] = u
  BY <1>1, <1>3
<1>5. CASE j = n + 1
  BY <1>1, <1>3, <1>4, <1>5 DEF In
<1>6. CASE j \in 1..n
  BY <1>1, <1>3, <1>4, <1>6 DEF Earlier
<1> QED
  BY <1>1, <1>5, <1>6


LEMMA NextOrder == IInv /\ TracesInv /\ OrderInv /\ [Next]_vars => OrderInv'
<1> SUFFICES ASSUME IInv, TracesInv, OrderInv, [Next]_vars PROVE OrderInv'
  OBVIOUS
<1>0. StagesOK /\ NumbersOK /\ ListsOK
  BY TypeParts DEF IInv
<1>1. Once(added') /\ \A u \in Updates : In(u, added') <=> stage'[u] \in Enqueued
  BY NextAdded
<1> SUFFICES ASSUME NEW u \in Updates, NEW v \in Updates, Earlier(u, v)', Fresh(u)'
             PROVE  stage'[v] = "waiting" /\ Straying(v)' = {} /\ Before(u, v, queue')
  BY <1>1 DEF OrderInv, Once, In, Before
<1> DEFINE Goal == stage'[v] = "waiting" /\ Straying(v)' = {} /\ Before(u, v, queue')
<1>2. ASSUME Earlier(u, v) PROVE In(u, added) /\ In(v, added) /\ u # v
  <2>1. PICK i \in DOMAIN added, j \in DOMAIN added : i < j /\ added[i] = u /\ added[j] = v
    BY <1>2 DEF Earlier
  <2>2. i # j
    BY <1>0, <2>1 DEF ListsOK
  <2> QED
    BY <2>1, <2>2 DEF OrderInv, Once, In
<1>3. ASSUME Earlier(u, v), Fresh(u)
      PROVE  stage[v] = "waiting" /\ Straying(v) = {} /\ Before(u, v, queue) /\ In(u, queue)
  BY <1>3 DEF OrderInv, Fresh, IInv, QueueInv, In
<1>4. ASSUME added' = added PROVE Earlier(u, v)
  BY <1>4 DEF Earlier
<1>5. ASSUME NEW w \in Updates, AddJob(w) PROVE Goal
  <2>1. stage[w] = "adding" /\ queue' = Append(queue, w) /\ added' = Append(added, w)
          /\ stage' = [stage EXCEPT ![w] = "waiting"] /\ attempts' = attempts /\ stalls' = stalls
    BY <1>5 DEF AddJob, Move, job
  <2>2. ~In(w, added) /\ ~In(w, queue)
    BY <2>1 DEF OrderInv, Enqueued, Active, IInv, QueueInv, In
  <2>3. Earlier(u, v) \/ (v = w /\ In(u, added))
    BY <1>0, <2>1, EarlierAppend DEF ListsOK
  <2>4. u # w /\ Fresh(u)
    BY <1>0, <1>2, <2>1, <2>2, <2>3 DEF Fresh, StagesOK
  <2>5. Before(u, v, queue) /\ stage'[v] = "waiting"
    BY <1>0, <1>3, <2>1, <2>2, <2>3, <2>4 DEF Before, In, StagesOK
  <2>6. Straying(w) = {} /\ \A x \in Updates : Straying(x)' = Straying(x)
    BY <1>5, <2>1, StraysKept DEF AddJob, IInv, WorkersInv, Enqueued, Active
  <2>7. Straying(v)' = {}
    BY <1>3, <2>3, <2>4, <2>6
  <2> QED
    BY <1>0, <2>1, <2>4, <2>5, <2>7, BeforeAppend DEF ListsOK
<1>6. ASSUME NEW w \in Updates, Retry(w) PROVE Goal
  <2>1. stage[w] = "delayed" /\ queue' = Append(queue, w) /\ added' = added
          /\ stage' = [stage EXCEPT ![w] = "waiting"] /\ attempts' = attempts /\ stalls' = stalls
    BY <1>6 DEF Retry, Move, job, history
  <2>2. u # w
    BY <1>0, <2>1 DEF TracesInv, Fresh, NumbersOK
  <2>3. Earlier(u, v) /\ Fresh(u)
    BY <1>0, <1>4, <2>1, <2>2 DEF Fresh, StagesOK
  <2>4. Straying(v)' = Straying(v)
    BY <1>6, StraysKept DEF Retry
  <2> QED
    BY <1>0, <1>3, <2>1, <2>2, <2>3, <2>4, BeforeAppend DEF ListsOK, StagesOK
<1>7. ASSUME NEW w \in Updates, Recover(w) PROVE Goal
  <2>1. stage[w] = "stalled" /\ added' = added /\ attempts' = attempts
          /\ stalls' = [stalls EXCEPT ![w] = @ + 1]
    BY <1>7 DEF Recover, history
  <2>2. u # w
    BY <1>0, <2>1 DEF Fresh, NumbersOK
  <2>3. \/ queue' = queue /\ stage' = [stage EXCEPT ![w] = "failed"]
        \/ queue' = <<w>> \o queue /\ stage' = [stage EXCEPT ![w] = "waiting"]
    BY <1>7 DEF Recover, Move
  <2>4. Earlier(u, v) /\ Fresh(u)
    BY <1>0, <1>4, <2>1, <2>2, <2>3 DEF Fresh, StagesOK, NumbersOK
  <2>5. stage[v] = "waiting" /\ Before(u, v, queue) /\ w # v
    BY <1>3, <2>1, <2>4
  <2>6. Before(u, v, <<w>> \o queue)
    BY <1>0, <2>5, BeforePutFirst DEF ListsOK
  <2>7. stage'[v] = "waiting"
    BY <1>0, <2>3, <2>5 DEF StagesOK
  <2>8. Straying(v)' = {}
    BY <1>3, <1>7, <2>4, StraysKept DEF Recover
  <2> QED
    BY <2>3, <2>5, <2>6, <2>7, <2>8
<1>8. ASSUME NEW p \in Processes, Take(p) PROVE Goal
  <2>1. queue # <<>> /\ queue' = Tail(queue) /\ stage' = [stage EXCEPT ![Head(queue)] = "sending"]
          /\ added' = added /\ attempts' = attempts /\ stalls' = stalls
    BY <1>8 DEF Take, Move, job, history
  <2>2. Head(queue) \in Updates
    BY <2>1, HeadWaits
  <2>3. Earlier(u, v) /\ Fresh(u)
    BY <1>0, <1>4, <2>1, <2>2 DEF Fresh, StagesOK
  <2>4. v # Head(queue)
    BY <1>0, <1>3, <2>1, <2>3, HeadFirst DEF ListsOK
  <2>5. Straying(v)' = Straying(v)
    BY <1>8, StraysKept DEF Take
  <2> QED
    BY <1>0, <1>3, <2>1, <2>2, <2>3, <2>4, <2>5, BeforeTail DEF ListsOK, StagesOK
<1>9. ASSUME queue' = queue, added' = added, stalls' = stalls,
             \A w \in Updates : stage'[w] = "waiting" <=> stage[w] = "waiting",
             \A w \in Updates : attempts'[w] = 0 => attempts[w] = 0,
             \A w \in Updates : stage[w] = "waiting" => Straying(w)' \subseteq Straying(w)
      PROVE  Goal
  <2>1. Earlier(u, v) /\ Fresh(u)
    BY <1>4, <1>9 DEF Fresh
  <2> QED
    BY <1>3, <1>9, <2>1
<1> HIDE DEF Goal
<1>k. UNCHANGED strays => \A w \in Updates : Straying(w)' = Straying(w)
  BY StraysKept
<1>10. ASSUME NEW w \in Updates, (\E p \in Processes : Store(w, p)) \/ LookUp(w) \/ EnqueueFails(w)
       PROVE  Goal
  BY <1>0, <1>9, <1>10, <1>k DEF Store, LookUp, EnqueueFails, Move, Handling, StagesOK, job, history
<1>11. ASSUME NEW w \in Updates, Receive(w) \/ Completes(w) PROVE Goal
  BY <1>0, <1>9, <1>11, <1>k DEF Receive, Completes, Move, StagesOK, job, history
<1>12. ASSUME NEW w \in Updates, Throws(w) PROVE Goal
  <2>1. \A x \in Updates : attempts'[x] = 0 => attempts[x] = 0
    BY <1>0, <1>12 DEF Throws, NumbersOK
  <2> QED
    BY <1>0, <1>9, <1>12, <1>k, <2>1 DEF Throws, Move, Active, StagesOK, history
<1>13. ASSUME NEW p \in Processes, Crash(p) PROVE Goal
  <2>1. \A w \in Updates : Straying(w)' \subseteq Straying(w)
    BY <1>13, StraysLess
  <2> QED
    BY <1>0, <1>9, <1>13, <2>1 DEF Crash, Handling, Active, StagesOK, job, history
<1>14. ASSUME NEW w \in Updates, LosesLock(w) PROVE Goal
  <2>1. stage[w] \in Active /\ process[w] \in Processes
    BY <1>14 DEF LosesLock, IInv, WorkersInv
  <2>2. \A x \in Updates \ {w} : Straying(x)' = Straying(x)
    BY <1>14, <2>1, StraysJoined
  <2>3. \A x \in Updates : stage[x] = "waiting" => Straying(x)' = Straying(x)
    BY <2>1, <2>2 DEF Active
  <2> QED
    BY <1>0, <1>9, <1>14, <2>3 DEF LosesLock, Move, Active, StagesOK, job, history
<1>15. ASSUME NEW p \in Processes, NEW w \in Updates, ReceiveLate(p, w) \/ EndsUnlocked(p, w)
       PROVE  Goal
  <2>1. \A x \in Updates : Straying(x)' \subseteq Straying(x)
    BY <1>15, StraysLess
  <2> QED
    BY <1>9, <1>15, <2>1 DEF ReceiveLate, EndsUnlocked, job, history
<1>16. ASSUME DeveloperStep \/ UNCHANGED vars PROVE Goal
  BY <1>9, <1>16, <1>k DEF DeveloperStep, DeleteWebhook, SetWebhook, vars, job, history
<1>17. Goal
  BY <1>5, <1>6, <1>7, <1>8, <1>10, <1>11, <1>12, <1>13, <1>14, <1>15, <1>16
  DEF Next, HandlerStep, WorkerStep, QueueStep
<1> QED
  BY <1>17 DEF Goal

LEMMA InitIInv == Init => IInv
<1> SUFFICES ASSUME Init PROVE IInv
  OBVIOUS
<1>1. TypeOK
  BY HooksAssumption, BoundsAssumption DEF Init, TypeOK
<1>0. \A u \in Updates : Straying(u) = {} /\ Late(u) = {}
  BY DEF Init, Straying, Late
<1>2. WorkersInv /\ JobsInv
  BY <1>0 DEF Init, WorkersInv, JobsInv, Added, Enqueued, Handling, Active
<1>3. StallsInv /\ CountsInv
  <2>1. IsFiniteSet({}) /\ Cardinality({}) = 0
    BY FS_EmptySet
  <2> QED
    <3> SUFFICES ASSUME NEW u \in Updates
                 PROVE  /\ IsFiniteSet(Straying(u))
                        /\ Cardinality(Straying(u)) =< 0 /\ Begun(u) =< 0
      BY BoundsAssumption DEF Init, StallsInv, CountsInv, Posted
    <3>1. Straying(u) = {} /\ Late(u) = {} /\ received[u] = 0
      BY <1>0 DEF Init
    <3> QED
      BY <2>1, <3>1 DEF Begun
<1>4. QueueInv
  BY DEF Init, QueueInv
<1> QED
  BY <1>1, <1>2, <1>3, <1>4 DEF IInv

LEMMA Invariance == Spec => []IInv
<1>1. IInv /\ [Next]_vars => IInv'
  BY NextType, NextWorkers, NextStalls, NextJobs, NextCounts, NextQueue DEF IInv
<1> QED
  BY InitIInv, <1>1, PTL DEF Spec

\* The type invariant, for any number of updates, processes and attempts.
THEOREM TypeCorrect == Spec => []TypeOK
<1>1. IInv => TypeOK
  BY DEF IInv
<1> QED
  BY Invariance, <1>1, PTL

\* A job goes to a webhook that was in force between the INSERT of its update
\* and its lookup, with the secret of that url.
THEOREM PostsToTheHookInForce == Spec => []PostsToHookInForce
<1>1. IInv => PostsToHookInForce
  <2> SUFFICES ASSUME IInv, NEW u \in Updates, Workers(u) # {}
               PROVE  url[u] \in inForce[u] \ {NoHook} /\ secret[u] = url[u]
    BY DEF PostsToHookInForce
  <2>1. Straying(u) # {} \/ stage[u] \in Active
    BY DEF Workers
  <2>2. stage[u] \in Enqueued
    BY <2>1 DEF IInv, WorkersInv, Enqueued
  <2> QED
    BY <2>2 DEF IInv, JobsInv, Added
<1> QED
  BY Invariance, <1>1, PTL

\* Each POST of an update but one was an attempt that failed, or whose worker
\* was lost or lost its lock; a job is given up when its attempts or its
\* stalls are used up.
THEOREM PostsAreAccountedFor == Spec => []PostsAccountedFor
<1>1. IInv => PostsAccountedFor
  <2> SUFFICES ASSUME IInv, NEW u \in Updates
               PROVE  received[u] =< attempts[u] + stalls[u] + (IF stage[u] \in Posted THEN 1 ELSE 0)
    BY DEF IInv, CountsInv, Posted, PostsAccountedFor
  <2>1. /\ Begun(u) =< attempts[u] + stalls[u] + (IF stage[u] \in Posted THEN 1 ELSE 0)
        /\ Begun(u) = received[u] + Cardinality(Late(u)) /\ Cardinality(Late(u)) \in Nat
        /\ received[u] \in Nat /\ attempts[u] \in Nat /\ stalls[u] \in Nat
    BY LateFinite, TypeParts, BoundsAssumption DEF IInv, CountsInv, Begun, NumbersOK
  <2> QED
    BY <2>1
<1> QED
  BY Invariance, <1>1, PTL

\* A job waits in the queue exactly once or not at all, and a worker has one
\* job at a time.
THEOREM JobsAreQueuedOnce == Spec => []QueuedOnce
<1>1. IInv => QueuedOnce
  <2> SUFFICES ASSUME IInv, NEW u \in Updates, NEW v \in Updates, u # v
               PROVE  Workers(u) \cap Workers(v) = {}
    BY DEF IInv, QueueInv, QueuedOnce
  <2> QED
    BY DEF IInv, WorkersInv, Workers
<1> QED
  BY Invariance, <1>1, PTL

\* Two workers are at one job only after the lock of the first has expired,
\* each time one more, and never more than one and MaxStalled of them.
THEOREM JobsAreSharedOnlyByStall == Spec => []SharedOnlyByStall
<1>1. IInv => SharedOnlyByStall
  <2> SUFFICES ASSUME IInv, NEW u \in Updates
               PROVE  /\ Cardinality(Workers(u)) =< 1 + stalls[u]
                      /\ Cardinality(Workers(u)) =< 1 + MaxStalled
    BY DEF SharedOnlyByStall
  <2>1. /\ stalls[u] \in 0..MaxStalled + 1 /\ MaxStalled \in Nat
        /\ stage[u] # "failed" => stalls[u] =< MaxStalled
    BY TypeParts, BoundsAssumption DEF IInv, NumbersOK, CountsInv
  <2>2. /\ IsFiniteSet(Straying(u)) /\ Cardinality(Straying(u)) \in Nat
        /\ Cardinality(Straying(u)) =< stalls[u] + (IF stage[u] = "stalled" THEN 1 ELSE 0)
    BY FS_CardinalityType DEF IInv, StallsInv
  <2>3. CASE stage[u] \in Active
    <3>1. Workers(u) = Straying(u) \cup {process[u]} /\ process[u] \notin Straying(u)
      BY <2>3 DEF IInv, WorkersInv, Workers
    <3>2. Cardinality(Workers(u)) = Cardinality(Straying(u)) + 1
      BY <2>2, <3>1, FS_AddElement
    <3>3. stage[u] # "stalled" /\ stage[u] # "failed"
      BY <2>3 DEF Active
    <3> QED
      BY <2>1, <2>2, <3>2, <3>3
  <2>4. CASE stage[u] \notin Active
    <3>1. Workers(u) = Straying(u)
      BY <2>4 DEF Workers
    <3>2. stage[u] = "stalled" => stalls[u] =< MaxStalled
      BY <2>1
    <3> QED
      BY <2>1, <2>2, <3>1, <3>2
  <2> QED
    BY <2>3, <2>4
<1> QED
  BY Invariance, <1>1, PTL

LEMMA OnlyReceive ==
  [Next]_vars => \/ received' = received \/ \E u \in Updates : Receive(u)
                 \/ \E p \in Processes, u \in Updates : ReceiveLate(p, u)
<1> SUFFICES ASSUME [Next]_vars, received' # received
             PROVE  (\E u \in Updates : Receive(u))
                      \/ \E p \in Processes, u \in Updates : ReceiveLate(p, u)
  OBVIOUS
<1>1. ~(DeveloperStep \/ UNCHANGED vars)
  BY DEF DeveloperStep, DeleteWebhook, SetWebhook, vars
<1>2. ~HandlerStep
  BY DEF HandlerStep, Store, LookUp, AddJob, EnqueueFails
<1>3. ~QueueStep
  BY DEF QueueStep, Take, Crash, Retry, Recover
<1>4. WorkerStep
  BY <1>1, <1>2, <1>3 DEF Next
<1> QED
  BY <1>4 DEF WorkerStep, Completes, Throws, LosesLock, EndsUnlocked

LEMMA OrderInvariance == Spec => [](TracesInv /\ OrderInv)
<1>1. Init => TracesInv /\ OrderInv
  BY DEF Init, TracesInv, OrderInv, Once, In, Earlier, Enqueued, Active
<1>2. IInv /\ TracesInv /\ OrderInv /\ [Next]_vars => TracesInv' /\ OrderInv'
  BY NextTraces, NextOrder
<1> QED
  BY Invariance, <1>1, <1>2, PTL DEF Spec

\* The endpoint sees updates for the first time in the order their jobs were
\* added, but for jobs that failed or stalled once, and jobs that another
\* process is posting at the same time.
THEOREM SeenInOrder == Spec => FirstSeenInOrder
<1>1. ASSUME IInv, TracesInv, OrderInv, [Next]_vars, NEW i \in DOMAIN added, NEW j \in DOMAIN added,
             i < j, received[added[j]] = 0, received'[added[j]] = 1
      PROVE  MayBeOvertaken(added[i], added[j])
  <2>0. StagesOK /\ NumbersOK /\ ListsOK
    BY <1>1, TypeParts DEF IInv
  <2> DEFINE u == added[i]
             v == added[j]
  <2>1. u \in Updates /\ v \in Updates /\ Earlier(u, v)
    BY <1>1, <2>0 DEF ListsOK, Earlier
  <2>2. In(u, added) /\ u # v
    <3>1. i # j
      BY <1>1, <2>0 DEF ListsOK
    <3> QED
      BY <1>1, <3>1 DEF OrderInv, Once, In
  <2>3. stage[v] = "sending" \/ Straying(v) # {}
    <3>1. received' # received
      BY <1>1
    <3>2. CASE \E w \in Updates : Receive(w)
      BY <1>1, <2>0, <2>1, <3>2 DEF Receive, NumbersOK
    <3>3. ASSUME NEW p \in Processes, NEW w \in Updates, ReceiveLate(p, w) PROVE Straying(v) # {}
      <4>1. v = w
        BY <1>1, <2>0, <2>1, <3>3 DEF ReceiveLate, NumbersOK
      <4>2. p \in Late(w) /\ Late(w) \subseteq Straying(w)
        BY <1>1, <3>3, StraysReceived, TypeParts DEF IInv, StraysOK, Late, Straying
      <4> QED
        BY <4>1, <4>2
    <3> QED
      BY <1>1, <3>1, <3>2, <3>3, OnlyReceive
  <2> HIDE DEF u, v
  <2>4. ~Fresh(u)
    BY <1>1, <2>1, <2>3 DEF OrderInv
  <2>5. stage[u] \in Enqueued
    BY <1>1, <2>1, <2>2 DEF OrderInv
  <2>6. ASSUME stage[u] \in Active PROVE process[u] # process[v]
    <3>1. process[u] \in Processes /\ process[u] # Nobody
      BY <1>1, <2>1, <2>6, BoundsAssumption DEF IInv, WorkersInv
    <3>2. stage[v] \in Active \/ process[v] = Nobody
      <4>1. stage[v] \in Enqueued
        BY <1>1, <2>1, <2>3 DEF IInv, WorkersInv, Enqueued, Active
      <4> QED
        BY <1>1, <2>1, <4>1 DEF IInv, WorkersInv
    <3> QED
      BY <1>1, <2>1, <2>2, <2>6, <3>1, <3>2 DEF IInv, WorkersInv
  <2>7. MayBeOvertaken(u, v)
    BY <1>1, <2>0, <2>1, <2>4, <2>5, <2>6
    DEF TracesInv, Fresh, Enqueued, NumbersOK, MayBeOvertaken, Active
  <2> QED
    BY <2>7 DEF u, v
<1>2. IInv /\ TracesInv /\ OrderInv /\ [Next]_vars =>
        [\A i, j \in DOMAIN added :
           i < j /\ received[added[j]] = 0 /\ received'[added[j]] = 1
             => MayBeOvertaken(added[i], added[j])]_vars
  BY <1>1
<1> QED
  BY Invariance, OrderInvariance, <1>2, PTL DEF Spec, FirstSeenInOrder
=============================================================================
