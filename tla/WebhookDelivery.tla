-------------------------- MODULE WebhookDelivery ---------------------------
(***************************************************************************)
(* Webhook delivery of the updates of one bot: handleBotUpdate looks the   *)
(* webhook up and queues a job that carries a copy of it, WebhookProcessor *)
(* POSTs, BullMQ retries. The developer sets and deletes the webhook in    *)
(* the meantime; the processes that handle updates and run jobs crash, and *)
(* a worker may lose the lock of its job while it goes on posting it: the  *)
(* queue then gives the job to another, and refuses what the first reports.*)
(*                                                                         *)
(* A webhook is named by the setWebhook call that wrote it, and so are its *)
(* url and its secret.                                                     *)
(***************************************************************************)
EXTENDS Naturals, Sequences, FiniteSets

CONSTANTS
  MaxUpdates,  \* bound: updates stored
  Hooks,       \* bound: the setWebhook calls
  Processes,   \* replicas: each handles updates and runs one job at a time
  Attempts,    \* attempts of a job
  MaxStalled,  \* BullMQ: how often a job may lose its worker or its lock
  MaxFaults,   \* bound: attempts, queries and processes that fail
  NoHook,
  Nobody       \* the process of an update no process is working on

ASSUME HooksAssumption == NoHook \notin Hooks
ASSUME BoundsAssumption ==
  /\ MaxUpdates \in Nat /\ MaxFaults \in Nat /\ MaxStalled \in Nat
  /\ Attempts \in Nat \ {0} /\ Nobody \notin Processes

Updates == 1..MaxUpdates

VARIABLES
  config,    \* bots.webhook_config
  unset,     \* the setWebhook calls still to come
  stage,     \* how far the delivery of each update is
  process,   \* the process that handles it, then runs its job
  url,       \* webhookUrl in its job
  secret,    \* webhookSecret in its job
  unlocked,  \* workers that go on with a job whose lock they lost
  late,      \* those of them whose POST the endpoint has yet to receive
  queue,     \* the wait list of BullMQ
  attempts,  \* failed attempts of its job
  stalls,    \* times it was taken from a worker that had lost its lock
  received,  \* POSTs of it the endpoint has received
  inForce,   \* history: webhooks in force from its INSERT until it is looked up
  added,     \* history: the jobs in the order they were added
  faults

hook    == <<config, unset>>
job     == <<url, secret, attempts, stalls>>
strays  == <<unlocked, late>>
history == <<inForce, added>>
vars    == <<hook, stage, process, job, strays, queue, received, history, faults>>

\* Handled in a process; then a job waiting, in a worker, or at rest.
Handling == {"stored", "adding"}
Active   == {"sending", "answering"}
Ended    == {"noHook", "lost", "completed", "failed"}

TypeOK ==
  /\ config \in Hooks \cup {NoHook}
  /\ unset \subseteq Hooks
  /\ stage \in [Updates -> {"none", "waiting", "delayed", "stalled"}
                             \cup Handling \cup Active \cup Ended]
  /\ process \in [Updates -> Processes \cup {Nobody}]
  /\ url \in [Updates -> Hooks \cup {NoHook}]
  /\ secret \in [Updates -> Hooks \cup {NoHook}]
  /\ unlocked \subseteq Processes \X Updates /\ late \subseteq unlocked
  /\ queue \in Seq(Updates)
  /\ attempts \in [Updates -> 0..Attempts]
  /\ stalls \in [Updates -> 0..MaxStalled + 1]
  /\ received \in [Updates -> Nat]
  /\ inForce \in [Updates -> SUBSET (Hooks \cup {NoHook})]
  /\ added \in Seq(Updates)
  /\ faults \in 0..MaxFaults

Move(u, to) == stage' = [stage EXCEPT ![u] = to]
Release(u) == process' = [process EXCEPT ![u] = Nobody]

\* The workers that are at the job of u, with its lock or without it.
Straying(u) == {p \in Processes : <<p, u>> \in unlocked}
Workers(u) == Straying(u) \cup {p \in Processes : stage[u] \in Active /\ process[u] = p}

Fault == faults < MaxFaults /\ faults' = faults + 1

-----------------------------------------------------------------------------
(* The developer                                                           *)

Configure(h) ==
  /\ config' = h
  /\ inForce' = [u \in Updates |->
       IF stage[u] = "stored" THEN inForce[u] \cup {h} ELSE inForce[u]]

SetWebhook(h) ==
  /\ h \in unset
  /\ Configure(h)
  /\ unset' = unset \ {h}
  /\ UNCHANGED <<stage, process, job, strays, queue, received, added, faults>>

DeleteWebhook ==
  /\ Configure(NoHook)
  /\ UNCHANGED <<unset, stage, process, job, strays, queue, received, added, faults>>

-----------------------------------------------------------------------------
(* handleBotUpdate and enqueueDelivery                                     *)

Store(u, p) ==
  /\ stage[u] = "none"
  /\ \A v \in Updates : v < u => stage[v] # "none"
  /\ Move(u, "stored")
  /\ process' = [process EXCEPT ![u] = p]
  /\ inForce' = [inForce EXCEPT ![u] = {config}]
  /\ UNCHANGED <<hook, job, strays, queue, received, added, faults>>

\* Mutant of LookUp: the secret is left out of the job.
LookUpUrlOnly(u) ==
  /\ stage[u] = "stored"
  /\ Move(u, IF config = NoHook THEN "noHook" ELSE "adding")
  /\ url' = [url EXCEPT ![u] = config]
  /\ UNCHANGED <<hook, process, secret, attempts, stalls, strays, queue, received, history, faults>>

LookUp(u) ==
  /\ stage[u] = "stored"
  /\ Move(u, IF config = NoHook THEN "noHook" ELSE "adding")
  /\ url' = [url EXCEPT ![u] = config]
  /\ secret' = [secret EXCEPT ![u] = config]
  /\ UNCHANGED <<hook, process, attempts, stalls, strays, queue, received, history, faults>>

\* Mutant of AddJob: with the option lifo.
AddJobFirst(u) ==
  /\ stage[u] = "adding"
  /\ Move(u, "waiting")
  /\ Release(u)
  /\ queue' = <<u>> \o queue
  /\ added' = Append(added, u)
  /\ UNCHANGED <<hook, job, strays, received, inForce, faults>>

AddJob(u) ==
  /\ stage[u] = "adding"
  /\ Move(u, "waiting")
  /\ Release(u)
  /\ queue' = Append(queue, u)
  /\ added' = Append(added, u)
  /\ UNCHANGED <<hook, job, strays, received, inForce, faults>>

\* A query or Redis fails: logged, and the update is not delivered.
EnqueueFails(u) ==
  /\ stage[u] \in Handling
  /\ Fault
  /\ Move(u, "lost")
  /\ Release(u)
  /\ UNCHANGED <<hook, job, strays, queue, received, history>>

-----------------------------------------------------------------------------
(* WebhookProcessor                                                        *)

\* Mutant of Idle: a worker with a concurrency above one.
IdleAlways(p) == TRUE

Idle(p) == \A u \in Updates : p \notin Workers(u)

\* The endpoint gets the POST; its answer may still be lost or late.
Receive(u) ==
  /\ stage[u] = "sending"
  /\ Move(u, "answering")
  /\ received' = [received EXCEPT ![u] = @ + 1]
  /\ UNCHANGED <<hook, process, job, strays, queue, history, faults>>

Completes(u) ==
  /\ stage[u] = "answering"
  /\ Move(u, "completed")
  /\ Release(u)
  /\ UNCHANGED <<hook, job, strays, queue, received, history, faults>>

\* Mutant of Throws: a failure that BullMQ does not count as an attempt.
ThrowsUncounted(u) ==
  /\ stage[u] \in Active
  /\ Fault
  /\ Move(u, "delayed")
  /\ Release(u)
  /\ UNCHANGED <<hook, job, strays, queue, received, history>>

\* process() throws: payload too large, address blocked, no connection, no
\* answer in time, an answer too large, or a status other than 2xx.
Throws(u) ==
  /\ stage[u] \in Active
  /\ Fault
  /\ attempts' = [attempts EXCEPT ![u] = @ + 1]
  /\ Move(u, IF attempts'[u] < Attempts THEN "delayed" ELSE "failed")
  /\ Release(u)
  /\ UNCHANGED <<hook, url, secret, stalls, strays, queue, received, history>>

-----------------------------------------------------------------------------
(* BullMQ, as the code uses it                                             *)

Take(p) ==
  /\ queue # <<>>
  /\ Idle(p)
  /\ Move(Head(queue), "sending")
  /\ process' = [process EXCEPT ![Head(queue)] = p]
  /\ queue' = Tail(queue)
  /\ UNCHANGED <<hook, job, strays, received, history, faults>>

\* The backoff has passed.
Retry(u) ==
  /\ stage[u] = "delayed"
  /\ Move(u, "waiting")
  /\ queue' = Append(queue, u)
  /\ UNCHANGED <<hook, process, job, strays, received, history, faults>>

\* Mutant of Recover: a job that stalled too often is left as it is.
RecoverLimited(u) ==
  /\ stage[u] = "stalled"
  /\ stalls[u] < MaxStalled
  /\ stalls' = [stalls EXCEPT ![u] = @ + 1]
  /\ Move(u, "waiting")
  /\ queue' = <<u>> \o queue
  /\ UNCHANGED <<hook, process, url, secret, attempts, strays, received, history, faults>>

\* Mutant of Recover: the stall is not counted.
RecoverUncounted(u) ==
  /\ stage[u] = "stalled"
  /\ Move(u, "waiting")
  /\ queue' = <<u>> \o queue
  /\ UNCHANGED <<hook, process, job, strays, received, history, faults>>

\* A job whose lock expired is next, or fails when that happens too often.
Recover(u) ==
  /\ stage[u] = "stalled"
  /\ stalls' = [stalls EXCEPT ![u] = @ + 1]
  /\ IF stalls'[u] > MaxStalled
     THEN Move(u, "failed") /\ UNCHANGED queue
     ELSE Move(u, "waiting") /\ queue' = <<u>> \o queue
  /\ UNCHANGED <<hook, process, url, secret, attempts, strays, received, history, faults>>

\* A worker does not renew its lock in time: Redis is out of reach for longer
\* than lockDuration, or the event loop is blocked. It goes on all the same.
LosesLock(u) ==
  /\ stage[u] \in Active
  /\ Fault
  /\ Move(u, "stalled")
  /\ Release(u)
  /\ unlocked' = unlocked \cup {<<process[u], u>>}
  /\ late' = IF stage[u] = "sending" THEN late \cup {<<process[u], u>>} ELSE late
  /\ UNCHANGED <<hook, job, queue, received, history>>

ReceiveLate(p, u) ==
  /\ <<p, u>> \in late
  /\ late' = late \ {<<p, u>>}
  /\ received' = [received EXCEPT ![u] = @ + 1]
  /\ UNCHANGED <<hook, stage, process, job, unlocked, queue, history, faults>>

\* process() returns or throws without its lock: BullMQ refuses the result.
EndsUnlocked(p, u) ==
  /\ <<p, u>> \in unlocked
  /\ unlocked' = unlocked \ {<<p, u>>}
  /\ late' = late \ {<<p, u>>}
  /\ UNCHANGED <<hook, stage, process, job, queue, received, history, faults>>

\* What the process was handling is forgotten; its job loses its lock.
Crash(p) ==
  /\ Fault
  /\ stage' = [u \in Updates |->
       CASE process[u] = p /\ stage[u] \in Handling -> "lost"
         [] process[u] = p /\ stage[u] \in Active   -> "stalled"
         [] OTHER -> stage[u]]
  /\ process' = [u \in Updates |-> IF process[u] = p THEN Nobody ELSE process[u]]
  /\ unlocked' = {d \in unlocked : d[1] # p}
  /\ late' = {d \in late : d[1] # p}
  /\ UNCHANGED <<hook, job, queue, received, history>>

-----------------------------------------------------------------------------
Init ==
  /\ config = NoHook
  /\ unset = Hooks
  /\ stage = [u \in Updates |-> "none"]
  /\ process = [u \in Updates |-> Nobody]
  /\ url = [u \in Updates |-> NoHook]
  /\ secret = url
  /\ unlocked = {} /\ late = {}
  /\ queue = <<>>
  /\ attempts = [u \in Updates |-> 0]
  /\ stalls = attempts
  /\ received = attempts
  /\ inForce = [u \in Updates |-> {}]
  /\ added = <<>>
  /\ faults = 0

DeveloperStep == DeleteWebhook \/ \E h \in Hooks : SetWebhook(h)

HandlerStep ==
  \E u \in Updates : \/ \E p \in Processes : Store(u, p)
                     \/ LookUp(u) \/ AddJob(u) \/ EnqueueFails(u)

WorkerStep ==
  \E u \in Updates :
    \/ Receive(u) \/ Completes(u) \/ Throws(u) \/ LosesLock(u)
    \/ \E p \in Processes : ReceiveLate(p, u) \/ EndsUnlocked(p, u)

QueueStep ==
  \/ \E p \in Processes : Take(p) \/ Crash(p)
  \/ \E u \in Updates : Retry(u) \/ Recover(u)

Next == DeveloperStep \/ HandlerStep \/ WorkerStep \/ QueueStep

\* Workers take jobs, a POST ends at the latest when its timer fires, the
\* backoff passes and locks expire.
Fairness ==
  /\ \A p \in Processes : /\ WF_vars(Take(p))
                          /\ WF_vars(\E u \in Updates : EndsUnlocked(p, u))
  /\ \A u \in Updates : /\ WF_vars(Receive(u) \/ Completes(u) \/ Throws(u))
                        /\ WF_vars(Retry(u))
                        /\ WF_vars(Recover(u))

Spec == Init /\ [][Next]_vars /\ Fairness

-----------------------------------------------------------------------------
(* Properties                                                              *)

(***************************************************************************)
(* A job goes to a webhook in force at some moment between the INSERT of   *)
(* its update and its lookup, with the secret set together with that url:  *)
(* an update stored after deleteWebhook is never posted, and no endpoint   *)
(* is sent the secret of another.                                          *)
(***************************************************************************)
PostsToHookInForce ==
  \A u \in Updates : Workers(u) # {} =>
    url[u] \in inForce[u] \ {NoHook} /\ secret[u] = url[u]

(***************************************************************************)
(* The endpoint sees an update again only for a reason: each POST but one  *)
(* was an attempt that failed, or whose worker was lost or lost its lock;  *)
(* a worker that goes on without it posts no more than it had begun. A job *)
(* is given up only when its attempts, or its stalls, are used up.         *)
(***************************************************************************)
PostsAccountedFor ==
  \A u \in Updates :
    /\ received[u] =< attempts[u] + stalls[u]
         + (IF stage[u] \in {"answering", "stalled", "completed"} THEN 1 ELSE 0)
    /\ stage[u] = "failed" => attempts[u] = Attempts \/ stalls[u] > MaxStalled

(***************************************************************************)
(* A job waits in the queue exactly once or not at all: a retry, a crash, a*)
(* recovery never double it. And a worker has one job at a time: it takes  *)
(* none while it goes on with a job that the queue has given to another.   *)
(***************************************************************************)
QueuedOnce ==
  /\ \A i, j \in DOMAIN queue : queue[i] = queue[j] => i = j
  /\ \A u \in Updates : stage[u] = "waiting" <=> \E i \in DOMAIN queue : queue[i] = u
  /\ \A u, v \in Updates : u # v => Workers(u) \cap Workers(v) = {}

(***************************************************************************)
(* Two workers are at one job only when the lock of the first has expired  *)
(* and the job was taken from it, each time one more; and as a job stalls  *)
(* MaxStalled times at most, never more than one and MaxStalled of them.   *)
(***************************************************************************)
SharedOnlyByStall ==
  \A u \in Updates :
    Cardinality(Workers(u)) =< 1 + stalls[u] /\ Cardinality(Workers(u)) =< 1 + MaxStalled

(***************************************************************************)
(* The endpoint sees updates for the first time in the order their jobs    *)
(* were added, but for jobs that failed or stalled once, and jobs that     *)
(* another process is posting at the same time.                            *)
(***************************************************************************)
MayBeOvertaken(u, v) ==
  \/ received[u] > 0
  \/ attempts[u] + stalls[u] > 0
  \/ stage[u] \in {"stalled", "failed"}
  \/ stage[u] \in Active /\ process[u] # process[v]

FirstSeenInOrder ==
  [][\A i, j \in DOMAIN added :
       i < j /\ received[added[j]] = 0 /\ received'[added[j]] = 1
         => MayBeOvertaken(added[i], added[j])]_vars

(***************************************************************************)
(* Every job that was added ends, delivered or given up.                   *)
(***************************************************************************)
EveryJobEnds ==
  \A u \in Updates : stage[u] = "waiting" ~> stage[u] \in {"completed", "failed"}
=============================================================================
