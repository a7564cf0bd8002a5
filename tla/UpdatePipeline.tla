--------------------------- MODULE UpdatePipeline ---------------------------
(***************************************************************************)
(* The way of a chat event from the durable queue to rows of the updates   *)
(* table on replicas of the service, each with a registry of its own, when *)
(* processes crash and connections break. dispatchToBot emits 'bot.update' *)
(* for the bots its registry names, the listener starts an INSERT nobody   *)
(* awaits, and the event is acknowledged when the handler returns. What a  *)
(* process has emitted and not stored yet is in its memory only.           *)
(*                                                                         *)
(* The topic is one. An RPC is answered and used in one step, and a bot is *)
(* created in one: the inner steps are the subjects of ChatBridge and      *)
(* BotAccounts, as are the prefetch window and the messages of the chat    *)
(* itself, which every handler drops. A bot is deactivated in two, for its *)
(* row outlives its registration: deactivateBot removes it from chat_server*)
(* and from the registry, and then awaits the DELETE, which may fail.      *)
(***************************************************************************)
EXTENDS Naturals

CONSTANTS
  Events,      \* events of one topic that chat_server may publish
  Published,   \* bound: their kinds, each with its sender
  Bots,        \* ids of rows of the bots table
  Existing,    \* the bots stored before the processes started
  Processes,   \* replicas of the service, consuming the same queues
  MaxFaults,   \* bound: crashes, lost connections, failed queries and RPCs
  MaxCalls,    \* bound: calls of bot owners, and bots removed from the topic
  Nobody       \* the sender is a person, no bot

\* Kinds of events: of a message that is new, edited or deleted.
Kind == [kind : {"new", "edit", "delete"}, sender : Bots \cup {Nobody}]

ASSUME BotsAssumption == Existing \subseteq Bots /\ Nobody \notin Bots
ASSUME BoundsAssumption ==
  /\ Published \subseteq Kind
  /\ MaxFaults \in Nat /\ MaxCalls \in Nat
  /\ Processes \cap {"unpublished", "queued", "acked"} = {}

VARIABLES
  life,        \* of the bots; one without its chat user is "retired"
  member,      \* chat_server: the bots in the topic
  left,        \* history: the bots that were in it and are out, or were once
  known,       \* botChatUserMap of each process
  listed,      \* the topic's entry in its topicBotRegistry
  loading,     \* loadBotTopics calls under way: process and bot
  destroying,  \* DELETEs of deactivateBot under way: process and bot
  event,       \* the kind of each event; Nobody before it is published
  place,       \* where an event is: a queue, the process that holds it, acked
  dispatching, \* runs of dispatchToBot that ask: process, event, delivery
  storing,     \* INSERTs under way, per process, event and bot
  rows,        \* rows of the updates table, per event and bot
  redelivered, \* history: times the broker delivered an event again
  owed,        \* history: the bots an event was for when it was published
  excused,     \* history: why an update was lost, with its event and bot
  faults,
  calls

bots     == <<life, member, left, calls>>
registry == <<known, listed, loading, destroying>>
memory   == <<dispatching, storing>>
history  == <<redelivered, owed, excused>>
vars     == <<bots, registry, event, place, memory, rows, history, faults>>

Deliveries == 0..MaxFaults
Causes == {"unknown", "unlisted", "resolve", "insert", "crash"}

TypeOK ==
  /\ life \in [Bots -> {"none", "stored", "retired", "gone"}]
  /\ member \subseteq {b \in Bots : life[b] = "stored"}
  /\ left \subseteq Bots
  /\ known \in [Processes -> SUBSET Bots]
  /\ listed \in [Processes -> SUBSET Bots]
  /\ loading \subseteq Processes \X Bots
  /\ destroying \subseteq Processes \X {b \in Bots : life[b] \in {"retired", "gone"}}
  /\ event \in [Events -> Kind \cup {Nobody}]
  /\ place \in [Events -> Processes \cup {"unpublished", "queued", "acked"}]
  /\ dispatching \subseteq Processes \X Events \X Deliveries
  /\ storing \in [Processes \X Events \X Bots -> Nat]
  /\ rows \in [Events \X Bots -> Nat]
  /\ redelivered \in [Events -> Deliveries]
  /\ owed \in [Events -> SUBSET Bots]
  /\ excused \subseteq Causes \X Events \X Bots
  /\ faults \in Deliveries /\ calls \in 0..MaxCalls

Fault == faults < MaxFaults /\ faults' = faults + 1
Call == calls < MaxCalls /\ calls' = calls + 1

\* Its row is in the bots table; in service it has its chat user, too.
InService == {b \in Bots : life[b] = "stored"}
Stored == {b \in Bots : life[b] \in {"stored", "retired"}}

-----------------------------------------------------------------------------
(* chat_server and the broker, as the code uses them                       *)

\* A message of a bot is for no bot; that it was deleted is for all.
For(k) == IF k.kind # "delete" /\ k.sender # Nobody THEN {} ELSE member

\* A bot sends through a process that knows it.
Publish(e, k) ==
  /\ place[e] = "unpublished"
  /\ k.sender # Nobody =>
       k.sender \in member /\ \E p \in Processes : k.sender \in known[p]
  /\ event' = [event EXCEPT ![e] = k]
  /\ place' = [place EXCEPT ![e] = "queued"]
  /\ owed' = [owed EXCEPT ![e] = For(k)]
  /\ UNCHANGED <<bots, registry, memory, rows, redelivered, excused, faults>>

\* Somebody adds a bot to the topic: nothing tells the service.
Join(b) ==
  /\ b \in InService \ member
  /\ member' = member \cup {b}
  /\ UNCHANGED <<life, left, calls, registry, event, place, memory, rows, history, faults>>

Leaves(b) == member' = member \ {b} /\ left' = left \cup (member \cap {b})

\* Somebody removes it, or a deactivateBot does that fails at its next step.
Leave(b) ==
  /\ b \in member
  /\ Call
  /\ Leaves(b)
  /\ UNCHANGED <<life, registry, event, place, memory, rows, history, faults>>

\* Deliveries that were not acknowledged go back to the queue.
Requeue(p) ==
  /\ place' = [e \in Events |-> IF place[e] = p THEN "queued" ELSE place[e]]
  /\ redelivered' = [e \in Events |-> redelivered[e] + (IF place[e] = p THEN 1 ELSE 0)]

-----------------------------------------------------------------------------
(* The handlers                                                            *)

EmitTwiceTo(p, e, bs) ==   \* mutant: two listeners of 'bot.update'
  /\ storing' = [d \in Processes \X Events \X Bots |->
                   storing[d] + (IF d[1] = p /\ d[2] = e /\ d[3] \in bs THEN 2 ELSE 0)]
  /\ UNCHANGED excused

EmitNothingTo(p, e, bs) == UNCHANGED <<storing, excused>>   \* mutant: no listener

\* It emits to bs: the INSERTs of the listener start, and nobody awaits
\* them. The other bots of the topic get nothing.
EmitTo(p, e, bs) ==
  /\ storing' = [d \in Processes \X Events \X Bots |->
                   storing[d] + (IF d[1] = p /\ d[2] = e /\ d[3] \in bs THEN 1 ELSE 0)]
  /\ excused' = excused \cup
       {<<IF b \in known[p] THEN "unlisted" ELSE "unknown", e, b>> :
          b \in (owed[e] \cap Stored) \ bs}

NothingSkipped(p, e) == FALSE   \* mutant: bots are sent the messages of bots

Skipped(p, e) == event[e].kind # "delete" /\ event[e].sender \in known[p]

\* dispatchToBot asks chat_server: deletions are never resolved.
Asks(p, e) ==
  event[e].kind # "delete" /\ ~Skipped(p, e) /\ listed[p] = {} /\ known[p] # {}

\* The handler of an event runs, to its end or to the await of its RPC.
Deliver(p, e) ==
  /\ place[e] = "queued"
  /\ place' = [place EXCEPT ![e] = p]
  /\ \/ /\ Asks(p, e)
        /\ dispatching' = dispatching \cup {<<p, e, redelivered[e]>>}
        /\ UNCHANGED <<storing, excused>>
     \/ /\ ~Asks(p, e)
        /\ EmitTo(p, e, IF Skipped(p, e) THEN {} ELSE listed[p])
        /\ UNCHANGED dispatching
  /\ UNCHANGED <<bots, registry, event, rows, redelivered, owed, faults>>

Returns(p, e, n) ==
  /\ <<p, e, n>> \in dispatching
  /\ dispatching' = dispatching \ {<<p, e, n>>}

\* resolveBotsInTopic lists the members it knows, and dispatchToBot emits.
Resolve(p, e, n) ==
  /\ Returns(p, e, n)
  /\ listed' = [listed EXCEPT ![p] = @ \cup (member \cap known[p])]
  /\ EmitTo(p, e, listed'[p])
  /\ UNCHANGED <<bots, known, loading, destroying, event, place, rows, redelivered, owed, faults>>

\* Its RPC fails: logged, and nothing is emitted.
ResolveFails(p, e, n) ==
  /\ Returns(p, e, n)
  /\ Fault
  /\ excused' = excused \cup {<<"resolve", e, b>> : b \in owed[e]}
  /\ UNCHANGED <<bots, registry, event, place, storing, rows, redelivered, owed>>

AckBeforeDispatch(e) ==   \* mutant: handleMessageNew without its await
  /\ place[e] \in Processes
  /\ place' = [place EXCEPT ![e] = "acked"]
  /\ UNCHANGED <<bots, registry, event, memory, rows, history, faults>>

\* The handler returns: of a new message, when dispatchToBot has.
Ack(e) ==
  /\ place[e] \in Processes
  /\ event[e].kind = "new" => <<place[e], e, redelivered[e]>> \notin dispatching
  /\ place' = [place EXCEPT ![e] = "acked"]
  /\ UNCHANGED <<bots, registry, event, memory, rows, history, faults>>

-----------------------------------------------------------------------------
(* handleBotUpdate                                                         *)

CommitAgain(p, e, b) ==   \* mutant: the INSERT is retried after it succeeded
  /\ b \in Stored
  /\ storing[<<p, e, b>>] > 0 \/ rows[<<e, b>>] > 0
  /\ storing' = [storing EXCEPT ![<<p, e, b>>] = @ - 1]
  /\ rows' = [rows EXCEPT ![<<e, b>>] = @ + 1]
  /\ UNCHANGED <<bots, registry, event, place, dispatching, history, faults>>

\* updates.bot_id references the row of the bot.
Commit(p, e, b) ==
  /\ storing[<<p, e, b>>] > 0
  /\ b \in Stored
  /\ storing' = [storing EXCEPT ![<<p, e, b>>] = @ - 1]
  /\ rows' = [rows EXCEPT ![<<e, b>>] = @ + 1]
  /\ UNCHANGED <<bots, registry, event, place, dispatching, history, faults>>

\* The listener rejects, for a failure or for a bot that is gone: nobody
\* hears of it, and the event is acknowledged.
InsertFails(p, e, b) ==
  /\ storing[<<p, e, b>>] > 0
  /\ IF b \in Stored THEN Fault ELSE UNCHANGED faults
  /\ storing' = [storing EXCEPT ![<<p, e, b>>] = @ - 1]
  /\ excused' = excused \cup {<<"insert", e, b>>}
  /\ UNCHANGED <<bots, registry, event, place, dispatching, rows, redelivered, owed>>

-----------------------------------------------------------------------------
(* BotsService                                                             *)

\* createBot on p: no other process hears of the bot. When a step fails after
\* its INSERT, p does not either.
CreateBot(p, b) ==
  /\ life[b] = "none"
  /\ Call
  /\ life' = [life EXCEPT ![b] = "stored"]
  /\ \/ known' = [known EXCEPT ![p] = @ \cup {b}] /\ UNCHANGED faults
     \/ Fault /\ UNCHANGED known
  /\ UNCHANGED <<member, left, listed, loading, destroying, event, place, memory, rows, history>>

ActivateBot(p, b) ==
  /\ Call
  /\ b \in Stored
  /\ known' = [known EXCEPT ![p] = @ \cup {b}]
  /\ loading' = loading \cup {<<p, b>>}
  /\ UNCHANGED <<life, member, left, listed, destroying, event, place, memory, rows, history, faults>>

\* loadBotTopics: chat_server answers or the RPC fails, which is logged.
Load(p, b) ==
  /\ <<p, b>> \in loading
  /\ loading' = loading \ {<<p, b>>}
  /\ \/ listed' = [listed EXCEPT ![p] = @ \cup ({b} \cap member)] /\ UNCHANGED faults
     \/ Fault /\ UNCHANGED listed
  /\ UNCHANGED <<bots, known, destroying, event, place, memory, rows, history>>

\* deactivateBot takes the bot out of the topic and deletes its chat user.
\* Answered, it unregisters it; when the answer is lost, it stops there, and
\* the bot may be deactivated again.
DeactivateBot(p, b) ==
  /\ b \in Stored
  /\ Call
  /\ life' = [life EXCEPT ![b] = "retired"]
  /\ Leaves(b)
  /\ \/ /\ known' = [known EXCEPT ![p] = @ \ {b}]
        /\ listed' = [listed EXCEPT ![p] = @ \ {b}]
        /\ destroying' = destroying \cup {<<p, b>>}
        /\ UNCHANGED faults
     \/ Fault /\ UNCHANGED <<known, listed, destroying>>
  /\ UNCHANGED <<loading, event, place, memory, rows, history>>

\* Its bot.destroy() ends: the row goes with its updates (ON DELETE CASCADE),
\* or the DELETE fails and the row stays. Other processes keep it registered.
Destroy(p, b) ==
  /\ <<p, b>> \in destroying
  /\ destroying' = destroying \ {<<p, b>>}
  /\ \/ /\ life' = [life EXCEPT ![b] = "gone"]
        /\ rows' = [d \in Events \X Bots |-> IF d[2] = b THEN 0 ELSE rows[d]]
        /\ UNCHANGED faults
     \/ Fault /\ UNCHANGED <<life, rows>>
  /\ UNCHANGED <<member, left, calls, known, listed, loading, event, place, memory, history>>

-----------------------------------------------------------------------------
(* Failures of a process                                                   *)

\* What p had emitted of an acknowledged event, or not yet of an edited one.
Loses(p, e, b) ==
  /\ place[e] = "acked"
  /\ \/ storing[<<p, e, b>>] > 0
     \/ /\ event[e].kind = "edit" /\ b \in owed[e]
        /\ \E n \in Deliveries : <<p, e, n>> \in dispatching

BootsEmpty(p) ==   \* mutant: the bots are loaded on demand
  /\ known' = [known EXCEPT ![p] = {}]
  /\ loading' = {d \in loading : d[1] # p}

\* onModuleInit registers the bots of the table and does not await their loads.
Boots(p) ==
  /\ known' = [known EXCEPT ![p] = Stored]
  /\ loading' = {d \in loading : d[1] # p} \cup {<<p, b>> : b \in Stored}

\* The process is gone with its memory, and started again.
Crash(p) ==
  /\ Fault
  /\ Requeue(p)
  /\ Boots(p)
  /\ listed' = [listed EXCEPT ![p] = {}]
  /\ destroying' = {d \in destroying : d[1] # p}
  /\ dispatching' = {d \in dispatching : d[1] # p}
  /\ storing' = [d \in Processes \X Events \X Bots |-> IF d[1] = p THEN 0 ELSE storing[d]]
  /\ excused' = excused \cup {c \in {"crash"} \X Events \X Bots : Loses(p, c[2], c[3])}
  /\ UNCHANGED <<bots, event, rows, owed>>

\* The connection breaks; the process goes on with what it was doing.
Disconnect(p) ==
  /\ Fault
  /\ Requeue(p)
  /\ UNCHANGED <<bots, registry, event, memory, rows, owed, excused>>

-----------------------------------------------------------------------------
Init ==
  /\ life = [b \in Bots |-> IF b \in Existing THEN "stored" ELSE "none"]
  /\ member \in SUBSET Existing
  /\ left = {}
  /\ known = [p \in Processes |-> Existing]
  /\ listed = [p \in Processes |-> {}]
  /\ loading = Processes \X Existing
  /\ destroying = {}
  /\ event = [e \in Events |-> Nobody]
  /\ place = [e \in Events |-> "unpublished"]
  /\ dispatching = {}
  /\ storing = [d \in Processes \X Events \X Bots |-> 0]
  /\ rows = [d \in Events \X Bots |-> 0]
  /\ redelivered = [e \in Events |-> 0]
  /\ owed = [e \in Events |-> {}]
  /\ excused = {}
  /\ faults = 0 /\ calls = 0

HandlerStep ==
  \E e \in Events, p \in Processes :
    \/ Deliver(p, e)
    \/ \E n \in Deliveries : Resolve(p, e, n) \/ ResolveFails(p, e, n)
    \/ \E b \in Bots : Commit(p, e, b) \/ InsertFails(p, e, b)

EventStep == \E e \in Events : Ack(e) \/ \E k \in Published : Publish(e, k)

BotStep ==
  \E b \in Bots :
    \/ Join(b) \/ Leave(b)
    \/ \E p \in Processes :
         \/ CreateBot(p, b) \/ ActivateBot(p, b) \/ Load(p, b)
         \/ DeactivateBot(p, b) \/ Destroy(p, b)

ProcessStep == \E p \in Processes : Crash(p) \/ Disconnect(p)

Next == HandlerStep \/ EventStep \/ BotStep \/ ProcessStep

\* The broker delivers, handlers and queries run to their end.
Fairness ==
  \A e \in Events :
    /\ WF_vars(\E p \in Processes : Deliver(p, e))
    /\ WF_vars(Ack(e))
    /\ \A p \in Processes :
         /\ WF_vars(\E n \in Deliveries : Resolve(p, e, n) \/ ResolveFails(p, e, n))
         /\ \A b \in Bots : WF_vars(Commit(p, e, b) \/ InsertFails(p, e, b))

Spec == Init /\ [][Next]_vars /\ Fairness

-----------------------------------------------------------------------------
(* Properties                                                              *)

\* Runs of the handler of an event that may still lead to a row of b.
Underway(e, b) ==
  \/ place[e] # "acked"
  \/ \E d \in dispatching : d[2] = e
  \/ \E p \in Processes : storing[<<p, e, b>>] > 0

Excused(e, b) == \E cause \in Causes : <<cause, e, b>> \in excused

(***************************************************************************)
(* An event has more rows of one bot than one, its update is delivered     *)
(* twice, only if the broker delivered it again: acknowledgements, however *)
(* late, the INSERTs of broken connections, the loads that race with a     *)
(* resolution add no row of their own.                                     *)
(***************************************************************************)
RowsOnlyByDelivery ==
  \A e \in Events, b \in Bots : rows[<<e, b>>] =< 1 + redelivered[e]

(***************************************************************************)
(* A bot whose row is there misses an event of its topic only by a dispatch*)
(* that did not know or not list it, a lazy resolution or an INSERT that   *)
(* failed, or a crash after the acknowledgement; of a new message only a   *)
(* crash between its emission and the end of its INSERT. Whatever breaks   *)
(* before, on whichever replica, loses nothing.                            *)
(***************************************************************************)
LostForCause ==
  \A e \in Events : \A b \in owed[e] \cap Stored :
    rows[<<e, b>>] = 0 => Underway(e, b) \/ Excused(e, b)

(***************************************************************************)
(* As long as a bot has its chat user, a replica does not know it only when*)
(* it was created after the replicas started, and a message finds it not   *)
(* listed in its topic only when it has left the topic or another bot has  *)
(* been there: lazy resolution is enough for a bot alone in its topic,     *)
(* whatever loads fail and processes restart.                              *)
(***************************************************************************)
MissedForCause ==
  \A e \in Events, b \in InService :
    /\ <<"unknown", e, b>> \in excused => b \notin Existing
    /\ <<"unlisted", e, b>> \in excused /\ event[e].kind # "delete" =>
         b \in left \/ \E c \in Bots \ {b} : c \in member \cup left

(***************************************************************************)
(* No replica stores for any bot a message that a bot sent, as long as the *)
(* sender has its chat user and was stored when the replicas started:      *)
(* before a restart and after it, by the registry and by lazy resolution.  *)
(* Not longer: once deactivateBot has unregistered a bot, its messages in  *)
(* the queue are stored for the other bots, row or no row.                 *)
(***************************************************************************)
BotMessagesSkipped ==
  \A e \in {d \in Events : place[d] # "unpublished"} :
    event[e].kind # "delete" /\ event[e].sender \in Existing \cap InService =>
      \A b \in Bots : rows[<<e, b>>] = 0 /\ \A p \in Processes : storing[<<p, e, b>>] = 0

(***************************************************************************)
(* Every event ends for every bot it was for: as a row, or lost for one of *)
(* these causes, or with the bot.                                          *)
(***************************************************************************)
EveryEventEnds ==
  []<>(\A e \in Events, b \in Bots :
         b \in owed[e] => rows[<<e, b>>] > 0 \/ Excused(e, b) \/ life[b] = "gone")

(***************************************************************************)
(* "durable queues, ack/redelivery: survives reconnects and restarts"      *)
(* (README): an event that no query and no RPC failed on is stored.        *)
(***************************************************************************)
SurvivesRestarts ==
  \A e \in Events, b \in Existing :
    b \in owed[e] ~> \/ rows[<<e, b>>] > 0 \/ life[b] = "gone"
                     \/ <<"insert", e, b>> \in excused \/ <<"resolve", e, b>> \in excused
=============================================================================
