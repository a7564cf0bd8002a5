----------------------------- MODULE UpdateLog ------------------------------
(***************************************************************************)
(* The updates table as long polling sees it: UpdatesService inserts rows  *)
(* and answers getUpdates, the PollingManager of the developer's SDK asks  *)
(* for them and advances its offset.                                       *)
(*                                                                         *)
(* An INSERT draws its id from a sequence and commits later, on a pool of  *)
(* connections: ids are drawn in order, rows become visible in any order.  *)
(* getUpdates is a query, then a sleep and a query a second. A request or  *)
(* its answer may be lost, or outlast the timer of the SDK. A restarted    *)
(* developer process is a new PollingManager, whose offset is zero; one    *)
(* that was stopped still hands over the answer it was waiting for.        *)
(***************************************************************************)
EXTENDS Naturals, FiniteSets, Sequences

CONSTANTS
  Bots,         \* bots whose updates share the table
  Self,         \* the bot whose developer polls
  MaxUpdates,   \* bound: rows inserted in a behaviour
  Limit,        \* Math.min(limit, 100)
  Timeout,      \* Math.min(timeout, 60), in seconds
  MaxManagers,  \* bound: PollingManagers started one after the other
  MaxFaults,    \* bound: polls that fail
  NoBot         \* owner of an id not drawn yet

ASSUME BotsAssumption == Self \in Bots /\ NoBot \notin Bots
ASSUME BoundsAssumption ==
  /\ MaxUpdates \in Nat /\ MaxFaults \in Nat /\ Timeout \in Nat
  /\ Limit \in Nat \ {0} /\ MaxManagers \in Nat \ {0}

Ids == 1..MaxUpdates
Managers == 1..MaxManagers

VARIABLES
  row,       \* what became of the row of each id
  owner,     \* its bot_id
  current,   \* the PollingManager that is running; the earlier are stopped
  pc,        \* where the poll of each manager stands
  offset,    \* the offset of each manager
  waited,    \* sleeps of the getUpdates call it waits for
  result,    \* the rows that call answers
  processed, \* the batches each manager handed to the bot
  overtaken, \* history: ids not yet visible when a later one was answered
  faults     \* polls that failed so far

table  == <<row, owner>>
server == <<waited, result, overtaken>>
client == <<current, offset, processed>>
vars   == <<table, server, client, pc, faults>>

\* A poll is in flight: its query runs, sleeps, or is answered.
InFlight == {"querying", "sleeping", "answered"}

TypeOK ==
  /\ row \in [Ids -> {"free", "inserting", "committed", "failed"}]
  /\ owner \in [Ids -> Bots \cup {NoBot}]
  /\ current \in Managers
  /\ pc \in [Managers -> {"off", "timer"} \cup InFlight]
  /\ offset \in [Managers -> 0..MaxUpdates + 1]
  /\ waited \in [Managers -> 0..Timeout]
  /\ result \in [Managers -> SUBSET Ids]
  /\ processed \in [Managers -> Seq((SUBSET Ids) \ {{}})]
  /\ overtaken \subseteq Ids
  /\ faults \in 0..MaxFaults

Processed(m) == UNION {processed[m][n] : n \in 1..Len(processed[m])}

-----------------------------------------------------------------------------
(* createUpdate                                                            *)

Insert(b, i) ==
  /\ row[i] = "free"
  /\ \A j \in Ids : j < i => row[j] # "free"
  /\ row' = [row EXCEPT ![i] = "inserting"]
  /\ owner' = [owner EXCEPT ![i] = b]
  /\ UNCHANGED <<server, client, pc, faults>>

\* The statement commits; or it fails, on the connection or because the bot
\* was destroyed meanwhile, and its id is never used.
InsertEnds(i, outcome) ==
  /\ row[i] = "inserting"
  /\ row' = [row EXCEPT ![i] = outcome]
  /\ UNCHANGED <<owner, server, client, pc, faults>>

-----------------------------------------------------------------------------
(* getUpdates                                                              *)

MatchingStrictly(m) ==   \* mutant: Op.gt for Op.gte
  {i \in Ids : row[i] = "committed" /\ owner[i] = Self /\ i > offset[m]}

Matching(m) ==
  {i \in Ids : row[i] = "committed" /\ owner[i] = Self /\ i >= offset[m]}

LatestRows(m) ==         \* mutant: ordered by id DESC
  {i \in Matching(m) : Cardinality({j \in Matching(m) : j >= i}) =< Limit}

FirstRows(m) ==
  {i \in Matching(m) : Cardinality({j \in Matching(m) : j =< i}) =< Limit}

\* Rows of the bot that this answer leaves behind and that may yet commit.
Overtaken(m) ==
  {i \in Ids : row[i] = "inserting" /\ \E j \in FirstRows(m) : i < j}

QueryFinds(m) ==
  /\ pc[m] = "querying"
  /\ FirstRows(m) # {}
  /\ pc' = [pc EXCEPT ![m] = "answered"]
  /\ result' = [result EXCEPT ![m] = FirstRows(m)]
  /\ overtaken' = overtaken \cup Overtaken(m)
  /\ UNCHANGED <<table, waited, client, faults>>

QueryFindsNothing(m) ==
  /\ pc[m] = "querying"
  /\ FirstRows(m) = {}
  /\ \/ waited[m] < Timeout /\ pc' = [pc EXCEPT ![m] = "sleeping"]
     \* Queries take time too: the deadline may pass after fewer sleeps.
     \/ (waited[m] > 0 \/ Timeout = 0) /\ pc' = [pc EXCEPT ![m] = "answered"]
  /\ UNCHANGED <<table, server, client, faults>>

Wake(m) ==
  /\ pc[m] = "sleeping"
  /\ pc' = [pc EXCEPT ![m] = "querying"]
  /\ waited' = [waited EXCEPT ![m] = @ + 1]
  /\ UNCHANGED <<table, result, overtaken, client, faults>>

-----------------------------------------------------------------------------
(* PollingManager                                                          *)

AfterPoll(m) == IF m = current THEN "timer" ELSE "off"

\* The timer of the interval fires: poll() sends the next request.
Poll(m) ==
  /\ pc[m] = "timer"
  /\ pc' = [pc EXCEPT ![m] = "querying"]
  /\ waited' = [waited EXCEPT ![m] = 0]
  /\ result' = [result EXCEPT ![m] = {}]
  /\ UNCHANGED <<table, overtaken, client, faults>>

ReceiveNoAdvance(m) ==   \* mutant: offset = maxId
  /\ pc[m] = "answered"
  /\ pc' = [pc EXCEPT ![m] = AfterPoll(m)]
  /\ \E last \in result[m] :
       /\ \A i \in result[m] : i =< last
       /\ offset' = [offset EXCEPT ![m] = last]
       /\ processed' = [processed EXCEPT ![m] = Append(@, result[m])]
  /\ UNCHANGED <<table, server, current, faults>>

\* The answer arrives, even for a manager stopped since it asked.
Receive(m) ==
  /\ pc[m] = "answered"
  /\ pc' = [pc EXCEPT ![m] = AfterPoll(m)]
  /\ \/ /\ result[m] = {}
        /\ UNCHANGED <<offset, processed>>
     \/ \E last \in result[m] :
          /\ \A i \in result[m] : i =< last
          /\ offset' = [offset EXCEPT ![m] = last + 1]
          /\ processed' = [processed EXCEPT ![m] = Append(@, result[m])]
  /\ UNCHANGED <<table, server, current, faults>>

PollFailsRewinding(m) == \* mutant: the offset is forgotten on an error
  /\ pc[m] \in InFlight
  /\ faults < MaxFaults
  /\ faults' = faults + 1
  /\ pc' = [pc EXCEPT ![m] = AfterPoll(m)]
  /\ offset' = [offset EXCEPT ![m] = 0]
  /\ UNCHANGED <<table, server, current, processed>>

\* The request or its answer is lost, or the abort timer of the SDK fires.
PollFails(m) ==
  /\ pc[m] \in InFlight
  /\ faults < MaxFaults
  /\ faults' = faults + 1
  /\ pc' = [pc EXCEPT ![m] = AfterPoll(m)]
  /\ UNCHANGED <<table, server, client>>

StopKeepingTimer(m) == pc[m]   \* mutant: stop() leaves the timer set

\* stop() clears the timer, and cannot recall a request in flight.
Stop(m) == IF pc[m] = "timer" THEN "off" ELSE pc[m]

\* startPolling, in the same process or in a restarted one: the running
\* manager is stopped and the next polls at once, from offset zero.
StartPolling ==
  /\ current + 1 \in Managers
  /\ current' = current + 1
  /\ pc' = [pc EXCEPT ![current] = Stop(current), ![current + 1] = "querying"]
  /\ UNCHANGED <<table, server, offset, processed, faults>>

-----------------------------------------------------------------------------
Init ==
  /\ row = [i \in Ids |-> "free"]
  /\ owner = [i \in Ids |-> NoBot]
  /\ current = 1
  /\ pc = [m \in Managers |-> IF m = 1 THEN "querying" ELSE "off"]
  /\ offset = [m \in Managers |-> 0]
  /\ waited = [m \in Managers |-> 0]
  /\ result = [m \in Managers |-> {}]
  /\ processed = [m \in Managers |-> <<>>]
  /\ overtaken = {}
  /\ faults = 0

TableStep ==
  \E i \in Ids : \/ \E b \in Bots : Insert(b, i)
                 \/ InsertEnds(i, "committed")
                 \/ InsertEnds(i, "failed")

GetUpdatesStep ==
  \E m \in Managers : QueryFinds(m) \/ QueryFindsNothing(m) \/ Wake(m)

PollingStep ==
  \/ \E m \in Managers : Poll(m) \/ Receive(m) \/ PollFails(m)
  \/ StartPolling

Next == TableStep \/ GetUpdatesStep \/ PollingStep

\* Timers fire, queries return and answers arrive unless their poll fails.
Fairness ==
  \A m \in Managers :
    /\ WF_vars(QueryFinds(m) \/ QueryFindsNothing(m))
    /\ WF_vars(Wake(m))
    /\ WF_vars(Poll(m))
    /\ WF_vars(Receive(m))

Spec == Init /\ [][Next]_vars /\ Fairness

-----------------------------------------------------------------------------
(* Properties                                                              *)

Logged == {i \in Ids : row[i] = "committed" /\ owner[i] = Self}

Feed == INSTANCE UpdateFeed
  WITH Readers <- Managers, log <- Logged, cursor <- offset, consumed <- processed

(***************************************************************************)
(* getUpdates and PollingManager together are an update feed: however      *)
(* commits, polls, losses and restarts interleave, a manager only ever     *)
(* consumes visible updates of its bot from its offset on.                 *)
(***************************************************************************)
IsUpdateFeed == Feed!Spec

(***************************************************************************)
(* A manager hands every update to the bot at most once, and in the order  *)
(* of their ids, also when answers are lost and asked for again.           *)
(***************************************************************************)
InOrderOnce == Feed!ConsumedInOrderOnce

(***************************************************************************)
(* The only updates a manager passes over for good are those whose INSERT  *)
(* was in flight when an update with a higher id was answered: no limit,   *)
(* boundary of the offset, timeout or lost answer skips one.               *)
(***************************************************************************)
SkippedOnlyIfOvertaken ==
  \A m \in Managers, i \in Logged :
    i < offset[m] => i \in Processed(m) \cup overtaken

(***************************************************************************)
(* Two polling loops never run at once: a manager that was stopped polls   *)
(* no more, whatever it was waiting for.                                   *)
(***************************************************************************)
StoppedPollsNoMore ==
  \A m \in Managers : m # current => pc[m] # "timer"

(***************************************************************************)
(* An update that is visible reaches the bot, unless it was overtaken.     *)
(***************************************************************************)
DeliveredUnlessOvertaken ==
  \A i \in Ids : i \in Logged ~> \/ i \in overtaken
                                \/ \E m \in Managers : i \in Processed(m)

(***************************************************************************)
(* "Creates Updates and delivers them to the developer through long        *)
(* polling" (decision 0001): every visible update reaches the bot.         *)
(***************************************************************************)
EveryUpdateDelivered ==
  \A i \in Ids : i \in Logged ~> \E m \in Managers : i \in Processed(m)
=============================================================================
