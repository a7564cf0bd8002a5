------------------------ MODULE UpdatePipelineProofs ------------------------
(***************************************************************************)
(* Proofs about the pipeline, for any number of replicas, bots, events and *)
(* faults. PlacesInv says what an event's place implies, KnownInv and      *)
(* ListedInv what the registries hold; LostInv strengthens LostForCause to *)
(* an event that is held: the run of its own delivery, once it has         *)
(* returned, has left something behind in the process that will            *)
(* acknowledge it.                                                         *)
(***************************************************************************)
EXTENDS UpdatePipeline, FiniteSetTheorems, TLAPS

\* TypeOK in parts, each of which a few actions disturb.
BotsOK ==
  /\ life \in [Bots -> {"none", "stored", "retired", "gone"}]
  /\ member \subseteq {b \in Bots : life[b] = "stored"}
  /\ left \subseteq Bots
  /\ destroying \subseteq Processes \X {b \in Bots : life[b] \in {"retired", "gone"}}
  /\ calls \in 0..MaxCalls

RegistryOK ==
  /\ known \in [Processes -> SUBSET Bots]
  /\ listed \in [Processes -> SUBSET Bots]
  /\ loading \subseteq Processes \X Bots

PlacesOK ==
  /\ event \in [Events -> Kind \cup {Nobody}]
  /\ place \in [Events -> Processes \cup {"unpublished", "queued", "acked"}]
  /\ dispatching \subseteq Processes \X Events \X Deliveries
  /\ redelivered \in [Events -> Deliveries]
  /\ faults \in Deliveries

RowsOK ==
  /\ storing \in [Processes \X Events \X Bots -> Nat]
  /\ rows \in [Events \X Bots -> Nat]

HistoryOK ==
  /\ owed \in [Events -> SUBSET Bots]
  /\ excused \subseteq Causes \X Events \X Bots

RedeliveredInv == \A e \in Events : redelivered[e] =< faults

\* Bots stored before the start are never "none".
ExistingInv == \A b \in Existing : life[b] # "none"

KnownInv == \A p \in Processes : Existing \cap InService \subseteq known[p]

ListedInv == \A p \in Processes : listed[p] \subseteq member \cup left

\* Nothing is under way for e, and nothing stored.
Untouched(e) ==
  /\ \A b \in Bots : rows[<<e, b>>] = 0 /\ \A p \in Processes : storing[<<p, e, b>>] = 0
  /\ \A p \in Processes, n \in Deliveries : <<p, e, n>> \notin dispatching

OfBot(e) == event[e].kind # "delete" /\ event[e].sender # Nobody

PlaceInv(e) ==
  /\ place[e] = "unpublished" => owed[e] = {} /\ Untouched(e)
  /\ place[e] # "unpublished" => event[e] \in Kind /\ (OfBot(e) => owed[e] = {})
  /\ owed[e] \subseteq member \cup left
  /\ \A b \in owed[e] : life[b] # "none"
  /\ \A p \in Processes, n \in Deliveries :
       <<p, e, n>> \in dispatching => event[e].kind # "delete"

PlacesInv == \A e \in Events : PlaceInv(e)

SkippedInv ==
  \A e \in Events :
    place[e] # "unpublished" /\ event[e].kind # "delete"
      /\ event[e].sender \in Existing \cap InService => Untouched(e)

\* The bot has left the topic, or another bot has been there.
NotAlone(b) == b \in left \/ \E c \in Bots \ {b} : c \in member \cup left

UnlistedInv ==
  \A e \in Events, b \in Bots :
    <<"unlisted", e, b>> \in excused =>
      place[e] # "unpublished" /\ (event[e].kind # "delete" => NotAlone(b))

Settled(e, b) == rows[<<e, b>>] > 0 \/ Excused(e, b)
Emitting(p, e, b) == storing[<<p, e, b>>] > 0
Asking(e) == \E p \in Processes, n \in Deliveries : <<p, e, n>> \in dispatching

LostInv(e, b) ==
  /\ \A p \in Processes : place[e] = p =>
       <<p, e, redelivered[e]>> \in dispatching \/ Emitting(p, e, b) \/ Settled(e, b)
  /\ place[e] = "acked" =>
       \/ \E p \in Processes : Emitting(p, e, b)
       \/ Settled(e, b)
       \/ event[e].kind = "edit" /\ Asking(e)

LostsInv == \A e \in Events : \A b \in owed[e] \cap Stored : LostInv(e, b)

TypeInv == BotsOK /\ RegistryOK /\ PlacesOK /\ RowsOK /\ HistoryOK /\ RedeliveredInv
RegistryInv == ExistingInv /\ KnownInv /\ ListedInv
MissedInv == UnlistedInv /\ MissedForCause
IInv == TypeInv /\ RegistryInv /\ PlacesInv /\ SkippedInv /\ MissedInv /\ LostsInv

LEMMA TypeParts == TypeOK <=> BotsOK /\ RegistryOK /\ PlacesOK /\ RowsOK /\ HistoryOK
BY DEF TypeOK, BotsOK, RegistryOK, PlacesOK, RowsOK, HistoryOK

\* Only calls of BotsService, joins and leaves change the life of a bot or the topic.
LEMMA BotsStay ==
  ASSUME HandlerStep \/ EventStep \/ ProcessStep \/ UNCHANGED vars
  PROVE  UNCHANGED bots /\ destroying' \subseteq destroying
<1> DEFINE Stay == UNCHANGED bots /\ destroying' \subseteq destroying
<1>0. ASSUME UNCHANGED bots, UNCHANGED destroying PROVE Stay
  BY <1>0
<1>1. ASSUME NEW p \in Processes, NEW e \in Events, Deliver(p, e) PROVE UNCHANGED <<bots, registry>>
  BY <1>1, Zenon DEF Deliver
<1>2. ASSUME NEW p \in Processes, NEW e \in Events, NEW n \in Deliveries,
             Resolve(p, e, n) \/ ResolveFails(p, e, n)
      PROVE  UNCHANGED <<bots, destroying>>
  BY <1>2, Zenon DEF Resolve, ResolveFails, registry
<1>3. ASSUME NEW p \in Processes, NEW e \in Events, NEW b \in Bots,
             Commit(p, e, b) \/ InsertFails(p, e, b)
      PROVE  UNCHANGED <<bots, registry>>
  BY <1>3, Zenon DEF Commit, InsertFails
<1>4. CASE HandlerStep
  BY <1>0, <1>1, <1>2, <1>3, <1>4, Zenon DEF HandlerStep, registry
<1>5. CASE EventStep
  BY <1>5, Zenon DEF EventStep, Publish, Ack, registry
<1>6. CASE ProcessStep
  <2>1. ASSUME NEW p \in Processes, Crash(p) PROVE Stay
    BY <2>1 DEF Crash
  <2>2. ASSUME NEW p \in Processes, Disconnect(p) PROVE Stay
    BY <2>2 DEF Disconnect, registry
  <2> QED
    BY <1>6, <2>1, <2>2 DEF ProcessStep
<1>7. CASE UNCHANGED vars
  BY <1>7 DEF vars, registry
<1> QED
  BY <1>4, <1>5, <1>6, <1>7

LEMMA NextBotsOK == TypeInv /\ [Next]_vars => BotsOK'
<1> SUFFICES ASSUME TypeInv, [Next]_vars PROVE BotsOK'
  OBVIOUS
<1>0. BotsOK /\ MaxCalls \in Nat
  BY BoundsAssumption DEF TypeInv
<1>1. calls < MaxCalls => calls + 1 \in 0..MaxCalls
  BY <1>0 DEF BotsOK
<1>2. ASSUME NEW b \in Bots, Join(b) PROVE BotsOK'
  BY <1>0, <1>2 DEF Join, BotsOK, InService, registry
<1>3. ASSUME NEW p \in Processes, NEW b \in Bots, CreateBot(p, b) PROVE BotsOK'
  <2>1. \A c \in Bots : life[c] # "none" => life'[c] = life[c]
    BY <1>0, <1>3 DEF CreateBot, BotsOK
  <2> QED
    BY <1>0, <1>1, <1>3, <2>1 DEF CreateBot, Call, BotsOK
<1>4. ASSUME NEW p \in Processes, NEW b \in Bots, DeactivateBot(p, b) PROVE BotsOK'
  <2>1. life' = [life EXCEPT ![b] = "retired"] /\ member' = member \ {b}
          /\ left' = left \cup (member \cap {b}) /\ calls' \in 0..MaxCalls
          /\ destroying' \subseteq destroying \cup {<<p, b>>}
    BY <1>1, <1>4 DEF DeactivateBot, Leaves, Call
  <2> QED
    BY <1>0, <2>1 DEF BotsOK
<1>5. ASSUME NEW p \in Processes, NEW b \in Bots, ActivateBot(p, b) PROVE BotsOK'
  BY <1>0, <1>1, <1>5 DEF ActivateBot, Call, BotsOK
<1>6. CASE UNCHANGED bots /\ destroying' \subseteq destroying
  BY <1>0, <1>6 DEF BotsOK, bots
<1>7. CASE HandlerStep \/ EventStep \/ ProcessStep \/ UNCHANGED vars
  BY <1>6, <1>7, BotsStay
<1>8. CASE BotStep
  <2>1. ASSUME NEW p \in Processes, NEW b \in Bots, Load(p, b) PROVE BotsOK'
    BY <1>6, <2>1 DEF Load
  <2>2. ASSUME NEW b \in Bots, Leave(b) PROVE BotsOK'
    BY <1>0, <1>1, <2>2 DEF Leave, Leaves, Call, BotsOK, registry
  <2>3. ASSUME NEW p \in Processes, NEW b \in Bots, Destroy(p, b) PROVE BotsOK'
    <3>1. b \notin member /\ destroying' \subseteq destroying
            /\ (life' = life \/ life' = [life EXCEPT ![b] = "gone"])
      BY <1>0, <2>3 DEF Destroy, BotsOK
    <3> QED
      BY <1>0, <2>3, <3>1 DEF Destroy, BotsOK
  <2> HIDE DEF BotsOK
  <2> QED
    BY <1>2, <1>3, <1>4, <1>5, <1>8, <2>1, <2>2, <2>3 DEF BotStep
<1> QED
  BY <1>7, <1>8 DEF Next

LEMMA NextRegistryOK == TypeInv /\ [Next]_vars => RegistryOK'
<1> SUFFICES ASSUME TypeInv, [Next]_vars PROVE RegistryOK'
  OBVIOUS
<1>0. BotsOK /\ RegistryOK
  BY DEF TypeInv
<1>1. ASSUME NEW p \in Processes, NEW e \in Events, NEW n \in Deliveries, Resolve(p, e, n)
      PROVE  RegistryOK'
  BY <1>0, <1>1 DEF Resolve, BotsOK, RegistryOK
<1>2. ASSUME NEW p \in Processes, NEW b \in Bots, CreateBot(p, b) PROVE RegistryOK'
  BY <1>0, <1>2 DEF CreateBot, RegistryOK
<1>3. ASSUME NEW p \in Processes, NEW b \in Bots, ActivateBot(p, b) PROVE RegistryOK'
  BY <1>0, <1>3 DEF ActivateBot, RegistryOK
<1>4. ASSUME NEW p \in Processes, NEW b \in Bots, Load(p, b) PROVE RegistryOK'
  BY <1>0, <1>4 DEF Load, RegistryOK
<1>5. ASSUME NEW p \in Processes, NEW b \in Bots, DeactivateBot(p, b) PROVE RegistryOK'
  BY <1>0, <1>5 DEF DeactivateBot, RegistryOK
<1>6. ASSUME NEW p \in Processes, Crash(p) PROVE RegistryOK'
  BY <1>0, <1>6 DEF Crash, Boots, RegistryOK, Stored
<1>7. CASE UNCHANGED <<known, listed, loading>>
  BY <1>0, <1>7 DEF RegistryOK
<1> QED
  BY <1>1, <1>2, <1>3, <1>4, <1>5, <1>6, <1>7
  DEF Next, vars, HandlerStep, EventStep, BotStep, ProcessStep, Deliver,
      ResolveFails, Commit, InsertFails, Publish, Ack, Join, Leave, Destroy, Disconnect, registry

\* A fault is counted, and a redelivery comes with one.
LEMMA FaultCounted == TypeInv /\ Fault => faults' \in Deliveries /\ faults' = faults + 1
BY BoundsAssumption DEF TypeInv, PlacesOK, Deliveries, Fault

LEMMA Requeued ==
  ASSUME TypeInv, NEW p \in Processes, Fault, Requeue(p)
  PROVE  /\ place' \in [Events -> Processes \cup {"unpublished", "queued", "acked"}]
         /\ redelivered' \in [Events -> Deliveries]
         /\ RedeliveredInv'
<1>1. faults' \in Deliveries /\ faults' = faults + 1 /\ PlacesOK /\ RedeliveredInv /\ MaxFaults \in Nat
  BY FaultCounted, BoundsAssumption DEF TypeInv
<1>2. ASSUME NEW e \in Events
      PROVE  redelivered'[e] \in Deliveries /\ redelivered'[e] =< faults'
  BY <1>1 DEF Requeue, PlacesOK, RedeliveredInv, Deliveries
<1> QED
  BY <1>1, <1>2 DEF Requeue, PlacesOK, RedeliveredInv

LEMMA NextPlacesOK == TypeInv /\ [Next]_vars => PlacesOK' /\ RedeliveredInv'
<1> SUFFICES ASSUME TypeInv, [Next]_vars PROVE PlacesOK' /\ RedeliveredInv'
  OBVIOUS
<1>0. PlacesOK /\ RedeliveredInv
  BY DEF TypeInv
<1>f. Fault => faults' \in Deliveries /\ \A e \in Events : redelivered[e] =< faults'
  BY <1>0, FaultCounted DEF PlacesOK, RedeliveredInv, Deliveries
<1>1. ASSUME NEW p \in Processes, NEW e \in Events, Deliver(p, e) PROVE PlacesOK' /\ RedeliveredInv'
  BY <1>0, <1>1 DEF Deliver, PlacesOK, RedeliveredInv
<1>2. ASSUME NEW p \in Processes, NEW e \in Events, NEW n \in Deliveries,
             Resolve(p, e, n) \/ ResolveFails(p, e, n)
      PROVE  PlacesOK' /\ RedeliveredInv'
  BY <1>0, <1>f, <1>2 DEF Resolve, ResolveFails, Returns, PlacesOK, RedeliveredInv
<1>3. ASSUME NEW p \in Processes, NEW e \in Events, NEW b \in Bots, InsertFails(p, e, b)
      PROVE  PlacesOK' /\ RedeliveredInv'
  BY <1>0, <1>f, <1>3 DEF InsertFails, PlacesOK, RedeliveredInv
<1>4. ASSUME NEW e \in Events, NEW k \in Published, Publish(e, k) PROVE PlacesOK' /\ RedeliveredInv'
  BY <1>0, <1>4, BoundsAssumption DEF Publish, PlacesOK, RedeliveredInv, memory
<1>5. ASSUME NEW e \in Events, Ack(e) PROVE PlacesOK' /\ RedeliveredInv'
  BY <1>0, <1>5 DEF Ack, PlacesOK, RedeliveredInv, memory, history
<1>6. ASSUME NEW p \in Processes, NEW b \in Bots,
             CreateBot(p, b) \/ Load(p, b) \/ DeactivateBot(p, b) \/ Destroy(p, b)
      PROVE  PlacesOK' /\ RedeliveredInv'
  BY <1>0, <1>f, <1>6 DEF CreateBot, Load, DeactivateBot, Destroy, PlacesOK, RedeliveredInv, memory, history
<1>7. ASSUME NEW p \in Processes, Crash(p) \/ Disconnect(p) PROVE PlacesOK' /\ RedeliveredInv'
  BY <1>0, <1>f, <1>7, Requeued DEF Crash, Disconnect, PlacesOK, memory
<1>8. CASE UNCHANGED <<event, place, dispatching, redelivered, faults>>
  BY <1>0, <1>8 DEF PlacesOK, RedeliveredInv
<1> QED
  BY <1>1, <1>2, <1>3, <1>4, <1>5, <1>6, <1>7, <1>8
  DEF Next, vars, HandlerStep, EventStep, BotStep, ProcessStep, Commit,
      Join, Leave, ActivateBot, memory, history

\* The INSERTs that an emission to bs starts in p, and no others.
Starts(p, e, bs) ==
  \A q \in Processes, f \in Events, b \in Bots :
    /\ q = p /\ f = e /\ b \in bs => storing'[<<q, f, b>>] = storing[<<q, f, b>>] + 1
    /\ ~(q = p /\ f = e /\ b \in bs) => storing'[<<q, f, b>>] = storing[<<q, f, b>>]

LEMMA Emitted ==
  ASSUME TypeInv, NEW p \in Processes, NEW e \in Events, NEW bs \in SUBSET Bots, EmitTo(p, e, bs)
  PROVE  /\ storing' \in [Processes \X Events \X Bots -> Nat]
         /\ excused' \subseteq Causes \X Events \X Bots
         /\ Starts(p, e, bs)
<1>1. RowsOK /\ HistoryOK
  BY DEF TypeInv
<1>2. \A d \in Processes \X Events \X Bots :
        storing[d] \in Nat /\ storing[d] + 1 \in Nat /\ storing[d] + 0 = storing[d]
  BY <1>1 DEF RowsOK
<1>3. storing' = [d \in Processes \X Events \X Bots |->
                    storing[d] + (IF d[1] = p /\ d[2] = e /\ d[3] \in bs THEN 1 ELSE 0)]
  BY DEF EmitTo
<1>4. storing' \in [Processes \X Events \X Bots -> Nat]
  BY <1>2, <1>3
<1>5. Starts(p, e, bs)
  BY <1>2, <1>3 DEF Starts
<1>6. excused' \subseteq Causes \X Events \X Bots
  BY <1>1 DEF EmitTo, HistoryOK, Causes
<1> QED
  BY <1>4, <1>5, <1>6

\* What dispatchToBot emits to when it does not ask.
Receivers(p, e) == IF Skipped(p, e) THEN {} ELSE listed[p]

LEMMA DeliverEmits ==
  ASSUME TypeInv, NEW p \in Processes, NEW e \in Events, Deliver(p, e), ~Asks(p, e)
  PROVE  /\ EmitTo(p, e, Receivers(p, e)) /\ dispatching' = dispatching
         /\ storing' \in [Processes \X Events \X Bots -> Nat]
         /\ excused' \subseteq Causes \X Events \X Bots
         /\ Starts(p, e, Receivers(p, e))
<1>1. EmitTo(p, e, Receivers(p, e)) /\ dispatching' = dispatching
  BY DEF Deliver, Receivers
<1>2. PICK bs \in SUBSET Bots : bs = Receivers(p, e)
  BY DEF Receivers, TypeInv, RegistryOK
<1>3. EmitTo(p, e, bs)
  BY <1>1, <1>2 DEF EmitTo
<1>4. Starts(p, e, bs) /\ excused' \subseteq Causes \X Events \X Bots
        /\ storing' \in [Processes \X Events \X Bots -> Nat]
  BY <1>3, Emitted
<1>5. Starts(p, e, Receivers(p, e))
  BY <1>2, <1>4 DEF Starts
<1> QED
  BY <1>1, <1>4, <1>5

LEMMA ResolveEmits ==
  ASSUME TypeInv, NEW p \in Processes, NEW e \in Events, NEW n \in Deliveries, Resolve(p, e, n)
  PROVE  /\ listed'[p] = listed[p] \cup (member \cap known[p])
         /\ EmitTo(p, e, listed'[p])
         /\ storing' \in [Processes \X Events \X Bots -> Nat]
         /\ excused' \subseteq Causes \X Events \X Bots
         /\ Starts(p, e, listed'[p])
<1>1. listed'[p] = listed[p] \cup (member \cap known[p]) /\ listed'[p] \in SUBSET Bots
  BY DEF Resolve, TypeInv, RegistryOK
<1>2. EmitTo(p, e, listed'[p])
  BY DEF Resolve
<1>3. PICK bs \in SUBSET Bots : bs = listed'[p]
  BY <1>1
<1>4. EmitTo(p, e, bs)
  BY <1>2, <1>3 DEF EmitTo
<1>5. Starts(p, e, bs) /\ excused' \subseteq Causes \X Events \X Bots
        /\ storing' \in [Processes \X Events \X Bots -> Nat]
  BY <1>4, Emitted
<1>6. Starts(p, e, listed'[p])
  BY <1>3, <1>5 DEF Starts
<1> QED
  BY <1>1, <1>2, <1>5, <1>6

LEMMA NextRowsOK == TypeInv /\ [Next]_vars => RowsOK'
<1> SUFFICES ASSUME TypeInv, [Next]_vars PROVE RowsOK'
  OBVIOUS
<1>0. RowsOK
  BY DEF TypeInv
<1>1. ASSUME NEW p \in Processes, NEW e \in Events, Deliver(p, e) PROVE RowsOK'
  BY <1>0, <1>1, DeliverEmits DEF Deliver, RowsOK
<1>2. ASSUME NEW p \in Processes, NEW e \in Events, NEW n \in Deliveries, Resolve(p, e, n)
      PROVE  RowsOK'
  <2>1. storing' \in [Processes \X Events \X Bots -> Nat]
    BY <1>2, ResolveEmits
  <2> QED
    BY <1>0, <1>2, <2>1 DEF Resolve, RowsOK
<1>3. ASSUME NEW p \in Processes, NEW e \in Events, NEW b \in Bots, Commit(p, e, b) PROVE RowsOK'
  BY <1>0, <1>3 DEF Commit, RowsOK
<1>4. ASSUME NEW p \in Processes, NEW e \in Events, NEW b \in Bots, InsertFails(p, e, b)
      PROVE  RowsOK'
  BY <1>0, <1>4 DEF InsertFails, RowsOK
<1>5. ASSUME NEW p \in Processes, NEW b \in Bots, Destroy(p, b) PROVE RowsOK'
  BY <1>0, <1>5 DEF Destroy, RowsOK, memory
<1>6. ASSUME NEW p \in Processes, Crash(p) PROVE RowsOK'
  BY <1>0, <1>6 DEF Crash, RowsOK
<1>7. CASE UNCHANGED <<storing, rows>>
  BY <1>0, <1>7 DEF RowsOK
<1> QED
  BY <1>1, <1>2, <1>3, <1>4, <1>5, <1>6, <1>7
  DEF Next, vars, HandlerStep, EventStep, BotStep, ProcessStep, ResolveFails,
      Publish, Ack, Join, Leave, CreateBot, ActivateBot, Load, DeactivateBot, Disconnect, memory

LEMMA NextHistoryOK == TypeInv /\ [Next]_vars => HistoryOK'
<1> SUFFICES ASSUME TypeInv, [Next]_vars PROVE HistoryOK'
  OBVIOUS
<1>0. HistoryOK /\ BotsOK
  BY DEF TypeInv
<1>1. ASSUME NEW p \in Processes, NEW e \in Events, Deliver(p, e) PROVE HistoryOK'
  BY <1>0, <1>1, DeliverEmits DEF Deliver, HistoryOK
<1>2. ASSUME NEW p \in Processes, NEW e \in Events, NEW n \in Deliveries, Resolve(p, e, n)
      PROVE  HistoryOK'
  <2>1. excused' \subseteq Causes \X Events \X Bots
    BY <1>2, ResolveEmits
  <2> QED
    BY <1>0, <1>2, <2>1 DEF Resolve, HistoryOK
<1>3. ASSUME NEW p \in Processes, NEW e \in Events, NEW n \in Deliveries, ResolveFails(p, e, n)
      PROVE  HistoryOK'
  BY <1>0, <1>3 DEF ResolveFails, HistoryOK, Causes
<1>4. ASSUME NEW p \in Processes, NEW e \in Events, NEW b \in Bots, InsertFails(p, e, b)
      PROVE  HistoryOK'
  BY <1>0, <1>4 DEF InsertFails, HistoryOK, Causes
<1>5. ASSUME NEW e \in Events, NEW k \in Published, Publish(e, k) PROVE HistoryOK'
  BY <1>0, <1>5 DEF Publish, For, HistoryOK, BotsOK
<1>6. ASSUME NEW p \in Processes, Crash(p) PROVE HistoryOK'
  BY <1>0, <1>6 DEF Crash, HistoryOK, Causes
<1>7. CASE UNCHANGED <<owed, excused>>
  BY <1>0, <1>7 DEF HistoryOK
<1> QED
  BY <1>1, <1>2, <1>3, <1>4, <1>5, <1>6, <1>7
  DEF Next, vars, HandlerStep, EventStep, BotStep, ProcessStep, Commit, Ack, Join,
      Leave, CreateBot, ActivateBot, Load, DeactivateBot, Destroy, Disconnect, history

LEMMA NextType == TypeInv /\ [Next]_vars => TypeInv'
BY NextBotsOK, NextRegistryOK, NextPlacesOK, NextRowsOK, NextHistoryOK DEF TypeInv

-----------------------------------------------------------------------------
(* The registries                                                          *)

\* A row is stored once, loses its chat user once and goes once, and who has
\* been in the topic stays known.
OneWay(b) ==
  /\ life[b] # "none" => life'[b] # "none"
  /\ b \in InService' => b \in InService \/ life[b] = "none"
  /\ b \in Stored' => b \in Stored \/ life[b] = "none"
  /\ b \in member \cup left => b \in member' \cup left'
  /\ b \in left => b \in left'

LEMMA LifeGoesOn == TypeInv /\ [Next]_vars => \A b \in Bots : OneWay(b)
<1> SUFFICES ASSUME TypeInv, [Next]_vars, NEW b \in Bots PROVE OneWay(b)
  OBVIOUS
<1>0. BotsOK
  BY DEF TypeInv
<1>1. ASSUME NEW a \in Bots, Join(a) \/ Leave(a) PROVE OneWay(b)
  BY <1>0, <1>1 DEF Join, Leave, Leaves, OneWay, BotsOK, InService, Stored
<1>2. ASSUME NEW p \in Processes, NEW a \in Bots, CreateBot(p, a) PROVE OneWay(b)
  BY <1>0, <1>2 DEF CreateBot, OneWay, BotsOK, InService, Stored
<1>3. ASSUME NEW p \in Processes, NEW a \in Bots, DeactivateBot(p, a) PROVE OneWay(b)
  BY <1>0, <1>3 DEF DeactivateBot, Leaves, OneWay, BotsOK, InService, Stored
<1>4. ASSUME NEW p \in Processes, NEW a \in Bots, Destroy(p, a) PROVE OneWay(b)
  BY <1>0, <1>4 DEF Destroy, OneWay, BotsOK, InService, Stored
<1>5. CASE UNCHANGED <<life, member, left>>
  BY <1>0, <1>5 DEF OneWay, BotsOK, InService, Stored
<1>6. CASE HandlerStep \/ EventStep \/ ProcessStep \/ UNCHANGED vars
  BY <1>5, <1>6, BotsStay DEF bots
<1>7. CASE BotStep
  <2>1. ASSUME NEW p \in Processes, NEW a \in Bots, Load(p, a) \/ ActivateBot(p, a) PROVE OneWay(b)
    BY <1>5, <2>1 DEF Load, ActivateBot, bots
  <2> QED
    BY <1>1, <1>2, <1>3, <1>4, <1>7, <2>1 DEF BotStep
<1> QED
  BY <1>6, <1>7 DEF Next

LEMMA NextKnown == TypeInv /\ ExistingInv /\ KnownInv /\ [Next]_vars => ExistingInv' /\ KnownInv'
<1> SUFFICES ASSUME TypeInv, ExistingInv, KnownInv, [Next]_vars PROVE ExistingInv' /\ KnownInv'
  OBVIOUS
<1>0. BotsOK /\ RegistryOK /\ \A b \in Bots : OneWay(b)
  BY LifeGoesOn DEF TypeInv
<1>1. ExistingInv'
  BY <1>0, BotsAssumption DEF ExistingInv, OneWay
<1>2. Existing \cap InService' \subseteq Existing \cap InService
  BY <1>0 DEF ExistingInv, OneWay, InService
<1>3. ASSUME NEW p \in Processes, NEW b \in Bots, CreateBot(p, b) \/ ActivateBot(p, b) PROVE KnownInv'
  BY <1>0, <1>2, <1>3 DEF CreateBot, ActivateBot, KnownInv, RegistryOK
<1>4. ASSUME NEW p \in Processes, NEW b \in Bots, DeactivateBot(p, b) PROVE KnownInv'
  <2>1. b \notin InService' /\ \A q \in Processes : known[q] \ {b} \subseteq known'[q]
    BY <1>0, <1>4 DEF DeactivateBot, RegistryOK, BotsOK, InService
  <2> QED
    BY <1>2, <2>1 DEF KnownInv
<1>5. ASSUME NEW p \in Processes, Crash(p) PROVE KnownInv'
  BY <1>0, <1>2, <1>5 DEF Crash, Boots, KnownInv, RegistryOK, InService, Stored
<1>6. CASE UNCHANGED known
  BY <1>1, <1>2, <1>6 DEF KnownInv
<1>7. CASE HandlerStep
  <2>1. UNCHANGED known
    BY <1>7, Zenon DEF HandlerStep, Deliver, Resolve, ResolveFails, Commit, InsertFails, registry
  <2> QED
    BY <1>1, <1>6, <2>1
<1>8. CASE EventStep \/ UNCHANGED vars
  <2>1. UNCHANGED known
    BY <1>8, Zenon DEF EventStep, Publish, Ack, registry, vars
  <2> QED
    BY <1>1, <1>6, <2>1
<1>9. CASE BotStep
  <2>1. ASSUME NEW p \in Processes, NEW b \in Bots, Load(p, b) PROVE KnownInv'
    BY <1>6, <2>1 DEF Load
  <2>2. ASSUME NEW b \in Bots, Join(b) \/ Leave(b) PROVE KnownInv'
    BY <1>6, <2>2 DEF Join, Leave, registry
  <2>3. ASSUME NEW p \in Processes, NEW b \in Bots, Destroy(p, b) PROVE KnownInv'
    BY <1>6, <2>3 DEF Destroy
  <2> QED
    BY <1>1, <1>3, <1>4, <1>9, <2>1, <2>2, <2>3 DEF BotStep
<1>10. CASE ProcessStep
  <2>1. ASSUME NEW p \in Processes, Disconnect(p) PROVE KnownInv'
    BY <1>6, <2>1 DEF Disconnect, registry
  <2> QED
    BY <1>1, <1>5, <1>10, <2>1 DEF ProcessStep
<1> QED
  BY <1>7, <1>8, <1>9, <1>10 DEF Next

LEMMA NextListed == TypeInv /\ ListedInv /\ [Next]_vars => ListedInv'
<1> SUFFICES ASSUME TypeInv, ListedInv, [Next]_vars PROVE ListedInv'
  OBVIOUS
<1>0. RegistryOK /\ \A b \in Bots : OneWay(b)
  BY LifeGoesOn DEF TypeInv
<1>1. ASSUME NEW p \in Processes, NEW b \in listed[p] PROVE b \in member' \cup left'
  BY <1>0 DEF RegistryOK, ListedInv, OneWay
<1>2. ASSUME NEW p \in Processes, NEW e \in Events, NEW n \in Deliveries, Resolve(p, e, n)
      PROVE  ListedInv'
  BY <1>0, <1>1, <1>2 DEF Resolve, bots, RegistryOK, ListedInv
<1>3. ASSUME NEW p \in Processes, NEW b \in Bots, Load(p, b) PROVE ListedInv'
  BY <1>0, <1>1, <1>3 DEF Load, bots, RegistryOK, ListedInv
<1>4. ASSUME NEW p \in Processes, NEW b \in Bots, DeactivateBot(p, b) PROVE ListedInv'
  BY <1>0, <1>1, <1>4 DEF DeactivateBot, RegistryOK, ListedInv
<1>5. ASSUME NEW p \in Processes, Crash(p) PROVE ListedInv'
  BY <1>0, <1>1, <1>5 DEF Crash, RegistryOK, ListedInv
<1>6. CASE UNCHANGED listed
  BY <1>1, <1>6 DEF ListedInv
<1>7. CASE HandlerStep
  <2>1. ASSUME NEW p \in Processes, NEW e \in Events, NEW b \in Bots,
               Commit(p, e, b) \/ InsertFails(p, e, b)
        PROVE  UNCHANGED listed
    BY <2>1, Zenon DEF Commit, InsertFails, registry
  <2>2. ASSUME NEW p \in Processes, NEW e \in Events, Deliver(p, e) PROVE UNCHANGED listed
    BY <2>2, Zenon DEF Deliver, registry
  <2>3. ASSUME NEW p \in Processes, NEW e \in Events, NEW n \in Deliveries, ResolveFails(p, e, n)
        PROVE  UNCHANGED listed
    BY <2>3, Zenon DEF ResolveFails, registry
  <2> QED
    BY <1>2, <1>6, <1>7, <2>1, <2>2, <2>3 DEF HandlerStep
<1>8. CASE EventStep \/ UNCHANGED vars
  <2>1. UNCHANGED listed
    BY <1>8, Zenon DEF EventStep, Publish, Ack, registry, vars
  <2> QED
    BY <1>6, <2>1
<1>9. CASE BotStep
  <2>1. ASSUME NEW b \in Bots, Join(b) \/ Leave(b) PROVE UNCHANGED listed
    BY <2>1 DEF Join, Leave, registry
  <2>2. ASSUME NEW p \in Processes, NEW b \in Bots,
               CreateBot(p, b) \/ ActivateBot(p, b) \/ Destroy(p, b)
        PROVE  UNCHANGED listed
    BY <2>2 DEF CreateBot, ActivateBot, Destroy
  <2> QED
    BY <1>3, <1>4, <1>6, <1>9, <2>1, <2>2 DEF BotStep
<1>10. CASE ProcessStep
  <2>1. ASSUME NEW p \in Processes, Disconnect(p) PROVE UNCHANGED listed
    BY <2>1 DEF Disconnect, registry
  <2> QED
    BY <1>5, <1>6, <1>10, <2>1 DEF ProcessStep
<1> QED
  BY <1>7, <1>8, <1>9, <1>10 DEF Next

-----------------------------------------------------------------------------
(* Events                                                                  *)

\* An event nothing is under way for stays so until it is delivered to a
\* process that does not skip it.
LEMMA StaysUntouched ==
  ASSUME TypeInv, [Next]_vars, NEW e \in Events, Untouched(e),
         \A p \in Processes : Deliver(p, e) => Skipped(p, e)
  PROVE  Untouched(e)'
<1>0. RowsOK /\ PlacesOK
  BY DEF TypeInv
<1>1. ASSUME NEW p \in Processes, NEW f \in Events, Deliver(p, f) PROVE Untouched(e)'
  <2>1. CASE f = e
    <3>1. ~Asks(p, e) /\ Receivers(p, e) = {}
      BY <1>1, <2>1 DEF Asks, Receivers
    <3>2. Starts(p, e, Receivers(p, e)) /\ dispatching' = dispatching
      BY <1>1, <2>1, <3>1, DeliverEmits
    <3> QED
      BY <1>1, <3>1, <3>2 DEF Deliver, Starts, Untouched
  <2>2. CASE f # e /\ Asks(p, f)
    BY <1>1, <2>2 DEF Deliver, Untouched
  <2>3. CASE f # e /\ ~Asks(p, f)
    <3>1. Starts(p, f, Receivers(p, f)) /\ dispatching' = dispatching
      BY <1>1, <2>3, DeliverEmits
    <3> QED
      BY <1>1, <2>3, <3>1 DEF Deliver, Starts, Untouched
  <2> QED
    BY <2>1, <2>2, <2>3
<1>2. ASSUME NEW p \in Processes, NEW f \in Events, NEW n \in Deliveries, Resolve(p, f, n)
      PROVE  Untouched(e)'
  <2>1. f # e
    BY <1>2 DEF Resolve, Returns, Untouched
  <2>2. Starts(p, f, listed'[p])
    BY <1>2, ResolveEmits
  <2> QED
    BY <1>2, <2>1, <2>2 DEF Resolve, Returns, Starts, Untouched
<1>3. ASSUME NEW p \in Processes, NEW f \in Events, NEW n \in Deliveries, ResolveFails(p, f, n)
      PROVE  Untouched(e)'
  BY <1>3 DEF ResolveFails, Returns, Untouched
<1>4. ASSUME NEW p \in Processes, NEW f \in Events, NEW b \in Bots, Commit(p, f, b)
      PROVE  Untouched(e)'
  <2>1. f # e
    BY <1>4 DEF Commit, Untouched
  <2> QED
    BY <1>0, <1>4, <2>1 DEF Commit, Untouched, RowsOK
<1>5. ASSUME NEW p \in Processes, NEW f \in Events, NEW b \in Bots, InsertFails(p, f, b)
      PROVE  Untouched(e)'
  <2>1. storing[<<p, f, b>>] > 0
    BY <1>5 DEF InsertFails
  <2>2. storing[<<p, e, b>>] = 0
    BY DEF Untouched
  <2>3. f # e
    BY <2>1, <2>2
  <2> QED
    BY <1>0, <1>5, <2>3 DEF InsertFails, Untouched, RowsOK
<1>6. ASSUME NEW p \in Processes, NEW b \in Bots, Destroy(p, b) PROVE Untouched(e)'
  BY <1>6 DEF Destroy, Untouched, memory
<1>7. ASSUME NEW p \in Processes, Crash(p) PROVE Untouched(e)'
  BY <1>7 DEF Crash, Untouched
<1>8. CASE UNCHANGED <<memory, rows>>
  BY <1>8 DEF Untouched, memory
<1> QED
  BY <1>1, <1>2, <1>3, <1>4, <1>5, <1>6, <1>7, <1>8
  DEF Next, vars, HandlerStep, EventStep, BotStep, ProcessStep, Publish, Ack, Join, Leave,
      CreateBot, ActivateBot, Load, DeactivateBot, Disconnect

\* An event is published once, and keeps its kind.
LEMMA PublishedOnce ==
  ASSUME TypeInv, [Next]_vars, NEW e \in Events
  PROVE  /\ place[e] # "unpublished" => place'[e] # "unpublished" /\ event'[e] = event[e]
         /\ \/ \E k \in Published : Publish(e, k)
            \/ /\ owed'[e] = owed[e]
               /\ place[e] = "unpublished" => place'[e] = "unpublished"
<1>0. PlacesOK /\ HistoryOK /\ "unpublished" \notin Processes
  BY BoundsAssumption DEF TypeInv
<1> DEFINE Goal ==
      /\ place[e] # "unpublished" => place'[e] # "unpublished" /\ event'[e] = event[e]
      /\ \/ \E k \in Published : Publish(e, k)
         \/ /\ owed'[e] = owed[e]
            /\ place[e] = "unpublished" => place'[e] = "unpublished"
<1>1. ASSUME NEW f \in Events, NEW k \in Published, Publish(f, k) PROVE Goal
  BY <1>0, <1>1 DEF Publish, PlacesOK, HistoryOK
<1>2. ASSUME NEW f \in Events, Ack(f) PROVE Goal
  BY <1>0, <1>2 DEF Ack, PlacesOK, history
<1>3. ASSUME NEW p \in Processes, NEW f \in Events, Deliver(p, f) PROVE Goal
  BY <1>0, <1>3 DEF Deliver, PlacesOK
<1>4. ASSUME NEW p \in Processes, Crash(p) \/ Disconnect(p) PROVE Goal
  <2>1. UNCHANGED <<event, owed>>
    BY <1>4 DEF Crash, Disconnect
  <2>2. place'[e] = IF place[e] = p THEN "queued" ELSE place[e]
    BY <1>4 DEF Crash, Disconnect, Requeue
  <2> QED
    BY <1>0, <2>1, <2>2
<1>5. ASSUME UNCHANGED <<event, place, owed>> PROVE Goal
  BY <1>5
<1> HIDE DEF Goal
<1>6. ASSUME HandlerStep PROVE Goal
  <2>1. PICK f \in Events, p \in Processes :
          \/ Deliver(p, f)
          \/ \E n \in Deliveries : Resolve(p, f, n) \/ ResolveFails(p, f, n)
          \/ \E b \in Bots : Commit(p, f, b) \/ InsertFails(p, f, b)
    BY <1>6 DEF HandlerStep
  <2>2. CASE \E n \in Deliveries : Resolve(p, f, n) \/ ResolveFails(p, f, n)
    BY <1>5, <2>2 DEF Resolve, ResolveFails
  <2>3. CASE \E b \in Bots : Commit(p, f, b) \/ InsertFails(p, f, b)
    BY <1>5, <2>3 DEF history, Commit, InsertFails
  <2> QED
    BY <1>3, <2>1, <2>2, <2>3
<1>7. ASSUME BotStep PROVE Goal
  BY <1>5, <1>7
  DEF BotStep, history, Join, Leave, CreateBot, ActivateBot, Load, DeactivateBot, Destroy
<1>8. Goal
  BY <1>1, <1>2, <1>4, <1>5, <1>6, <1>7 DEF Next, vars, history, EventStep, ProcessStep
<1> QED
  BY <1>8 DEF Goal

\* A run of dispatchToBot that asks is one that a delivery has started.
LEMMA AskedOnDelivery ==
  ASSUME TypeInv, [Next]_vars, NEW e \in Events, NEW p \in Processes, NEW n \in Deliveries,
         <<p, e, n>> \in dispatching', <<p, e, n>> \notin dispatching
  PROVE  Deliver(p, e) /\ Asks(p, e)
<1>1. ASSUME NEW q \in Processes, NEW f \in Events, Deliver(q, f)
      PROVE  Deliver(p, e) /\ Asks(p, e)
  <2>1. Asks(q, f) /\ dispatching' = dispatching \cup {<<q, f, redelivered[f]>>}
    BY <1>1 DEF Deliver
  <2>2. q = p /\ f = e
    BY <2>1
  <2> QED
    BY <1>1, <2>1, <2>2
<1>2. \A q \in Processes, f \in Events, m \in Deliveries :
        ~Resolve(q, f, m) /\ ~ResolveFails(q, f, m)
  BY DEF Resolve, ResolveFails, Returns
<1>3. \A q \in Processes : ~Crash(q)
  BY DEF Crash
<1>4. dispatching' # dispatching
  OBVIOUS
<1> QED
  BY <1>1, <1>2, <1>3, <1>4
  DEF Next, vars, HandlerStep, EventStep, BotStep, ProcessStep, Commit, InsertFails, Publish,
      Ack, Join, Leave, CreateBot, ActivateBot, Load, DeactivateBot, Destroy, Disconnect, memory

LEMMA NextPlaces == TypeInv /\ PlacesInv /\ [Next]_vars => PlacesInv'
<1> SUFFICES ASSUME TypeInv, PlacesInv, [Next]_vars, NEW e \in Events PROVE PlaceInv(e)'
  BY DEF PlacesInv
<1>0. PlaceInv(e) /\ BotsOK /\ HistoryOK /\ \A b \in Bots : OneWay(b)
  BY LifeGoesOn DEF PlacesInv, TypeInv
<1>1. CASE place[e] = "unpublished" /\ \E k \in Published : Publish(e, k)
  <2>1. PICK k \in Published : Publish(e, k)
    BY <1>1
  <2>2. place'[e] = "queued" /\ event'[e] = k /\ owed'[e] = For(k) /\ k \in Kind
    BY <2>1, BoundsAssumption DEF Publish, TypeInv, PlacesOK, HistoryOK
  <2>3. UNCHANGED bots /\ dispatching' = dispatching
    BY <2>1 DEF Publish, memory
  <2>4. owed'[e] \subseteq Stored' /\ owed'[e] \subseteq member' \cup left'
    BY <1>0, <2>2, <2>3 DEF For, BotsOK, Stored, bots
  <2>5. OfBot(e)' => owed'[e] = {}
    BY <2>2 DEF OfBot, For
  <2>6. \A p \in Processes, n \in Deliveries : <<p, e, n>> \notin dispatching'
    BY <1>0, <1>1, <2>3 DEF PlaceInv, Untouched
  <2> QED
    BY <2>2, <2>4, <2>5, <2>6 DEF PlaceInv, Stored
<1>2. CASE place[e] = "unpublished" /\ ~ \E k \in Published : Publish(e, k)
  <2>1. owed'[e] = {} /\ place'[e] = "unpublished"
    BY <1>0, <1>2, PublishedOnce DEF PlaceInv
  <2>2. \A p \in Processes : ~Deliver(p, e)
    BY <1>2 DEF Deliver
  <2>3. Untouched(e)'
    BY <1>0, <1>2, <2>2, StaysUntouched DEF PlaceInv
  <2> QED
    BY <2>1, <2>3 DEF PlaceInv, Untouched
<1>3. CASE place[e] # "unpublished"
  <2>1. \A k \in Published : ~Publish(e, k)
    BY <1>3 DEF Publish
  <2>2. place'[e] # "unpublished" /\ event'[e] = event[e] /\ owed'[e] = owed[e]
    BY <1>3, <2>1, PublishedOnce
  <2>3. owed[e] \subseteq Bots
    BY <1>0 DEF HistoryOK
  <2>4. owed'[e] \subseteq member' \cup left'
    BY <1>0, <2>2, <2>3 DEF PlaceInv, OneWay
  <2>5. \A b \in owed'[e] : life'[b] # "none"
    BY <1>0, <2>2, <2>3 DEF PlaceInv, OneWay
  <2>6. ASSUME NEW p \in Processes, NEW n \in Deliveries, <<p, e, n>> \in dispatching'
        PROVE  event'[e].kind # "delete"
    BY <1>0, <2>2, <2>6, AskedOnDelivery DEF PlaceInv, Asks
  <2> QED
    BY <1>0, <1>3, <2>2, <2>4, <2>5, <2>6 DEF PlaceInv, OfBot
<1> QED
  BY <1>1, <1>2, <1>3

LEMMA NextSkipped ==
  TypeInv /\ RegistryInv /\ PlacesInv /\ SkippedInv /\ [Next]_vars => SkippedInv'
<1> SUFFICES ASSUME TypeInv, RegistryInv, PlacesInv, SkippedInv, [Next]_vars, NEW e \in Events,
                    place'[e] # "unpublished", event'[e].kind # "delete",
                    event'[e].sender \in Existing \cap InService'
             PROVE  Untouched(e)'
  BY DEF SkippedInv
<1>0. PlaceInv(e) /\ \A b \in Bots : OneWay(b)
  BY LifeGoesOn DEF PlacesInv
<1>1. CASE place[e] = "unpublished"
  <2>1. \A p \in Processes : ~Deliver(p, e)
    BY <1>1 DEF Deliver
  <2> QED
    BY <1>0, <1>1, <2>1, StaysUntouched DEF PlaceInv
<1>2. CASE place[e] # "unpublished"
  <2>1. event'[e] = event[e]
    BY <1>2, PublishedOnce
  <2>2. event[e].sender \in Existing \cap InService
    BY <1>0, <2>1, BotsAssumption DEF RegistryInv, ExistingInv, OneWay
  <2>3. \A p \in Processes : Skipped(p, e)
    BY <2>1, <2>2 DEF RegistryInv, KnownInv, Skipped
  <2> QED
    BY <1>2, <2>1, <2>2, <2>3, StaysUntouched DEF SkippedInv
<1> QED
  BY <1>1, <1>2

-----------------------------------------------------------------------------
(* Updates that bots miss                                                  *)

\* What an emission for e to bs excuses.
LEMMA EmitExcuses ==
  ASSUME NEW p \in Processes, NEW e \in Events, NEW bs, EmitTo(p, e, bs)
  PROVE  /\ excused \subseteq excused'
         /\ \A b \in (owed[e] \cap Stored) \ bs : Excused(e, b)'
         /\ \A f \in Events, b \in Bots :
              /\ <<"unknown", f, b>> \in excused' \ excused => b \in Stored \ known[p]
              /\ <<"unlisted", f, b>> \in excused' \ excused =>
                   f = e /\ b \in (owed[e] \cap Stored \cap known[p]) \ bs
<1>1. excused' = excused \cup
        {<<IF b \in known[p] THEN "unlisted" ELSE "unknown", e, b>> :
           b \in (owed[e] \cap Stored) \ bs}
  BY DEF EmitTo
<1>2. excused \subseteq excused'
  BY <1>1
<1>3. ASSUME NEW b \in (owed[e] \cap Stored) \ bs PROVE Excused(e, b)'
  <2>1. <<"unlisted", e, b>> \in excused' \/ <<"unknown", e, b>> \in excused'
    BY <1>1
  <2> QED
    BY <2>1 DEF Excused, Causes
<1>4. ASSUME NEW f \in Events, NEW b \in Bots, <<"unknown", f, b>> \in excused' \ excused
      PROVE  b \in Stored \ known[p]
  <2>1. PICK c \in (owed[e] \cap Stored) \ bs :
          <<"unknown", f, b>> = <<IF c \in known[p] THEN "unlisted" ELSE "unknown", e, c>>
    BY <1>1, <1>4
  <2> QED
    BY <2>1
<1>5. ASSUME NEW f \in Events, NEW b \in Bots, <<"unlisted", f, b>> \in excused' \ excused
      PROVE  f = e /\ b \in (owed[e] \cap Stored \cap known[p]) \ bs
  <2>1. PICK c \in (owed[e] \cap Stored) \ bs :
          <<"unlisted", f, b>> = <<IF c \in known[p] THEN "unlisted" ELSE "unknown", e, c>>
    BY <1>1, <1>5
  <2> QED
    BY <2>1
<1> QED
  BY <1>2, <1>3, <1>4, <1>5

\* An emission of p for e that leaves b out.
LeavesOut(p, e, b) ==
  /\ b \in owed[e] \cap Stored \cap known[p]
  /\ \/ Deliver(p, e) /\ ~Asks(p, e) /\ b \notin Receivers(p, e)
     \/ \E n \in Deliveries : Resolve(p, e, n) /\ b \notin listed'[p]

\* Which steps find a bot not known, or not listed.
LEMMA NextExcuses ==
  ASSUME TypeInv, [Next]_vars
  PROVE  /\ excused \subseteq excused'
         /\ \A e \in Events, b \in Bots :
              /\ <<"unknown", e, b>> \in excused' \ excused =>
                   \E p \in Processes : b \in Stored \ known[p]
              /\ <<"unlisted", e, b>> \in excused' \ excused =>
                   \E p \in Processes : LeavesOut(p, e, b)
<1> DEFINE Goal ==
      /\ excused \subseteq excused'
      /\ \A e \in Events, b \in Bots :
           /\ <<"unknown", e, b>> \in excused' \ excused =>
                \E p \in Processes : b \in Stored \ known[p]
           /\ <<"unlisted", e, b>> \in excused' \ excused =>
                \E p \in Processes : LeavesOut(p, e, b)
<1>1. ASSUME NEW p \in Processes, NEW f \in Events, Deliver(p, f) PROVE Goal
  <2>1. ASSUME ~Asks(p, f) PROVE Goal
    <3>1. EmitTo(p, f, Receivers(p, f))
      BY <1>1, <2>1, DeliverEmits
    <3> QED
      BY <1>1, <2>1, <3>1, EmitExcuses DEF LeavesOut
  <2>2. ASSUME Asks(p, f) PROVE Goal
    BY <1>1, <2>2 DEF Deliver
  <2> QED
    BY <2>1, <2>2
<1>2. ASSUME NEW p \in Processes, NEW f \in Events, NEW n \in Deliveries, Resolve(p, f, n) PROVE Goal
  <2>1. EmitTo(p, f, listed'[p])
    BY <1>2, ResolveEmits
  <2> QED
    BY <1>2, <2>1, EmitExcuses DEF LeavesOut
<1>3. ASSUME NEW p \in Processes, NEW f \in Events, NEW n \in Deliveries, ResolveFails(p, f, n)
      PROVE  Goal
  BY <1>3 DEF ResolveFails
<1>4. ASSUME NEW p \in Processes, NEW f \in Events, NEW a \in Bots, InsertFails(p, f, a) PROVE Goal
  BY <1>4 DEF InsertFails
<1>5. ASSUME NEW p \in Processes, Crash(p) PROVE Goal
  BY <1>5 DEF Crash
<1>6. ASSUME excused' = excused PROVE Goal
  BY <1>6
<1> HIDE DEF Goal
<1>7. ASSUME HandlerStep PROVE Goal
  BY <1>1, <1>2, <1>3, <1>4, <1>6, <1>7 DEF HandlerStep, Commit, history
<1>8. ASSUME BotStep PROVE Goal
  BY <1>6, <1>8
  DEF BotStep, history, Join, Leave, CreateBot, ActivateBot, Load, DeactivateBot, Destroy
<1>9. Goal
  BY <1>5, <1>6, <1>7, <1>8
  DEF Next, vars, history, EventStep, ProcessStep, Publish, Ack, Disconnect
<1> QED
  BY <1>9 DEF Goal

LEMMA NextMissed ==
  TypeInv /\ RegistryInv /\ PlacesInv /\ MissedInv /\ [Next]_vars => MissedInv'
<1> SUFFICES ASSUME TypeInv, RegistryInv, PlacesInv, MissedInv, [Next]_vars PROVE MissedInv'
  OBVIOUS
<1>0. (\A b \in Bots : OneWay(b)) /\ BotsOK /\ HistoryOK
  BY LifeGoesOn DEF TypeInv
<1>1. ASSUME NEW e \in Events, NEW b \in InService', <<"unknown", e, b>> \in excused'
      PROVE  b \notin Existing
  <2>1. b \in Existing => b \in InService /\ \A p \in Processes : b \in known[p]
    BY <1>0, BotsAssumption DEF RegistryInv, ExistingInv, KnownInv, OneWay
  <2>2. b \in Bots
    BY DEF InService
  <2> QED
    BY <1>1, <2>1, <2>2, NextExcuses DEF MissedInv, MissedForCause
<1>2. ASSUME NEW e \in Events, NEW b \in Bots, NEW p \in Processes, LeavesOut(p, e, b)
      PROVE  place[e] # "unpublished" /\ (event[e].kind # "delete" => NotAlone(b))
  <2>1. b \in owed[e] /\ b \in known[p] /\ known[p] \subseteq Bots
          /\ b \in member \cup left /\ place[e] # "unpublished"
    BY <1>2 DEF LeavesOut, PlacesInv, PlaceInv, TypeInv, RegistryOK
  <2>2. ASSUME event[e].kind # "delete", b \notin left PROVE NotAlone(b)
    <3>1. event[e].sender = Nobody
      BY <2>1, <2>2 DEF PlacesInv, PlaceInv, OfBot
    <3>2. ~Skipped(p, e)
      BY <2>1, <3>1, BotsAssumption DEF Skipped
    <3>3. \A n \in Deliveries : Resolve(p, e, n) => b \in listed'[p]
      BY <2>1, <2>2, ResolveEmits
    <3>4. ~Asks(p, e) /\ b \notin listed[p]
      BY <1>2, <3>2, <3>3 DEF LeavesOut, Receivers
    <3>5. listed[p] # {}
      BY <2>1, <2>2, <3>2, <3>4 DEF Asks
    <3>6. PICK c \in listed[p] : c # b
      BY <3>4, <3>5
    <3> QED
      BY <3>6 DEF NotAlone, RegistryInv, ListedInv, TypeInv, RegistryOK
  <2> QED
    BY <2>1, <2>2 DEF NotAlone
<1>3. ASSUME NEW e \in Events, NEW b \in Bots, <<"unlisted", e, b>> \in excused'
      PROVE  place[e] # "unpublished" /\ (event[e].kind # "delete" => NotAlone(b))
  <2>1. CASE <<"unlisted", e, b>> \in excused
    BY <2>1 DEF MissedInv, UnlistedInv
  <2>2. CASE <<"unlisted", e, b>> \notin excused
    BY <1>2, <1>3, <2>2, NextExcuses
  <2> QED
    BY <2>1, <2>2
<1>4. ASSUME NEW b \in Bots, NotAlone(b) PROVE NotAlone(b)'
  <2>1. CASE \E c \in Bots \ {b} : c \in member \cup left
    BY <1>0, <2>1 DEF OneWay, NotAlone
  <2>2. CASE b \in left
    BY <1>0, <2>2 DEF OneWay, NotAlone
  <2> QED
    BY <1>4, <2>1, <2>2 DEF NotAlone
<1>5. UnlistedInv'
  BY <1>3, <1>4, PublishedOnce DEF UnlistedInv
<1>6. MissedForCause'
  BY <1>1, <1>5 DEF MissedForCause, UnlistedInv, NotAlone, InService
<1> QED
  BY <1>5, <1>6 DEF MissedInv

-----------------------------------------------------------------------------
(* Updates that are lost                                                   *)

\* What is settled stays settled as long as the bot is stored.
LEMMA SettledStays ==
  ASSUME TypeInv, [Next]_vars, NEW e \in Events, NEW b \in Stored', Settled(e, b)
  PROVE  Settled(e, b)'
<1>0. RowsOK /\ b \in Bots /\ excused \subseteq excused'
  BY NextExcuses DEF TypeInv, Stored
<1>1. Excused(e, b) => Excused(e, b)'
  BY <1>0 DEF Excused
<1>2. ASSUME rows[<<e, b>>] > 0 PROVE rows'[<<e, b>>] > 0
  <2>1. ASSUME NEW p \in Processes, NEW f \in Events, NEW c \in Bots, Commit(p, f, c)
        PROVE  rows'[<<e, b>>] > 0
    BY <1>0, <1>2, <2>1 DEF Commit, RowsOK
  <2>2. ASSUME NEW p \in Processes, NEW c \in Bots, Destroy(p, c) PROVE rows'[<<e, b>>] > 0
    <3>1. CASE life' = [life EXCEPT ![c] = "gone"]
      <4>1. c # b
        BY <3>1 DEF Stored, TypeInv, BotsOK
      <4> QED
        BY <1>0, <1>2, <2>2, <4>1 DEF Destroy
    <3>2. CASE rows' = rows
      BY <1>2, <3>2
    <3> QED
      BY <2>2, <3>1, <3>2 DEF Destroy
  <2>3. ASSUME rows' = rows PROVE rows'[<<e, b>>] > 0
    BY <1>2, <2>3
  <2>4. ASSUME HandlerStep PROVE rows'[<<e, b>>] > 0
    BY <2>1, <2>3, <2>4 DEF HandlerStep, Deliver, Resolve, ResolveFails, InsertFails
  <2>5. ASSUME BotStep PROVE rows'[<<e, b>>] > 0
    BY <2>2, <2>3, <2>5 DEF BotStep, Join, Leave, CreateBot, ActivateBot, Load, DeactivateBot
  <2> QED
    BY <2>3, <2>4, <2>5 DEF Next, vars, EventStep, ProcessStep, Publish, Ack, Crash, Disconnect
<1> QED
  BY <1>1, <1>2 DEF Settled

LEMMA NextLosts == TypeInv /\ PlacesInv /\ LostsInv /\ [Next]_vars => LostsInv'
<1> SUFFICES ASSUME TypeInv, PlacesInv, LostsInv, [Next]_vars,
                    NEW e \in Events, NEW b \in owed'[e] \cap Stored'
             PROVE  LostInv(e, b)'
  BY DEF LostsInv
<1>0. /\ PlaceInv(e) /\ OneWay(b) /\ b \in Bots
      /\ RowsOK /\ PlacesOK /\ BotsOK /\ HistoryOK
  <2>1. b \in Bots
    BY DEF Stored
  <2> QED
    BY <2>1, LifeGoesOn DEF PlacesInv, TypeInv
<1>p. ASSUME NEW k \in Published, Publish(e, k) PROVE LostInv(e, b)'
  <2>1. place'[e] = "queued"
    BY <1>0, <1>p DEF Publish, PlacesOK
  <2> QED
    BY <2>1, BoundsAssumption DEF LostInv
<1> SUFFICES ASSUME \A k \in Published : ~Publish(e, k) PROVE LostInv(e, b)'
  BY <1>p
<1>o. owed'[e] = owed[e] /\ b \in owed[e] \cap Stored
  BY <1>0, PublishedOnce DEF PlaceInv, OneWay, Stored
<1>i. LostInv(e, b) /\ (Settled(e, b) => Settled(e, b)') /\ event'[e] = event[e]
  <2>1. place[e] # "unpublished"
    BY <1>0, <1>o DEF PlaceInv
  <2> QED
    BY <1>o, <2>1, SettledStays, PublishedOnce DEF LostsInv
\* A step that takes nothing of this event away.
<1> DEFINE Keeps ==
      /\ place'[e] = place[e] /\ redelivered'[e] = redelivered[e]
      /\ \A p \in Processes : Emitting(p, e, b) => Emitting(p, e, b)'
      /\ \A p \in Processes, n \in Deliveries :
           <<p, e, n>> \in dispatching => <<p, e, n>> \in dispatching'
<1>k. ASSUME Keeps PROVE LostInv(e, b)'
  <2>1. redelivered[e] \in Deliveries
    BY <1>0 DEF PlacesOK
  <2> QED
    BY <1>i, <1>k, <2>1 DEF LostInv, Asking
<1>s. ASSUME Settled(e, b)' PROVE LostInv(e, b)'
  BY <1>s DEF LostInv
<1>1. ASSUME NEW p \in Processes, NEW f \in Events, Deliver(p, f) PROVE LostInv(e, b)'
  <2>1. CASE f = e /\ Asks(p, f)
    BY <1>0, <1>1, <2>1, BoundsAssumption DEF Deliver, LostInv, PlacesOK
  <2>2. CASE f = e /\ ~Asks(p, f)
    <3>1. /\ Starts(p, e, Receivers(p, e)) /\ EmitTo(p, e, Receivers(p, e))
          /\ storing[<<p, e, b>>] \in Nat
      BY <1>0, <1>1, <2>2, DeliverEmits DEF RowsOK
    <3>2. CASE b \in Receivers(p, e)
      <4>1. Emitting(p, e, b)'
        BY <1>0, <3>1, <3>2 DEF Starts, Emitting
      <4>2. place'[e] = p
        BY <1>0, <1>1, <2>2 DEF Deliver, PlacesOK
      <4> QED
        BY <4>1, <4>2, BoundsAssumption DEF LostInv
    <3>3. CASE b \notin Receivers(p, e)
      <4>1. Excused(e, b)'
        BY <1>o, <3>1, <3>3, EmitExcuses
      <4> QED
        BY <1>s, <4>1 DEF Settled
    <3> QED
      BY <3>2, <3>3
  <2>3. CASE f # e
    <3>1. \A q \in Processes : storing'[<<q, e, b>>] = storing[<<q, e, b>>]
      <4>1. CASE Asks(p, f)
        BY <1>1, <4>1 DEF Deliver
      <4>2. CASE ~Asks(p, f)
        BY <1>0, <1>1, <2>3, <4>2, DeliverEmits DEF Starts
      <4> QED
        BY <4>1, <4>2
    <3>2. Keeps
      BY <1>0, <1>1, <2>3, <3>1 DEF Deliver, PlacesOK, Emitting
    <3> QED
      BY <1>k, <3>2
  <2> QED
    BY <2>1, <2>2, <2>3
<1>2. ASSUME NEW p \in Processes, NEW f \in Events, NEW n \in Deliveries, Resolve(p, f, n)
      PROVE  LostInv(e, b)'
  <2>1. Starts(p, f, listed'[p]) /\ EmitTo(p, f, listed'[p])
    BY <1>2, ResolveEmits
  <2>2. /\ place'[e] = place[e] /\ redelivered'[e] = redelivered[e]
        /\ \A q \in Processes, m \in Deliveries :
             <<q, e, m>> \in dispatching => <<q, e, m>> \in dispatching' \/ (q = p /\ f = e)
    BY <1>2 DEF Resolve, Returns
  <2>3. ASSUME NEW q \in Processes, Emitting(q, e, b) PROVE Emitting(q, e, b)'
    <3>1. storing[<<q, e, b>>] \in Nat
      BY <1>0 DEF RowsOK
    <3> QED
      BY <1>0, <2>1, <2>3, <3>1 DEF Starts, Emitting
  <2>4. CASE f # e
    BY <1>k, <2>2, <2>3, <2>4
  <2>5. CASE f = e /\ b \in listed'[p]
    <3>1. Emitting(p, e, b)'
      <4>1. storing[<<p, e, b>>] \in Nat
        BY <1>0 DEF RowsOK
      <4> QED
        BY <1>0, <2>1, <2>5, <4>1 DEF Starts, Emitting
    <3>2. redelivered[e] \in Deliveries
      BY <1>0 DEF PlacesOK
    <3> QED
      BY <1>i, <2>2, <2>3, <3>1, <3>2 DEF LostInv
  <2>6. CASE f = e /\ b \notin listed'[p]
    <3>1. Excused(e, b)'
      BY <1>o, <2>1, <2>6, EmitExcuses
    <3> QED
      BY <1>s, <3>1 DEF Settled
  <2> QED
    BY <2>4, <2>5, <2>6
<1>3. ASSUME NEW p \in Processes, NEW f \in Events, NEW n \in Deliveries, ResolveFails(p, f, n)
      PROVE  LostInv(e, b)'
  <2>1. CASE f = e
    <3>1. <<"resolve", e, b>> \in excused'
      BY <1>3, <1>o, <2>1 DEF ResolveFails
    <3> QED
      BY <1>s, <3>1 DEF Settled, Excused, Causes
  <2>2. CASE f # e
    <3>1. Keeps
      BY <1>3, <2>2 DEF ResolveFails, Returns, Emitting
    <3> QED
      BY <1>k, <3>1
  <2> QED
    BY <2>1, <2>2
<1>4. ASSUME NEW p \in Processes, NEW f \in Events, NEW c \in Bots, Commit(p, f, c)
      PROVE  LostInv(e, b)'
  <2>1. CASE f = e /\ c = b
    <3>1. rows'[<<e, b>>] > 0
      BY <1>0, <1>4, <2>1 DEF Commit, RowsOK
    <3> QED
      BY <1>s, <3>1 DEF Settled
  <2>2. CASE ~(f = e /\ c = b)
    <3>1. Keeps
      BY <1>0, <1>4, <2>2 DEF Commit, RowsOK, Emitting, history
    <3> QED
      BY <1>k, <3>1
  <2> QED
    BY <2>1, <2>2
<1>5. ASSUME NEW p \in Processes, NEW f \in Events, NEW c \in Bots, InsertFails(p, f, c)
      PROVE  LostInv(e, b)'
  <2>1. CASE f = e /\ c = b
    <3>1. <<"insert", e, b>> \in excused'
      BY <1>5, <2>1 DEF InsertFails
    <3> QED
      BY <1>s, <3>1 DEF Settled, Excused, Causes
  <2>2. CASE ~(f = e /\ c = b)
    <3>1. Keeps
      BY <1>0, <1>5, <2>2 DEF InsertFails, RowsOK, Emitting
    <3> QED
      BY <1>k, <3>1
  <2> QED
    BY <2>1, <2>2
<1>6. ASSUME NEW f \in Events, Ack(f) PROVE LostInv(e, b)'
  <2>0. UNCHANGED <<dispatching, storing, event, redelivered>>
    BY <1>6 DEF Ack, memory, history
  <2>1. CASE f # e
    <3>1. Keeps
      BY <1>0, <1>6, <2>0, <2>1 DEF Ack, PlacesOK, Emitting
    <3> QED
      BY <1>k, <3>1
  <2>2. CASE f = e
    <3>1. PICK p \in Processes : place[e] = p
      BY <1>6, <2>2 DEF Ack
    <3>2. redelivered[e] \in Deliveries /\ place'[e] = "acked" /\ "acked" \notin Processes
      BY <1>0, <1>6, <2>2, BoundsAssumption DEF Ack, PlacesOK
    <3>3. <<p, e, redelivered[e]>> \in dispatching \/ Emitting(p, e, b) \/ Settled(e, b)
      BY <1>i, <3>1 DEF LostInv
    <3>4. CASE Settled(e, b)
      BY <1>i, <1>s, <3>4
    <3>5. CASE Emitting(p, e, b)
      BY <2>0, <3>2, <3>5 DEF LostInv, Emitting
    <3>6. CASE <<p, e, redelivered[e]>> \in dispatching
      <4>1. place[e] # "unpublished" /\ event[e].kind # "new"
        BY <1>6, <2>2, <3>1, <3>6, BoundsAssumption DEF Ack
      <4>2. event[e].kind = "edit"
        BY <1>0, <3>2, <3>6, <4>1 DEF PlaceInv, Kind
      <4> QED
        BY <2>0, <3>2, <3>6, <4>2 DEF LostInv, Asking
    <3> QED
      BY <3>3, <3>4, <3>5, <3>6
  <2> QED
    BY <2>1, <2>2
<1>7. ASSUME NEW p \in Processes, Crash(p) \/ Disconnect(p) PROVE LostInv(e, b)'
  <2>1. /\ place'[e] = IF place[e] = p THEN "queued" ELSE place[e]
        /\ place[e] # p => redelivered'[e] = redelivered[e]
    <3>1. redelivered[e] + 0 = redelivered[e]
      BY <1>0 DEF PlacesOK, Deliveries
    <3> QED
      BY <1>7, <3>1 DEF Crash, Disconnect, Requeue
  <2>2. CASE place[e] = p
    BY <2>1, <2>2, BoundsAssumption DEF LostInv
  <2>3. CASE place[e] # p /\ Disconnect(p)
    <3>1. Keeps
      BY <2>1, <2>3 DEF Disconnect, memory, Emitting
    <3> QED
      BY <1>k, <3>1
  <2>4. CASE place[e] # p /\ Crash(p)
    <3>1. /\ place'[e] = place[e] /\ redelivered'[e] = redelivered[e]
          /\ \A q \in Processes : Emitting(q, e, b) => Emitting(q, e, b)' \/ q = p
          /\ \A q \in Processes, n \in Deliveries :
               <<q, e, n>> \in dispatching => <<q, e, n>> \in dispatching' \/ q = p
      BY <1>0, <2>1, <2>4 DEF Crash, Emitting
    <3>2. CASE Loses(p, e, b)
      <4>1. <<"crash", e, b>> \in excused'
        BY <1>0, <2>4, <3>2 DEF Crash
      <4> QED
        BY <1>s, <4>1 DEF Settled, Excused, Causes
    <3>3. CASE ~Loses(p, e, b)
      <4>1. redelivered[e] \in Deliveries
        BY <1>0 DEF PlacesOK
      <4>2. ASSUME NEW q \in Processes, place'[e] = q
            PROVE  <<q, e, redelivered'[e]>> \in dispatching' \/ Emitting(q, e, b)' \/ Settled(e, b)'
        BY <1>i, <2>4, <3>1, <4>1, <4>2 DEF LostInv
      <4>3. ASSUME place'[e] = "acked"
            PROVE  \/ \E q \in Processes : Emitting(q, e, b)'
                   \/ Settled(e, b)'
                   \/ event'[e].kind = "edit" /\ Asking(e)'
        <5>1. CASE Settled(e, b)
          BY <1>i, <5>1
        <5>2. ASSUME NEW q \in Processes, Emitting(q, e, b) PROVE Emitting(q, e, b)'
          BY <3>1, <3>3, <4>3, <5>2 DEF Loses, Emitting
        <5>3. ASSUME event[e].kind = "edit", Asking(e) PROVE Asking(e)'
          BY <1>o, <3>1, <3>3, <4>3, <5>3 DEF Loses, Asking
        <5> QED
          BY <1>i, <3>1, <4>3, <5>1, <5>2, <5>3 DEF LostInv
      <4> QED
        BY <4>2, <4>3 DEF LostInv
    <3> QED
      BY <3>2, <3>3
  <2> QED
    BY <1>7, <2>2, <2>3, <2>4
<1>8. ASSUME UNCHANGED <<place, redelivered, dispatching, storing>> PROVE LostInv(e, b)'
  <2>1. Keeps
    BY <1>8 DEF Emitting
  <2> QED
    BY <1>k, <2>1
<1> HIDE DEF Keeps
<1>9. ASSUME NEW f \in Events, NEW k \in Published, Publish(f, k) PROVE LostInv(e, b)'
  <2>1. f # e
    BY <1>9
  <2>2. Keeps
    BY <1>0, <1>9, <2>1 DEF Publish, PlacesOK, memory, Emitting, Keeps
  <2> QED
    BY <1>k, <2>2
<1>10. ASSUME HandlerStep PROVE LostInv(e, b)'
  BY <1>1, <1>2, <1>3, <1>4, <1>5, <1>10 DEF HandlerStep
<1>11. ASSUME BotStep PROVE LostInv(e, b)'
  BY <1>8, <1>11
  DEF BotStep, Join, Leave, CreateBot, ActivateBot, Load, DeactivateBot, Destroy, memory, history
<1> QED
  BY <1>6, <1>7, <1>8, <1>9, <1>10, <1>11 DEF Next, vars, memory, history, EventStep, ProcessStep

-----------------------------------------------------------------------------
LEMMA InitIInv == Init => IInv
<1> SUFFICES ASSUME Init PROVE IInv
  OBVIOUS
<1>1. BotsOK /\ RegistryOK /\ RowsOK /\ HistoryOK
  BY BotsAssumption, BoundsAssumption DEF Init, BotsOK, RegistryOK, RowsOK, HistoryOK
<1>2. PlacesOK /\ RedeliveredInv
  BY BoundsAssumption DEF Init, PlacesOK, RedeliveredInv, Deliveries
<1>3. RegistryInv
  BY BotsAssumption DEF Init, RegistryInv, ExistingInv, KnownInv, ListedInv
<1>4. \A e \in Events : Untouched(e) /\ place[e] = "unpublished" /\ owed[e] = {}
  BY DEF Init, Untouched
<1>5. PlacesInv /\ SkippedInv
  BY <1>4 DEF Init, PlacesInv, PlaceInv, SkippedInv
<1>6. MissedInv
  BY DEF Init, MissedInv, UnlistedInv, MissedForCause
<1>7. LostsInv
  BY <1>4 DEF LostsInv
<1> QED
  BY <1>1, <1>2, <1>3, <1>5, <1>6, <1>7 DEF IInv, TypeInv

LEMMA Invariance == Spec => []IInv
<1>1. IInv /\ [Next]_vars => IInv'
  BY NextType, NextKnown, NextListed, NextPlaces, NextSkipped, NextMissed, NextLosts
  DEF IInv, RegistryInv
<1> QED
  BY InitIInv, <1>1, PTL DEF Spec

\* The type invariant, for any number of replicas, bots, events and faults.
THEOREM TypeCorrect == Spec => []TypeOK
<1>1. IInv => TypeOK
  BY TypeParts DEF IInv, TypeInv
<1> QED
  BY Invariance, <1>1, PTL

\* A bot whose row is there misses an event only by a dispatch that did not
\* know or not list it, a lazy resolution or an INSERT that failed, or a
\* crash after the acknowledgement.
THEOREM LossesHaveCauses == Spec => []LostForCause
<1>1. IInv => LostForCause
  <2> SUFFICES ASSUME IInv, NEW e \in Events, NEW b \in owed[e] \cap Stored, rows[<<e, b>>] = 0
               PROVE  Underway(e, b) \/ Excused(e, b)
    BY DEF LostForCause
  <2>1. LostInv(e, b)
    BY DEF IInv, LostsInv
  <2>2. ~(rows[<<e, b>>] > 0)
    OBVIOUS
  <2>3. CASE place[e] # "acked"
    BY <2>3 DEF Underway
  <2>4. CASE place[e] = "acked" /\ Settled(e, b)
    BY <2>2, <2>4 DEF Settled
  <2>5. CASE place[e] = "acked" /\ \E p \in Processes : Emitting(p, e, b)
    BY <2>5 DEF Underway, Emitting
  <2>6. CASE place[e] = "acked" /\ Asking(e)
    <3>1. PICK p \in Processes, n \in Deliveries : <<p, e, n>> \in dispatching
      BY <2>6 DEF Asking
    <3> QED
      BY <3>1 DEF Underway
  <2> QED
    BY <2>1, <2>3, <2>4, <2>5, <2>6 DEF LostInv
<1> QED
  BY Invariance, <1>1, PTL

\* As long as a bot has its chat user, a replica does not know it only when it
\* was created after the replicas started, and a message finds it not listed in
\* its topic only when it has left the topic or another bot has been there.
THEOREM MissesHaveCauses == Spec => []MissedForCause
<1>1. IInv => MissedForCause
  BY DEF IInv, MissedInv
<1> QED
  BY Invariance, <1>1, PTL

\* As long as a bot has its chat user, and was stored when the replicas started,
\* no replica has stored for any bot, or is storing, a message that it sent.
THEOREM BotMessagesAreSkipped == Spec => []BotMessagesSkipped
<1>1. IInv => BotMessagesSkipped
  BY DEF IInv, SkippedInv, BotMessagesSkipped, Untouched
<1> QED
  BY Invariance, <1>1, PTL

-----------------------------------------------------------------------------
(***************************************************************************)
(* Rows are counted by deliveries. Of the emission to b that a delivery of *)
(* e led to, `at' says where it is: an INSERT under way in a process, a    *)
(* row, or nothing, as none was made or it came to nothing. At most one of *)
(* these comes of each delivery there has been.                            *)
(***************************************************************************)
Inserted == "acked"
Unsent == "unpublished"
Whereabouts == Processes \cup {Inserted, Unsent}

\* The deliveries of e that have reached a handler.
Delivered(e) ==
  IF place[e] \in {"unpublished", "queued"} THEN 0..redelivered[e] - 1 ELSE 0..redelivered[e]

Counted(at, e, b) ==
  /\ at \in [Deliveries -> Whereabouts]
  /\ \A p \in Processes : storing[<<p, e, b>>] = Cardinality({n \in Deliveries : at[n] = p})
  /\ rows[<<e, b>>] = Cardinality({n \in Deliveries : at[n] = Inserted})
  /\ \A n \in Deliveries : at[n] # Unsent => n \in Delivered(e)
  /\ \A p \in Processes, n \in Deliveries : <<p, e, n>> \in dispatching => at[n] = Unsent

DispatchInv ==
  \A e \in Events, p, q \in Processes, n \in Deliveries :
    /\ <<p, e, n>> \in dispatching => n \in Delivered(e)
    /\ <<p, e, n>> \in dispatching /\ <<q, e, n>> \in dispatching => p = q

CountInv == DispatchInv /\ \A e \in Events, b \in Bots : \E at : Counted(at, e, b)

LEMMA FiniteParts ==
  ASSUME NEW at, NEW x
  PROVE  /\ IsFiniteSet({n \in Deliveries : at[n] = x})
         /\ Cardinality({n \in Deliveries : at[n] = x}) \in Nat
<1>1. IsFiniteSet(Deliveries)
  BY BoundsAssumption, FS_Interval DEF Deliveries
<1>2. {n \in Deliveries : at[n] = x} \in SUBSET Deliveries
  OBVIOUS
<1>3. IsFiniteSet({n \in Deliveries : at[n] = x})
  BY <1>1, <1>2, FS_Subset
<1> QED
  BY <1>3, FS_CardinalityType

\* One emission is somewhere else: the set it enters grows, the other shrinks.
LEMMA Recount ==
  ASSUME NEW at \in [Deliveries -> Whereabouts], NEW n \in Deliveries, NEW x \in Whereabouts,
         at[n] # x, NEW y
  PROVE  Cardinality({m \in Deliveries : [at EXCEPT ![n] = x][m] = y}) =
           Cardinality({m \in Deliveries : at[m] = y})
             + (IF y = x THEN 1 ELSE IF y = at[n] THEN 0 - 1 ELSE 0)
<1> DEFINE old == {m \in Deliveries : at[m] = y}
           new == {m \in Deliveries : [at EXCEPT ![n] = x][m] = y}
<1>0. IsFiniteSet(old) /\ Cardinality(old) \in Nat
  BY FiniteParts
<1>1. CASE y = x
  <2>1. new = old \cup {n} /\ n \notin old
    BY <1>1
  <2> HIDE DEF old, new
  <2>2. Cardinality(new) = Cardinality(old) + 1
    BY <1>0, <2>1, FS_AddElement
  <2> QED
    BY <1>1, <2>2 DEF old, new
<1>2. CASE y # x /\ y = at[n]
  <2>1. new = old \ {n} /\ n \in old
    BY <1>2
  <2> HIDE DEF old, new
  <2>2. Cardinality(new) = Cardinality(old) - 1
    BY <1>0, <2>1, FS_RemoveElement
  <2> QED
    BY <1>0, <1>2, <2>2 DEF old, new
<1>3. CASE y # x /\ y # at[n]
  <2>1. new = old
    BY <1>3
  <2> QED
    BY <1>0, <1>3, <2>1
<1> QED
  BY <1>1, <1>2, <1>3

LEMMA CountKept ==
  ASSUME NEW e \in Events, NEW b \in Bots, NEW at, Counted(at, e, b),
         rows'[<<e, b>>] = rows[<<e, b>>],
         \A p \in Processes : storing'[<<p, e, b>>] = storing[<<p, e, b>>],
         Delivered(e) \subseteq Delivered(e)',
         \A p \in Processes, n \in Deliveries : <<p, e, n>> \in dispatching' => at[n] = Unsent
  PROVE  Counted(at, e, b)'
BY DEF Counted

LEMMA CountMoved ==
  ASSUME NEW e \in Events, NEW b \in Bots, NEW at, Counted(at, e, b),
         NEW n \in Deliveries, NEW x \in Whereabouts, at[n] # x, n \in Delivered(e)',
         RowsOK,
         rows'[<<e, b>>] = rows[<<e, b>>] + (IF x = Inserted THEN 1 ELSE 0),
         at[n] # Inserted,
         \A p \in Processes :
           storing'[<<p, e, b>>] =
             storing[<<p, e, b>>] + (IF p = x THEN 1 ELSE IF p = at[n] THEN 0 - 1 ELSE 0),
         Delivered(e) \subseteq Delivered(e)',
         \A p \in Processes, m \in Deliveries :
           <<p, e, m>> \in dispatching' => at[m] = Unsent /\ m # n
  PROVE  Counted([at EXCEPT ![n] = x], e, b)'
<1> DEFINE new == [at EXCEPT ![n] = x]
<1>1. at \in [Deliveries -> Whereabouts]
  BY DEF Counted
<1>2. new \in [Deliveries -> Whereabouts] /\ \A m \in Deliveries : new[m] = IF m = n THEN x ELSE at[m]
  BY <1>1
<1>3. \A y : Cardinality({m \in Deliveries : new[m] = y}) =
               Cardinality({m \in Deliveries : at[m] = y})
                 + (IF y = x THEN 1 ELSE IF y = at[n] THEN 0 - 1 ELSE 0)
  BY <1>1, Recount
<1> HIDE DEF new
<1>4. ASSUME NEW p \in Processes
      PROVE  storing'[<<p, e, b>>] = Cardinality({m \in Deliveries : new[m] = p})
  <2>1. storing[<<p, e, b>>] = Cardinality({m \in Deliveries : at[m] = p})
    BY DEF Counted
  <2>2. Cardinality({m \in Deliveries : new[m] = p}) =
          Cardinality({m \in Deliveries : at[m] = p})
            + (IF p = x THEN 1 ELSE IF p = at[n] THEN 0 - 1 ELSE 0)
    BY <1>3
  <2> QED
    BY <2>1, <2>2
<1>5. rows'[<<e, b>>] = Cardinality({m \in Deliveries : new[m] = Inserted})
  <2>1. rows[<<e, b>>] = Cardinality({m \in Deliveries : at[m] = Inserted})
    BY DEF Counted
  <2>2. Cardinality({m \in Deliveries : new[m] = Inserted}) =
          Cardinality({m \in Deliveries : at[m] = Inserted})
            + (IF Inserted = x THEN 1 ELSE IF Inserted = at[n] THEN 0 - 1 ELSE 0)
    BY <1>3
  <2> QED
    BY <2>1, <2>2
<1>6. \A m \in Deliveries : new[m] # Unsent => m \in Delivered(e)'
  BY <1>2 DEF Counted
<1>7. \A p \in Processes, m \in Deliveries : <<p, e, m>> \in dispatching' => new[m] = Unsent
  BY <1>2
<1>8. Counted(new, e, b)'
  BY <1>2, <1>4, <1>5, <1>6, <1>7 DEF Counted
<1> QED
  BY <1>8 DEF new

\* All that was at x has come to nothing.
LEMMA CountDropped ==
  ASSUME NEW e \in Events, NEW b \in Bots, NEW at, Counted(at, e, b), NEW x \in Whereabouts,
         x # Unsent,
         rows'[<<e, b>>] = IF x = Inserted THEN 0 ELSE rows[<<e, b>>],
         \A p \in Processes : storing'[<<p, e, b>>] = IF p = x THEN 0 ELSE storing[<<p, e, b>>],
         Delivered(e) \subseteq Delivered(e)',
         \A p \in Processes, n \in Deliveries : <<p, e, n>> \in dispatching' => at[n] = Unsent
  PROVE  Counted([n \in Deliveries |-> IF at[n] = x THEN Unsent ELSE at[n]], e, b)'
<1> DEFINE new == [n \in Deliveries |-> IF at[n] = x THEN Unsent ELSE at[n]]
<1>1. at \in [Deliveries -> Whereabouts] /\ Unsent \in Whereabouts
  BY DEF Counted, Whereabouts
<1>2. new \in [Deliveries -> Whereabouts]
        /\ \A n \in Deliveries : new[n] = IF at[n] = x THEN Unsent ELSE at[n]
  BY <1>1
<1> HIDE DEF new
<1>3. ASSUME NEW y, y # x, y # Unsent
      PROVE  {n \in Deliveries : new[n] = y} = {n \in Deliveries : at[n] = y}
  BY <1>2, <1>3
<1>4. Cardinality({n \in Deliveries : new[n] = x}) = 0
  <2>1. {n \in Deliveries : new[n] = x} = {}
    BY <1>2
  <2> QED
    BY <2>1, FS_EmptySet
<1>5. Unsent \notin Processes /\ Inserted \notin Processes /\ Unsent # Inserted
  BY BoundsAssumption DEF Unsent, Inserted
<1>6. \A p \in Processes :
        storing'[<<p, e, b>>] = Cardinality({n \in Deliveries : new[n] = p})
  BY <1>3, <1>4, <1>5 DEF Counted
<1>7. rows'[<<e, b>>] = Cardinality({n \in Deliveries : new[n] = Inserted})
  BY <1>3, <1>4, <1>5 DEF Counted
<1>8. Counted(new, e, b)'
  BY <1>2, <1>6, <1>7 DEF Counted
<1> QED
  BY <1>8 DEF new

LEMMA DeliveredGrows ==
  ASSUME TypeInv, [Next]_vars, NEW e \in Events
  PROVE  Delivered(e) \subseteq Delivered(e)'
<1>0. PlacesOK /\ Processes \cap {"unpublished", "queued", "acked"} = {}
  BY BoundsAssumption DEF TypeInv
<1>n. redelivered[e] \in Nat /\ place[e] \in Processes \cup {"unpublished", "queued", "acked"}
  BY <1>0, BoundsAssumption DEF PlacesOK, Deliveries
<1>1. ASSUME NEW p \in Processes, NEW f \in Events, Deliver(p, f)
      PROVE  Delivered(e) \subseteq Delivered(e)'
  <2>1. redelivered'[e] = redelivered[e] /\ (place'[e] = place[e] \/ place[e] = "queued")
    BY <1>0, <1>1 DEF Deliver, PlacesOK
  <2> QED
    BY <1>n, <2>1 DEF Delivered
<1>2. ASSUME NEW f \in Events, (\E k \in Published : Publish(f, k)) \/ Ack(f)
      PROVE  Delivered(e) \subseteq Delivered(e)'
  <2>1. redelivered'[e] = redelivered[e]
          /\ \/ place'[e] = place[e]
             \/ place[e] = "unpublished"
             \/ place[e] \in Processes /\ place'[e] = "acked"
    BY <1>0, <1>2 DEF Publish, Ack, PlacesOK, history
  <2> QED
    BY <1>0, <1>n, <2>1 DEF Delivered
<1>3. ASSUME NEW p \in Processes, Requeue(p) PROVE Delivered(e) \subseteq Delivered(e)'
  <2>1. CASE place[e] = p
    <3>1. place'[e] = "queued" /\ redelivered'[e] = redelivered[e] + 1
      BY <1>3, <2>1 DEF Requeue
    <3> QED
      BY <1>n, <3>1 DEF Delivered
  <2>2. CASE place[e] # p
    <3>1. place'[e] = place[e] /\ redelivered'[e] = redelivered[e]
      BY <1>3, <1>n, <2>2 DEF Requeue
    <3> QED
      BY <3>1 DEF Delivered
  <2> QED
    BY <2>1, <2>2
<1>4. CASE UNCHANGED <<place, redelivered>>
  BY <1>4 DEF Delivered
<1> QED
  BY <1>1, <1>2, <1>3, <1>4
  DEF Next, vars, history, HandlerStep, EventStep, BotStep, ProcessStep, Resolve, ResolveFails, Commit,
      InsertFails, Join, Leave, CreateBot, ActivateBot, Load, DeactivateBot, Destroy, Crash, Disconnect

\* A delivery that has just reached a handler.
Arrives(p, e, n) == place[e] = "queued" /\ place'[e] = p /\ n = redelivered[e] /\ redelivered' = redelivered

LEMMA DispatchesArrive ==
  ASSUME TypeInv, [Next]_vars, NEW p \in Processes, NEW e \in Events, NEW n \in Deliveries,
         <<p, e, n>> \in dispatching', <<p, e, n>> \notin dispatching
  PROVE  Arrives(p, e, n)
<1>0. PlacesOK
  BY DEF TypeInv
<1>1. ASSUME NEW q \in Processes, NEW f \in Events, Deliver(q, f) PROVE Arrives(p, e, n)
  BY <1>0, <1>1 DEF Deliver, PlacesOK, Arrives
<1>2. dispatching' \subseteq dispatching => Arrives(p, e, n)
  OBVIOUS
<1>3. CASE HandlerStep
  <2>1. ASSUME NEW q \in Processes, NEW f \in Events, NEW m \in Deliveries,
               Resolve(q, f, m) \/ ResolveFails(q, f, m)
        PROVE  dispatching' \subseteq dispatching
    BY <2>1 DEF Resolve, ResolveFails, Returns
  <2>2. ASSUME NEW q \in Processes, NEW f \in Events, NEW b \in Bots,
               Commit(q, f, b) \/ InsertFails(q, f, b)
        PROVE  dispatching' = dispatching
    BY <2>2 DEF Commit, InsertFails
  <2> QED
    BY <1>1, <1>2, <1>3, <2>1, <2>2 DEF HandlerStep
<1>4. CASE EventStep
  <2>1. dispatching' = dispatching
    BY <1>4 DEF EventStep, Publish, Ack, memory
  <2> QED
    BY <1>2, <2>1
<1>5. CASE BotStep
  <2>1. dispatching' = dispatching
    BY <1>5 DEF BotStep, Join, Leave, CreateBot, ActivateBot, Load, DeactivateBot, Destroy, memory
  <2> QED
    BY <1>2, <2>1
<1>6. CASE ProcessStep
  <2>1. dispatching' \subseteq dispatching
    BY <1>6 DEF ProcessStep, Crash, Disconnect, memory
  <2> QED
    BY <1>2, <2>1
<1>7. CASE UNCHANGED vars
  BY <1>7 DEF vars, memory
<1> QED
  BY <1>3, <1>4, <1>5, <1>6, <1>7 DEF Next

LEMMA ArrivesNew ==
  ASSUME TypeInv, NEW p \in Processes, NEW e \in Events, NEW n, Arrives(p, e, n)
  PROVE  n \notin Delivered(e) /\ n \in Delivered(e)' /\ n \in Deliveries
<1>1. redelivered[e] \in Nat /\ redelivered[e] \in Deliveries
        /\ Processes \cap {"unpublished", "queued", "acked"} = {}
  BY BoundsAssumption DEF TypeInv, PlacesOK, Deliveries
<1>2. n = redelivered[e] /\ Delivered(e) = 0..redelivered[e] - 1 /\ Delivered(e)' = 0..redelivered[e]
  BY <1>1 DEF Arrives, Delivered
<1> QED
  BY <1>1, <1>2

LEMMA NextDispatch == TypeInv /\ DispatchInv /\ [Next]_vars => DispatchInv'
<1> SUFFICES ASSUME TypeInv, DispatchInv, [Next]_vars, NEW e \in Events, NEW p \in Processes,
                    NEW n \in Deliveries, <<p, e, n>> \in dispatching'
             PROVE  /\ n \in Delivered(e)'
                    /\ \A q \in Processes : <<q, e, n>> \in dispatching' => p = q
  BY DEF DispatchInv
<1>1. \A q \in Processes :
        <<q, e, n>> \in dispatching' => <<q, e, n>> \in dispatching \/ Arrives(q, e, n)
  BY DispatchesArrive
<1>2. \A q \in Processes : <<q, e, n>> \in dispatching => n \in Delivered(e)
  BY DEF DispatchInv
<1>3. \A q \in Processes : Arrives(q, e, n) => n \notin Delivered(e) /\ n \in Delivered(e)'
  BY ArrivesNew
<1>4. n \in Delivered(e)'
  BY <1>1, <1>2, <1>3, DeliveredGrows
<1>5. ASSUME NEW q \in Processes, <<q, e, n>> \in dispatching' PROVE p = q
  <2>1. CASE <<p, e, n>> \in dispatching /\ <<q, e, n>> \in dispatching
    BY <2>1 DEF DispatchInv
  <2>2. CASE Arrives(p, e, n) /\ Arrives(q, e, n)
    BY <2>2 DEF Arrives
  <2> QED
    BY <1>1, <1>2, <1>3, <1>5, <2>1, <2>2
<1> QED
  BY <1>4, <1>5

LEMMA NextCounts ==
  ASSUME TypeInv, DispatchInv, [Next]_vars, NEW e \in Events, NEW b \in Bots,
         NEW at, Counted(at, e, b)
  PROVE  \E new : Counted(new, e, b)'
<1> DEFINE Goal == \E new : Counted(new, e, b)'
<1>0. RowsOK /\ PlacesOK /\ Unsent \in Whereabouts /\ Inserted \in Whereabouts
        /\ Processes \subseteq Whereabouts /\ Unsent # Inserted
        /\ Unsent \notin Processes /\ Inserted \notin Processes
  BY BoundsAssumption DEF TypeInv, Whereabouts, Unsent, Inserted
<1>t. rows[<<e, b>>] \in Nat /\ \A p \in Processes : storing[<<p, e, b>>] \in Nat
  BY <1>0 DEF RowsOK
<1>g. Delivered(e) \subseteq Delivered(e)'
  BY DeliveredGrows
<1>d. \A p \in Processes, n \in Deliveries : <<p, e, n>> \in dispatching' => at[n] = Unsent
  BY DispatchesArrive, ArrivesNew DEF Counted
<1>1. ASSUME rows'[<<e, b>>] = rows[<<e, b>>],
             \A p \in Processes : storing'[<<p, e, b>>] = storing[<<p, e, b>>]
      PROVE  Goal
  BY <1>1, <1>g, <1>d, CountKept
<1>2. ASSUME NEW n \in Deliveries, NEW x \in Whereabouts, at[n] # x, at[n] # Inserted,
             n \in Delivered(e)',
             rows'[<<e, b>>] = rows[<<e, b>>] + (IF x = Inserted THEN 1 ELSE 0),
             \A p \in Processes :
               storing'[<<p, e, b>>] =
                 storing[<<p, e, b>>] + (IF p = x THEN 1 ELSE IF p = at[n] THEN 0 - 1 ELSE 0),
             \A p \in Processes : <<p, e, n>> \notin dispatching'
      PROVE  Goal
  <2>1. \A p \in Processes, m \in Deliveries : <<p, e, m>> \in dispatching' => at[m] = Unsent /\ m # n
    BY <1>2, <1>d
  <2> QED
    BY <1>0, <1>2, <1>g, <2>1, CountMoved
<1>3. ASSUME NEW x \in Whereabouts, x # Unsent,
             rows'[<<e, b>>] = IF x = Inserted THEN 0 ELSE rows[<<e, b>>],
             \A p \in Processes : storing'[<<p, e, b>>] = IF p = x THEN 0 ELSE storing[<<p, e, b>>]
      PROVE  Goal
  BY <1>3, <1>g, <1>d, CountDropped
<1> HIDE DEF Goal
\* A run of the handler ends with an emission.
<1>4. ASSUME NEW p \in Processes, NEW n \in Deliveries, NEW bs \in SUBSET Bots, EmitTo(p, e, bs),
             rows' = rows, at[n] = Unsent, n \in Delivered(e)',
             \A q \in Processes : <<q, e, n>> \notin dispatching'
      PROVE  Goal
  <2>1. Starts(p, e, bs)
    BY <1>4, Emitted
  <2>2. CASE b \in bs
    <3>1. \A q \in Processes :
            storing'[<<q, e, b>>] =
              storing[<<q, e, b>>] + (IF q = p THEN 1 ELSE IF q = at[n] THEN 0 - 1 ELSE 0)
      BY <1>0, <1>t, <1>4, <2>1, <2>2 DEF Starts
    <3>2. p \in Whereabouts /\ at[n] # p /\ at[n] # Inserted /\ p # Inserted
      BY <1>0, <1>4
    <3>3. rows'[<<e, b>>] = rows[<<e, b>>] + (IF p = Inserted THEN 1 ELSE 0)
      BY <1>t, <1>4, <3>2
    <3> QED
      BY <1>2, <1>4, <3>1, <3>2, <3>3
  <2>3. CASE b \notin bs
    BY <1>1, <1>4, <2>1, <2>3 DEF Starts
  <2> QED
    BY <2>2, <2>3
<1>5. ASSUME NEW p \in Processes, NEW f \in Events, NEW bs \in SUBSET Bots, EmitTo(p, f, bs), f # e,
             rows' = rows
      PROVE  Goal
  BY <1>1, <1>5, Emitted DEF Starts
<1>6. ASSUME NEW p \in Processes, NEW f \in Events, Deliver(p, f) PROVE Goal
  <2>1. CASE Asks(p, f)
    <3>1. storing' = storing /\ rows' = rows
      BY <1>6, <2>1 DEF Deliver
    <3> QED
      BY <1>1, <3>1
  <2>2. CASE ~Asks(p, f)
    <3>1. PICK bs \in SUBSET Bots : EmitTo(p, f, bs)
      BY <1>6, <2>2 DEF Deliver, TypeInv, RegistryOK
    <3>2. rows' = rows /\ dispatching' = dispatching /\ Arrives(p, f, redelivered[f])
      BY <1>0, <1>6, <2>2 DEF Deliver, PlacesOK, Arrives
    <3>3. CASE f = e
      <4>1. redelivered[e] \notin Delivered(e) /\ redelivered[e] \in Delivered(e)'
              /\ redelivered[e] \in Deliveries
        BY <3>2, <3>3, ArrivesNew
      <4>2. at[redelivered[e]] = Unsent /\ \A q \in Processes : <<q, e, redelivered[e]>> \notin dispatching'
        BY <3>2, <4>1 DEF Counted, DispatchInv
      <4> QED
        BY <1>4, <3>1, <3>2, <3>3, <4>1, <4>2
    <3> QED
      BY <1>5, <3>1, <3>2, <3>3
  <2> QED
    BY <2>1, <2>2
<1>7. ASSUME NEW p \in Processes, NEW f \in Events, NEW n \in Deliveries, Resolve(p, f, n) PROVE Goal
  <2>1. PICK bs \in SUBSET Bots : EmitTo(p, f, bs)
    <3>1. listed'[p] \in SUBSET Bots
      BY <1>7 DEF Resolve, TypeInv, RegistryOK, BotsOK
    <3> QED
      BY <1>7, <3>1 DEF Resolve
  <2>2. rows' = rows /\ <<p, f, n>> \in dispatching /\ dispatching' = dispatching \ {<<p, f, n>>}
    BY <1>7 DEF Resolve, Returns
  <2>3. CASE f = e
    <3>1. at[n] = Unsent /\ n \in Delivered(e)' /\ \A q \in Processes : <<q, e, n>> \notin dispatching'
      BY <1>g, <2>2, <2>3 DEF Counted, DispatchInv
    <3> QED
      BY <1>4, <2>1, <2>2, <2>3, <3>1
  <2> QED
    BY <1>5, <2>1, <2>2, <2>3
\* An INSERT ends: it is one that a delivery led to.
<1>8. ASSUME NEW p \in Processes, NEW x \in {Inserted, Unsent}, storing[<<p, e, b>>] > 0,
             storing' = [storing EXCEPT ![<<p, e, b>>] = @ - 1], dispatching' = dispatching,
             rows'[<<e, b>>] = rows[<<e, b>>] + (IF x = Inserted THEN 1 ELSE 0)
      PROVE  Goal
  <2>1. PICK n \in Deliveries : at[n] = p
    <3>1. {n \in Deliveries : at[n] = p} # {}
      BY <1>8, <1>t, FS_EmptySet DEF Counted
    <3> QED
      BY <3>1
  <2>2. n \in Delivered(e)' /\ \A q \in Processes : <<q, e, n>> \notin dispatching'
    BY <1>0, <1>8, <1>g, <2>1 DEF Counted
  <2>3. \A q \in Processes :
          storing'[<<q, e, b>>] =
            storing[<<q, e, b>>] + (IF q = x THEN 1 ELSE IF q = at[n] THEN 0 - 1 ELSE 0)
    BY <1>0, <1>t, <1>8, <2>1 DEF RowsOK
  <2> QED
    BY <1>0, <1>2, <1>8, <2>1, <2>2, <2>3
<1>9. ASSUME NEW p \in Processes, NEW f \in Events, NEW c \in Bots,
             Commit(p, f, c) \/ InsertFails(p, f, c)
      PROVE  Goal
  <2>1. CASE f = e /\ c = b /\ Commit(p, f, c)
    BY <1>0, <1>t, <1>8, <2>1 DEF Commit, RowsOK
  <2>2. CASE f = e /\ c = b /\ InsertFails(p, f, c)
    <3>1. rows' = rows /\ dispatching' = dispatching /\ storing[<<p, e, b>>] > 0
            /\ storing' = [storing EXCEPT ![<<p, e, b>>] = @ - 1]
      BY <2>2 DEF InsertFails
    <3>2. rows'[<<e, b>>] = rows[<<e, b>>] + (IF Unsent = Inserted THEN 1 ELSE 0)
      BY <1>0, <1>t, <3>1
    <3> QED
      BY <1>8, <3>1, <3>2
  <2>3. CASE ~(f = e /\ c = b)
    BY <1>0, <1>1, <1>9, <2>3 DEF Commit, InsertFails, RowsOK
  <2> QED
    BY <1>9, <2>1, <2>2, <2>3
<1>10. ASSUME NEW p \in Processes, NEW c \in Bots, Destroy(p, c) PROVE Goal
  <2>1. storing' = storing
          /\ \/ rows' = rows
             \/ rows'[<<e, b>>] = IF b = c THEN 0 ELSE rows[<<e, b>>]
    BY <1>10 DEF Destroy, memory
  <2>2. CASE b = c /\ rows'[<<e, b>>] = 0
    BY <1>0, <1>3, <2>1, <2>2
  <2>3. CASE rows'[<<e, b>>] = rows[<<e, b>>]
    BY <1>1, <2>1, <2>3
  <2> QED
    BY <2>1, <2>2, <2>3
<1>11. ASSUME NEW p \in Processes, Crash(p) PROVE Goal
  <2>1. rows' = rows
          /\ \A q \in Processes : storing'[<<q, e, b>>] = IF q = p THEN 0 ELSE storing[<<q, e, b>>]
    BY <1>11 DEF Crash
  <2> QED
    BY <1>0, <1>3, <2>1
<1>12. ASSUME rows' = rows, storing' = storing PROVE Goal
  BY <1>1, <1>12
<1>13. Goal
  BY <1>6, <1>7, <1>9, <1>10, <1>11, <1>12
  DEF Next, vars, memory, HandlerStep, EventStep, BotStep, ProcessStep, ResolveFails, Publish, Ack,
      Join, Leave, CreateBot, ActivateBot, Load, DeactivateBot, Disconnect
<1> QED
  BY <1>13 DEF Goal

LEMMA CountsInitially == Init => CountInv
<1> SUFFICES ASSUME Init PROVE CountInv
  OBVIOUS
<1>1. DispatchInv
  BY DEF Init, DispatchInv
<1>2. ASSUME NEW e \in Events, NEW b \in Bots PROVE \E at : Counted(at, e, b)
  <2> DEFINE at == [n \in Deliveries |-> Unsent]
  <2>1. at \in [Deliveries -> Whereabouts] /\ \A n \in Deliveries : at[n] = Unsent
    BY DEF Whereabouts
  <2>2. Unsent \notin Processes /\ Unsent # Inserted
    BY BoundsAssumption DEF Unsent, Inserted
  <2> HIDE DEF at
  <2>3. \A x : x # Unsent => {n \in Deliveries : at[n] = x} = {}
    BY <2>1
  <2>4. Counted(at, e, b)
    BY <2>1, <2>2, <2>3, FS_EmptySet DEF Init, Counted
  <2> QED
    BY <2>4
<1> QED
  BY <1>1, <1>2 DEF CountInv

LEMMA CountInvariance == Spec => []CountInv
<1>1. IInv /\ CountInv /\ [Next]_vars => CountInv'
  <2> SUFFICES ASSUME IInv, CountInv, [Next]_vars PROVE CountInv'
    OBVIOUS
  <2>1. TypeInv /\ DispatchInv
    BY DEF IInv, CountInv
  <2>2. ASSUME NEW e \in Events, NEW b \in Bots PROVE \E at : Counted(at, e, b)'
    <3>1. PICK at : Counted(at, e, b)
      BY DEF CountInv
    <3> QED
      BY <2>1, <3>1, NextCounts
  <2> QED
    BY <2>1, <2>2, NextDispatch DEF CountInv
<1> QED
  BY Invariance, CountsInitially, <1>1, PTL DEF Spec

\* An event has no more rows of one bot than the broker delivered it times.
THEOREM RowsComeByDelivery == Spec => []RowsOnlyByDelivery
<1>1. IInv /\ CountInv => RowsOnlyByDelivery
  <2> SUFFICES ASSUME IInv, CountInv, NEW e \in Events, NEW b \in Bots
               PROVE  rows[<<e, b>>] =< 1 + redelivered[e]
    BY DEF RowsOnlyByDelivery
  <2>1. PICK at : Counted(at, e, b)
    BY DEF CountInv
  <2>2. redelivered[e] \in Nat
    BY BoundsAssumption DEF IInv, TypeInv, PlacesOK, Deliveries
  <2>3. {n \in Deliveries : at[n] = Inserted} \in SUBSET (0..redelivered[e])
    BY <2>1, <2>2 DEF Counted, Delivered, Inserted, Unsent
  <2>4. IsFiniteSet(0..redelivered[e]) /\ Cardinality(0..redelivered[e]) = redelivered[e] + 1
    BY <2>2, FS_Interval
  <2>5. Cardinality({n \in Deliveries : at[n] = Inserted}) =< redelivered[e] + 1
    BY <2>3, <2>4, FS_Subset
  <2> QED
    BY <2>1, <2>2, <2>5 DEF Counted
<1> QED
  BY Invariance, CountInvariance, <1>1, PTL
=============================================================================
