-------------------------- MODULE ChatBridgeProofs --------------------------
(***************************************************************************)
(* Proofs, for every set of bots, users and topics and every number of     *)
(* events, of the safety properties of ChatBridgeProperties.               *)
(***************************************************************************)
EXTENDS ChatBridgeProperties, TLAPS

(***************************************************************************)
(* Type correctness: every handler, however it is interleaved with the     *)
(* others, keeps the two maps, the topic registry and the handler states   *)
(* of the right shape.                                                     *)
(***************************************************************************)
LEMMA InitTypeOK == Init => TypeOK
<1> SUFFICES ASSUME Init PROVE TypeOK
  OBVIOUS
<1> USE UserOfAssumption, NoEntryAssumption, BoundsAssumption DEF Init, Events, Settled, AwaitingRpc
<1>1. botChatUserMap \in [Bots -> Users \cup {NoUser}]
  OBVIOUS
<1>2. chatUserBotMap \in [Users -> Bots \cup {NoBot}]
  OBVIOUS
<1>3. members \in [Topics -> SUBSET Users] /\ beenIn \in [Topics -> SUBSET Users]
  BY DEF People
<1>4. emitted \in [Bots -> Seq(Events)]
  OBVIOUS
<1> QED
  BY <1>1, <1>2, <1>3, <1>4 DEF TypeOK

LEMMA RegisterTypes ==
  ASSUME TypeOK, NEW b \in Bots, RegisterBot(b)
  PROVE  /\ botChatUserMap' \in [Bots -> Users \cup {NoUser}]
         /\ chatUserBotMap' \in [Users -> Bots \cup {NoBot}]
  BY UserOfAssumption DEF TypeOK, RegisterBot

LEMMA EmitType ==
  ASSUME TypeOK, NEW e \in Events, NEW bots, Emit(e, bots)
  PROVE  emitted' \in [Bots -> Seq(Events)]
  BY DEF TypeOK, Emit

LEMMA NextTypeOK == TypeOK /\ [Next]_vars => TypeOK'
<1> SUFFICES ASSUME TypeOK, [Next]_vars PROVE TypeOK'
  OBVIOUS
<1> USE DEF registry, loads, bus, chat, Settled, AwaitingRpc
<1>1. CASE UNCHANGED vars
  BY <1>1 DEF TypeOK, vars
<1>2. ASSUME NEW b \in Bots, CreateBot(b) PROVE TypeOK'
  BY <1>2, RegisterTypes DEF CreateBot, TypeOK
<1>3. ASSUME NEW b \in Bots, ActivateRead(b) PROVE TypeOK'
  BY <1>3 DEF ActivateRead, TypeOK, Loads
<1>4. ASSUME NEW b \in Bots, ActivateRegister(b) PROVE TypeOK'
  BY <1>4, RegisterTypes DEF ActivateRegister, TypeOK, Loads
<1>5. ASSUME NEW b \in Bots, DeactivateUnregister(b) PROVE TypeOK'
  BY <1>5 DEF DeactivateUnregister, UnregisterBot, Registered, TypeOK
<1>6. ASSUME NEW b \in Bots, DeactivateDestroy(b) PROVE TypeOK'
  BY <1>6 DEF DeactivateDestroy, TypeOK
<1>7. ASSUME NEW l \in Loads, LoadBotTopics(l) PROVE TypeOK'
  <2>1. topicBotRegistry' \in [Topics -> SUBSET Bots]
    BY <1>7 DEF LoadBotTopics, TypeOK, Loads
  <2> QED
    BY <1>7, <2>1 DEF LoadBotTopics, TypeOK
<1>8. ASSUME NEW l \in Loads, LoadFails(l) PROVE TypeOK'
  BY <1>8 DEF LoadFails, TypeOK
<1>9. ASSUME NEW e \in Events, HandleMessage(e) PROVE TypeOK'
  <2>1. emitted' \in [Bots -> Seq(Events)]
    BY <1>9, EmitType DEF HandleMessage, TypeOK
  <2> QED
    BY <1>9, <2>1 DEF HandleMessage, AtHead, TypeOK
<1>10. ASSUME NEW e \in Events, ResolveBots(e) PROVE TypeOK'
  <2>1. emitted' \in [Bots -> Seq(Events)]
    BY <1>10, EmitType DEF ResolveBots
  <2>2. Found(e) \subseteq Bots
    BY DEF Found, TypeOK
  <2>3. topicBotRegistry' \in [Topics -> SUBSET Bots]
    BY <1>10, <2>2 DEF ResolveBots, RegisterBotsInTopic, TypeOK
  <2> QED
    BY <1>10, <2>1, <2>3 DEF ResolveBots, TypeOK
<1>11. ASSUME NEW e \in Events, ResolveFails(e) PROVE TypeOK'
  BY <1>11 DEF ResolveFails, MayFail, TypeOK
<1>12. ASSUME NEW e \in Events, HandleMessageDelete(e) PROVE TypeOK'
  BY <1>12, EmitType DEF HandleMessageDelete, AtHead, TypeOK
<1>13. ASSUME NEW e \in Events, NEW m \in Published, Publish(e, m) PROVE TypeOK'
  BY <1>13, BoundsAssumption DEF Publish, TypeOK
<1>14. ASSUME NEW b \in Bots, NEW t \in Topics, Join(b, t) \/ Leave(b, t) PROVE TypeOK'
  <2>1. UserOf[b] \in Users
    BY UserOfAssumption
  <2>2. CASE Join(b, t)
    BY <2>1, <2>2 DEF Join, TypeOK
  <2>3. CASE Leave(b, t)
    BY <2>3 DEF Leave, TypeOK
  <2> QED
    BY <1>14, <2>2, <2>3
<1>15. ASSUME NEW b \in Bots, DeleteUser(b) PROVE TypeOK'
  BY <1>15 DEF DeleteUser, TypeOK
<1>16. ASSUME NEW l \in Loads, AnswerUserTopics(l) PROVE TypeOK'
  BY <1>16 DEF AnswerUserTopics, TypeOK
<1>17. ASSUME NEW e \in Events, AnswerTopicMembers(e) PROVE TypeOK'
  <2>1. event[e].topic \in Topics
    BY <1>17 DEF AnswerTopicMembers, TypeOK, Event
  <2> QED
    BY <1>17, <2>1 DEF AnswerTopicMembers, TypeOK
<1> QED
  BY <1>1, <1>2, <1>3, <1>4, <1>5, <1>6, <1>7, <1>8, <1>9, <1>10, <1>11, <1>12,
     <1>13, <1>14, <1>15, <1>16, <1>17
  DEF Next, BotsServiceStep, LoadStep, HandlerStep, ChatServerStep

THEOREM TypeCorrect == Spec => []TypeOK
<1> QED
  BY InitTypeOK, NextTypeOK, PTL DEF Spec

-----------------------------------------------------------------------------
(* MapsInverse needs more than itself: registering b again overwrites its  *)
(* forward entry, and would orphan the inverse one if it were another user.*)

OwnUser == \A b \in Bots : botChatUserMap[b] \in {UserOf[b], NoUser}

MapsInv == TypeOK /\ OwnUser /\ MapsInverse

LEMMA InitMapsInv == Init => MapsInv
<1> SUFFICES ASSUME Init PROVE OwnUser /\ MapsInverse
  BY InitTypeOK DEF MapsInv
<1>1. OwnUser
  BY DEF Init, OwnUser
<1>2. ASSUME NEW b \in Bots, NEW u \in Users
      PROVE  botChatUserMap[b] = u <=> chatUserBotMap[u] = b
  <2>1. CASE \E c \in Existing : UserOf[c] = u
    <3>1. PICK c \in Existing : UserOf[c] = u
      BY <2>1
    <3>2. (CHOOSE a \in Existing : UserOf[a] = u) = c
      BY <3>1, UserOfAssumption, BoundsAssumption
    <3>3. chatUserBotMap[u] = c
      BY <2>1, <3>2 DEF Init
    <3>4. botChatUserMap[b] = u <=> b = c
      BY <3>1, UserOfAssumption, NoEntryAssumption, BoundsAssumption DEF Init
    <3> QED
      BY <3>3, <3>4
  <2>2. CASE ~\E c \in Existing : UserOf[c] = u
    BY <2>2, NoEntryAssumption, BoundsAssumption DEF Init
  <2> QED
    BY <2>1, <2>2
<1> QED
  BY <1>1, <1>2 DEF MapsInverse

LEMMA RegisterKeepsMaps ==
  ASSUME MapsInv, NEW b \in Bots, RegisterBot(b)
  PROVE  (OwnUser /\ MapsInverse)'
<1> USE UserOfAssumption, NoEntryAssumption DEF MapsInv, TypeOK, RegisterBot
<1>1. OwnUser'
  BY DEF OwnUser
<1>2. ASSUME NEW a \in Bots, NEW u \in Users
      PROVE  botChatUserMap'[a] = u <=> chatUserBotMap'[u] = a
  BY DEF OwnUser, MapsInverse
<1> QED
  BY <1>1, <1>2 DEF MapsInverse

LEMMA UnregisterKeepsMaps ==
  ASSUME MapsInv, NEW b \in Bots, UnregisterBot(b)
  PROVE  (OwnUser /\ MapsInverse)'
<1> USE UserOfAssumption, NoEntryAssumption
    DEF MapsInv, TypeOK, UnregisterBot, Registered
<1>1. OwnUser'
  BY DEF OwnUser
<1>2. ASSUME NEW a \in Bots, NEW u \in Users
      PROVE  botChatUserMap'[a] = u <=> chatUserBotMap'[u] = a
  BY DEF OwnUser, MapsInverse
<1> QED
  BY <1>1, <1>2 DEF MapsInverse

LEMMA NextMapsInv == MapsInv /\ [Next]_vars => MapsInv'
<1> SUFFICES ASSUME MapsInv, [Next]_vars PROVE (OwnUser /\ MapsInverse)'
  BY NextTypeOK DEF MapsInv
<1> USE DEF registry, loads, bus, chat
<1>1. ASSUME UNCHANGED <<botChatUserMap, chatUserBotMap>>
      PROVE  (OwnUser /\ MapsInverse)'
  BY <1>1 DEF MapsInv, OwnUser, MapsInverse
<1>2. ASSUME NEW b \in Bots, CreateBot(b) \/ ActivateRegister(b)
      PROVE  (OwnUser /\ MapsInverse)'
  BY <1>2, RegisterKeepsMaps DEF CreateBot, ActivateRegister
<1>3. ASSUME NEW b \in Bots, DeactivateUnregister(b)
      PROVE  (OwnUser /\ MapsInverse)'
  BY <1>3, UnregisterKeepsMaps DEF DeactivateUnregister
<1>4. BotsServiceStep => (OwnUser /\ MapsInverse)'
  BY <1>1, <1>2, <1>3 DEF BotsServiceStep, ActivateRead, DeactivateDestroy
<1>5. LoadStep => UNCHANGED <<botChatUserMap, chatUserBotMap>>
  BY DEF LoadStep, LoadBotTopics, LoadFails
<1>6. HandlerStep => UNCHANGED <<botChatUserMap, chatUserBotMap>>
  BY DEF HandlerStep, HandleMessage, ResolveBots, ResolveFails, HandleMessageDelete
<1>7. ChatServerStep => UNCHANGED <<botChatUserMap, chatUserBotMap>>
  BY DEF ChatServerStep, Publish, Join, Leave, DeleteUser, AnswerUserTopics,
         AnswerTopicMembers
<1>8. UNCHANGED vars => UNCHANGED <<botChatUserMap, chatUserBotMap>>
  BY DEF vars
<1> QED
  BY <1>1, <1>4, <1>5, <1>6, <1>7, <1>8 DEF Next

(***************************************************************************)
(* botChatUserMap and chatUserBotMap are always each other's inverse,      *)
(* whatever creations, activations and deactivations interleave.           *)
(***************************************************************************)
THEOREM MapsStayInverse == Spec => []MapsInverse
<1>1. Spec => []MapsInv
  BY InitMapsInv, NextMapsInv, PTL DEF Spec
<1>2. MapsInv => MapsInverse
  BY DEF MapsInv
<1> QED
  BY <1>1, <1>2, PTL

-----------------------------------------------------------------------------
(* A membership can only come from an answer of chat_server, and answers   *)
(* are held across awaits.                                                 *)

AnswersJustified ==
  /\ \A t \in Topics : members[t] \subseteq beenIn[t]
  /\ \A l \in Loads : \A t \in loadTopics[l] : UserOf[l[1]] \in beenIn[t]
  /\ \A e \in Events : phase[e] = "answered" => answer[e] \subseteq beenIn[event[e].topic]

JustifiedInv == AnswersJustified /\ RegistryJustified

\* What lazy resolution finds are bots whose users were in the answer.
LEMMA FoundAreMembers ==
  ASSUME MapsInv, NEW e \in Events, NEW b \in Found(e)
  PROVE  b \in Bots /\ UserOf[b] \in answer[e] /\ Registered(b)
<1>1. PICK u \in answer[e] : b = chatUserBotMap[u] /\ b # NoBot
  BY DEF Found
<1>2. u \in Users /\ b \in Bots
  BY <1>1 DEF MapsInv, TypeOK
<1>3. botChatUserMap[b] = u
  BY <1>1, <1>2 DEF MapsInv, MapsInverse
<1> QED
  BY <1>1, <1>2, <1>3, NoEntryAssumption DEF MapsInv, OwnUser, Registered

LEMMA NextJustified == MapsInv /\ JustifiedInv /\ [Next]_vars => JustifiedInv'
<1> SUFFICES ASSUME MapsInv, JustifiedInv, [Next]_vars PROVE JustifiedInv'
  OBVIOUS
<1> USE DEF registry, loads, bus, chat, JustifiedInv, AnswersJustified, RegistryJustified
<1>0. TypeOK
  BY DEF MapsInv
<1>1. CASE UNCHANGED vars
  BY <1>1 DEF vars
<1>2. ASSUME NEW b \in Bots, CreateBot(b) \/ ActivateRead(b) \/ ActivateRegister(b)
                              \/ DeactivateDestroy(b)
      PROVE  JustifiedInv'
  BY <1>2 DEF CreateBot, ActivateRead, ActivateRegister, DeactivateDestroy
<1>3. ASSUME NEW b \in Bots, DeactivateUnregister(b) PROVE JustifiedInv'
  BY <1>3 DEF DeactivateUnregister, UnregisterBot
<1>4. ASSUME NEW l \in Loads, LoadBotTopics(l) PROVE JustifiedInv'
  BY <1>4, <1>0 DEF LoadBotTopics, TypeOK
<1>5. ASSUME NEW l \in Loads, LoadFails(l) PROVE JustifiedInv'
  BY <1>5, <1>0 DEF LoadFails, TypeOK
<1>6. ASSUME NEW e \in Events, HandleMessage(e) \/ HandleMessageDelete(e)
      PROVE  JustifiedInv'
  BY <1>6, <1>0 DEF HandleMessage, HandleMessageDelete, TypeOK
<1>7. ASSUME NEW e \in Events, ResolveBots(e) PROVE JustifiedInv'
  <2>1. \A b \in Found(e) : UserOf[b] \in beenIn[event[e].topic]
    BY <1>7, FoundAreMembers DEF ResolveBots
  <2>2. RegistryJustified'
    BY <1>7, <1>0, <2>1 DEF ResolveBots, RegisterBotsInTopic, TypeOK
  <2>3. AnswersJustified'
    BY <1>7, <1>0 DEF ResolveBots, TypeOK
  <2> QED
    BY <2>2, <2>3
<1>8. ASSUME NEW e \in Events, ResolveFails(e) PROVE JustifiedInv'
  BY <1>8, <1>0 DEF ResolveFails, TypeOK
<1>9. ASSUME NEW e \in Events, NEW m \in Published, Publish(e, m) PROVE JustifiedInv'
  BY <1>9, <1>0 DEF Publish, TypeOK
<1>10. ASSUME NEW b \in Bots, NEW t \in Topics, Join(b, t) PROVE JustifiedInv'
  <2>1. \A s \in Topics : beenIn[s] \subseteq beenIn'[s]
    BY <1>10, <1>0 DEF Join, TypeOK
  <2>2. \A e \in Events : phase[e] = "answered" => event[e].topic \in Topics
    BY <1>0 DEF TypeOK, Event
  <2> QED
    BY <1>10, <1>0, <2>1, <2>2 DEF Join, TypeOK
<1>11. ASSUME NEW b \in Bots, NEW t \in Topics, Leave(b, t) PROVE JustifiedInv'
  BY <1>11, <1>0 DEF Leave, TypeOK
<1>12. ASSUME NEW b \in Bots, DeleteUser(b) PROVE JustifiedInv'
  BY <1>12, <1>0 DEF DeleteUser, TypeOK
<1>13. ASSUME NEW l \in Loads, AnswerUserTopics(l) PROVE JustifiedInv'
  BY <1>13, <1>0 DEF AnswerUserTopics, TypeOK
<1>14. ASSUME NEW e \in Events, AnswerTopicMembers(e) PROVE JustifiedInv'
  <2>1. event[e].topic \in Topics
    BY <1>14, <1>0 DEF AnswerTopicMembers, TypeOK, Event
  <2> QED
    BY <1>14, <1>0, <2>1 DEF AnswerTopicMembers, TypeOK
<1> QED
  BY <1>1, <1>2, <1>3, <1>4, <1>5, <1>6, <1>7, <1>8, <1>9, <1>10, <1>11, <1>12,
     <1>13, <1>14
  DEF Next, BotsServiceStep, LoadStep, HandlerStep, ChatServerStep

(***************************************************************************)
(* The topic registry only lists bots whose users have been in the topic.  *)
(***************************************************************************)
THEOREM RegistryIsJustified == Spec => []RegistryJustified
<1>1. Init => JustifiedInv
  BY DEF Init, JustifiedInv, AnswersJustified, RegistryJustified
<1>2. JustifiedInv => RegistryJustified
  BY DEF JustifiedInv
<1> QED
  BY <1>1, <1>2, InitMapsInv, NextMapsInv, NextJustified, PTL DEF Spec

-----------------------------------------------------------------------------
LEMMA ChangesForCause ==
  ASSUME MapsInv, [Next]_vars, NEW t \in Topics, NEW b \in Bots
  PROVE  ChangeForCause(t, b)
<1> USE DEF registry, loads, bus, chat, MapsInv, TypeOK, ChangeForCause
<1>1. CASE UNCHANGED topicBotRegistry
  BY <1>1
<1>2. ASSUME NEW c \in Bots, DeactivateUnregister(c) PROVE ChangeForCause(t, b)
  BY <1>2 DEF DeactivateUnregister, UnregisterBot
<1>3. ASSUME NEW l \in Loads, LoadBotTopics(l) PROVE ChangeForCause(t, b)
  BY <1>3 DEF LoadBotTopics
<1>4. ASSUME NEW e \in Events, ResolveBots(e) PROVE ChangeForCause(t, b)
  BY <1>4, FoundAreMembers DEF ResolveBots, RegisterBotsInTopic
<1> QED
  BY <1>1, <1>2, <1>3, <1>4
  DEF Next, vars, BotsServiceStep, LoadStep, HandlerStep, ChatServerStep,
      CreateBot, ActivateRead, ActivateRegister, DeactivateDestroy, LoadFails,
      HandleMessage, ResolveFails, HandleMessageDelete, Publish, Join, Leave,
      DeleteUser, AnswerUserTopics, AnswerTopicMembers

(***************************************************************************)
(* The topic registry forgets a bot only when it is unregistered, and      *)
(* learns an unregistered bot only from loadBotTopics.                     *)
(***************************************************************************)
THEOREM RegistryChanges == Spec => RegistryChangesForCause
<1>1. MapsInv /\ [Next]_vars =>
        [\A t \in Topics, b \in Bots : ChangeForCause(t, b)]_vars
  BY ChangesForCause
<1> QED
  BY <1>1, InitMapsInv, NextMapsInv, PTL DEF Spec, RegistryChangesForCause

-----------------------------------------------------------------------------
(* Echoes. A bot's user is in topics, and so sends, only once the bot is   *)
(* registered; it stays so while in service. A handler that awaits an RPC  *)
(* therefore found the sender unknown, and the sender's bot out of service.*)

EchoInv ==
  /\ \A b \in Bots : row[b] = "present" => Registered(b)
  /\ \A b \in Bots : row[b] = "none" => \A t \in Topics : UserOf[b] \notin members[t]
  /\ \A b \in Bots, e \in Events :
       phase[e] # "unpublished" /\ event[e].sender = UserOf[b] => row[b] # "none"
  /\ \A b \in Bots, e \in Events :
       phase[e] \in AwaitingRpc /\ event[e].sender = UserOf[b] => row[b] # "present"

LEMMA UnfilteredSender ==
  ASSUME MapsInv, EchoInv, NEW e \in Events, ~Filtered(e),
         NEW b \in Bots, event[e].sender = UserOf[b]
  PROVE  row[b] # "present"
<1>1. chatUserBotMap[UserOf[b]] # b
  BY NoEntryAssumption DEF Filtered
<1>2. botChatUserMap[b] # UserOf[b]
  BY <1>1, UserOfAssumption DEF MapsInv, MapsInverse
<1> QED
  BY <1>2 DEF MapsInv, OwnUser, EchoInv, Registered

LEMMA NextEchoInv == MapsInv /\ EchoInv /\ [Next]_vars => EchoInv'
<1> SUFFICES ASSUME MapsInv, EchoInv, [Next]_vars PROVE EchoInv'
  OBVIOUS
<1> USE DEF registry, loads, bus, chat, AwaitingRpc
<1>0. TypeOK
  BY DEF MapsInv
<1>1. CASE UNCHANGED vars
  BY <1>1 DEF vars, EchoInv, Registered
<1>2. ASSUME NEW b \in Bots, CreateBot(b) PROVE EchoInv'
  BY <1>2, <1>0, UserOfAssumption, NoEntryAssumption
  DEF CreateBot, RegisterBot, TypeOK, EchoInv, Registered
<1>3. ASSUME NEW b \in Bots, ActivateRead(b) PROVE EchoInv'
  BY <1>3 DEF ActivateRead, EchoInv, Registered
<1>4. ASSUME NEW b \in Bots, ActivateRegister(b) PROVE EchoInv'
  BY <1>4, <1>0, UserOfAssumption, NoEntryAssumption
  DEF ActivateRegister, RegisterBot, TypeOK, EchoInv, Registered
<1>5. ASSUME NEW b \in Bots, DeactivateUnregister(b) PROVE EchoInv'
  BY <1>5, <1>0 DEF DeactivateUnregister, UnregisterBot, TypeOK, EchoInv, Registered
<1>6. ASSUME NEW b \in Bots, DeactivateDestroy(b) PROVE EchoInv'
  BY <1>6, <1>0 DEF DeactivateDestroy, TypeOK, EchoInv, Registered
<1>7. LoadStep => EchoInv'
  BY DEF LoadStep, LoadBotTopics, LoadFails, EchoInv, Registered
<1>8. ASSUME NEW e \in Events, HandleMessage(e) PROVE EchoInv'
  <2>1. phase'[e] = "asking" => ~Filtered(e)
    BY <1>8, <1>0 DEF HandleMessage, TypeOK
  <2>2. \A b \in Bots : phase'[e] = "asking" /\ event[e].sender = UserOf[b]
          => row[b] # "present"
    BY <2>1, UnfilteredSender
  <2> QED
    BY <1>8, <1>0, <2>2 DEF HandleMessage, AtHead, TypeOK, EchoInv, Registered
<1>9. ASSUME NEW e \in Events, ResolveBots(e) \/ ResolveFails(e) PROVE EchoInv'
  BY <1>9, <1>0 DEF ResolveBots, ResolveFails, MayFail, TypeOK, EchoInv, Registered
<1>10. ASSUME NEW e \in Events, HandleMessageDelete(e) PROVE EchoInv'
  BY <1>10, <1>0 DEF HandleMessageDelete, AtHead, TypeOK, EchoInv, Registered
<1>11. ASSUME NEW e \in Events, NEW m \in Published, Publish(e, m) PROVE EchoInv'
  <2>1. m.topic \in Topics
    BY BoundsAssumption DEF Event
  <2> QED
    BY <1>11, <1>0, <2>1 DEF Publish, TypeOK, EchoInv, Registered
<1>12. ASSUME NEW b \in Bots, NEW t \in Topics, Join(b, t) PROVE EchoInv'
  BY <1>12, <1>0, UserOfAssumption DEF Join, TypeOK, EchoInv, Registered
<1>13. ASSUME NEW b \in Bots, NEW t \in Topics, Leave(b, t) PROVE EchoInv'
  BY <1>13, <1>0 DEF Leave, TypeOK, EchoInv, Registered
<1>14. ASSUME NEW b \in Bots, DeleteUser(b) PROVE EchoInv'
  BY <1>14, <1>0 DEF DeleteUser, TypeOK, EchoInv, Registered
<1>15. ASSUME NEW l \in Loads, AnswerUserTopics(l) PROVE EchoInv'
  BY <1>15 DEF AnswerUserTopics, EchoInv, Registered
<1>16. ASSUME NEW e \in Events, AnswerTopicMembers(e) PROVE EchoInv'
  BY <1>16, <1>0 DEF AnswerTopicMembers, TypeOK, EchoInv, Registered
<1> QED
  BY <1>1, <1>2, <1>3, <1>4, <1>5, <1>6, <1>7, <1>8, <1>9, <1>10, <1>11, <1>12,
     <1>13, <1>14, <1>15, <1>16
  DEF Next, BotsServiceStep, HandlerStep, ChatServerStep

LEMMA EmitOne ==
  ASSUME TypeOK, NEW e \in Events, NEW f \in Events, NEW bots, Emit(f, bots),
         NEW b \in Bots, emitted'[b] = Append(emitted[b], e)
  PROVE  e = f
<1>1. emitted[b] \in Seq(Events)
  BY DEF TypeOK
<1>2. emitted[b] # Append(emitted[b], e)
  BY <1>1
<1>3. Append(emitted[b], f) = Append(emitted[b], e)
  BY <1>2 DEF Emit
<1>4. Append(emitted[b], f)[Len(emitted[b]) + 1] = f
      /\ Append(emitted[b], e)[Len(emitted[b]) + 1] = e
  BY <1>1
<1> QED
  BY <1>3, <1>4

LEMMA NoEchoStep ==
  ASSUME MapsInv, EchoInv, [Next]_vars, NEW b \in Bots, NEW e \in Events, Echo(b, e)
  PROVE  row[b] # "present"
<1> USE DEF registry, loads, bus, chat
<1>0. TypeOK
  BY DEF MapsInv
<1>1. emitted' # emitted
  <2>1. emitted[b] \in Seq(Events)
    BY <1>0 DEF TypeOK
  <2>2. emitted[b] # Append(emitted[b], e)
    BY <2>1
  <2> QED
    BY <2>2 DEF Echo
<1>2. ASSUME NEW f \in Events, HandleMessage(f) PROVE row[b] # "present"
  <2>1. ~Filtered(f) /\ Emit(f, BotsIn(f))
    BY <1>1, <1>2 DEF HandleMessage
  <2>2. e = f
    BY <2>1, <1>0, EmitOne DEF Echo
  <2> QED
    BY <2>1, <2>2, UnfilteredSender DEF Echo
<1>3. ASSUME NEW f \in Events, ResolveBots(f) PROVE row[b] # "present"
  <2>1. e = f
    BY <1>3, <1>0, EmitOne DEF Echo, ResolveBots
  <2> QED
    BY <1>3, <2>1 DEF Echo, EchoInv, ResolveBots, AwaitingRpc
<1>4. ASSUME NEW f \in Events, HandleMessageDelete(f) PROVE row[b] # "present"
  <2>1. e = f
    BY <1>4, <1>0, EmitOne DEF Echo, HandleMessageDelete
  <2> QED
    BY <1>4, <2>1 DEF Echo, HandleMessageDelete
<1> QED
  BY <1>1, <1>2, <1>3, <1>4
  DEF Next, vars, BotsServiceStep, LoadStep, HandlerStep, ChatServerStep,
      CreateBot, ActivateRead, ActivateRegister, DeactivateUnregister,
      DeactivateDestroy, LoadBotTopics, LoadFails, ResolveFails, Publish, Join,
      Leave, DeleteUser, AnswerUserTopics, AnswerTopicMembers

(***************************************************************************)
(* No bot in service is ever sent the messages it wrote itself.            *)
(***************************************************************************)
THEOREM NeverEchoed == Spec => NoEchoInService
<1>1. Init => EchoInv
  BY UserOfAssumption, NoEntryAssumption, BoundsAssumption
  DEF Init, EchoInv, Registered, People, AwaitingRpc
<1>2. MapsInv /\ EchoInv /\ [Next]_vars =>
        [\A b \in Bots, e \in Events : Echo(b, e) => row[b] # "present"]_vars
  BY NoEchoStep
<1> QED
  BY <1>1, <1>2, InitMapsInv, NextMapsInv, NextEchoInv, PTL DEF Spec, NoEchoInService

-----------------------------------------------------------------------------
(* Order. Queues are taken from the front, and what was emitted is settled:*)
(* an event emitted at once has every earlier one of its queue behind it.  *)

QueueOrder ==
  \A e, f \in Events : e < f =>
    /\ phase[f] # "unpublished" => phase[e] # "unpublished"
    /\ event[e].kind = event[f].kind /\ phase[e] = "queued" /\ phase[f] # "unpublished"
         => phase[f] = "queued"

EmittedSettled ==
  \A b \in Bots : \A i \in 1..Len(emitted[b]) :
    phase[emitted[b][i]] \in {"sent", "resolved"}

OrderInv == QueueOrder /\ EmittedSettled /\ OvertakenOnlyWhenResolved

LEMMA NextQueueOrder == TypeOK /\ QueueOrder /\ [Next]_vars => QueueOrder'
<1> SUFFICES ASSUME TypeOK, QueueOrder, [Next]_vars PROVE QueueOrder'
  OBVIOUS
<1> USE DEF bus, QueueOrder, Events, TypeOK
<1>1. CASE UNCHANGED <<phase, event>>
  BY <1>1
<1>2. ASSUME NEW e \in Events, HandleMessage(e) PROVE QueueOrder'
  <2>1. PICK s : phase' = [phase EXCEPT ![e] = s] /\ s \notin {"unpublished", "queued"}
    BY <1>2 DEF HandleMessage
  <2>2. AtHead(e) /\ UNCHANGED event
    BY <1>2 DEF HandleMessage
  <2> QED
    BY <2>1, <2>2 DEF AtHead
<1>3. ASSUME NEW e \in Events,
             ResolveBots(e) \/ ResolveFails(e) \/ AnswerTopicMembers(e)
      PROVE  QueueOrder'
  <2>1. PICK s : phase' = [phase EXCEPT ![e] = s] /\ s \notin {"unpublished", "queued"}
    BY <1>3 DEF ResolveBots, ResolveFails, AnswerTopicMembers
  <2>2. phase[e] \in {"asking", "answered"} /\ UNCHANGED event
    BY <1>3 DEF ResolveBots, ResolveFails, MayFail, AwaitingRpc, AnswerTopicMembers
  <2> QED
    BY <2>1, <2>2
<1>4. ASSUME NEW e \in Events, HandleMessageDelete(e) PROVE QueueOrder'
  BY <1>4 DEF HandleMessageDelete, AtHead
<1>5. ASSUME NEW e \in Events, NEW m \in Published, Publish(e, m) PROVE QueueOrder'
  BY <1>5 DEF Publish
<1> QED
  BY <1>1, <1>2, <1>3, <1>4, <1>5
  DEF Next, vars, BotsServiceStep, LoadStep, HandlerStep, ChatServerStep,
      CreateBot, ActivateRead, ActivateRegister, DeactivateUnregister,
      DeactivateDestroy, LoadBotTopics, LoadFails, Join, Leave, DeleteUser,
      AnswerUserTopics

\* A step that emits nothing and settles or changes no settled event.
LEMMA NothingEmitted ==
  ASSUME TypeOK, OrderInv, UNCHANGED emitted,
         \A f \in Events : phase[f] \in Settled =>
           phase'[f] = phase[f] /\ event'[f] = event[f]
  PROVE  EmittedSettled' /\ OvertakenOnlyWhenResolved'
<1>1. \A b \in Bots : \A i \in 1..Len(emitted[b]) : emitted[b][i] \in Events
  BY DEF TypeOK
<1>2. \A b \in Bots : \A i \in 1..Len(emitted[b]) :
        LET f == emitted[b][i] IN phase'[f] = phase[f] /\ event'[f] = event[f]
  BY <1>1 DEF OrderInv, EmittedSettled, Settled
<1>3. EmittedSettled'
  BY <1>2 DEF OrderInv, EmittedSettled
<1>4. ASSUME NEW b \in Bots, NEW i \in 1..Len(emitted[b]), NEW j \in 1..Len(emitted[b]),
             i < j, Overtaken(b, i, j)'
      PROVE  phase'[emitted[b][j]] = "resolved"
  <2>1. Overtaken(b, i, j)
    BY <1>2, <1>4 DEF Overtaken
  <2> QED
    BY <1>2, <1>4, <2>1 DEF OrderInv, OvertakenOnlyWhenResolved
<1> QED
  BY <1>3, <1>4 DEF OvertakenOnlyWhenResolved

\* One event, e, is emitted and settled.
LEMMA EventEmitted ==
  ASSUME TypeOK, OrderInv, NEW e \in Events, NEW bots, Emit(e, bots),
         phase[e] \notin Settled, UNCHANGED event, NEW s,
         phase' = [phase EXCEPT ![e] = s],
         bots = {} \/ s \in {"sent", "resolved"},
         s = "sent" => \A f \in Events :
           event[f].kind = event[e].kind /\ phase[f] \in Settled => f < e
  PROVE  EmittedSettled' /\ OvertakenOnlyWhenResolved'
<1> USE DEF Settled
<1>1. \A b \in Bots : \A i \in 1..Len(emitted[b]) :
        /\ emitted[b][i] \in Events
        /\ phase[emitted[b][i]] \in {"sent", "resolved"}
        /\ phase'[emitted[b][i]] = phase[emitted[b][i]]
  BY DEF TypeOK, OrderInv, EmittedSettled
<1>2. \A b \in Bots : emitted[b] \in Seq(Events) /\ emitted'[b] \in Seq(Events)
  BY EmitType DEF TypeOK
<1>3. ASSUME NEW b \in Bots, b \notin bots
      PROVE  /\ emitted'[b] = emitted[b]
             /\ \A i \in 1..Len(emitted'[b]) :
                  phase'[emitted'[b][i]] \in {"sent", "resolved"}
             /\ \A i, j \in 1..Len(emitted'[b]) :
                  i < j /\ Overtaken(b, i, j)' => phase'[emitted'[b][j]] = "resolved"
  <2>1. emitted'[b] = emitted[b]
    BY <1>3 DEF Emit
  <2> QED
    BY <2>1, <1>1 DEF OrderInv, OvertakenOnlyWhenResolved, Overtaken
<1>4. ASSUME NEW b \in Bots, b \in bots
      PROVE  /\ \A i \in 1..Len(emitted'[b]) :
                  phase'[emitted'[b][i]] \in {"sent", "resolved"}
             /\ \A i, j \in 1..Len(emitted'[b]) :
                  i < j /\ Overtaken(b, i, j)' => phase'[emitted'[b][j]] = "resolved"
  <2> DEFINE n == Len(emitted[b])
  <2>1. emitted'[b] = Append(emitted[b], e) /\ phase'[e] = s /\ s \in {"sent", "resolved"}
    BY <1>4 DEF Emit, TypeOK
  <2>2. n \in Nat /\ Len(emitted'[b]) = n + 1 /\ emitted'[b][n + 1] = e
        /\ \A i \in 1..n : emitted'[b][i] = emitted[b][i]
    BY <2>1, <1>2
  <2>3. \A i \in 1..Len(emitted'[b]) : phase'[emitted'[b][i]] \in {"sent", "resolved"}
    BY <2>1, <2>2, <1>1
  <2>4. ASSUME NEW i \in 1..Len(emitted'[b]), NEW j \in 1..Len(emitted'[b]),
               i < j, Overtaken(b, i, j)'
        PROVE  phase'[emitted'[b][j]] = "resolved"
    <3>1. i \in 1..n
      BY <2>2, <2>4
    <3>2. CASE j \in 1..n
      <4>1. Overtaken(b, i, j)
        BY <2>2, <2>4, <3>1, <3>2 DEF Overtaken
      <4>2. phase[emitted[b][j]] = "resolved"
        BY <4>1, <3>1, <3>2, <2>4 DEF OrderInv, OvertakenOnlyWhenResolved
      <4> QED
        BY <4>2, <2>2, <3>2, <1>1
    <3>3. CASE j = n + 1
      <4>1. /\ e =< emitted[b][i]
            /\ event[e].kind = event[emitted[b][i]].kind
        BY <2>2, <2>4, <3>1, <3>3 DEF Overtaken
      <4>2. s # "sent"
        BY <4>1, <1>1, <3>1 DEF Events
      <4> QED
        BY <4>2, <2>1, <2>2, <3>3
    <3> QED
      BY <2>2, <3>2, <3>3
  <2> HIDE DEF n
  <2> QED
    BY <2>3, <2>4
<1>5. EmittedSettled'
  BY <1>3, <1>4 DEF EmittedSettled
<1>6. OvertakenOnlyWhenResolved'
  BY <1>3, <1>4 DEF OvertakenOnlyWhenResolved
<1> QED
  BY <1>5, <1>6

LEMMA NextOrderInv == TypeOK /\ OrderInv /\ [Next]_vars => OrderInv'
<1> SUFFICES ASSUME TypeOK, OrderInv, [Next]_vars
             PROVE  EmittedSettled' /\ OvertakenOnlyWhenResolved'
  BY NextQueueOrder DEF OrderInv
<1> USE DEF bus, Settled
<1>1. CASE UNCHANGED <<phase, event, emitted>>
  BY <1>1, NothingEmitted
<1>2. ASSUME NEW e \in Events, HandleMessage(e)
      PROVE  EmittedSettled' /\ OvertakenOnlyWhenResolved'
  <2>1. CASE UNCHANGED emitted
    BY <1>2, <2>1, NothingEmitted DEF HandleMessage, AtHead, TypeOK
  <2>2. CASE Emit(e, BotsIn(e)) /\ phase' = [phase EXCEPT ![e] = "sent"]
    <3>1. \A f \in Events :
            event[f].kind = event[e].kind /\ phase[f] \in Settled => f < e
      BY <1>2 DEF HandleMessage, AtHead, OrderInv, QueueOrder, Events
    <3> QED
      BY <1>2, <2>2, <3>1, EventEmitted DEF HandleMessage, AtHead
  <2> QED
    BY <1>2, <2>1, <2>2 DEF HandleMessage
<1>3. ASSUME NEW e \in Events, ResolveBots(e)
      PROVE  EmittedSettled' /\ OvertakenOnlyWhenResolved'
  BY <1>3, EventEmitted DEF ResolveBots
<1>4. ASSUME NEW e \in Events, HandleMessageDelete(e)
      PROVE  EmittedSettled' /\ OvertakenOnlyWhenResolved'
  <2>1. \A f \in Events :
          event[f].kind = event[e].kind /\ phase[f] \in Settled => f < e
    BY <1>4 DEF HandleMessageDelete, AtHead, OrderInv, QueueOrder, Events
  <2> QED
    BY <1>4, <2>1, EventEmitted DEF HandleMessageDelete, AtHead
<1>5. ASSUME NEW e \in Events, ResolveFails(e) \/ AnswerTopicMembers(e)
      PROVE  EmittedSettled' /\ OvertakenOnlyWhenResolved'
  BY <1>5, NothingEmitted
  DEF ResolveFails, MayFail, AwaitingRpc, AnswerTopicMembers, TypeOK
<1>6. ASSUME NEW e \in Events, NEW m \in Published, Publish(e, m)
      PROVE  EmittedSettled' /\ OvertakenOnlyWhenResolved'
  BY <1>6, NothingEmitted DEF Publish, TypeOK
<1> QED
  BY <1>1, <1>2, <1>3, <1>4, <1>5, <1>6
  DEF Next, vars, BotsServiceStep, LoadStep, HandlerStep, ChatServerStep,
      CreateBot, ActivateRead, ActivateRegister, DeactivateUnregister,
      DeactivateDestroy, LoadBotTopics, LoadFails, Join, Leave, DeleteUser,
      AnswerUserTopics

(***************************************************************************)
(* A bot receives the events of a topic and queue in order, except those   *)
(* that waited for a lazy resolution.                                      *)
(***************************************************************************)
THEOREM OrderKept == Spec => []OvertakenOnlyWhenResolved
<1>1. Init => OrderInv
  BY DEF Init, OrderInv, QueueOrder, EmittedSettled, OvertakenOnlyWhenResolved
<1>2. OrderInv => OvertakenOnlyWhenResolved
  BY DEF OrderInv
<1> QED
  BY <1>1, <1>2, InitTypeOK, NextTypeOK, NextOrderInv, PTL DEF Spec
=============================================================================
