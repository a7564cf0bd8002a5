----------------------------- MODULE ChatBridge -----------------------------
(***************************************************************************)
(* The in-memory bot registry of ChatBridgeService and the dispatch of     *)
(* chat events to bots (src/src/modules/chat-bridge/chat-bridge.service).  *)
(*                                                                         *)
(* One Node process consumes three durable queues (new, edited and deleted *)
(* messages). Its code runs to completion between awaits, so an action is  *)
(* the code between two awaits; the two RPCs the registry depends on       *)
(* (topics of a user, members of a topic) are a request, an answer taken   *)
(* by chat_server at some later moment, and the use of that answer.        *)
(*                                                                         *)
(* A behaviour starts when BotsService.onModuleInit has registered the     *)
(* active bots and its loadBotTopics calls are in flight: consumers start  *)
(* after that. Restarts are the subject of UpdatePipeline.                 *)
(***************************************************************************)
EXTENDS Naturals, FiniteSets, Sequences

CONSTANTS
  Bots,       \* ids of rows of the bots table
  Users,      \* chat_server users: people and the users behind bots
  UserOf,     \* bots.chat_user_id of each bot
  Topics,     \* chat topics
  Existing,   \* the active bots onModuleInit finds in the table
  Churning,   \* bound: the bots whose owners activate and deactivate them
  Published,  \* bound: the kinds of events chat_server may publish
  MaxEvents,  \* bound: how many events it publishes in a behaviour
  Prefetch,   \* unacknowledged deliveries the consumer may hold
  NoUser,     \* "no entry" of botChatUserMap
  NoBot,      \* "no entry" of chatUserBotMap
  NoEvent     \* "not published yet"

ASSUME UserOfAssumption ==
  /\ UserOf \in [Bots -> Users]
  /\ \A a, b \in Bots : UserOf[a] = UserOf[b] => a = b   \* unique column
ASSUME NoEntryAssumption == NoUser \notin Users /\ NoBot \notin Bots

Event == [kind : {"new", "edit", "delete"}, topic : Topics,
          sender : Users, isSystem : BOOLEAN]

ASSUME BoundsAssumption ==
  /\ Existing \subseteq Bots
  /\ Churning \subseteq Bots
  /\ Published \subseteq Event
  /\ MaxEvents \in Nat /\ Prefetch \in Nat \ {0}

Events == 1..MaxEvents
People == Users \ {UserOf[b] : b \in Bots}

\* The code paths that end in loadBotTopics.
Loads == Bots \X {"onModuleInit", "activateBot"}

VARIABLES
  topicBotRegistry, \* topic -> bots ({}: the Map has no such key)
  botChatUserMap,   \* bot -> chat user or NoUser
  chatUserBotMap,   \* chat user -> bot or NoBot
  row,              \* how far the life of a bot's database row has gone
  loadPc,           \* where each loadBotTopics call stands
  loadTopics,       \* the topics chat_server answered to it
  event,            \* what was published under each event number
  phase,            \* how far the handling of each event has gone
  answer,           \* members chat_server answered to a lazy resolution
  members,          \* chat_server: the users in each topic
  beenIn,           \* history: users who have ever been in each topic
  emitted           \* events emitted as 'bot.update' to each bot, in order

registry == <<topicBotRegistry, botChatUserMap, chatUserBotMap>>
loads    == <<loadPc, loadTopics>>
bus      == <<event, phase, answer, emitted>>
chat     == <<members, beenIn>>
vars     == <<registry, row, loads, bus, chat>>

\* Fates of an event: filtered out, emitted from the registry, emitted after
\* a lazy resolution, or dropped without reaching a bot.
Settled == {"filtered", "sent", "resolved", "dropped"}
AwaitingRpc == {"asking", "answered"}

TypeOK ==
  /\ topicBotRegistry \in [Topics -> SUBSET Bots]
  /\ botChatUserMap \in [Bots -> Users \cup {NoUser}]
  /\ chatUserBotMap \in [Users -> Bots \cup {NoBot}]
  /\ row \in [Bots -> {"none", "present", "userDeleted", "unregistered", "gone"}]
  /\ loadPc \in [Loads -> {"idle", "read", "asked", "answered"}]
  /\ loadTopics \in [Loads -> SUBSET Topics]
  /\ phase \in [Events -> {"unpublished", "queued"} \cup AwaitingRpc \cup Settled]
  /\ event \in [Events -> Event \cup {NoEvent}]
  /\ \A e \in Events : phase[e] # "unpublished" => event[e] \in Event
  /\ answer \in [Events -> SUBSET Users]
  /\ members \in [Topics -> SUBSET Users]
  /\ beenIn \in [Topics -> SUBSET Users]
  /\ emitted \in [Bots -> Seq(Events)]

-----------------------------------------------------------------------------
(* The registry                                                            *)

Registered(b) == botChatUserMap[b] # NoUser

\* mutant: the arguments of the two Map.set calls swapped
RegisterBotSwapped(b) ==
  /\ botChatUserMap' = [botChatUserMap EXCEPT ![b] = b]
  /\ chatUserBotMap' = [chatUserBotMap EXCEPT ![UserOf[b]] = UserOf[b]]

RegisterBot(b) ==
  /\ botChatUserMap' = [botChatUserMap EXCEPT ![b] = UserOf[b]]
  /\ chatUserBotMap' = [chatUserBotMap EXCEPT ![UserOf[b]] = b]

\* mutant: the forward entry is deleted before it is read
UnregisterForwardOnly(b) ==
  /\ botChatUserMap' = [botChatUserMap EXCEPT ![b] = NoUser]
  /\ topicBotRegistry' = [t \in Topics |-> topicBotRegistry[t] \ {b}]
  /\ UNCHANGED chatUserBotMap

UnregisterBot(b) ==
  /\ chatUserBotMap' =
       IF Registered(b) THEN [chatUserBotMap EXCEPT ![botChatUserMap[b]] = NoBot]
                        ELSE chatUserBotMap
  /\ botChatUserMap' = [botChatUserMap EXCEPT ![b] = NoUser]
  /\ topicBotRegistry' = [t \in Topics |-> topicBotRegistry[t] \ {b}]

RegisterBotsInTopic(bots, t) ==
  topicBotRegistry' = [topicBotRegistry EXCEPT ![t] = @ \cup bots]

-----------------------------------------------------------------------------
(* BotsService: the calls that create, activate and deactivate a bot. The  *)
(* RPC failures that end them early leave the registry alone.              *)

\* The end of createBot: the row exists and the bot is registered.
CreateBot(b) ==
  /\ row[b] = "none"
  /\ row' = [row EXCEPT ![b] = "present"]
  /\ RegisterBot(b)
  /\ UNCHANGED <<topicBotRegistry, loads, bus, chat>>

\* activateBot finds the row; deactivateBot may run before it goes on.
ActivateRead(b) ==
  /\ b \in Churning
  /\ row[b] \in {"present", "userDeleted", "unregistered"}
  /\ loadPc[<<b, "activateBot">>] = "idle"
  /\ loadPc' = [loadPc EXCEPT ![<<b, "activateBot">>] = "read"]
  /\ UNCHANGED <<registry, row, loadTopics, bus, chat>>

ActivateRegister(b) ==
  /\ loadPc[<<b, "activateBot">>] = "read"
  /\ RegisterBot(b)
  /\ loadPc' = [loadPc EXCEPT ![<<b, "activateBot">>] = "asked"]
  /\ UNCHANGED <<topicBotRegistry, row, loadTopics, bus, chat>>

\* deactivateBot, whose RPC deleted the chat user, in its last two steps.
DeactivateUnregister(b) ==
  /\ row[b] = "userDeleted"
  /\ UnregisterBot(b)
  /\ row' = [row EXCEPT ![b] = "unregistered"]
  /\ UNCHANGED <<loads, bus, chat>>

DeactivateDestroy(b) ==
  /\ row[b] = "unregistered"
  /\ row' = [row EXCEPT ![b] = "gone"]
  /\ UNCHANGED <<registry, loads, bus, chat>>

-----------------------------------------------------------------------------
(* loadBotTopics                                                           *)

LoadBotTopics(l) ==
  /\ loadPc[l] = "answered"
  /\ topicBotRegistry' = [t \in Topics |->
       topicBotRegistry[t] \cup (IF t \in loadTopics[l] THEN {l[1]} ELSE {})]
  /\ loadPc' = [loadPc EXCEPT ![l] = "idle"]
  /\ loadTopics' = [loadTopics EXCEPT ![l] = {}]
  /\ UNCHANGED <<botChatUserMap, chatUserBotMap, row, bus, chat>>

\* The RPC fails or times out; the error is logged and swallowed.
LoadFails(l) ==
  /\ loadPc[l] \in {"asked", "answered"}
  /\ loadPc' = [loadPc EXCEPT ![l] = "idle"]
  /\ loadTopics' = [loadTopics EXCEPT ![l] = {}]
  /\ UNCHANGED <<registry, row, bus, chat>>

-----------------------------------------------------------------------------
(* Handlers of chat events                                                 *)

\* Each queue is consumed in publication order.
AnyQueued(e) == phase[e] = "queued"   \* mutant: deliveries out of order

AtHead(e) ==
  /\ phase[e] = "queued"
  /\ \A f \in Events : f < e /\ phase[f] = "queued" => event[f].kind # event[e].kind

\* handleMessageNew is acknowledged when it returns, handleMessageEdit at once.
Unacknowledged == {e \in Events : phase[e] \in AwaitingRpc /\ event[e].kind = "new"}

Emit(e, bots) ==
  emitted' = [b \in Bots |->
    IF b \in bots THEN Append(emitted[b], e) ELSE emitted[b]]

FilteredSystemOnly(e) == event[e].isSystem   \* mutant: no sender check

Filtered(e) == event[e].isSystem \/ chatUserBotMap[event[e].sender] # NoBot

BotsIn(e) == topicBotRegistry[event[e].topic]

\* dispatchToBot up to its first await.
HandleMessage(e) ==
  /\ AtHead(e)
  /\ event[e].kind \in {"new", "edit"}
  /\ event[e].kind = "new" => Cardinality(Unacknowledged) < Prefetch
  /\ \/ /\ Filtered(e)
        /\ phase' = [phase EXCEPT ![e] = "filtered"]
        /\ UNCHANGED emitted
     \/ /\ ~Filtered(e)
        /\ BotsIn(e) # {}
        /\ Emit(e, BotsIn(e))
        /\ phase' = [phase EXCEPT ![e] = "sent"]
     \/ /\ ~Filtered(e)
        /\ BotsIn(e) = {}
        /\ \E u \in Users : chatUserBotMap[u] # NoBot
        /\ phase' = [phase EXCEPT ![e] = "asking"]
        /\ UNCHANGED emitted
     \/ /\ ~Filtered(e)
        /\ BotsIn(e) = {}
        /\ \A u \in Users : chatUserBotMap[u] = NoBot
        /\ phase' = [phase EXCEPT ![e] = "dropped"]
        /\ UNCHANGED emitted
  /\ UNCHANGED <<registry, row, loads, event, answer, chat>>

\* mutants: bots looked up as they were before the await; any known bot taken
FoundBeforeAwait(e) == {b \in Bots : UserOf[b] \in answer[e]}
FoundAnyKnown(e) == {b \in Bots : Registered(b)}

\* The members of the topic that are bots, by the map as it is after the await.
Found(e) == {chatUserBotMap[u] : u \in answer[e]} \ {NoBot}

\* resolveBotsInTopic and the rest of dispatchToBot, once the members are here.
ResolveBots(e) ==
  LET found == Found(e)
  IN /\ phase[e] = "answered"
     /\ RegisterBotsInTopic(found, event[e].topic)
     /\ Emit(e, BotsIn(e) \cup found)
     /\ phase' = [phase EXCEPT ![e] =
                    IF BotsIn(e) \cup found = {} THEN "dropped" ELSE "resolved"]
     /\ answer' = [answer EXCEPT ![e] = {}]
     /\ UNCHANGED <<botChatUserMap, chatUserBotMap, row, loads, event, chat>>

MayFailOnceAnswered(e) == phase[e] = "answered"   \* mutant: no timeout

\* amqp.request rejects on an error answer, or after its timeout.
MayFail(e) == phase[e] \in AwaitingRpc

\* The error is swallowed and the event acknowledged.
ResolveFails(e) ==
  /\ MayFail(e)
  /\ phase' = [phase EXCEPT ![e] = "dropped"]
  /\ answer' = [answer EXCEPT ![e] = {}]
  /\ UNCHANGED <<registry, row, loads, event, emitted, chat>>

\* Neither filtered nor resolved lazily.
HandleMessageDelete(e) ==
  /\ AtHead(e)
  /\ event[e].kind = "delete"
  /\ Emit(e, BotsIn(e))
  /\ phase' = [phase EXCEPT ![e] = IF BotsIn(e) = {} THEN "dropped" ELSE "sent"]
  /\ UNCHANGED <<registry, row, loads, event, answer, chat>>

-----------------------------------------------------------------------------
(* chat_server, as the code uses it: it publishes events, answers the two  *)
(* RPCs from its current membership and deletes the users of bots.         *)

Publish(e, m) ==
  /\ phase[e] = "unpublished"
  /\ \A f \in Events : f < e => phase[f] # "unpublished"
  /\ m.sender \in members[m.topic]
  /\ event' = [event EXCEPT ![e] = m]
  /\ phase' = [phase EXCEPT ![e] = "queued"]
  /\ UNCHANGED <<registry, row, loads, answer, emitted, chat>>

Join(b, t) ==
  /\ row[b] = "present"
  /\ members' = [members EXCEPT ![t] = @ \cup {UserOf[b]}]
  /\ beenIn' = [beenIn EXCEPT ![t] = @ \cup {UserOf[b]}]
  /\ UNCHANGED <<registry, row, loads, bus>>

Leave(b, t) ==
  /\ members' = [members EXCEPT ![t] = @ \ {UserOf[b]}]
  /\ UNCHANGED <<registry, row, loads, bus, beenIn>>

\* bot.delete_user, asked by deactivateBot; the user leaves every topic.
DeleteUser(b) ==
  /\ b \in Churning
  /\ row[b] = "present"
  /\ row' = [row EXCEPT ![b] = "userDeleted"]
  /\ members' = [t \in Topics |-> members[t] \ {UserOf[b]}]
  /\ UNCHANGED <<registry, loads, bus, beenIn>>

AnswerUserTopics(l) ==
  /\ loadPc[l] = "asked"
  /\ loadPc' = [loadPc EXCEPT ![l] = "answered"]
  /\ loadTopics' = [loadTopics EXCEPT ![l] =
                      {t \in Topics : UserOf[l[1]] \in members[t]}]
  /\ UNCHANGED <<registry, row, bus, chat>>

AnswerTopicMembers(e) ==
  /\ phase[e] = "asking"
  /\ phase' = [phase EXCEPT ![e] = "answered"]
  /\ answer' = [answer EXCEPT ![e] = members[event[e].topic]]
  /\ UNCHANGED <<registry, row, loads, event, emitted, chat>>

-----------------------------------------------------------------------------
Init ==
  /\ row = [b \in Bots |-> IF b \in Existing THEN "present" ELSE "none"]
  /\ botChatUserMap = [b \in Bots |-> IF b \in Existing THEN UserOf[b] ELSE NoUser]
  /\ chatUserBotMap = [u \in Users |->
       IF \E b \in Existing : UserOf[b] = u
       THEN CHOOSE b \in Existing : UserOf[b] = u ELSE NoBot]
  /\ topicBotRegistry = [t \in Topics |-> {}]
  /\ loadPc = [l \in Loads |->
       IF l[1] \in Existing /\ l[2] = "onModuleInit" THEN "asked" ELSE "idle"]
  /\ loadTopics = [l \in Loads |-> {}]
  /\ event = [e \in Events |-> NoEvent]
  /\ phase = [e \in Events |-> "unpublished"]
  /\ answer = [e \in Events |-> {}]
  /\ members = [t \in Topics |-> People]
  /\ beenIn = members
  /\ emitted = [b \in Bots |-> <<>>]

BotsServiceStep ==
  \E b \in Bots : \/ CreateBot(b)
                  \/ ActivateRead(b)
                  \/ ActivateRegister(b)
                  \/ DeactivateUnregister(b)
                  \/ DeactivateDestroy(b)

LoadStep == \E l \in Loads : LoadBotTopics(l) \/ LoadFails(l)

HandlerStep ==
  \E e \in Events : \/ HandleMessage(e)
                    \/ ResolveBots(e)
                    \/ ResolveFails(e)
                    \/ HandleMessageDelete(e)

ChatServerStep ==
  \/ \E e \in Events, m \in Published : Publish(e, m)
  \/ \E b \in Bots, t \in Topics : Join(b, t) \/ Leave(b, t)
  \/ \E b \in Bots : DeleteUser(b)
  \/ \E l \in Loads : AnswerUserTopics(l)
  \/ \E e \in Events : AnswerTopicMembers(e)

Next == BotsServiceStep \/ LoadStep \/ HandlerStep \/ ChatServerStep

\* A queued event is delivered to its handler, and an RPC settles: it is
\* answered or its ten-second timer fires. Nobody else must act.
Fairness ==
  \A e \in Events :
    /\ WF_vars(HandleMessage(e))
    /\ WF_vars(HandleMessageDelete(e))
    /\ WF_vars(ResolveBots(e) \/ ResolveFails(e))

Spec == Init /\ [][Next]_vars /\ Fairness
=============================================================================
