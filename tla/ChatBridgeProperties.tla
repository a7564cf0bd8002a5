------------------------ MODULE ChatBridgeProperties ------------------------
(* What the registry and the dispatch of ChatBridge must guarantee.        *)
EXTENDS ChatBridge

(***************************************************************************)
(* The two maps between bots and chat users are each other's inverse,      *)
(* through every interleaving of createBot, activateBot and deactivateBot: *)
(* the sender filter reads one, sending a message reads the other.         *)
(***************************************************************************)
MapsInverse ==
  \A b \in Bots, u \in Users : botChatUserMap[b] = u <=> chatUserBotMap[u] = b

(***************************************************************************)
(* A bot is listed in a topic only if its user has at some time been in    *)
(* it: late, lost or concurrent answers of the two RPCs never invent a     *)
(* membership, and no other bot's answer is credited to it.                *)
(***************************************************************************)
RegistryJustified ==
  \A t \in Topics : \A b \in topicBotRegistry[t] : UserOf[b] \in beenIn[t]

(***************************************************************************)
(* A bot leaves the list of a topic only when it is unregistered, and a    *)
(* bot that is not registered enters one only by loadBotTopics, which      *)
(* does not look again after its await: lazy resolution, which does, never *)
(* revives a bot unregistered while it waited.                             *)
(***************************************************************************)
ChangeForCause(t, b) ==
  /\ b \in topicBotRegistry[t] \ topicBotRegistry'[t]
       => row[b] = "userDeleted" /\ botChatUserMap'[b] = NoUser
  /\ b \in topicBotRegistry'[t] \ topicBotRegistry[t] /\ ~Registered(b)
       => \E l \in Loads : l[1] = b /\ loadPc[l] = "answered" /\ loadPc'[l] = "idle"

RegistryChangesForCause ==
  [][\A t \in Topics, b \in Bots : ChangeForCause(t, b)]_vars

(***************************************************************************)
(* Order within a queue and topic: an event is emitted to a bot after a    *)
(* later one only if it was itself held back by a lazy resolution. A topic *)
(* whose bots are known keeps its order, whatever else is in flight.       *)
(***************************************************************************)
Overtaken(b, i, j) ==
  LET early == emitted[b][j]
      late  == emitted[b][i]
  IN /\ event[early].kind = event[late].kind
     /\ event[early].topic = event[late].topic
     /\ early =< late

OvertakenOnlyWhenResolved ==
  \A b \in Bots : \A i, j \in 1..Len(emitted[b]) :
    i < j /\ Overtaken(b, i, j) => phase[emitted[b][j]] = "resolved"

(***************************************************************************)
(* A bot in service never receives the messages it sent itself: the check  *)
(* of the sender precedes the await, and still no registration, lazy       *)
(* resolution or load that runs meanwhile leads to an echo. (An update of  *)
(* a bot being deactivated may: its sender is then unknown.)               *)
(***************************************************************************)
Echo(b, e) ==
  /\ emitted'[b] = Append(emitted[b], e)
  /\ event[e].sender = UserOf[b]
  /\ event[e].kind # "delete"

NoEchoInService ==
  [][\A b \in Bots, e \in Events : Echo(b, e) => row[b] # "present"]_vars

(***************************************************************************)
(* Every event handed to the queues is settled: no handler waits for ever, *)
(* on chat_server or on the other handlers that fill the prefetch window.  *)
(***************************************************************************)
EveryEventSettles ==
  []<>(\A e \in Events : phase[e] \in Settled \cup {"unpublished"})
=============================================================================
