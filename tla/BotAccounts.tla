---------------------------- MODULE BotAccounts -----------------------------
(***************************************************************************)
(* The life of a bot across the three places that know it: the bots table, *)
(* its user in chat_server, and the registry of ChatBridgeService. The     *)
(* calls of BotsService (create, update, regenerateToken, activate,        *)
(* deactivate) run concurrently; each changes the three one after the      *)
(* other, with an await in between, in no transaction. A query may throw;  *)
(* an RPC may too, before or after it had its effect, or be served later   *)
(* than it is waited for; and the process may restart.                     *)
(*                                                                         *)
(* Tokens are fresh random values, so a token is named by the call that    *)
(* generates it; so is the chat user that a call of createBot creates.     *)
(***************************************************************************)
EXTENDS Naturals

CONSTANTS
  Calls,      \* bound: the calls of a behaviour
  Usernames,
  MaxBots,    \* bound: rows ever inserted
  MaxFaults,  \* bound: awaits that throw
  NoUser,     \* no entry in the registry; a chat user not created
  NoName      \* username of nobody: deleted user, call without a username

ASSUME NamesAssumption == NoName \notin Usernames /\ NoUser \notin Calls \cup Usernames
ASSUME BoundsAssumption == MaxBots \in Nat /\ MaxFaults \in Nat

BotIds == 1..MaxBots
Tokens == Calls \X {"temp", "final"}
Row    == [user : Calls, name : Usernames, token : Tokens]

VARIABLES
  row,        \* the bots table: what was inserted last under each id
  life,       \* whether that row is still to come, stored, or destroyed
  chatUser,   \* chat_server: the nickname of each bot user
  registered, \* botChatUserMap
  kind,       \* what each call is
  pc,         \* what it waits for
  target,     \* the bot it is about (0: none yet)
  name,       \* the username it was given
  bot,        \* the model instance it holds, read from the table earlier
  pending,    \* the RPC it gave up on, still in the queue of chat_server
  troubled,   \* history: bots two calls overlapped on, or a call failed on
  faults      \* awaits that threw so far

table == <<row, life>>
call  == <<kind, target, name, bot, pending>>
vars  == <<table, chatUser, registered, call, pc, troubled, faults>>

Kinds == {"create", "update", "regenerate", "activate", "deactivate"}

Awaiting == {"finding", "checking", "creatingUser", "inserting", "settingToken",
             "tagging", "renamingUser", "savingName", "reloading", "leaving",
             "deletingUser", "unregistering", "destroying", "activating"}
Ended == {"done", "refused", "notFound", "failed"}
Requests == {"creatingUser", "renamingUser", "deletingUser"}

\* An instance not read yet.
NoRow == [user |-> NoUser, name |-> NoName, token |-> NoUser]

TypeOK ==
  /\ life \in [BotIds -> {"unborn", "stored", "gone"}]
  /\ row \in [BotIds -> Row \cup {NoRow}]
  /\ \A b \in BotIds : life[b] # "unborn" => row[b] \in Row
  /\ chatUser \in [Calls -> Usernames \cup {NoName, NoUser}]
  /\ registered \in [BotIds -> Calls \cup {NoUser}]
  /\ kind \in [Calls -> Kinds]
  /\ pc \in [Calls -> {"idle"} \cup Awaiting \cup Ended]
  /\ target \in [Calls -> BotIds \cup {0}]
  /\ name \in [Calls -> Usernames \cup {NoName}]
  /\ bot \in [Calls -> Row \cup {NoRow}]
  /\ pending \in [Calls -> {"nothing"} \cup Requests]
  /\ troubled \subseteq BotIds
  /\ faults \in 0..MaxFaults

Stored(b) == life[b] = "stored"
InFlight(c) == pc[c] \in Awaiting
About(c, b) == target[c] = b
Taken(u, b) == \E a \in BotIds \ {b} : Stored(a) /\ row[a].name = u

Go(c, to) == pc' = [pc EXCEPT ![c] = to]

-----------------------------------------------------------------------------
(* A call starts. A call about a bot that another one is about overlaps it.*)

Overlapped(c, b) ==
  IF \E d \in Calls \ {c} : InFlight(d) /\ About(d, b) THEN {b} ELSE {}

StartCreate(c, u) ==
  /\ pc[c] = "idle"
  /\ kind' = [kind EXCEPT ![c] = "create"]
  /\ name' = [name EXCEPT ![c] = u]
  /\ Go(c, "checking")
  /\ UNCHANGED <<table, chatUser, registered, target, bot, pending, troubled, faults>>

\* The owner knows the id of the bot from the moment its row is stored.
Start(c, k, b, u) ==
  /\ pc[c] = "idle"
  /\ k # "create"
  /\ life[b] # "unborn"
  /\ kind' = [kind EXCEPT ![c] = k]
  /\ name' = [name EXCEPT ![c] = IF k = "update" THEN u ELSE NoName]
  /\ target' = [target EXCEPT ![c] = b]
  /\ troubled' = troubled \cup Overlapped(c, b)
  /\ Go(c, "finding")
  /\ UNCHANGED <<table, chatUser, registered, bot, pending, faults>>

-----------------------------------------------------------------------------
(* Steps on the bots table                                                 *)

AfterFind(c) ==
  CASE kind[c] = "regenerate" -> "settingToken"
    [] kind[c] = "activate"   -> "activating"
    [] kind[c] = "deactivate" -> "leaving"
    [] kind[c] = "update"     ->
         IF name[c] # row[target[c]].name THEN "checking" ELSE "renamingUser"

FindOwnedBot(c) ==
  /\ pc[c] = "finding"
  /\ \/ /\ Stored(target[c])
        /\ bot' = [bot EXCEPT ![c] = row[target[c]]]
        /\ Go(c, AfterFind(c))
     \/ /\ ~Stored(target[c])
        /\ Go(c, "notFound")
        /\ UNCHANGED bot
  /\ UNCHANGED <<table, chatUser, registered, kind, target, name, pending, troubled, faults>>

CheckUsername(c) ==
  /\ pc[c] = "checking"
  /\ Go(c, IF Taken(name[c], target[c]) THEN "refused"
           ELSE IF kind[c] = "create" THEN "creatingUser" ELSE "renamingUser")
  /\ UNCHANGED <<table, chatUser, registered, call, troubled, faults>>

\* The columns of usernames and tokens are unique, the id is a sequence.
InsertBot(c, b) ==
  /\ pc[c] = "inserting"
  /\ life[b] = "unborn"
  /\ \A a \in BotIds : a < b => life[a] # "unborn"
  /\ ~Taken(name[c], b)
  /\ LET new == [user |-> c, name |-> name[c], token |-> <<c, "temp">>]
     IN /\ row' = [row EXCEPT ![b] = new]
        /\ bot' = [bot EXCEPT ![c] = new]
  /\ life' = [life EXCEPT ![b] = "stored"]
  /\ target' = [target EXCEPT ![c] = b]
  /\ Go(c, "settingToken")
  /\ UNCHANGED <<chatUser, registered, kind, name, pending, troubled, faults>>

\* bot.update of an instance writes the changed columns by id, and says
\* nothing when no row has it any more.
SetToken(c) ==
  /\ pc[c] = "settingToken"
  /\ row' = IF Stored(target[c]) THEN [row EXCEPT ![target[c]].token = <<c, "final">>]
                                 ELSE row
  /\ Go(c, IF kind[c] = "create" THEN "tagging" ELSE "done")
  /\ UNCHANGED <<life, chatUser, registered, call, troubled, faults>>

\* Mutant of SaveName: writes every column of the instance it holds.
SaveWholeInstance(c) ==
  /\ pc[c] = "savingName"
  /\ ~Taken(name[c], target[c])
  /\ row' = IF Stored(target[c])
            THEN [row EXCEPT ![target[c]] = [bot[c] EXCEPT !.name = name[c]]] ELSE row
  /\ Go(c, "reloading")
  /\ UNCHANGED <<life, chatUser, registered, call, troubled, faults>>

SaveName(c) ==
  /\ pc[c] = "savingName"
  /\ ~Taken(name[c], target[c])
  /\ row' = IF Stored(target[c]) THEN [row EXCEPT ![target[c]].name = name[c]] ELSE row
  /\ Go(c, "reloading")
  /\ UNCHANGED <<life, chatUser, registered, call, troubled, faults>>

\* The unique column refuses the username; chat_server has it already.
UniqueViolation(c) ==
  /\ pc[c] \in {"inserting", "savingName"}
  /\ Taken(name[c], target[c])
  /\ Go(c, "failed")
  /\ troubled' = troubled \cup ({target[c]} \cap BotIds)
  /\ UNCHANGED <<table, chatUser, registered, call, faults>>

Reload(c) ==
  /\ pc[c] = "reloading"
  /\ Go(c, IF Stored(target[c]) THEN "done" ELSE "failed")
  /\ UNCHANGED <<table, chatUser, registered, call, troubled, faults>>

Destroy(c) ==
  /\ pc[c] = "destroying"
  /\ life' = [life EXCEPT ![target[c]] = "gone"]
  /\ Go(c, "done")
  /\ UNCHANGED <<row, chatUser, registered, call, troubled, faults>>

-----------------------------------------------------------------------------
(* Steps in chat_server: an RPC has its effect, the answer lets the call   *)
(* go on. A user that was deleted is neither renamed nor deleted again.    *)

CreatesUser(c) == chatUser' = [chatUser EXCEPT ![c] = name[c]]

RenamesUser(c) ==
  chatUser' = IF chatUser[bot[c].user] = NoName THEN chatUser
              ELSE [chatUser EXCEPT ![bot[c].user] = name[c]]

DeletesUser(c) == chatUser' = [chatUser EXCEPT ![bot[c].user] = NoName]

CreateBotUser(c) ==
  /\ pc[c] = "creatingUser"
  /\ CreatesUser(c)
  /\ Go(c, "inserting")
  /\ UNCHANGED <<table, registered, call, troubled, faults>>

UpdateBotUser(c) ==
  /\ pc[c] = "renamingUser"
  /\ RenamesUser(c)
  /\ Go(c, IF name[c] # bot[c].name THEN "savingName" ELSE "reloading")
  /\ UNCHANGED <<table, registered, call, troubled, faults>>

\* Mutant of RemoveFromTopics: leaves the registry before the topics.
UnregisterEarly(c) ==
  /\ pc[c] = "leaving"
  /\ registered' = [registered EXCEPT ![target[c]] = NoUser]
  /\ Go(c, "deletingUser")
  /\ UNCHANGED <<table, chatUser, call, troubled, faults>>

\* One RPC per topic: all must answer ok (else the call fails, below).
RemoveFromTopics(c) ==
  /\ pc[c] = "leaving"
  /\ Go(c, "deletingUser")
  /\ UNCHANGED <<table, chatUser, registered, call, troubled, faults>>

\* Mutant of DeleteBotUser: the row goes before its user.
DestroyFirst(c) ==
  /\ pc[c] = "deletingUser"
  /\ life' = [life EXCEPT ![target[c]] = "gone"]
  /\ Go(c, "unregistering")
  /\ UNCHANGED <<row, chatUser, registered, call, troubled, faults>>

DeleteBotUser(c) ==
  /\ pc[c] = "deletingUser"
  /\ DeletesUser(c)
  /\ Go(c, "unregistering")
  /\ UNCHANGED <<table, registered, call, troubled, faults>>

-----------------------------------------------------------------------------
(* Steps on the registry                                                   *)

\* Mutant of Unregister: is given the id of the chat user, which is no key.
UnregisterNothing(c) ==
  /\ pc[c] = "unregistering"
  /\ Go(c, "destroying")
  /\ UNCHANGED <<table, chatUser, registered, call, troubled, faults>>

\* Mutant of Unregister: and ends, without the destroy.
UnregisterLast(c) ==
  /\ pc[c] = "unregistering"
  /\ registered' = [registered EXCEPT ![target[c]] = NoUser]
  /\ Go(c, "done")
  /\ UNCHANGED <<table, chatUser, call, troubled, faults>>

Unregister(c) ==
  /\ pc[c] = "unregistering"
  /\ registered' = [registered EXCEPT ![target[c]] = NoUser]
  /\ Go(c, "destroying")
  /\ UNCHANGED <<table, chatUser, call, troubled, faults>>

\* Mutant of Register: by name instead of by chat user.
RegisterName(c) ==
  /\ pc[c] \in {"tagging", "activating"}
  /\ registered' = [registered EXCEPT ![target[c]] = bot[c].name]
  /\ Go(c, "done")
  /\ UNCHANGED <<table, chatUser, call, troubled, faults>>

\* The last step of createBot, after updateBotUser tagged the user with the
\* id of its bot; and of activateBot, whose UPDATE changes no column.
Register(c) ==
  /\ pc[c] \in {"tagging", "activating"}
  /\ registered' = [registered EXCEPT ![target[c]] = bot[c].user]
  /\ Go(c, "done")
  /\ UNCHANGED <<table, chatUser, call, troubled, faults>>

-----------------------------------------------------------------------------
(* Failures                                                                *)

GaveUp(c) == IF pc[c] \in Requests THEN pc[c] ELSE "nothing"

\* A query or an RPC of the call throws: refused, timed out, or done and its
\* answer lost. Nothing is undone.
CallFails(c) ==
  /\ InFlight(c)
  /\ faults < MaxFaults
  /\ faults' = faults + 1
  /\ Go(c, "failed")
  /\ pending' = [pending EXCEPT ![c] = GaveUp(c)]
  /\ troubled' = troubled \cup ({target[c]} \cap BotIds)
  /\ UNCHANGED <<table, chatUser, registered, kind, target, name, bot>>

\* chat_server serves a request whose caller has given up.
ServedLate(c) ==
  /\ \/ pending[c] = "creatingUser" /\ CreatesUser(c)
     \/ pending[c] = "renamingUser" /\ RenamesUser(c)
     \/ pending[c] = "deletingUser" /\ DeletesUser(c)
  /\ pending' = [pending EXCEPT ![c] = "nothing"]
  /\ UNCHANGED <<table, registered, kind, target, name, bot, pc, troubled, faults>>

\* onModuleInit of the next process registers every row of the table.
Restart ==
  /\ faults < MaxFaults
  /\ faults' = faults + 1
  /\ pc' = [c \in Calls |-> IF InFlight(c) THEN "failed" ELSE pc[c]]
  /\ troubled' = troubled \cup {b \in BotIds : \E c \in Calls : InFlight(c) /\ About(c, b)}
  /\ pending' = [c \in Calls |-> IF InFlight(c) THEN GaveUp(c) ELSE pending[c]]
  /\ registered' = [b \in BotIds |-> IF Stored(b) THEN row[b].user ELSE NoUser]
  /\ UNCHANGED <<table, chatUser, kind, target, name, bot>>

-----------------------------------------------------------------------------
Init ==
  /\ row = [b \in BotIds |-> NoRow]
  /\ life = [b \in BotIds |-> "unborn"]
  /\ chatUser = [c \in Calls |-> NoUser]
  /\ registered = [b \in BotIds |-> NoUser]
  /\ kind = [c \in Calls |-> "create"]
  /\ pc = [c \in Calls |-> "idle"]
  /\ target = [c \in Calls |-> 0]
  /\ name = [c \in Calls |-> NoName]
  /\ bot = [c \in Calls |-> NoRow]
  /\ pending = [c \in Calls |-> "nothing"]
  /\ troubled = {}
  /\ faults = 0

StartStep ==
  \E c \in Calls, u \in Usernames :
    \/ StartCreate(c, u)
    \/ \E k \in Kinds, b \in BotIds : Start(c, k, b, u)

TableStep ==
  \E c \in Calls :
    \/ FindOwnedBot(c) \/ CheckUsername(c)
    \/ \E b \in BotIds : InsertBot(c, b)
    \/ SetToken(c) \/ SaveName(c) \/ UniqueViolation(c) \/ Reload(c) \/ Destroy(c)

ChatServerStep ==
  \E c \in Calls :
    CreateBotUser(c) \/ UpdateBotUser(c) \/ RemoveFromTopics(c) \/ DeleteBotUser(c)

RegistryStep == \E c \in Calls : Unregister(c) \/ Register(c)

FailureStep == Restart \/ \E c \in Calls : CallFails(c) \/ ServedLate(c)

Next == StartStep \/ TableStep \/ ChatServerStep \/ RegistryStep \/ FailureStep

Spec == Init /\ [][Next]_vars

-----------------------------------------------------------------------------
(* Properties                                                              *)

(***************************************************************************)
(* A bot on which no two calls overlapped and none failed is known alike   *)
(* in all three places once no call is running: registered, and named in   *)
(* chat_server as in the table, if its row is stored; unregistered if not. *)
(***************************************************************************)
Quiet(b) == b \notin troubled /\ \A c \in Calls : InFlight(c) => ~About(c, b)

QuietBotsConsistent ==
  \A b \in BotIds : Quiet(b) =>
    /\ Stored(b) => registered[b] = row[b].user /\ chatUser[row[b].user] = row[b].name
    /\ ~Stored(b) => registered[b] = NoUser

(***************************************************************************)
(* However calls overlap and fail, no bot user is left in chat_server      *)
(* without a row that leads to it, except by a createBot that failed.      *)
(***************************************************************************)
NoOrphanUsers ==
  \A u \in Calls : chatUser[u] \in Usernames =>
    \/ pc[u] \in {"inserting", "failed"}
    \/ \E b \in BotIds : Stored(b) /\ row[b].user = u

(***************************************************************************)
(* The row of a bot whose user was deleted is on its way out, or left over *)
(* by a deactivation that failed, for its owner to try again.              *)
(***************************************************************************)
HalfDeactivated ==
  \A b \in BotIds : Stored(b) /\ chatUser[row[b].user] = NoName =>
    \E c \in Calls : /\ kind[c] = "deactivate" /\ About(c, b)
                     /\ pc[c] \in {"unregistering", "destroying", "failed"}

(***************************************************************************)
(* A stored bot that gets no updates (it is not registered), or whose      *)
(* token was never told to anybody, is one whose createBot has not ended   *)
(* well, or whose deactivation had only its DELETE left.                   *)
(***************************************************************************)
OutOfService ==
  \A b \in BotIds : Stored(b) =>
    /\ row[b].token[2] = "temp" => pc[row[b].user] \in {"settingToken", "failed"}
    /\ registered[b] = NoUser =>
         \/ pc[row[b].user] \in {"settingToken", "tagging", "failed"}
         \/ \E c \in Calls : /\ kind[c] = "deactivate" /\ About(c, b)
                             /\ pc[c] \in {"destroying", "failed"}

(***************************************************************************)
(* No lost updates: calls hold instances read long ago, and still the      *)
(* token of a bot changes only to a new one and its name only by a rename. *)
(***************************************************************************)
LosesNothing(b) ==
  Stored(b) /\ Stored(b)' =>
    /\ row'[b].token # row[b].token =>
         \E c \in Calls : /\ pc[c] = "settingToken" /\ pc'[c] # pc[c] /\ About(c, b)
                          /\ row'[b].token = <<c, "final">>
    /\ row'[b].name # row[b].name =>
         \E c \in Calls : pc[c] = "savingName" /\ About(c, b) /\ row'[b].name = name[c]

NoLostUpdates == [][\A b \in BotIds : LosesNothing(b)]_vars

(***************************************************************************)
(* A bot that was deactivated can be activated again (doc/testing-manual,  *)
(* steps "deactivate", "activate", "API after reactivation").              *)
(***************************************************************************)
CanBeReactivated ==
  \A c \in Calls :
    kind[c] = "activate" /\ target[c] \notin troubled => pc[c] # "notFound"
=============================================================================
