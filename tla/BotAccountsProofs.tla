-------------------------- MODULE BotAccountsProofs --------------------------
(***************************************************************************)
(* Proofs about the calls of BotsService and the requests of the Bot API,  *)
(* for any number of calls, bots, requests and faults.                     *)
(*                                                                         *)
(* First what every call may rely on: CallsInv says what it holds at each  *)
(* of its awaits, RowsInv who made a row and its token. Then the gateway:  *)
(* GatewayInv says what a request that was let in may rely on however much *)
(* has changed since. Last what the calls leave in the bots table, in      *)
(* chat_server and in the registry: StageInv says what a call is at each   *)
(* of its awaits, and what the RPC it gave up on can still do; UsersInv    *)
(* what has become of the chat users. A step is taken apart once, by what  *)
(* it does to a call, to a row and to a user; the invariants follow from   *)
(* these. UntroubledInv is about the bots on which no two calls met and    *)
(* none failed.                                                            *)
(***************************************************************************)
EXTENDS BotGateway, TLAPS

\* Awaits in which a call holds the instance of its bot.
Holding == {"settingToken", "tagging", "renamingUser", "savingName", "reloading",
            "leaving", "deletingUser", "unregistering", "destroying", "activating"}

CallInv(c) ==
  /\ pc[c] = "idle" => target[c] = 0
  /\ target[c] # 0 => life[target[c]] # "unborn"
  /\ pc[c] \in {"creatingUser", "inserting"} => kind[c] = "create"
  /\ kind[c] = "create" /\ pc[c] \in {"checking", "creatingUser", "inserting"} => target[c] = 0
  /\ kind[c] \in {"create", "update"} /\ pc[c] # "idle" => name[c] \in Usernames
  /\ pc[c] \in {"checking", "creatingUser", "inserting", "renamingUser", "savingName"} =>
       kind[c] \in {"create", "update"}
  /\ pc[c] = "finding" => kind[c] # "create" /\ target[c] # 0
  /\ pc[c] \in Holding \/ (pc[c] = "checking" /\ kind[c] # "create") =>
       /\ target[c] # 0
       /\ bot[c] \in Row
       /\ bot[c].user = row[target[c]].user

CallsInv == \A c \in Calls : CallInv(c)

RowInv(b) ==
  /\ life[b] # "unborn" => /\ target[row[b].user] = b
                           /\ target[row[b].token[1]] = b
                           /\ registered[b] \in {NoUser, row[b].user}
  /\ life[b] = "unborn" => registered[b] = NoUser

RowsInv == \A b \in BotIds : RowInv(b)

AccountsInv == TypeOK /\ CallsInv /\ RowsInv

\* TypeOK in three parts, each of which a few actions disturb.
TableOK ==
  /\ life \in [BotIds -> {"unborn", "stored", "gone"}]
  /\ row \in [BotIds -> Row \cup {NoRow}]
  /\ \A b \in BotIds : life[b] # "unborn" => row[b] \in Row

OutsideOK ==
  /\ chatUser \in [Calls -> Usernames \cup {NoName, NoUser}]
  /\ registered \in [BotIds -> Calls \cup {NoUser}]
  /\ troubled \subseteq BotIds
  /\ faults \in 0..MaxFaults

CallsOK ==
  /\ kind \in [Calls -> Kinds]
  /\ pc \in [Calls -> {"idle"} \cup Awaiting \cup Ended]
  /\ target \in [Calls -> BotIds \cup {0}]
  /\ name \in [Calls -> Usernames \cup {NoName}]
  /\ bot \in [Calls -> Row \cup {NoRow}]
  /\ pending \in [Calls -> {"nothing"} \cup Requests]

LEMMA TypeParts == TypeOK <=> TableOK /\ OutsideOK /\ CallsOK
BY DEF TypeOK, TableOK, OutsideOK, CallsOK

LEMMA NextTableOK == AccountsInv /\ [Next]_vars => TableOK'
<1> SUFFICES ASSUME AccountsInv, [Next]_vars PROVE TableOK'
  OBVIOUS
<1>1. TableOK /\ CallsOK /\ CallsInv
  BY TypeParts DEF AccountsInv
<1>2. ASSUME NEW c \in Calls, NEW b \in BotIds, InsertBot(c, b) PROVE TableOK'
  <2>1. name[c] \in Usernames
    BY <1>1, <1>2 DEF InsertBot, CallsInv, CallInv
  <2>2. [user |-> c, name |-> name[c], token |-> <<c, "temp">>] \in Row
    BY <2>1 DEF Row, Tokens
  <2> QED
    BY <1>1, <1>2, <2>2 DEF InsertBot, TableOK
<1>3. ASSUME NEW c \in Calls, SetToken(c) PROVE TableOK'
  <2>1. target[c] \in BotIds /\ (Stored(target[c]) => row[target[c]] \in Row)
    BY <1>1, <1>3 DEF SetToken, CallsInv, CallInv, Holding, CallsOK, TableOK, Stored
  <2>2. Stored(target[c]) => [row[target[c]] EXCEPT !.token = <<c, "final">>] \in Row
    BY <2>1 DEF Row, Tokens
  <2> QED
    BY <1>1, <1>3, <2>1, <2>2 DEF SetToken, TableOK
<1>4. ASSUME NEW c \in Calls, SaveName(c) PROVE TableOK'
  <2>1. target[c] \in BotIds /\ (Stored(target[c]) => row[target[c]] \in Row)
    BY <1>1, <1>4 DEF SaveName, CallsInv, CallInv, Holding, CallsOK, TableOK, Stored
  <2>2. name[c] \in Usernames
    BY <1>1, <1>4 DEF SaveName, CallsInv, CallInv
  <2>3. Stored(target[c]) => [row[target[c]] EXCEPT !.name = name[c]] \in Row
    BY <2>1, <2>2 DEF Row
  <2> QED
    BY <1>1, <1>4, <2>1, <2>3 DEF SaveName, TableOK
<1>5. ASSUME NEW c \in Calls, Destroy(c) PROVE TableOK'
  <2>1. target[c] \in BotIds /\ row[target[c]] \in Row
    BY <1>1, <1>5 DEF Destroy, CallsInv, CallInv, Holding, CallsOK, TableOK
  <2> QED
    BY <1>1, <1>5, <2>1 DEF Destroy, TableOK
<1>6. CASE UNCHANGED table
  BY <1>1, <1>6 DEF TableOK, table
<1> QED
  BY <1>2, <1>3, <1>4, <1>5, <1>6
  DEF Next, vars, StartStep, TableStep, ChatServerStep, RegistryStep, FailureStep,
      StartCreate, Start, FindOwnedBot, CheckUsername, UniqueViolation, Reload,
      CreateBotUser, UpdateBotUser, RemoveFromTopics, DeleteBotUser, Unregister,
      Register, CallFails, ServedLate, Restart

LEMMA NextOutsideOK == AccountsInv /\ [Next]_vars => OutsideOK'
<1> SUFFICES ASSUME AccountsInv, [Next]_vars PROVE OutsideOK'
  OBVIOUS
<1>1. TableOK /\ OutsideOK /\ CallsOK /\ CallsInv
  BY TypeParts DEF AccountsInv
<1>0. faults < MaxFaults => faults + 1 \in 0..MaxFaults
  BY <1>1, BoundsAssumption DEF OutsideOK
<1> USE DEF OutsideOK, CallsOK
<1>2. ASSUME NEW c \in Calls, NEW k \in Kinds, NEW b \in BotIds, NEW u \in Usernames,
             Start(c, k, b, u)
      PROVE  OutsideOK'
  BY <1>1, <1>2 DEF Start, Overlapped
<1>3. ASSUME NEW c \in Calls, CreateBotUser(c) \/ UpdateBotUser(c) \/ DeleteBotUser(c)
      PROVE  OutsideOK'
  BY <1>1, <1>3 DEF CreateBotUser, UpdateBotUser, DeleteBotUser, CreatesUser, RenamesUser,
                    DeletesUser
<1>4. ASSUME NEW c \in Calls, Unregister(c) PROVE OutsideOK'
  BY <1>1, <1>4 DEF Unregister
<1>5. ASSUME NEW c \in Calls, Register(c) PROVE OutsideOK'
  <2>1. bot[c].user \in Calls
    BY <1>1, <1>5 DEF Register, CallsInv, CallInv, Holding, Row
  <2> QED
    BY <1>1, <1>5, <2>1 DEF Register
<1>6. ASSUME NEW c \in Calls, UniqueViolation(c) PROVE OutsideOK'
  BY <1>1, <1>6 DEF UniqueViolation
<1>7. ASSUME NEW c \in Calls, CallFails(c) PROVE OutsideOK'
  BY <1>0, <1>1, <1>7 DEF CallFails
<1>8. ASSUME NEW c \in Calls, ServedLate(c) PROVE OutsideOK'
  BY <1>1, <1>8 DEF ServedLate, CreatesUser, RenamesUser, DeletesUser
<1>9. CASE Restart
  <2>1. \A b \in BotIds : Stored(b) => row[b].user \in Calls
    BY <1>1 DEF TableOK, Stored, Row
  <2> QED
    BY <1>0, <1>1, <1>9, <2>1 DEF Restart
<1>10. CASE UNCHANGED <<chatUser, registered, troubled, faults>>
  BY <1>1, <1>10
<1> HIDE DEF OutsideOK, CallsOK
<1> QED
  BY <1>2, <1>3, <1>4, <1>5, <1>6, <1>7, <1>8, <1>9, <1>10
  DEF Next, vars, StartStep, TableStep, ChatServerStep, RegistryStep, FailureStep,
      StartCreate, FindOwnedBot, CheckUsername, InsertBot, SetToken, SaveName, Reload,
      Destroy, RemoveFromTopics

LEMMA NextCallsOK == AccountsInv /\ [Next]_vars => CallsOK'
<1> SUFFICES ASSUME AccountsInv, [Next]_vars PROVE CallsOK'
  OBVIOUS
<1>1. TableOK /\ CallsOK /\ CallsInv
  BY TypeParts DEF AccountsInv
<1> USE DEF CallsOK, Go, Awaiting, Ended
<1>2. ASSUME NEW c \in Calls, NEW u \in Usernames, StartCreate(c, u) PROVE CallsOK'
  BY <1>1, <1>2 DEF StartCreate, Kinds
<1>3. ASSUME NEW c \in Calls, NEW k \in Kinds, NEW b \in BotIds, NEW u \in Usernames,
             Start(c, k, b, u)
      PROVE  CallsOK'
  BY <1>1, <1>3 DEF Start
<1>4. ASSUME NEW c \in Calls, FindOwnedBot(c) PROVE CallsOK'
  <2>1. kind[c] \in {"update", "regenerate", "activate", "deactivate"} /\ target[c] \in BotIds
    BY <1>1, <1>4 DEF FindOwnedBot, CallsInv, CallInv, Kinds
  <2>2. AfterFind(c) \in Awaiting
    BY <2>1 DEF AfterFind
  <2> HIDE DEF Awaiting
  <2>3. Stored(target[c]) => row[target[c]] \in Row
    BY <1>1, <2>1 DEF TableOK, Stored
  <2>4. bot' \in [Calls -> Row \cup {NoRow}]
    BY <1>1, <1>4, <2>1, <2>3 DEF FindOwnedBot
  <2> QED
    BY <1>1, <1>4, <2>2, <2>4 DEF FindOwnedBot
<1>5. ASSUME NEW c \in Calls, NEW b \in BotIds, InsertBot(c, b) PROVE CallsOK'
  <2>1. name[c] \in Usernames
    BY <1>1, <1>5 DEF InsertBot, CallsInv, CallInv
  <2>2. [user |-> c, name |-> name[c], token |-> <<c, "temp">>] \in Row
    BY <2>1 DEF Row, Tokens
  <2> QED
    BY <1>1, <1>5, <2>2 DEF InsertBot
<1>6. ASSUME NEW c \in Calls, CheckUsername(c) \/ SetToken(c) \/ SaveName(c) \/ UniqueViolation(c)
      PROVE  CallsOK'
  BY <1>1, <1>6 DEF CheckUsername, SetToken, SaveName, UniqueViolation, call
<1>7. ASSUME NEW c \in Calls, Reload(c) \/ Destroy(c) \/ Unregister(c) \/ Register(c)
      PROVE  CallsOK'
  BY <1>1, <1>7 DEF Reload, Destroy, Unregister, Register, call
<1>8. ASSUME NEW c \in Calls,
             CreateBotUser(c) \/ UpdateBotUser(c) \/ RemoveFromTopics(c) \/ DeleteBotUser(c)
      PROVE  CallsOK'
  BY <1>1, <1>8 DEF CreateBotUser, UpdateBotUser, RemoveFromTopics, DeleteBotUser, call
<1>9. \A c \in Calls : GaveUp(c) \in {"nothing"} \cup Requests
  BY DEF GaveUp
<1>10. ASSUME NEW c \in Calls, CallFails(c) \/ ServedLate(c) PROVE CallsOK'
  BY <1>1, <1>9, <1>10 DEF CallFails, ServedLate
<1>11. CASE Restart
  BY <1>1, <1>9, <1>11 DEF Restart
<1>12. CASE UNCHANGED vars
  BY <1>1, <1>12 DEF vars, call
<1> HIDE DEF CallsOK
<1> QED
  BY <1>2, <1>3, <1>4, <1>5, <1>6, <1>7, <1>8, <1>10, <1>11, <1>12
  DEF Next, StartStep, TableStep, ChatServerStep, RegistryStep, FailureStep

LEMMA NextCallsInv == AccountsInv /\ [Next]_vars => CallsInv'
<1> SUFFICES ASSUME AccountsInv, [Next]_vars PROVE CallsInv'
  OBVIOUS
<1> USE NamesAssumption, BoundsAssumption DEF AccountsInv, TypeOK, vars, table, call, Go, Stored, InFlight, Awaiting, Ended, Requests,
  CallsInv, CallInv, Holding, Row, BotIds, About, Kinds, Tokens
<1>1. ASSUME NEW c \in Calls, NEW u \in Usernames,
             StartCreate(c, u)
      PROVE  CallsInv'
  BY <1>1 DEF StartCreate
<1>2. ASSUME NEW c \in Calls, NEW k \in Kinds, NEW b \in BotIds, NEW u \in Usernames,
             Start(c, k, b, u)
      PROVE  CallsInv'
  BY <1>2 DEF Start, Overlapped
<1>3. ASSUME NEW c \in Calls,
             FindOwnedBot(c)
      PROVE  CallsInv'
  BY <1>3 DEF FindOwnedBot, AfterFind
<1>4. ASSUME NEW c \in Calls,
             CheckUsername(c)
      PROVE  CallsInv'
  BY <1>4 DEF CheckUsername
<1>5. ASSUME NEW c \in Calls, NEW b \in BotIds,
             InsertBot(c, b)
      PROVE  CallsInv'
  BY <1>5 DEF InsertBot
<1>6. ASSUME NEW c \in Calls,
             SetToken(c)
      PROVE  CallsInv'
  BY <1>6 DEF SetToken
<1>7. ASSUME NEW c \in Calls,
             SaveName(c)
      PROVE  CallsInv'
  BY <1>7 DEF SaveName
<1>8. ASSUME NEW c \in Calls,
             UniqueViolation(c) \/ Reload(c)
      PROVE  CallsInv'
  BY <1>8 DEF UniqueViolation, Reload
<1>9. ASSUME NEW c \in Calls,
             Destroy(c)
      PROVE  CallsInv'
  BY <1>9 DEF Destroy
<1>10. ASSUME NEW c \in Calls,
             CreateBotUser(c) \/ UpdateBotUser(c)
      PROVE  CallsInv'
  BY <1>10 DEF CreateBotUser, UpdateBotUser, CreatesUser, RenamesUser
<1>11. ASSUME NEW c \in Calls,
             RemoveFromTopics(c) \/ DeleteBotUser(c)
      PROVE  CallsInv'
  BY <1>11 DEF RemoveFromTopics, DeleteBotUser, DeletesUser
<1>12. ASSUME NEW c \in Calls,
             Unregister(c) \/ Register(c)
      PROVE  CallsInv'
  BY <1>12 DEF Unregister, Register
<1>13. ASSUME NEW c \in Calls,
             CallFails(c) \/ ServedLate(c)
      PROVE  CallsInv'
  BY <1>13 DEF CallFails, ServedLate, GaveUp, CreatesUser, RenamesUser, DeletesUser
<1>14. CASE Restart
  BY <1>14 DEF Restart, GaveUp
<1>15. CASE UNCHANGED vars
  BY <1>15
<1> HIDE DEF AccountsInv, TypeOK, CallsInv, CallInv
<1> QED
  BY <1>1, <1>2, <1>3, <1>4, <1>5, <1>6, <1>7, <1>8, <1>9, <1>10, <1>11, <1>12, <1>13, <1>14, <1>15
  DEF Next, StartStep, TableStep, ChatServerStep, RegistryStep, FailureStep

LEMMA NextRowsInv == AccountsInv /\ [Next]_vars => RowsInv'
<1> SUFFICES ASSUME AccountsInv, [Next]_vars PROVE RowsInv'
  OBVIOUS
<1> USE NamesAssumption, BoundsAssumption DEF AccountsInv, TypeOK, vars, table, call, Go, Stored, InFlight, Awaiting, Ended, Requests,
  CallsInv, CallInv, RowsInv, RowInv, Holding, Row, Tokens, BotIds, About, Kinds
<1>1. ASSUME NEW c \in Calls, NEW u \in Usernames,
             StartCreate(c, u)
      PROVE  RowsInv'
  BY <1>1 DEF StartCreate
<1>2. ASSUME NEW c \in Calls, NEW k \in Kinds, NEW b \in BotIds, NEW u \in Usernames,
             Start(c, k, b, u)
      PROVE  RowsInv'
  BY <1>2 DEF Start, Overlapped
<1>3. ASSUME NEW c \in Calls,
             FindOwnedBot(c)
      PROVE  RowsInv'
  BY <1>3 DEF FindOwnedBot, AfterFind
<1>4. ASSUME NEW c \in Calls,
             CheckUsername(c)
      PROVE  RowsInv'
  BY <1>4 DEF CheckUsername
<1>5. ASSUME NEW c \in Calls, NEW b \in BotIds,
             InsertBot(c, b)
      PROVE  RowsInv'
  BY <1>5 DEF InsertBot
<1>6. ASSUME NEW c \in Calls,
             SetToken(c)
      PROVE  RowsInv'
  BY <1>6 DEF SetToken
<1>7. ASSUME NEW c \in Calls,
             SaveName(c)
      PROVE  RowsInv'
  BY <1>7 DEF SaveName
<1>8. ASSUME NEW c \in Calls,
             UniqueViolation(c) \/ Reload(c)
      PROVE  RowsInv'
  BY <1>8 DEF UniqueViolation, Reload
<1>9. ASSUME NEW c \in Calls,
             Destroy(c)
      PROVE  RowsInv'
  BY <1>9 DEF Destroy
<1>10. ASSUME NEW c \in Calls,
             CreateBotUser(c) \/ UpdateBotUser(c)
      PROVE  RowsInv'
  BY <1>10 DEF CreateBotUser, UpdateBotUser, CreatesUser, RenamesUser
<1>11. ASSUME NEW c \in Calls,
             RemoveFromTopics(c) \/ DeleteBotUser(c)
      PROVE  RowsInv'
  BY <1>11 DEF RemoveFromTopics, DeleteBotUser, DeletesUser
<1>12. ASSUME NEW c \in Calls,
             Unregister(c) \/ Register(c)
      PROVE  RowsInv'
  BY <1>12 DEF Unregister, Register
<1>13. ASSUME NEW c \in Calls,
             CallFails(c) \/ ServedLate(c)
      PROVE  RowsInv'
  BY <1>13 DEF CallFails, ServedLate, GaveUp, CreatesUser, RenamesUser, DeletesUser
<1>14. CASE Restart
  BY <1>14 DEF Restart, GaveUp
<1>15. CASE UNCHANGED vars
  BY <1>15
<1> HIDE DEF AccountsInv, TypeOK, CallsInv, CallInv, RowsInv, RowInv
<1> QED
  BY <1>1, <1>2, <1>3, <1>4, <1>5, <1>6, <1>7, <1>8, <1>9, <1>10, <1>11, <1>12, <1>13, <1>14, <1>15
  DEF Next, StartStep, TableStep, ChatServerStep, RegistryStep, FailureStep

LEMMA AccountsInductive == AccountsInv /\ [Next]_vars => AccountsInv'
BY NextTableOK, NextOutsideOK, NextCallsOK, NextCallsInv, NextRowsInv, TypeParts
DEF AccountsInv, TypeOK, TableOK, OutsideOK, CallsOK

-----------------------------------------------------------------------------
(* What a step leaves of the past: a call that is done stays as it is, the *)
(* user of a row never changes, and a token that its call is done with     *)
(* does not come into force again.                                         *)

LEMMA DoneStays ==
  AccountsInv /\ [Next]_vars =>
    \A c \in Calls : pc[c] = "done" => pc'[c] = "done" /\ target'[c] = target[c]
<1> SUFFICES ASSUME AccountsInv, [Next]_vars
             PROVE  \A c \in Calls : pc[c] = "done" => pc'[c] = "done" /\ target'[c] = target[c]
  OBVIOUS
<1>1. CallsOK
  BY TypeParts DEF AccountsInv
<1> USE DEF CallsOK, Go, call
<1>2. CASE StartStep
  BY <1>1, <1>2 DEF StartStep, StartCreate, Start
<1>3. CASE TableStep
  BY <1>1, <1>3 DEF TableStep, FindOwnedBot, CheckUsername, InsertBot, SetToken, SaveName,
                    UniqueViolation, Reload, Destroy
<1>4. CASE ChatServerStep \/ RegistryStep
  BY <1>1, <1>4 DEF ChatServerStep, CreateBotUser, UpdateBotUser, RemoveFromTopics,
                    DeleteBotUser, RegistryStep, Unregister, Register
<1>5. CASE FailureStep
  BY <1>1, <1>5 DEF FailureStep, CallFails, ServedLate, Restart, InFlight, Awaiting
<1>6. CASE UNCHANGED vars
  BY <1>6 DEF vars
<1> QED
  BY <1>2, <1>3, <1>4, <1>5, <1>6 DEF Next

RowsStay ==
  \A b \in BotIds :
    /\ life[b] # "unborn" => life'[b] # "unborn" /\ row'[b].user = row[b].user
    /\ \A c \in Calls : pc[c] = "done" /\ InForce(b, c)' => InForce(b, c)

LEMMA RowsStayed == AccountsInv /\ [Next]_vars => RowsStay
<1> SUFFICES ASSUME AccountsInv, [Next]_vars PROVE RowsStay
  OBVIOUS
<1>1. TableOK /\ CallsOK /\ CallsInv
  BY TypeParts DEF AccountsInv
<1> USE DEF RowsStay, InForce, Stored, Row
<1>2. ASSUME NEW d \in Calls, NEW a \in BotIds, InsertBot(d, a) PROVE RowsStay
  BY <1>1, <1>2 DEF InsertBot, TableOK
<1>3. ASSUME NEW d \in Calls, SetToken(d) PROVE RowsStay
  <2>1. target[d] \in BotIds
    BY <1>1, <1>3 DEF SetToken, CallsInv, CallInv, Holding, CallsOK
  <2> QED
    BY <1>1, <1>3, <2>1 DEF SetToken, TableOK
<1>4. ASSUME NEW d \in Calls, SaveName(d) PROVE RowsStay
  BY <1>1, <1>4 DEF SaveName, TableOK
<1>5. ASSUME NEW d \in Calls, Destroy(d) PROVE RowsStay
  BY <1>1, <1>5 DEF Destroy, TableOK
<1>6. CASE UNCHANGED table
  BY <1>6 DEF table
<1> HIDE DEF RowsStay
<1> QED
  BY <1>2, <1>3, <1>4, <1>5, <1>6
  DEF Next, vars, StartStep, TableStep, ChatServerStep, RegistryStep, FailureStep,
      StartCreate, Start, FindOwnedBot, CheckUsername, UniqueViolation, Reload,
      CreateBotUser, UpdateBotUser, RemoveFromTopics, DeleteBotUser, Unregister,
      Register, CallFails, ServedLate, Restart

-----------------------------------------------------------------------------
(* Requests. What a request relies on is of its token and of the row of    *)
(* its bot: both are among what a step leaves of the past.                 *)

Fields(q) ==
  /\ q.phase = "idle" => q.bot = 0 /\ q.rpc = "none"
  /\ q.phase # "idle" => q.token \in Calls
  /\ q.phase \in {"calling", "writing", "forwarded"} => q.bot # 0
  /\ q.bot = 0 => q.sender = NoUser /\ q.rpc = "none"
  /\ q.rpc # "none" => q.sender # NoUser

Past(q) ==
  /\ q.phase # "idle" => pc[q.token] = "done"
  /\ q.phase # "idle" /\ q.stale => \A b \in BotIds : ~InForce(b, q.token)
  /\ q.bot # 0 => /\ ~q.stale
                  /\ life[q.bot] # "unborn"
                  /\ q.bot = target[q.token]
                  /\ q.user = row[q.bot].user
                  /\ q.sender \in {NoUser, row[q.bot].user}

RequestsInv == \A r \in HttpRequests : Fields(request[r]) /\ Past(request[r])

WritesInv == \A b \in BotIds : settings[b] # Nobody => request[settings[b]].bot = b

PostsInv ==
  \A p \in posts : request[p[1]].bot # 0 /\ p[2] = row[request[p[1]].bot].user

GatewayInv == GatewayTypeOK /\ RequestsInv /\ WritesInv /\ PostsInv

LEMMA PastStays ==
  ASSUME AccountsInv, [Next]_vars, NEW q \in Request, Fields(q), Past(q)
  PROVE  Past(q)'
<1>1. \A c \in Calls : pc[c] = "done" => pc'[c] = "done" /\ target'[c] = target[c]
  BY DoneStays
<1>2. RowsStay
  BY RowsStayed
<1>3. q.bot \in BotIds \cup {0} /\ (q.phase # "idle" => q.token \in Calls) /\ (q.bot # 0 => q.phase # "idle")
  BY DEF Request, Fields
<1> QED
  BY <1>1, <1>2, <1>3 DEF Past, RowsStay

LEMMA CallStepKeeps ==
  ASSUME AccountsInv, GatewayInv, [Next]_vars,
         \/ UNCHANGED gateway
         \/ RequestsEnd
  PROVE  GatewayInv'
<1>1. AccountsInv'
  BY AccountsInductive
<1>2. RowsStay
  BY RowsStayed
<1>3. /\ request \in [HttpRequests -> Request] /\ settings' = settings /\ posts' = posts
      /\ settings \in [BotIds -> HttpRequests \cup {Nobody}] /\ posts \subseteq HttpRequests \X Calls
  BY DEF GatewayInv, GatewayTypeOK, gateway, RequestsEnd
<1>4. ASSUME NEW r \in HttpRequests
      PROVE  /\ request'[r] \in Request
             /\ request'[r].bot = request[r].bot
             /\ Fields(request[r])'
             /\ Past(request[r])'
  <2>1. request[r] \in Request /\ Fields(request[r]) /\ Past(request[r])
    BY <1>3 DEF GatewayInv, RequestsInv
  <2> DEFINE q == request[r]
  <2>2. ASSUME NEW p \in Request, p = q PROVE Past(p)'
    BY <2>1, <2>2, PastStays
  <2>3. CASE request'[r] = q
    BY <2>1, <2>2, <2>3 DEF Fields, Past
  <2>4. CASE q.phase \in Running /\ request'[r] = [q EXCEPT !.phase = "error"]
    <3>1. /\ request'[r] \in Request /\ request'[r].bot = q.bot /\ request'[r].stale = q.stale
          /\ request'[r].token = q.token /\ request'[r].user = q.user /\ request'[r].rpc = q.rpc
          /\ request'[r].sender = q.sender /\ request'[r].phase = "error" /\ q.phase # "idle"
      BY <2>1, <2>4 DEF Request, Running, Answered
    <3> QED
      BY <2>1, <2>2, <3>1 DEF Fields, Past
  <2> QED
    BY <1>3, <2>3, <2>4 DEF RequestsEnd, gateway
<1>5. RequestsInv' /\ request' \in [HttpRequests -> Request]
  <2>1. \E f : request' = [r \in HttpRequests |-> f[r]]
    BY <1>3 DEF RequestsEnd, gateway
  <2> QED
    BY <1>4, <2>1 DEF RequestsInv
<1>6. WritesInv'
  BY <1>3, <1>4 DEF WritesInv, GatewayInv
<1>7. PostsInv'
  <2> SUFFICES ASSUME NEW p \in posts
               PROVE  request'[p[1]].bot # 0 /\ p[2] = row'[request'[p[1]].bot].user
    BY <1>3 DEF PostsInv
  <2>1. p[1] \in HttpRequests /\ request[p[1]].bot # 0 /\ p[2] = row[request[p[1]].bot].user
    BY <1>3 DEF PostsInv, GatewayInv
  <2>2. request[p[1]].bot \in BotIds /\ life[request[p[1]].bot] # "unborn"
    BY <1>3, <2>1 DEF GatewayInv, RequestsInv, Past, Request
  <2> QED
    BY <1>2, <1>4, <2>1, <2>2 DEF RowsStay
<1> QED
  BY <1>1, <1>3, <1>5, <1>6, <1>7 DEF GatewayInv, GatewayTypeOK, AccountsInv

-----------------------------------------------------------------------------
(* A step of a request: the accounts stay, other requests do too. It is    *)
(* enough to look at the new state of the one request.                     *)

LEMMA OneRequest ==
  ASSUME AccountsInv, GatewayInv, UNCHANGED vars, NEW r \in HttpRequests, NEW q \in Request,
         request' = [request EXCEPT ![r] = q],
         Fields(q), Past(q), request[r].bot # 0 => q.bot = request[r].bot,
         \/ UNCHANGED settings
         \/ /\ q.bot # 0
            /\ settings' = [settings EXCEPT ![q.bot] = r],
         \/ UNCHANGED posts
         \/ /\ q.bot # 0 /\ q.sender \in Calls
            /\ posts' = posts \cup {<<r, q.sender>>}
  PROVE  GatewayInv'
<1>1. /\ request \in [HttpRequests -> Request] /\ settings \in [BotIds -> HttpRequests \cup {Nobody}]
      /\ posts \subseteq HttpRequests \X Calls
  BY DEF GatewayInv, GatewayTypeOK
<1>2. request' \in [HttpRequests -> Request] /\ request'[r] = q
      /\ \A p \in HttpRequests \ {r} : request'[p] = request[p]
  BY <1>1
<1>3. TypeOK'
  BY DEF AccountsInv, TypeOK, vars, table, call
<1>4. RequestsInv'
  <2>1. \A p \in Request : Past(p) => Past(p)'
    BY DEF Past, InForce, Stored, vars, table, call
  <2> QED
    BY <1>1, <1>2, <2>1 DEF GatewayInv, RequestsInv
<1>5. \A p \in HttpRequests : request[p].bot # 0 => request'[p].bot = request[p].bot
  BY <1>2
<1>6. settings' \in [BotIds -> HttpRequests \cup {Nobody}] /\ WritesInv'
  <2>1. CASE UNCHANGED settings
    <3>1. \A b \in BotIds : settings[b] # Nobody => request'[settings[b]].bot = b
      <4>1. \A b \in BotIds : b # 0
        BY DEF BotIds
      <4> QED
        BY <1>1, <1>5, <4>1 DEF GatewayInv, WritesInv
    <3> QED
      BY <1>1, <2>1, <3>1 DEF WritesInv
  <2>2. CASE q.bot # 0 /\ settings' = [settings EXCEPT ![q.bot] = r]
    <3>1. q.bot \in BotIds
      BY <2>2 DEF Request
    <3>2. \A b \in BotIds : b # 0
      BY DEF BotIds
    <3> QED
      BY <1>1, <1>2, <1>5, <2>2, <3>1, <3>2 DEF GatewayInv, WritesInv
  <2> QED
    BY <2>1, <2>2
<1>7. posts' \subseteq HttpRequests \X Calls /\ PostsInv'
  <2>1. row' = row
    BY DEF vars, table
  <2>2. \A p \in posts : request'[p[1]].bot # 0 /\ p[2] = row'[request'[p[1]].bot].user
    BY <1>1, <1>5, <2>1 DEF GatewayInv, PostsInv
  <2>3. CASE UNCHANGED posts
    BY <1>1, <2>2, <2>3 DEF PostsInv
  <2>4. CASE q.bot # 0 /\ q.sender \in Calls /\ posts' = posts \cup {<<r, q.sender>>}
    <3>1. q.sender = row'[q.bot].user
      BY <2>1, <2>4, NamesAssumption DEF Past
    <3> QED
      BY <1>1, <1>2, <2>2, <2>4, <3>1 DEF PostsInv
  <2> QED
    BY <2>3, <2>4
<1> QED
  BY <1>2, <1>3, <1>4, <1>6, <1>7 DEF GatewayInv, GatewayTypeOK

LEMMA RequestStepKeeps ==
  ASSUME AccountsInv, GatewayInv, UNCHANGED vars, NEW r \in HttpRequests
  PROVE  /\ \A c \in Calls, m \in Methods : Ask(r, c, m) => GatewayInv'
         /\ VerifyToken(r) => GatewayInv'
         /\ Send(r) \/ Look(r) => GatewayInv'
         /\ Check(r) \/ Answer(r) \/ RequestFails(r) => GatewayInv'
         /\ Write(r) => GatewayInv'
         /\ Serve(r) => GatewayInv'
<1> DEFINE o == request[r]
<1>1. o \in Request /\ Fields(o) /\ Past(o) /\ request \in [HttpRequests -> Request]
  BY DEF GatewayInv, GatewayTypeOK, RequestsInv
<1> USE DEF Request, Running, Answered
<1>2. ASSUME NEW c \in Calls, NEW m \in Methods, Ask(r, c, m) PROVE GatewayInv'
  <2> DEFINE q == [o EXCEPT !.phase = "verifying", !.method = m, !.token = c,
                            !.stale = ~InForce(target[c], c)]
  <2>1. request' = [request EXCEPT ![r] = q]
    BY <1>2 DEF Ask
  <2>2. q \in Request /\ q.bot = o.bot /\ Fields(q)
    BY <1>1, <1>2 DEF Ask, Fields
  <2>3. \A b \in BotIds : InForce(b, c) => target[c] = b
    BY DEF InForce, Stored, AccountsInv, RowsInv, RowInv
  <2>4. Past(q)
    BY <1>1, <1>2, <2>3 DEF Ask, Past, Fields
  <2> QED
    BY <1>2, <2>1, <2>2, <2>4, OneRequest DEF Ask
<1>3. ASSUME VerifyToken(r) PROVE GatewayInv'
  <2>1. ASSUME NEW b \in BotIds, TokenOf(b, o.token),
               request' = [request EXCEPT ![r].phase = "calling",
                             ![r].bot = b, ![r].user = row[b].user]
        PROVE  GatewayInv'
    <3> DEFINE q == [o EXCEPT !.phase = "calling", !.bot = b, !.user = row[b].user]
    <3>1. request' = [request EXCEPT ![r] = q]
      BY <2>1
    <3>2. o.token \in Calls /\ o.phase = "verifying" /\ pc[o.token] = "done" /\ InForce(b, o.token)
      BY <1>1, <1>3, <2>1 DEF VerifyToken, Fields, Past, TokenOf
    <3>3. row[b].user \in Calls /\ b # 0 /\ life[b] # "unborn"
      BY <3>2 DEF InForce, Stored, AccountsInv, TypeOK, Row, BotIds
    <3>4. target[o.token] = b
      BY <3>2 DEF InForce, Stored, AccountsInv, RowsInv, RowInv
    <3>5. o.bot # 0 => o.bot = b
      BY <1>1, <3>4 DEF Past
    <3>6. q \in Request /\ Fields(q)
      BY <1>1, <3>2, <3>3 DEF Fields
    <3>7. ~o.stale /\ o.sender \in {NoUser, row[b].user}
      BY <1>1, <3>2, <3>5 DEF Past, Fields
    <3>8. Past(q)
      BY <1>1, <3>2, <3>3, <3>4, <3>7 DEF Past
    <3> QED
      BY <1>3, <3>1, <3>5, <3>6, <3>8, OneRequest DEF VerifyToken
  <2>2. CASE End(r, "unauthorized")
    <3> DEFINE q == [o EXCEPT !.phase = "unauthorized"]
    <3>1. request' = [request EXCEPT ![r] = q] /\ o.phase = "verifying"
      BY <1>3, <2>2 DEF End, VerifyToken
    <3>2. q \in Request /\ q.bot = o.bot /\ Fields(q) /\ Past(q)
      BY <1>1, <3>1 DEF Fields, Past
    <3> QED
      BY <1>3, <3>1, <3>2, OneRequest DEF VerifyToken
  <2> QED
    BY <1>3, <2>1, <2>2 DEF VerifyToken
<1>4. ASSUME NEW u \in Calls, o.phase = "calling", u = row[o.bot].user, Forward(r, u),
             UNCHANGED <<settings, posts>>
      PROVE  GatewayInv'
  <2> DEFINE q == [o EXCEPT !.phase = "forwarded", !.sender = u, !.rpc = "queued"]
  <2>1. request' = [request EXCEPT ![r] = q]
    BY <1>4 DEF Forward
  <2>2. q \in Request /\ q.bot = o.bot /\ Fields(q) /\ Past(q)
    BY <1>1, <1>4, NamesAssumption DEF Fields, Past
  <2> QED
    BY <1>4, <2>1, <2>2, OneRequest
<1>5. ASSUME NEW how \in Running \cup Answered, End(r, how), o.phase \in Running,
             how \in {"calling", "writing", "forwarded"} => o.bot # 0,
             UNCHANGED <<settings, posts>>
      PROVE  GatewayInv'
  <2> DEFINE q == [o EXCEPT !.phase = how]
  <2>1. request' = [request EXCEPT ![r] = q]
    BY <1>5 DEF End
  <2>2. q \in Request /\ q.bot = o.bot /\ Fields(q) /\ Past(q)
    BY <1>1, <1>5 DEF Fields, Past
  <2> QED
    BY <1>5, <2>1, <2>2, OneRequest
<1>6. ASSUME Send(r) \/ Look(r) PROVE GatewayInv'
  <2>1. o.phase = "calling" /\ o.bot \in BotIds /\ life[o.bot] # "unborn" /\ o.user = row[o.bot].user
    BY <1>1, <1>6 DEF Send, Look, Fields, Past
  <2>2. row[o.bot].user \in Calls /\ registered[o.bot] \in {NoUser, row[o.bot].user}
    BY <2>1 DEF AccountsInv, TypeOK, Row, RowsInv, RowInv
  <2>3. CASE End(r, "error")
    BY <1>5, <1>6, <2>1, <2>3 DEF Send, Look
  <2>4. CASE Forward(r, row[o.bot].user)
    BY <1>4, <1>6, <2>1, <2>2, <2>4 DEF Send, Look
  <2> QED
    BY <1>6, <2>1, <2>2, <2>3, <2>4 DEF Send, Look
<1>7. ASSUME Check(r) \/ Answer(r) \/ RequestFails(r) PROVE GatewayInv'
  <2>1. o.phase \in Running /\ (o.phase = "calling" => o.bot # 0) /\ UNCHANGED <<settings, posts>>
    BY <1>1, <1>7 DEF Check, Answer, RequestFails, Fields
  <2>2. \/ End(r, "ok") \/ End(r, "error")
        \/ End(r, "writing") /\ o.phase = "calling"
    BY <1>7 DEF Check, Answer, RequestFails, End
  <2> QED
    BY <1>5, <2>1, <2>2
<1>8. ASSUME Write(r) PROVE GatewayInv'
  <2> DEFINE q == [o EXCEPT !.phase = "ok"]
  <2>1. request' = [request EXCEPT ![r] = q] /\ o.phase = "writing"
    BY <1>8 DEF Write, End
  <2>2. q \in Request /\ q.bot = o.bot /\ o.bot # 0 /\ Fields(q) /\ Past(q)
    BY <1>1, <2>1 DEF Fields, Past
  <2> QED
    BY <1>8, <2>1, <2>2, OneRequest DEF Write
<1>9. ASSUME Serve(r) PROVE GatewayInv'
  <2>1. o.rpc = "queued" /\ o.sender # NoUser /\ o.sender \in Calls /\ o.bot # 0
    BY <1>1, <1>9 DEF Serve, Fields
  <2>2. ASSUME NEW how \in {"served", "refused"}, request' = [request EXCEPT ![r].rpc = how],
               UNCHANGED posts \/ posts' = posts \cup {<<r, o.sender>>}
        PROVE  GatewayInv'
    <3> DEFINE q == [o EXCEPT !.rpc = how]
    <3>1. request' = [request EXCEPT ![r] = q]
      BY <2>2
    <3>2. q \in Request /\ q.bot = o.bot /\ q.sender = o.sender /\ Fields(q) /\ Past(q)
      BY <1>1, <2>1, <2>2 DEF Fields, Past
    <3> QED
      BY <1>9, <2>1, <2>2, <3>1, <3>2, OneRequest DEF Serve
  <2> QED
    BY <1>9, <2>2 DEF Serve
<1> QED
  BY <1>2, <1>3, <1>6, <1>7, <1>8, <1>9

-----------------------------------------------------------------------------
(* The invariant holds initially and every step keeps it.                  *)

LEMMA Initially == GatewayInit => AccountsInv /\ GatewayInv
<1> SUFFICES ASSUME GatewayInit PROVE AccountsInv /\ GatewayInv
  OBVIOUS
<1>1. TypeOK
  BY BoundsAssumption DEF GatewayInit, Init, TypeOK, Kinds
<1>2. CallsInv
  BY DEF GatewayInit, Init, CallsInv, CallInv, Holding
<1>3. RowsInv
  BY DEF GatewayInit, Init, RowsInv, RowInv
<1>4. GatewayTypeOK
  BY <1>1 DEF GatewayInit, GatewayTypeOK, Request, Methods
<1>5. RequestsInv
  BY DEF GatewayInit, RequestsInv, Fields, Past
<1>6. WritesInv /\ PostsInv
  BY DEF GatewayInit, WritesInv, PostsInv
<1> QED
  BY <1>1, <1>2, <1>3, <1>4, <1>5, <1>6 DEF AccountsInv, GatewayInv

LEMMA Inductive ==
  AccountsInv /\ GatewayInv /\ [GatewayNext]_<<vars, gateway>> => AccountsInv' /\ GatewayInv'
<1> SUFFICES ASSUME AccountsInv, GatewayInv, [GatewayNext]_<<vars, gateway>>
             PROVE  AccountsInv' /\ GatewayInv'
  OBVIOUS
<1>1. CASE CallStep /\ UNCHANGED gateway
  <2>1. Next
    BY <1>1 DEF CallStep, Next, FailureStep
  <2> QED
    BY <1>1, <2>1, AccountsInductive, CallStepKeeps
<1>2. CASE Restart /\ RequestsEnd
  <2>1. Next
    BY <1>2 DEF Next, FailureStep
  <2> QED
    BY <1>2, <2>1, AccountsInductive, CallStepKeeps
<1>3. CASE RequestStep /\ UNCHANGED vars
  <2>1. AccountsInv'
    BY <1>3, AccountsInductive
  <2>2. PICK r \in HttpRequests :
          \/ \E c \in Calls, m \in Methods : Ask(r, c, m)
          \/ VerifyToken(r)
          \/ Send(r) \/ Look(r) \/ Check(r) \/ Write(r)
          \/ Serve(r) \/ Answer(r) \/ RequestFails(r)
    BY <1>3 DEF RequestStep
  <2>3. UNCHANGED vars
    BY <1>3
  <2> QED
    BY <2>1, <2>2, <2>3, RequestStepKeeps
<1>4. CASE UNCHANGED <<vars, gateway>>
  BY <1>4, AccountsInductive, CallStepKeeps
<1> QED
  BY <1>1, <1>2, <1>3, <1>4 DEF GatewayNext

LEMMA Invariance == GatewaySpec => [](AccountsInv /\ GatewayInv)
BY Initially, Inductive, PTL DEF GatewaySpec

-----------------------------------------------------------------------------
(* What follows                                                            *)

(***************************************************************************)
(* Every variable of the calls of BotsService, and of the requests of      *)
(* BotApiService next to them, keeps its type, for any number of either.   *)
(***************************************************************************)
THEOREM TypeCorrect == GatewaySpec => []GatewayTypeOK
<1>1. AccountsInv /\ GatewayInv => GatewayTypeOK
  BY DEF GatewayInv
<1> QED
  BY <1>1, Invariance, PTL

(***************************************************************************)
(* Whatever calls, failures and restarts come between the guard's read of  *)
(* the bot and the work of BotApiService: a token that was revoked lets    *)
(* nobody in, and nothing is written or asked of chat_server but for the   *)
(* bot of the token, as its own user.                                      *)
(***************************************************************************)
THEOREM ActsForTheToken == GatewaySpec => []ActsForItsToken
<1>1. AccountsInv /\ GatewayInv => ActsForItsToken
  BY DEF GatewayInv, RequestsInv, Past, WritesInv, PostsInv, ActsForItsToken
<1> QED
  BY <1>1, Invariance, PTL

-----------------------------------------------------------------------------
(* What the calls leave behind                                             *)

StageInv ==
  \A c \in Calls :
    /\ pc[c] \in {"leaving", "deletingUser", "unregistering", "destroying"} =>
         kind[c] = "deactivate"
    /\ pc[c] = "tagging" => kind[c] = "create"
    /\ pending[c] # "nothing" => pc[c] = "failed"
    /\ pending[c] = "creatingUser" => kind[c] = "create" /\ target[c] = 0
    /\ pending[c] \in {"renamingUser", "deletingUser"} =>
         target[c] # 0 /\ bot[c] \in Row /\ bot[c].user = row[target[c]].user
    /\ pending[c] = "renamingUser" => kind[c] \in {"create", "update"}
    /\ pending[c] = "deletingUser" => kind[c] = "deactivate"

\* A user is created under the name of the call, and deleted for good.
UsersInv ==
  /\ \A c \in Calls :
       /\ pc[c] = "inserting" => chatUser[c] = name[c]
       /\ pc[c] \in {"unregistering", "destroying"} => chatUser[bot[c].user] = NoName
  /\ \A b \in BotIds :
       /\ life[b] # "unborn" => kind[row[b].user] = "create"
       /\ life[b] = "gone" => chatUser[row[b].user] = NoName

\* A call that holds an instance holds that of its bot, which is or was stored.
LEMMA HoldsBot ==
  ASSUME AccountsInv, NEW c \in Calls, pc[c] \in Holding
  PROVE  /\ target[c] \in BotIds /\ life[target[c]] # "unborn" /\ bot[c] \in Row
         /\ bot[c].user = row[target[c]].user /\ bot[c].user \in Calls
         /\ target[bot[c].user] = target[c]
<1>1. CallInv(c) /\ CallsOK
  BY TypeParts DEF AccountsInv, CallsInv
<1>2. target[c] \in BotIds /\ life[target[c]] # "unborn" /\ bot[c] \in Row
        /\ bot[c].user = row[target[c]].user
  BY <1>1 DEF CallInv, CallsOK
<1>3. target[row[target[c]].user] = target[c]
  BY <1>2 DEF AccountsInv, RowsInv, RowInv
<1> QED
  BY <1>2, <1>3 DEF Row

\* Rows have users of their own.
LEMMA UsersDiffer ==
  ASSUME AccountsInv, NEW a \in BotIds, NEW b \in BotIds,
         life[a] # "unborn", life[b] # "unborn", row[a].user = row[b].user
  PROVE  a = b
BY DEF AccountsInv, RowsInv, RowInv


LEMMA NextStageInv == AccountsInv /\ StageInv /\ [Next]_vars => StageInv'
<1> SUFFICES ASSUME AccountsInv, StageInv, [Next]_vars PROVE StageInv'
  OBVIOUS
<1> USE NamesAssumption, BoundsAssumption DEF AccountsInv, TypeOK, BotIds, Kinds,
    Stored, About, InFlight, Awaiting, Ended, Requests, vars, table, call, Go,
    StageInv
<1>1. ASSUME NEW c \in Calls, NEW u \in Usernames, StartCreate(c, u) PROVE StageInv'
  BY <1>1 DEF StartCreate
<1>2. ASSUME NEW c \in Calls, NEW k \in Kinds, NEW a \in BotIds, NEW u \in Usernames, Start(c, k, a, u)
      PROVE  StageInv'
  BY <1>2 DEF Start, Overlapped
<1>3. ASSUME NEW c \in Calls, FindOwnedBot(c) PROVE StageInv'
  BY <1>3 DEF FindOwnedBot, AfterFind, CallsInv, CallInv, Holding
<1>4. ASSUME NEW c \in Calls, CheckUsername(c) PROVE StageInv'
  BY <1>4 DEF CheckUsername
<1>5. ASSUME NEW c \in Calls, NEW a \in BotIds, InsertBot(c, a) PROVE StageInv'
  BY <1>5 DEF InsertBot, CallsInv, CallInv, Holding
<1>6. ASSUME NEW c \in Calls, SetToken(c) PROVE StageInv'
  BY <1>6 DEF SetToken
<1>7. ASSUME NEW c \in Calls, SaveName(c) PROVE StageInv'
  BY <1>7 DEF SaveName
<1>8. ASSUME NEW c \in Calls, UniqueViolation(c) PROVE StageInv'
  BY <1>8 DEF UniqueViolation
<1>9. ASSUME NEW c \in Calls, Reload(c) PROVE StageInv'
  BY <1>9 DEF Reload
<1>10. ASSUME NEW c \in Calls, Destroy(c) PROVE StageInv'
  BY <1>10 DEF Destroy
<1>11. ASSUME NEW c \in Calls, CreateBotUser(c) PROVE StageInv'
  BY <1>11 DEF CreateBotUser, CreatesUser
<1>12. ASSUME NEW c \in Calls, UpdateBotUser(c) PROVE StageInv'
  BY <1>12 DEF UpdateBotUser, RenamesUser
<1>13. ASSUME NEW c \in Calls, RemoveFromTopics(c) PROVE StageInv'
  BY <1>13 DEF RemoveFromTopics
<1>14. ASSUME NEW c \in Calls, DeleteBotUser(c) PROVE StageInv'
  BY <1>14 DEF DeleteBotUser, DeletesUser
<1>15. ASSUME NEW c \in Calls, Unregister(c) PROVE StageInv'
  BY <1>15 DEF Unregister
<1>16. ASSUME NEW c \in Calls, Register(c) PROVE StageInv'
  BY <1>16 DEF Register
<1>17. ASSUME NEW c \in Calls, CallFails(c) PROVE StageInv'
  BY <1>17 DEF CallFails, GaveUp, CallsInv, CallInv, Holding
<1>18. ASSUME NEW c \in Calls, ServedLate(c) PROVE StageInv'
  BY <1>18 DEF ServedLate, CreatesUser, RenamesUser, DeletesUser
<1>19. CASE Restart
  BY <1>19 DEF Restart, GaveUp, CallsInv, CallInv, Holding
<1>20. CASE UNCHANGED vars
  BY <1>20
<1> HIDE DEF AccountsInv, TypeOK, StageInv
<1> QED
  BY <1>1, <1>2, <1>3, <1>4, <1>5, <1>6, <1>7, <1>8, <1>9, <1>10, <1>11, <1>12,
    <1>13, <1>14, <1>15, <1>16, <1>17, <1>18, <1>19, <1>20
  DEF Next, StartStep, TableStep, ChatServerStep, RegistryStep, FailureStep

LEMMA NextUsersInv == AccountsInv /\ StageInv /\ UsersInv /\ [Next]_vars => UsersInv'
<1> SUFFICES ASSUME AccountsInv, StageInv, UsersInv, [Next]_vars PROVE UsersInv'
  OBVIOUS
<1> USE NamesAssumption, BoundsAssumption DEF AccountsInv, TypeOK, BotIds, Kinds,
    Stored, About, InFlight, Awaiting, Ended, Requests, vars, table, call, Go,
    UsersInv
<1>1. ASSUME NEW c \in Calls, NEW u \in Usernames, StartCreate(c, u) PROVE UsersInv'
  BY <1>1 DEF StartCreate
<1>2. ASSUME NEW c \in Calls, NEW k \in Kinds, NEW a \in BotIds, NEW u \in Usernames, Start(c, k, a, u)
      PROVE  UsersInv'
  BY <1>2 DEF Start, Overlapped, CallsInv, CallInv, Holding, RowsInv, RowInv
<1>3. ASSUME NEW c \in Calls, FindOwnedBot(c) PROVE UsersInv'
  BY <1>3 DEF FindOwnedBot, AfterFind, CallsInv, CallInv, Holding
<1>4. ASSUME NEW c \in Calls, CheckUsername(c) PROVE UsersInv'
  BY <1>4 DEF CheckUsername
<1>5. ASSUME NEW c \in Calls, NEW a \in BotIds, InsertBot(c, a) PROVE UsersInv'
  BY <1>5 DEF InsertBot, CallsInv, CallInv, Holding
<1>6. ASSUME NEW c \in Calls, SetToken(c) PROVE UsersInv'
  BY <1>6 DEF SetToken
<1>7. ASSUME NEW c \in Calls, SaveName(c) PROVE UsersInv'
  BY <1>7 DEF SaveName
<1>8. ASSUME NEW c \in Calls, UniqueViolation(c) PROVE UsersInv'
  BY <1>8 DEF UniqueViolation
<1>9. ASSUME NEW c \in Calls, Reload(c) PROVE UsersInv'
  BY <1>9 DEF Reload
<1>10. ASSUME NEW c \in Calls, Destroy(c) PROVE UsersInv'
  BY <1>10 DEF Destroy, CallsInv, CallInv, Holding, RowsInv, RowInv
<1>11. ASSUME NEW c \in Calls, CreateBotUser(c) PROVE UsersInv'
  BY <1>11 DEF CreateBotUser, CreatesUser, CallsInv, CallInv, Holding, RowsInv,
    RowInv
<1>12. ASSUME NEW c \in Calls, UpdateBotUser(c) PROVE UsersInv'
  <2>1. \A d \in Calls : pc[d] = "inserting" => d # bot[c].user
    BY <1>12, HoldsBot DEF UpdateBotUser, Holding, CallsInv, CallInv
  <2>2. bot[c].user \in Calls
    BY <1>12, HoldsBot DEF UpdateBotUser, Holding
  <2>3. \A d \in Calls : /\ chatUser[d] = NoName => chatUser'[d] = NoName
                         /\ d # bot[c].user => chatUser'[d] = chatUser[d]
    BY <1>12, <2>2 DEF UpdateBotUser, RenamesUser
  <2>4. \A d \in Calls : pc'[d] \in {"inserting", "unregistering", "destroying"} => pc'[d] = pc[d]
    BY <1>12 DEF UpdateBotUser
  <2>5. \A d \in Calls : pc[d] \in {"unregistering", "destroying"} => bot[d].user \in Calls
    BY HoldsBot DEF Holding
  <2>6. \A b \in BotIds : life[b] # "unborn" => row[b].user \in Calls
    BY DEF Row
  <2>7. name' = name /\ bot' = bot /\ kind' = kind /\ life' = life /\ row' = row
    BY <1>12 DEF UpdateBotUser
  <2>8. ASSUME NEW d \in Calls, pc'[d] = "inserting" PROVE chatUser'[d] = name'[d]
    BY <2>1, <2>3, <2>4, <2>7, <2>8
  <2>9. ASSUME NEW d \in Calls, pc'[d] \in {"unregistering", "destroying"} PROVE chatUser'[bot'[d].user] = NoName
    BY <2>3, <2>4, <2>5, <2>7, <2>9
  <2> QED
    BY <2>3, <2>6, <2>7, <2>8, <2>9
<1>13. ASSUME NEW c \in Calls, RemoveFromTopics(c) PROVE UsersInv'
  BY <1>13 DEF RemoveFromTopics
<1>14. ASSUME NEW c \in Calls, DeleteBotUser(c) PROVE UsersInv'
  BY <1>14 DEF DeleteBotUser, DeletesUser, CallsInv, CallInv, Holding, RowsInv,
    RowInv, Row, Tokens
<1>15. ASSUME NEW c \in Calls, Unregister(c) PROVE UsersInv'
  BY <1>15 DEF Unregister
<1>16. ASSUME NEW c \in Calls, Register(c) PROVE UsersInv'
  BY <1>16 DEF Register
<1>17. ASSUME NEW c \in Calls, CallFails(c) PROVE UsersInv'
  BY <1>17 DEF CallFails, GaveUp
<1>18. ASSUME NEW c \in Calls, ServedLate(c) PROVE UsersInv'
  BY <1>18 DEF ServedLate, CreatesUser, RenamesUser, DeletesUser, CallsInv, CallInv,
    Holding, RowsInv, RowInv, StageInv, Row, Tokens
<1>19. CASE Restart
  BY <1>19 DEF Restart, GaveUp
<1>20. CASE UNCHANGED vars
  BY <1>20
<1> HIDE DEF AccountsInv, TypeOK, UsersInv
<1> QED
  BY <1>1, <1>2, <1>3, <1>4, <1>5, <1>6, <1>7, <1>8, <1>9, <1>10, <1>11, <1>12,
    <1>13, <1>14, <1>15, <1>16, <1>17, <1>18, <1>19, <1>20
  DEF Next, StartStep, TableStep, ChatServerStep, RegistryStep, FailureStep

-----------------------------------------------------------------------------
(* What a step does to a call, to a row and to a user                      *)

Course ==
  {<<"idle", "checking">>, <<"idle", "finding">>,
   <<"finding", "settingToken">>, <<"finding", "activating">>, <<"finding", "leaving">>,
   <<"finding", "checking">>, <<"finding", "renamingUser">>, <<"finding", "notFound">>,
   <<"checking", "refused">>, <<"checking", "creatingUser">>, <<"checking", "renamingUser">>,
   <<"creatingUser", "inserting">>, <<"inserting", "settingToken">>,
   <<"settingToken", "tagging">>, <<"settingToken", "done">>, <<"tagging", "done">>,
   <<"renamingUser", "savingName">>, <<"renamingUser", "reloading">>,
   <<"savingName", "reloading">>, <<"reloading", "done">>, <<"leaving", "deletingUser">>,
   <<"deletingUser", "unregistering">>, <<"unregistering", "destroying">>,
   <<"destroying", "done">>, <<"activating", "done">>}

Moves(c) ==
  \/ pc'[c] = pc[c]
  \/ pc[c] \in Awaiting /\ pc'[c] = "failed"
  \/ <<pc[c], pc'[c]>> \in Course

LEMMA CallsMoveOn ==
  ASSUME AccountsInv, [Next]_vars, NEW c \in Calls
  PROVE  Moves(c)
<1>1. CallsOK /\ CallInv(c)
  BY TypeParts DEF AccountsInv, CallsInv
<1> USE DEF CallsOK, Go, Moves, Course, Awaiting
<1>2. CASE StartStep
  BY <1>1, <1>2 DEF StartStep, StartCreate, Start
<1>3. ASSUME NEW d \in Calls, FindOwnedBot(d) PROVE Moves(c)
  <2>1. kind[d] \in {"update", "regenerate", "activate", "deactivate"}
    BY <1>1, <1>3 DEF FindOwnedBot, AccountsInv, CallsInv, CallInv, Kinds
  <2>2. AfterFind(d) \in {"settingToken", "activating", "leaving", "checking", "renamingUser"}
    BY <2>1 DEF AfterFind
  <2> QED
    BY <1>1, <1>3, <2>2 DEF FindOwnedBot
<1>4. ASSUME NEW d \in Calls, NEW a \in BotIds, InsertBot(d, a) PROVE Moves(c)
  BY <1>1, <1>4 DEF InsertBot
<1>5. ASSUME NEW d \in Calls, CheckUsername(d) \/ SetToken(d) \/ SaveName(d) PROVE Moves(c)
  BY <1>1, <1>5 DEF CheckUsername, SetToken, SaveName
<1>6. ASSUME NEW d \in Calls, UniqueViolation(d) \/ Reload(d) \/ Destroy(d) PROVE Moves(c)
  BY <1>1, <1>6 DEF UniqueViolation, Reload, Destroy
<1>7. CASE ChatServerStep
  BY <1>1, <1>7 DEF ChatServerStep, CreateBotUser, UpdateBotUser, RemoveFromTopics, DeleteBotUser
<1>8. CASE RegistryStep
  BY <1>1, <1>8 DEF RegistryStep, Unregister, Register
<1>9. CASE FailureStep
  BY <1>1, <1>9 DEF FailureStep, CallFails, ServedLate, Restart, InFlight
<1>10. CASE UNCHANGED vars
  BY <1>10 DEF vars
<1> HIDE DEF Moves
<1> QED
  BY <1>2, <1>3, <1>4, <1>5, <1>6, <1>7, <1>8, <1>9, <1>10 DEF Next, TableStep

\* A call is given its kind and its bot once.
LEMMA CallsKeep ==
  ASSUME AccountsInv, [Next]_vars, NEW c \in Calls, pc[c] # "idle"
  PROVE  /\ kind'[c] = kind[c] /\ name'[c] = name[c]
         /\ pc[c] # "inserting" => target'[c] = target[c]
<1>1. CallsOK
  BY TypeParts DEF AccountsInv
<1> USE DEF CallsOK, call
<1>2. CASE StartStep
  BY <1>1, <1>2 DEF StartStep, StartCreate, Start
<1>3. CASE TableStep
  BY <1>1, <1>3 DEF TableStep, FindOwnedBot, CheckUsername, InsertBot, SetToken, SaveName,
                    UniqueViolation, Reload, Destroy
<1>4. CASE ChatServerStep \/ RegistryStep \/ FailureStep \/ UNCHANGED vars
  BY <1>1, <1>4 DEF ChatServerStep, CreateBotUser, UpdateBotUser, RemoveFromTopics,
                    DeleteBotUser, RegistryStep, Unregister, Register,
                    FailureStep, CallFails, ServedLate, Restart, vars
<1> QED
  BY <1>2, <1>3, <1>4 DEF Next

\* Rows come by InsertBot and go by Destroy.
LEMMA RowsComeAndGo ==
  ASSUME AccountsInv, [Next]_vars, NEW b \in BotIds
  PROVE  /\ Stored(b)' => Stored(b) \/ \E c \in Calls : InsertBot(c, b)
         /\ Stored(b) => Stored(b)' \/ \E c \in Calls : Destroy(c) /\ About(c, b)
<1> DEFINE Goal ==
      /\ Stored(b)' => Stored(b) \/ \E c \in Calls : InsertBot(c, b)
      /\ Stored(b) => Stored(b)' \/ \E c \in Calls : Destroy(c) /\ About(c, b)
<1>1. TableOK
  BY TypeParts DEF AccountsInv
<1>2. ASSUME NEW c \in Calls, NEW a \in BotIds, InsertBot(c, a) PROVE Goal
  BY <1>1, <1>2 DEF InsertBot, Stored, TableOK
<1>3. ASSUME NEW c \in Calls, Destroy(c) PROVE Goal
  BY <1>1, <1>3 DEF Destroy, Stored, About, TableOK
<1>4. ASSUME life' = life PROVE Goal
  BY <1>4 DEF Stored
<1> HIDE DEF Goal
<1>5. ASSUME TableStep PROVE Goal
  BY <1>2, <1>3, <1>4, <1>5
  DEF TableStep, FindOwnedBot, CheckUsername, SetToken, SaveName, UniqueViolation, Reload, table
<1>6. Goal
  BY <1>4, <1>5
  DEF Next, vars, table, StartStep, StartCreate, Start, ChatServerStep, CreateBotUser,
      UpdateBotUser, RemoveFromTopics, DeleteBotUser, RegistryStep, Unregister, Register,
      FailureStep, CallFails, ServedLate, Restart
<1> QED
  BY <1>6 DEF Goal

Created(u) ==
  /\ target[u] = 0 /\ chatUser'[u] = name[u] /\ chatUser'[u] \in Usernames
  /\ pc'[u] \in {"inserting", "failed"}

UserOf(u, c) ==
  target[c] \in BotIds /\ life[target[c]] # "unborn" /\ u = row[target[c]].user

Renamed(u, c) ==
  UserOf(u, c) /\ chatUser[u] # NoName /\ chatUser'[u] = name[c] /\ chatUser'[u] \in Usernames

Deleted(u, c) ==
  /\ UserOf(u, c) /\ chatUser'[u] = NoName
  /\ kind'[c] = "deactivate" /\ target'[c] = target[c]
  /\ pc'[c] \in {"unregistering", "failed"}

LEMMA UserSteps ==
  ASSUME AccountsInv, StageInv, [Next]_vars, NEW u \in Calls
  PROVE  \/ chatUser'[u] = chatUser[u]
         \/ Created(u)
         \/ \E c \in Calls : Renamed(u, c) \/ Deleted(u, c)
<1> DEFINE Goal ==
      chatUser'[u] = chatUser[u] \/ Created(u) \/ \E c \in Calls : Renamed(u, c) \/ Deleted(u, c)
<1>1. CallsOK /\ OutsideOK
  BY TypeParts DEF AccountsInv
<1>2. ASSUME NEW c \in Calls PROVE CallInv(c)
  BY DEF AccountsInv, CallsInv
<1>3. ASSUME NEW c \in Calls, CreateBotUser(c) PROVE Goal
  BY <1>1, <1>2, <1>3 DEF CreateBotUser, CreatesUser, CallInv, Go, Created, CallsOK, OutsideOK
<1>4. ASSUME NEW c \in Calls, UpdateBotUser(c) PROVE Goal
  <2>1. UserOf(bot[c].user, c) /\ bot[c].user \in Calls /\ name[c] \in Usernames
    BY <1>2, <1>4, HoldsBot DEF UpdateBotUser, Holding, CallInv, UserOf
  <2> QED
    BY <1>1, <1>4, <2>1 DEF UpdateBotUser, RenamesUser, Renamed, OutsideOK
<1>5. ASSUME NEW c \in Calls, DeleteBotUser(c) PROVE Goal
  <2>1. UserOf(bot[c].user, c) /\ bot[c].user \in Calls /\ kind[c] = "deactivate"
    BY <1>5, HoldsBot DEF DeleteBotUser, Holding, StageInv, UserOf
  <2> QED
    BY <1>1, <1>5, <2>1
    DEF DeleteBotUser, DeletesUser, Deleted, Go, call, OutsideOK, CallsOK
<1>6. ASSUME NEW c \in Calls, ServedLate(c) PROVE Goal
  <2>1. CASE pending[c] = "creatingUser" /\ CreatesUser(c)
    BY <1>1, <1>2, <1>6, <2>1
    DEF ServedLate, StageInv, CallInv, CreatesUser, Created, OutsideOK
  <2>2. CASE pending[c] \in {"renamingUser", "deletingUser"}
    <3>1. pc[c] = "failed" /\ target[c] # 0 /\ bot[c] \in Row /\ bot[c].user = row[target[c]].user
      BY <2>2 DEF StageInv
    <3>2. UserOf(bot[c].user, c) /\ bot[c].user \in Calls
      BY <1>1, <1>2, <3>1 DEF CallInv, CallsOK, Row, UserOf
    <3>3. CASE pending[c] = "renamingUser" /\ RenamesUser(c)
      <4>1. name[c] \in Usernames
        BY <1>2, <3>1, <3>3 DEF StageInv, CallInv
      <4> QED
        BY <1>1, <3>2, <3>3, <4>1 DEF RenamesUser, Renamed, OutsideOK
    <3>4. CASE pending[c] = "deletingUser" /\ DeletesUser(c)
      BY <1>1, <1>6, <3>1, <3>2, <3>4 DEF ServedLate, StageInv, DeletesUser, Deleted, OutsideOK
    <3> QED
      BY <1>6, <2>2, <3>3, <3>4 DEF ServedLate
  <2> QED
    BY <1>6, <2>1, <2>2 DEF ServedLate
<1>7. ASSUME chatUser' = chatUser PROVE Goal
  BY <1>7
<1> HIDE DEF Goal
<1>8. ASSUME TableStep \/ StartStep \/ RegistryStep PROVE Goal
  BY <1>7, <1>8
  DEF StartStep, StartCreate, Start, TableStep, FindOwnedBot, CheckUsername, InsertBot, SetToken,
      SaveName, UniqueViolation, Reload, Destroy, RegistryStep, Unregister, Register
<1>9. Goal
  BY <1>3, <1>4, <1>5, <1>6, <1>7, <1>8
  DEF Next, vars, ChatServerStep, RemoveFromTopics, FailureStep, CallFails, Restart
<1> QED
  BY <1>9 DEF Goal

\* The steps that only one action takes.
OwnStep(c) ==
  /\ pc[c] = "inserting" /\ pc'[c] = "settingToken" => \E b \in BotIds : InsertBot(c, b)
  /\ pc[c] = "settingToken" /\ pc'[c] \in {"tagging", "done"} => SetToken(c)
  /\ pc[c] = "tagging" /\ pc'[c] = "done" => Register(c)
  /\ pc[c] = "destroying" /\ pc'[c] = "done" => Destroy(c)

LEMMA OwnSteps ==
  ASSUME AccountsInv, [Next]_vars, NEW c \in Calls
  PROVE  OwnStep(c)
<1>1. CallsOK
  BY TypeParts DEF AccountsInv
<1> USE DEF CallsOK, Go, OwnStep
<1>2. CASE StartStep
  BY <1>1, <1>2 DEF StartStep, StartCreate, Start
<1>3. ASSUME NEW d \in Calls, NEW b \in BotIds, InsertBot(d, b) PROVE OwnStep(c)
  <2>1. CASE c = d
    BY <1>3, <2>1 DEF InsertBot
  <2>2. CASE c # d
    BY <1>1, <1>3, <2>2 DEF InsertBot
  <2> QED
    BY <2>1, <2>2
<1>4. ASSUME NEW d \in Calls, SetToken(d) PROVE OwnStep(c)
  <2>1. CASE c = d
    BY <1>4, <2>1 DEF SetToken
  <2>2. CASE c # d
    BY <1>1, <1>4, <2>2 DEF SetToken
  <2> QED
    BY <2>1, <2>2
<1>5. ASSUME NEW d \in Calls, Destroy(d) \/ Register(d) PROVE OwnStep(c)
  <2>1. CASE c = d
    BY <1>5, <2>1 DEF Destroy, Register
  <2>2. CASE c # d
    BY <1>1, <1>5, <2>2 DEF Destroy, Register
  <2> QED
    BY <2>1, <2>2
<1>6. ASSUME NEW d \in Calls, FindOwnedBot(d) \/ CheckUsername(d) PROVE OwnStep(c)
  BY <1>1, <1>6 DEF FindOwnedBot, CheckUsername
<1>7. ASSUME NEW d \in Calls, SaveName(d) \/ UniqueViolation(d) \/ Reload(d) PROVE OwnStep(c)
  BY <1>1, <1>7 DEF SaveName, UniqueViolation, Reload
<1>8. CASE ChatServerStep
  BY <1>1, <1>8 DEF ChatServerStep, CreateBotUser, UpdateBotUser, RemoveFromTopics, DeleteBotUser
<1>9. ASSUME NEW d \in Calls, Unregister(d) PROVE OwnStep(c)
  BY <1>1, <1>9 DEF Unregister
<1>10. CASE FailureStep \/ UNCHANGED vars
  BY <1>1, <1>10 DEF FailureStep, CallFails, ServedLate, Restart, vars
<1> HIDE DEF OwnStep
<1> QED
  BY <1>2, <1>3, <1>4, <1>5, <1>6, <1>7, <1>8, <1>9, <1>10 DEF Next, TableStep, RegistryStep

\* What a step does to the token and the name of a stored bot.
LEMMA ColumnSteps ==
  ASSUME AccountsInv, [Next]_vars, NEW b \in BotIds, Stored(b)
  PROVE  /\ \/ row'[b].token = row[b].token
            \/ \E c \in Calls : SetToken(c) /\ About(c, b) /\ row'[b].token = <<c, "final">>
         /\ \/ row'[b].name = row[b].name
            \/ \E c \in Calls : SaveName(c) /\ About(c, b) /\ row'[b].name = name[c]
<1> DEFINE Goal ==
      /\ \/ row'[b].token = row[b].token
         \/ \E c \in Calls : SetToken(c) /\ About(c, b) /\ row'[b].token = <<c, "final">>
      /\ \/ row'[b].name = row[b].name
         \/ \E c \in Calls : SaveName(c) /\ About(c, b) /\ row'[b].name = name[c]
<1>1. TableOK
  BY TypeParts DEF AccountsInv
<1> USE DEF TableOK, Stored, Row
<1>2. ASSUME NEW c \in Calls, SetToken(c) PROVE Goal
  <2>1. CASE About(c, b)
    BY <1>1, <1>2, <2>1 DEF SetToken, About
  <2>2. CASE ~About(c, b)
    BY <1>1, <1>2, <2>2 DEF SetToken, About
  <2> QED
    BY <2>1, <2>2
<1>3. ASSUME NEW c \in Calls, SaveName(c) PROVE Goal
  <2>1. CASE About(c, b)
    BY <1>1, <1>3, <2>1 DEF SaveName, About
  <2>2. CASE ~About(c, b)
    BY <1>1, <1>3, <2>2 DEF SaveName, About
  <2> QED
    BY <2>1, <2>2
<1>4. ASSUME NEW c \in Calls, NEW a \in BotIds, InsertBot(c, a) PROVE Goal
  BY <1>1, <1>4 DEF InsertBot
<1>5. ASSUME row' = row PROVE Goal
  BY <1>5
<1> HIDE DEF Goal
<1>6. ASSUME TableStep PROVE Goal
  BY <1>2, <1>3, <1>4, <1>5, <1>6
  DEF TableStep, FindOwnedBot, CheckUsername, UniqueViolation, Reload, Destroy, table
<1>7. Goal
  BY <1>5, <1>6
  DEF Next, vars, table, StartStep, StartCreate, Start, ChatServerStep, CreateBotUser,
      UpdateBotUser, RemoveFromTopics, DeleteBotUser, RegistryStep, Unregister, Register,
      FailureStep, CallFails, ServedLate, Restart
<1> QED
  BY <1>7 DEF Goal

\* What a step does to the entry of a bot in the registry.
LEMMA RegistrySteps ==
  ASSUME AccountsInv, [Next]_vars, NEW b \in BotIds
  PROVE  \/ registered'[b] = registered[b]
         \/ \E c \in Calls : Unregister(c) /\ About(c, b) /\ registered'[b] = NoUser
         \/ \E c \in Calls : Register(c) /\ About(c, b) /\ registered'[b] = bot[c].user
         \/ Restart
<1> DEFINE Goal ==
      \/ registered'[b] = registered[b]
      \/ \E c \in Calls : Unregister(c) /\ About(c, b) /\ registered'[b] = NoUser
      \/ \E c \in Calls : Register(c) /\ About(c, b) /\ registered'[b] = bot[c].user
      \/ Restart
<1>1. OutsideOK
  BY TypeParts DEF AccountsInv
<1>2. ASSUME NEW c \in Calls, Unregister(c) PROVE Goal
  BY <1>1, <1>2 DEF Unregister, About, OutsideOK
<1>3. ASSUME NEW c \in Calls, Register(c) PROVE Goal
  BY <1>1, <1>3 DEF Register, About, OutsideOK
<1>4. ASSUME registered' = registered \/ Restart PROVE Goal
  BY <1>4
<1> HIDE DEF Goal
<1>5. ASSUME TableStep PROVE Goal
  BY <1>4, <1>5
  DEF TableStep, FindOwnedBot, CheckUsername, InsertBot, SetToken, SaveName, UniqueViolation,
      Reload, Destroy
<1>6. Goal
  BY <1>2, <1>3, <1>4, <1>5
  DEF Next, vars, StartStep, StartCreate, Start, ChatServerStep, CreateBotUser,
      UpdateBotUser, RemoveFromTopics, DeleteBotUser, RegistryStep, FailureStep, CallFails,
      ServedLate
<1> QED
  BY <1>6 DEF Goal

-----------------------------------------------------------------------------
(* Invariants of the three places                                          *)

\* The user of a new row is there, under the name of its call.
LEMMA NewRow ==
  ASSUME AccountsInv, UsersInv, NEW c \in Calls, NEW b \in BotIds, InsertBot(c, b)
  PROVE  /\ row'[b].user = c /\ row'[b].token = <<c, "temp">> /\ row'[b].name = name[c]
         /\ pc'[c] = "settingToken" /\ target'[c] = b
         /\ chatUser' = chatUser /\ chatUser'[c] = name[c] /\ name[c] \in Usernames
         /\ Stored(b)' /\ registered' = registered
<1>1. TableOK /\ CallsOK /\ CallInv(c)
  BY TypeParts DEF AccountsInv, CallsInv
<1> QED
  BY <1>1 DEF InsertBot, TableOK, CallsOK, CallInv, UsersInv, Go, Stored

LEMMA NextHalfDeactivated ==
  AccountsInv /\ StageInv /\ UsersInv /\ HalfDeactivated /\ [Next]_vars => HalfDeactivated'
<1> SUFFICES ASSUME AccountsInv, StageInv, UsersInv, HalfDeactivated, [Next]_vars,
                    NEW b \in BotIds, Stored(b)', chatUser'[row'[b].user] = NoName
             PROVE  \E c \in Calls : /\ kind'[c] = "deactivate" /\ About(c, b)'
                                     /\ pc'[c] \in {"unregistering", "destroying", "failed"}
  BY DEF HalfDeactivated
<1>1. Stored(b)
  <2>1. \A c \in Calls : ~InsertBot(c, b)
    BY NewRow, NamesAssumption
  <2> QED
    BY <2>1, RowsComeAndGo
<1>2. row'[b].user = row[b].user /\ row[b].user \in Calls
  BY <1>1, RowsStayed, TypeParts DEF RowsStay, Stored, AccountsInv, TableOK, Row
<1>3. CASE chatUser'[row[b].user] = chatUser[row[b].user]
  <2>1. PICK c \in Calls : /\ kind[c] = "deactivate" /\ About(c, b)
                           /\ pc[c] \in {"unregistering", "destroying", "failed"}
    BY <1>1, <1>2, <1>3 DEF HalfDeactivated
  <2>2. kind'[c] = "deactivate" /\ About(c, b)'
    BY <2>1, CallsKeep DEF About
  <2>3. ~Destroy(c)
    BY <2>1 DEF Destroy, Stored, About, AccountsInv, TypeOK
  <2>4. pc[c] = "destroying" => pc'[c] # "done"
    <3>1. ASSUME pc[c] = "destroying", pc'[c] = "done" PROVE FALSE
      BY <2>3, <3>1, OwnSteps DEF OwnStep
    <3> QED
      BY <3>1
  <2>5. pc'[c] \in {"unregistering", "destroying", "failed"}
    BY <2>1, <2>4, CallsMoveOn DEF Moves, Course, Awaiting
  <2> QED
    BY <2>2, <2>5
<1>4. ASSUME NEW c \in Calls, Deleted(row[b].user, c)
      PROVE  /\ kind'[c] = "deactivate" /\ About(c, b)'
             /\ pc'[c] \in {"unregistering", "destroying", "failed"}
  <2>1. target[c] = b
    BY <1>1, <1>4, UsersDiffer DEF Deleted, UserOf, Stored
  <2> QED
    BY <1>4, <2>1 DEF Deleted, About
<1> QED
  BY <1>2, <1>3, <1>4, UserSteps, NamesAssumption DEF Created, Renamed

LEMMA NextNoOrphanUsers ==
  AccountsInv /\ StageInv /\ UsersInv /\ NoOrphanUsers /\ [Next]_vars => NoOrphanUsers'
<1> SUFFICES ASSUME AccountsInv, StageInv, UsersInv, NoOrphanUsers, [Next]_vars,
                    NEW u \in Calls, chatUser'[u] \in Usernames
             PROVE  \/ pc'[u] \in {"inserting", "failed"}
                    \/ \E b \in BotIds : Stored(b)' /\ row'[b].user = u
  BY DEF NoOrphanUsers
\* A stored row leads to the user until the user is deleted.
<1>1. ASSUME NEW b \in BotIds, Stored(b), row[b].user = u
      PROVE  Stored(b)' /\ row'[b].user = u
  <2>1. row'[b].user = u
    BY <1>1, RowsStayed DEF RowsStay, Stored
  <2>2. ASSUME NEW c \in Calls, Destroy(c), About(c, b) PROVE FALSE
    <3>1. bot[c].user = u /\ chatUser[u] = NoName /\ chatUser' = chatUser
      BY <1>1, <2>2, HoldsBot DEF Destroy, Holding, About, UsersInv
    <3> QED
      BY <3>1, NamesAssumption
  <2> QED
    BY <1>1, <2>1, <2>2, RowsComeAndGo
<1>2. CASE chatUser'[u] = chatUser[u] /\ pc[u] \in {"inserting", "failed"}
  <2>1. CASE pc'[u] \in {"inserting", "failed"}
    BY <2>1
  <2>2. CASE pc'[u] \notin {"inserting", "failed"}
    <3>1. pc[u] = "inserting" /\ pc'[u] = "settingToken"
      BY <1>2, <2>2, CallsMoveOn DEF Moves, Course, Awaiting
    <3>2. PICK b \in BotIds : InsertBot(u, b)
      BY <3>1, OwnSteps DEF OwnStep
    <3> QED
      BY <3>2, NewRow
  <2> QED
    BY <2>1, <2>2
<1>3. CASE chatUser'[u] = chatUser[u] /\ \E b \in BotIds : Stored(b) /\ row[b].user = u
  BY <1>1, <1>3
<1>4. ASSUME NEW c \in Calls, Renamed(u, c)
      PROVE  \E b \in BotIds : Stored(b) /\ row[b].user = u
  <2>1. target[c] \in BotIds /\ life[target[c]] # "unborn" /\ life[target[c]] # "gone"
          /\ u = row[target[c]].user
    BY <1>4 DEF Renamed, UserOf, UsersInv
  <2> QED
    BY <2>1, TypeParts DEF Stored, AccountsInv, TableOK
<1> QED
  BY <1>1, <1>2, <1>3, <1>4, UserSteps, NamesAssumption DEF NoOrphanUsers, Created, Deleted

LEMMA NextOutOfService ==
  AccountsInv /\ StageInv /\ UsersInv /\ OutOfService /\ [Next]_vars => OutOfService'
<1> SUFFICES ASSUME AccountsInv, StageInv, UsersInv, OutOfService, [Next]_vars,
                    NEW b \in BotIds, Stored(b)'
             PROVE  /\ row'[b].token[2] = "temp" => pc'[row'[b].user] \in {"settingToken", "failed"}
                    /\ registered'[b] = NoUser =>
                         \/ pc'[row'[b].user] \in {"settingToken", "tagging", "failed"}
                         \/ \E c \in Calls : /\ kind'[c] = "deactivate" /\ About(c, b)'
                                             /\ pc'[c] \in {"destroying", "failed"}
  BY DEF OutOfService
<1>1. ASSUME NEW c \in Calls, InsertBot(c, b)
      PROVE  pc'[row'[b].user] = "settingToken"
  BY <1>1, NewRow
<1> SUFFICES ASSUME Stored(b)
             PROVE  /\ row'[b].token[2] = "temp" => pc'[row'[b].user] \in {"settingToken", "failed"}
                    /\ registered'[b] = NoUser =>
                         \/ pc'[row'[b].user] \in {"settingToken", "tagging", "failed"}
                         \/ \E c \in Calls : /\ kind'[c] = "deactivate" /\ About(c, b)'
                                             /\ pc'[c] \in {"destroying", "failed"}
  BY <1>1, RowsComeAndGo
<1> DEFINE u == row[b].user
<1>2. u \in Calls /\ row'[b].user = u /\ target[u] = b /\ kind[u] = "create"
  BY RowsStayed, TypeParts
  DEF RowsStay, Stored, AccountsInv, TableOK, Row, RowsInv, RowInv, UsersInv
<1>3. b # 0
  BY DEF BotIds
<1>4. ASSUME row'[b].token[2] = "temp" PROVE pc'[u] \in {"settingToken", "failed"}
  <2>1. row'[b].token = row[b].token
    BY <1>4, ColumnSteps
  <2>2. pc[u] \in {"settingToken", "failed"}
    BY <1>2, <1>4, <2>1 DEF OutOfService
  <2>3. ~SetToken(u)
    <3>1. ASSUME SetToken(u) PROVE FALSE
      <4>1. row'[b] = [row[b] EXCEPT !.token = <<u, "final">>] /\ row[b] \in Row
        BY <1>2, <3>1, TypeParts DEF SetToken, Stored, AccountsInv, TableOK
      <4>2. row'[b].token = <<u, "final">>
        BY <4>1 DEF Row
      <4> QED
        BY <1>4, <4>2
    <3> QED
      BY <3>1
  <2> QED
    BY <1>2, <2>2, <2>3, CallsMoveOn, OwnSteps DEF Moves, Course, Awaiting, OwnStep
<1>5. ASSUME registered'[b] = NoUser
      PROVE  \/ pc'[u] \in {"settingToken", "tagging", "failed"}
             \/ \E c \in Calls : /\ kind'[c] = "deactivate" /\ About(c, b)'
                                 /\ pc'[c] \in {"destroying", "failed"}
  <2>1. ASSUME NEW c \in Calls, Register(c), About(c, b) PROVE FALSE
    <3>1. bot[c].user \in Calls /\ registered' = [registered EXCEPT ![b] = bot[c].user]
      BY <2>1, HoldsBot DEF Register, Holding, About
    <3> QED
      BY <1>5, <3>1, TypeParts, NamesAssumption DEF AccountsInv, OutsideOK
  <2>2. ~Restart
    BY <1>2, <1>5, NamesAssumption DEF Restart
  <2>3. ASSUME NEW c \in Calls, Unregister(c), About(c, b)
        PROVE  kind'[c] = "deactivate" /\ About(c, b)' /\ pc'[c] = "destroying"
    BY <2>3, TypeParts DEF Unregister, About, call, Go, StageInv, AccountsInv, CallsOK
  <2>4. ASSUME pc[u] \in {"settingToken", "tagging", "failed"}
        PROVE  pc'[u] \in {"settingToken", "tagging", "failed"}
    <3>1. ~(pc[u] = "tagging" /\ pc'[u] = "done")
      BY <1>2, <2>1, OwnSteps DEF OwnStep, About
    <3>2. ~(pc[u] = "settingToken" /\ pc'[u] = "done")
      <4>1. SetToken(u) => pc'[u] = "tagging"
        BY <1>2, TypeParts DEF SetToken, Go, AccountsInv, CallsOK
      <4> QED
        BY <1>2, <4>1, OwnSteps DEF OwnStep
    <3> QED
      BY <1>2, <2>4, <3>1, <3>2, CallsMoveOn DEF Moves, Course, Awaiting
  <2>5. ASSUME NEW c \in Calls, kind[c] = "deactivate", About(c, b), pc[c] \in {"destroying", "failed"}
        PROVE  kind'[c] = "deactivate" /\ About(c, b)' /\ pc'[c] \in {"destroying", "failed"}
    <3>1. ~Destroy(c)
      BY <2>5 DEF Destroy, Stored, About, AccountsInv, TypeOK
    <3>2. pc'[c] \in {"destroying", "failed"}
      BY <2>5, <3>1, CallsMoveOn, OwnSteps DEF Moves, Course, Awaiting, OwnStep
    <3> QED
      BY <2>5, <3>2, CallsKeep DEF About
  <2>6. CASE registered'[b] = registered[b]
    BY <1>5, <2>4, <2>5, <2>6 DEF OutOfService
  <2> QED
    BY <2>1, <2>2, <2>3, <2>6, RegistrySteps
<1> QED
  BY <1>2, <1>4, <1>5

\* Tokens and names change only by the calls that are about to write them.
LEMMA StepsLoseNothing ==
  ASSUME AccountsInv, [Next]_vars, NEW b \in BotIds
  PROVE  LosesNothing(b)
<1> SUFFICES ASSUME Stored(b), Stored(b)' PROVE LosesNothing(b)
  BY DEF LosesNothing
<1>1. ASSUME NEW c \in Calls, SetToken(c)
      PROVE  pc[c] = "settingToken" /\ pc'[c] # pc[c]
  BY <1>1, TypeParts DEF SetToken, Go, AccountsInv, CallsOK
<1>2. ASSUME NEW c \in Calls, SaveName(c) PROVE pc[c] = "savingName"
  BY <1>2 DEF SaveName
<1> QED
  BY <1>1, <1>2, ColumnSteps DEF LosesNothing


-----------------------------------------------------------------------------
(***************************************************************************)
(* A bot on which no two calls met and none failed has at most one call at *)
(* work; the three places differ only by what that call has yet to do.     *)
(***************************************************************************)
Working(c, b) == InFlight(c) /\ About(c, b)

Alone(b) ==
  /\ \A c, d \in Calls : Working(c, b) /\ Working(d, b) => c = d
  /\ \A c \in Calls : About(c, b) => pending[c] = "nothing"

\* A row that is gone is gone from the registry, and nobody puts it back.
GoneAlone(b) ==
  life[b] = "gone" =>
    /\ registered[b] = NoUser
    /\ \A c \in Calls : Working(c, b) => pc[c] = "finding"

\* The call holds the name that is in the table.
NameHeld(b) ==
  \A c \in Calls :
    Stored(b) /\ Working(c, b) /\ pc[c] \notin {"finding", "reloading"} => bot[c].name = row[b].name

NamedAlike(b) ==
  Stored(b) =>
    /\ \/ chatUser[row[b].user] = row[b].name
       \/ \E c \in Calls : /\ About(c, b)
                           /\ pc[c] \in {"savingName", "unregistering", "destroying"}
    /\ \A c \in Calls :
         About(c, b) /\ pc[c] = "savingName" => chatUser[row[b].user] = name[c]

RegisteredAlike(b) ==
  /\ Stored(b) =>
       \/ registered[b] = row[b].user
       \/ \E c \in Calls : /\ About(c, b)
                           /\ \/ kind[c] = "create" /\ pc[c] \in {"settingToken", "tagging"}
                              \/ pc[c] = "destroying"
  /\ \A c \in Calls : About(c, b) /\ pc[c] = "destroying" => registered[b] = NoUser

UntroubledInv == \A b \in BotIds \ troubled :
  Alone(b) /\ GoneAlone(b) /\ NameHeld(b) /\ NamedAlike(b) /\ RegisteredAlike(b)

\* What a call that gave up may still do at chat_server, it does to its own user.
LEMMA ServesItsUser ==
  ASSUME AccountsInv, StageInv, NEW c \in Calls, ServedLate(c),
         NEW b \in BotIds, life[b] # "unborn", target[c] # b
  PROVE  chatUser'[row[b].user] = chatUser[row[b].user]
<1> USE NamesAssumption, BoundsAssumption DEF BotIds
<1>1. row[b] \in Row /\ row[b].user \in Calls /\ target[row[b].user] = b
  BY DEF AccountsInv, TypeOK, RowsInv, RowInv, Row
<1>t. chatUser \in [Calls -> Usernames \cup {NoName, NoUser}] /\ target[c] \in BotIds \cup {0}
  BY DEF AccountsInv, TypeOK
<1>2. CASE pending[c] = "creatingUser" /\ CreatesUser(c)
  <2>1. target[c] = 0
    BY <1>2 DEF StageInv
  <2> QED
    BY <1>1, <1>t, <1>2, <2>1 DEF CreatesUser
<1>3. CASE pending[c] \in {"renamingUser", "deletingUser"} /\ (RenamesUser(c) \/ DeletesUser(c))
  <2>1. target[c] \in BotIds /\ life[target[c]] # "unborn" /\ bot[c].user = row[target[c]].user
    BY <1>3, <1>t DEF StageInv, AccountsInv, CallsInv, CallInv
  <2>2. row[b].user # bot[c].user
    BY <2>1, UsersDiffer
  <2> QED
    BY <1>1, <1>t, <1>3, <2>2 DEF RenamesUser, DeletesUser
<1> QED
  BY <1>2, <1>3 DEF ServedLate

LEMMA NextAlone ==
  ASSUME AccountsInv, StageInv, UsersInv, [Next]_vars, NEW b \in BotIds,
         b \notin troubled, b \notin troubled', Alone(b)
  PROVE  Alone(b)'
<1> USE NamesAssumption, BoundsAssumption DEF AccountsInv, TypeOK, BotIds, Kinds,
    Stored, About, InFlight, Awaiting, Ended, Requests, vars, table, call, Go,
    Working, Alone
<1>1. ASSUME NEW c \in Calls, NEW u \in Usernames, StartCreate(c, u) PROVE Alone(b)'
  BY <1>1 DEF StartCreate, CallsInv, CallInv, Holding
<1>2. ASSUME NEW c \in Calls, NEW k \in Kinds, NEW a \in BotIds, NEW u \in Usernames, Start(c, k, a, u)
      PROVE  Alone(b)'
  BY <1>2 DEF Start, Overlapped, StageInv
<1>3. ASSUME NEW c \in Calls, FindOwnedBot(c) PROVE Alone(b)'
  BY <1>3 DEF FindOwnedBot, AfterFind
<1>4. ASSUME NEW c \in Calls, CheckUsername(c) PROVE Alone(b)'
  BY <1>4 DEF CheckUsername
<1>5. ASSUME NEW c \in Calls, NEW a \in BotIds, InsertBot(c, a) PROVE Alone(b)'
  BY <1>5 DEF InsertBot, CallsInv, CallInv, Holding, StageInv
<1>6. ASSUME NEW c \in Calls, SetToken(c) PROVE Alone(b)'
  BY <1>6 DEF SetToken
<1>7. ASSUME NEW c \in Calls, SaveName(c) PROVE Alone(b)'
  BY <1>7 DEF SaveName
<1>8. ASSUME NEW c \in Calls, UniqueViolation(c) PROVE Alone(b)'
  BY <1>8 DEF UniqueViolation
<1>9. ASSUME NEW c \in Calls, Reload(c) PROVE Alone(b)'
  BY <1>9 DEF Reload
<1>10. ASSUME NEW c \in Calls, Destroy(c) PROVE Alone(b)'
  BY <1>10 DEF Destroy
<1>11. ASSUME NEW c \in Calls, CreateBotUser(c) PROVE Alone(b)'
  BY <1>11 DEF CreateBotUser, CreatesUser, CallsInv, CallInv, Holding
<1>12. ASSUME NEW c \in Calls, UpdateBotUser(c) PROVE Alone(b)'
  BY <1>12 DEF UpdateBotUser, RenamesUser
<1>13. ASSUME NEW c \in Calls, RemoveFromTopics(c) PROVE Alone(b)'
  BY <1>13 DEF RemoveFromTopics
<1>14. ASSUME NEW c \in Calls, DeleteBotUser(c) PROVE Alone(b)'
  BY <1>14 DEF DeleteBotUser, DeletesUser
<1>15. ASSUME NEW c \in Calls, Unregister(c) PROVE Alone(b)'
  BY <1>15 DEF Unregister
<1>16. ASSUME NEW c \in Calls, Register(c) PROVE Alone(b)'
  BY <1>16 DEF Register
<1>17. ASSUME NEW c \in Calls, CallFails(c) PROVE Alone(b)'
  BY <1>17 DEF CallFails, GaveUp
<1>18. ASSUME NEW c \in Calls, ServedLate(c) PROVE Alone(b)'
  BY <1>18 DEF ServedLate, CreatesUser, RenamesUser, DeletesUser
<1>19. CASE Restart
  BY <1>19 DEF Restart, GaveUp
<1>20. CASE UNCHANGED vars
  BY <1>20
<1> HIDE DEF AccountsInv, TypeOK, Alone
<1> QED
  BY <1>1, <1>2, <1>3, <1>4, <1>5, <1>6, <1>7, <1>8, <1>9, <1>10, <1>11, <1>12,
    <1>13, <1>14, <1>15, <1>16, <1>17, <1>18, <1>19, <1>20
  DEF Next, StartStep, TableStep, ChatServerStep, RegistryStep, FailureStep

LEMMA NextGoneAlone ==
  ASSUME AccountsInv, StageInv, UsersInv, [Next]_vars, NEW b \in BotIds,
         b \notin troubled, b \notin troubled', Alone(b), RegisteredAlike(b), GoneAlone(b)
  PROVE  GoneAlone(b)'
<1> USE NamesAssumption, BoundsAssumption DEF AccountsInv, TypeOK, BotIds, Kinds,
    Stored, About, InFlight, Awaiting, Ended, Requests, vars, table, call, Go,
    Working, GoneAlone
<1>1. ASSUME NEW c \in Calls, NEW u \in Usernames, StartCreate(c, u)
      PROVE  GoneAlone(b)'
  BY <1>1 DEF StartCreate, CallsInv, CallInv, Holding
<1>2. ASSUME NEW c \in Calls, NEW k \in Kinds, NEW a \in BotIds, NEW u \in Usernames, Start(c, k, a, u)
      PROVE  GoneAlone(b)'
  BY <1>2 DEF Start, Overlapped
<1>3. ASSUME NEW c \in Calls, FindOwnedBot(c) PROVE GoneAlone(b)'
  BY <1>3 DEF FindOwnedBot, AfterFind
<1>4. ASSUME NEW c \in Calls, CheckUsername(c) PROVE GoneAlone(b)'
  BY <1>4 DEF CheckUsername
<1>5. ASSUME NEW c \in Calls, NEW a \in BotIds, InsertBot(c, a) PROVE GoneAlone(b)'
  BY <1>5 DEF InsertBot
<1>6. ASSUME NEW c \in Calls, SetToken(c) PROVE GoneAlone(b)'
  BY <1>6 DEF SetToken
<1>7. ASSUME NEW c \in Calls, SaveName(c) PROVE GoneAlone(b)'
  BY <1>7 DEF SaveName
<1>8. ASSUME NEW c \in Calls, UniqueViolation(c) PROVE GoneAlone(b)'
  BY <1>8 DEF UniqueViolation
<1>9. ASSUME NEW c \in Calls, Reload(c) PROVE GoneAlone(b)'
  BY <1>9 DEF Reload
<1>10. ASSUME NEW c \in Calls, Destroy(c) PROVE GoneAlone(b)'
  BY <1>10 DEF Destroy, Alone, RegisteredAlike
<1>11. ASSUME NEW c \in Calls, CreateBotUser(c) PROVE GoneAlone(b)'
  BY <1>11 DEF CreateBotUser, CreatesUser, CallsInv, CallInv, Holding
<1>12. ASSUME NEW c \in Calls, UpdateBotUser(c) PROVE GoneAlone(b)'
  BY <1>12 DEF UpdateBotUser, RenamesUser
<1>13. ASSUME NEW c \in Calls, RemoveFromTopics(c) PROVE GoneAlone(b)'
  BY <1>13 DEF RemoveFromTopics
<1>14. ASSUME NEW c \in Calls, DeleteBotUser(c) PROVE GoneAlone(b)'
  BY <1>14 DEF DeleteBotUser, DeletesUser
<1>15. ASSUME NEW c \in Calls, Unregister(c) PROVE GoneAlone(b)'
  BY <1>15 DEF Unregister
<1>16. ASSUME NEW c \in Calls, Register(c) PROVE GoneAlone(b)'
  BY <1>16 DEF Register
<1>17. ASSUME NEW c \in Calls, CallFails(c) PROVE GoneAlone(b)'
  BY <1>17 DEF CallFails, GaveUp
<1>18. ASSUME NEW c \in Calls, ServedLate(c) PROVE GoneAlone(b)'
  BY <1>18 DEF ServedLate, CreatesUser, RenamesUser, DeletesUser
<1>19. CASE Restart
  BY <1>19 DEF Restart, GaveUp
<1>20. CASE UNCHANGED vars
  BY <1>20
<1> HIDE DEF AccountsInv, TypeOK, GoneAlone
<1> QED
  BY <1>1, <1>2, <1>3, <1>4, <1>5, <1>6, <1>7, <1>8, <1>9, <1>10, <1>11, <1>12,
    <1>13, <1>14, <1>15, <1>16, <1>17, <1>18, <1>19, <1>20
  DEF Next, StartStep, TableStep, ChatServerStep, RegistryStep, FailureStep

LEMMA NextNameHeld ==
  ASSUME AccountsInv, StageInv, UsersInv, [Next]_vars, NEW b \in BotIds,
         b \notin troubled, b \notin troubled', Alone(b), NameHeld(b)
  PROVE  NameHeld(b)'
<1> USE NamesAssumption, BoundsAssumption DEF AccountsInv, TypeOK, BotIds, Kinds,
    Stored, About, InFlight, Awaiting, Ended, Requests, vars, table, call, Go,
    Working, NameHeld
<1>1. ASSUME NEW c \in Calls, NEW u \in Usernames, StartCreate(c, u)
      PROVE  NameHeld(b)'
  BY <1>1 DEF StartCreate, CallsInv, CallInv, Holding
<1>2. ASSUME NEW c \in Calls, NEW k \in Kinds, NEW a \in BotIds, NEW u \in Usernames, Start(c, k, a, u)
      PROVE  NameHeld(b)'
  BY <1>2 DEF Start, Overlapped
<1>3. ASSUME NEW c \in Calls, FindOwnedBot(c) PROVE NameHeld(b)'
  BY <1>3 DEF FindOwnedBot, AfterFind, StageInv
<1>4. ASSUME NEW c \in Calls, CheckUsername(c) PROVE NameHeld(b)'
  BY <1>4 DEF CheckUsername
<1>5. ASSUME NEW c \in Calls, NEW a \in BotIds, InsertBot(c, a) PROVE NameHeld(b)'
  BY <1>5 DEF InsertBot, CallsInv, CallInv, Holding
<1>6. ASSUME NEW c \in Calls, SetToken(c) PROVE NameHeld(b)'
  BY <1>6 DEF SetToken
<1>7. ASSUME NEW c \in Calls, SaveName(c) PROVE NameHeld(b)'
  BY <1>7 DEF SaveName, Alone
<1>8. ASSUME NEW c \in Calls, UniqueViolation(c) PROVE NameHeld(b)'
  BY <1>8 DEF UniqueViolation
<1>9. ASSUME NEW c \in Calls, Reload(c) PROVE NameHeld(b)'
  BY <1>9 DEF Reload
<1>10. ASSUME NEW c \in Calls, Destroy(c) PROVE NameHeld(b)'
  BY <1>10 DEF Destroy
<1>11. ASSUME NEW c \in Calls, CreateBotUser(c) PROVE NameHeld(b)'
  BY <1>11 DEF CreateBotUser, CreatesUser, CallsInv, CallInv, Holding
<1>12. ASSUME NEW c \in Calls, UpdateBotUser(c) PROVE NameHeld(b)'
  BY <1>12 DEF UpdateBotUser, RenamesUser
<1>13. ASSUME NEW c \in Calls, RemoveFromTopics(c) PROVE NameHeld(b)'
  BY <1>13 DEF RemoveFromTopics
<1>14. ASSUME NEW c \in Calls, DeleteBotUser(c) PROVE NameHeld(b)'
  BY <1>14 DEF DeleteBotUser, DeletesUser
<1>15. ASSUME NEW c \in Calls, Unregister(c) PROVE NameHeld(b)'
  BY <1>15 DEF Unregister
<1>16. ASSUME NEW c \in Calls, Register(c) PROVE NameHeld(b)'
  BY <1>16 DEF Register
<1>17. ASSUME NEW c \in Calls, CallFails(c) PROVE NameHeld(b)'
  BY <1>17 DEF CallFails, GaveUp
<1>18. ASSUME NEW c \in Calls, ServedLate(c) PROVE NameHeld(b)'
  BY <1>18 DEF ServedLate, CreatesUser, RenamesUser, DeletesUser
<1>19. CASE Restart
  BY <1>19 DEF Restart, GaveUp
<1>20. CASE UNCHANGED vars
  BY <1>20
<1> HIDE DEF AccountsInv, TypeOK, NameHeld
<1> QED
  BY <1>1, <1>2, <1>3, <1>4, <1>5, <1>6, <1>7, <1>8, <1>9, <1>10, <1>11, <1>12,
    <1>13, <1>14, <1>15, <1>16, <1>17, <1>18, <1>19, <1>20
  DEF Next, StartStep, TableStep, ChatServerStep, RegistryStep, FailureStep

LEMMA NextNamedAlike ==
  ASSUME AccountsInv, StageInv, UsersInv, [Next]_vars, NEW b \in BotIds,
         b \notin troubled, b \notin troubled', Alone(b), NameHeld(b), NamedAlike(b)
  PROVE  NamedAlike(b)'
<1> USE NamesAssumption, BoundsAssumption DEF AccountsInv, TypeOK, BotIds, Kinds,
    Stored, About, InFlight, Awaiting, Ended, Requests, vars, table, call, Go,
    Working, NamedAlike
<1>1. ASSUME NEW c \in Calls, NEW u \in Usernames, StartCreate(c, u)
      PROVE  NamedAlike(b)'
  BY <1>1 DEF StartCreate
<1>2. ASSUME NEW c \in Calls, NEW k \in Kinds, NEW a \in BotIds, NEW u \in Usernames, Start(c, k, a, u)
      PROVE  NamedAlike(b)'
  BY <1>2 DEF Start, Overlapped
<1>3. ASSUME NEW c \in Calls, FindOwnedBot(c) PROVE NamedAlike(b)'
  BY <1>3 DEF FindOwnedBot, AfterFind, CallsInv, CallInv, Holding
<1>4. ASSUME NEW c \in Calls, CheckUsername(c) PROVE NamedAlike(b)'
  BY <1>4 DEF CheckUsername
<1>5. ASSUME NEW c \in Calls, NEW a \in BotIds, InsertBot(c, a) PROVE NamedAlike(b)'
  BY <1>5 DEF InsertBot, CallsInv, CallInv, Holding, UsersInv
<1>6. ASSUME NEW c \in Calls, SetToken(c) PROVE NamedAlike(b)'
  BY <1>6 DEF SetToken
<1>7. ASSUME NEW c \in Calls, SaveName(c) PROVE NamedAlike(b)'
  BY <1>7 DEF SaveName
<1>8. ASSUME NEW c \in Calls, UniqueViolation(c) PROVE NamedAlike(b)'
  BY <1>8 DEF UniqueViolation
<1>9. ASSUME NEW c \in Calls, Reload(c) PROVE NamedAlike(b)'
  BY <1>9 DEF Reload
<1>10. ASSUME NEW c \in Calls, Destroy(c) PROVE NamedAlike(b)'
  BY <1>10 DEF Destroy
<1>11. ASSUME NEW c \in Calls, CreateBotUser(c) PROVE NamedAlike(b)'
  BY <1>11 DEF CreateBotUser, CreatesUser, CallsInv, CallInv, Holding, RowsInv,
    RowInv
<1>12. ASSUME NEW c \in Calls, UpdateBotUser(c) PROVE NamedAlike(b)'
  <2>1. /\ target[c] \in BotIds /\ life[target[c]] # "unborn"
        /\ bot[c].user = row[target[c]].user /\ bot[c].user \in Calls
    BY <1>12, HoldsBot DEF UpdateBotUser, Holding
  <2>2. CASE target[c] = b
    <3>1. Stored(b) => chatUser[row[b].user] = row[b].name /\ bot[c].name = row[b].name
      BY <1>12, <2>2 DEF UpdateBotUser, Alone, NameHeld
    <3>2. Stored(b) => row[b].name # NoName
      BY DEF Row
    <3>3. Stored(b) => chatUser'[row[b].user] = name[c]
      BY <1>12, <2>1, <2>2, <3>1, <3>2 DEF UpdateBotUser, RenamesUser
    <3> QED
      BY <1>12, <2>2, <3>1, <3>3 DEF UpdateBotUser, Alone
  <2>3. CASE target[c] # b
    <3>1. Stored(b) => row[b].user # bot[c].user
      BY <2>1, <2>3, UsersDiffer
    <3> QED
      BY <1>12, <2>3, <3>1 DEF UpdateBotUser, RenamesUser
  <2> QED
    BY <2>2, <2>3
<1>13. ASSUME NEW c \in Calls, RemoveFromTopics(c) PROVE NamedAlike(b)'
  BY <1>13 DEF RemoveFromTopics
<1>14. ASSUME NEW c \in Calls, DeleteBotUser(c) PROVE NamedAlike(b)'
  BY <1>14 DEF DeleteBotUser, DeletesUser, CallsInv, CallInv, Holding, RowsInv,
    RowInv, Alone
<1>15. ASSUME NEW c \in Calls, Unregister(c) PROVE NamedAlike(b)'
  BY <1>15 DEF Unregister
<1>16. ASSUME NEW c \in Calls, Register(c) PROVE NamedAlike(b)'
  BY <1>16 DEF Register
<1>17. ASSUME NEW c \in Calls, CallFails(c) PROVE NamedAlike(b)'
  BY <1>17 DEF CallFails, GaveUp
<1>18. ASSUME NEW c \in Calls, ServedLate(c) PROVE NamedAlike(b)'
  <2>1. target[c] # b
    BY <1>18 DEF ServedLate, Alone
  <2>2. Stored(b) => chatUser'[row[b].user] = chatUser[row[b].user]
    BY <1>18, <2>1, ServesItsUser
  <2> QED
    BY <1>18, <2>2 DEF ServedLate
<1>19. CASE Restart
  BY <1>19 DEF Restart, GaveUp
<1>20. CASE UNCHANGED vars
  BY <1>20
<1> HIDE DEF AccountsInv, TypeOK, NamedAlike
<1> QED
  BY <1>1, <1>2, <1>3, <1>4, <1>5, <1>6, <1>7, <1>8, <1>9, <1>10, <1>11, <1>12,
    <1>13, <1>14, <1>15, <1>16, <1>17, <1>18, <1>19, <1>20
  DEF Next, StartStep, TableStep, ChatServerStep, RegistryStep, FailureStep

LEMMA NextRegisteredAlike ==
  ASSUME AccountsInv, StageInv, UsersInv, [Next]_vars, NEW b \in BotIds,
         b \notin troubled, b \notin troubled', Alone(b), GoneAlone(b), RegisteredAlike(b)
  PROVE  RegisteredAlike(b)'
<1> USE NamesAssumption, BoundsAssumption DEF AccountsInv, TypeOK, BotIds, Kinds,
    Stored, About, InFlight, Awaiting, Ended, Requests, vars, table, call, Go,
    Working, RegisteredAlike
<1>1. ASSUME NEW c \in Calls, NEW u \in Usernames, StartCreate(c, u)
      PROVE  RegisteredAlike(b)'
  BY <1>1 DEF StartCreate
<1>2. ASSUME NEW c \in Calls, NEW k \in Kinds, NEW a \in BotIds, NEW u \in Usernames, Start(c, k, a, u)
      PROVE  RegisteredAlike(b)'
  BY <1>2 DEF Start, Overlapped
<1>3. ASSUME NEW c \in Calls, FindOwnedBot(c) PROVE RegisteredAlike(b)'
  BY <1>3 DEF FindOwnedBot, AfterFind, CallsInv, CallInv, Holding
<1>4. ASSUME NEW c \in Calls, CheckUsername(c) PROVE RegisteredAlike(b)'
  BY <1>4 DEF CheckUsername
<1>5. ASSUME NEW c \in Calls, NEW a \in BotIds, InsertBot(c, a)
      PROVE  RegisteredAlike(b)'
  BY <1>5 DEF InsertBot, CallsInv, CallInv, Holding
<1>6. ASSUME NEW c \in Calls, SetToken(c) PROVE RegisteredAlike(b)'
  BY <1>6 DEF SetToken
<1>7. ASSUME NEW c \in Calls, SaveName(c) PROVE RegisteredAlike(b)'
  BY <1>7 DEF SaveName
<1>8. ASSUME NEW c \in Calls, UniqueViolation(c) PROVE RegisteredAlike(b)'
  BY <1>8 DEF UniqueViolation
<1>9. ASSUME NEW c \in Calls, Reload(c) PROVE RegisteredAlike(b)'
  BY <1>9 DEF Reload
<1>10. ASSUME NEW c \in Calls, Destroy(c) PROVE RegisteredAlike(b)'
  BY <1>10 DEF Destroy
<1>11. ASSUME NEW c \in Calls, CreateBotUser(c) PROVE RegisteredAlike(b)'
  BY <1>11 DEF CreateBotUser, CreatesUser, CallsInv, CallInv, Holding
<1>12. ASSUME NEW c \in Calls, UpdateBotUser(c) PROVE RegisteredAlike(b)'
  BY <1>12 DEF UpdateBotUser, RenamesUser
<1>13. ASSUME NEW c \in Calls, RemoveFromTopics(c) PROVE RegisteredAlike(b)'
  BY <1>13 DEF RemoveFromTopics
<1>14. ASSUME NEW c \in Calls, DeleteBotUser(c) PROVE RegisteredAlike(b)'
  BY <1>14 DEF DeleteBotUser, DeletesUser
<1>15. ASSUME NEW c \in Calls, Unregister(c) PROVE RegisteredAlike(b)'
  BY <1>15 DEF Unregister
<1>16. ASSUME NEW c \in Calls, Register(c) PROVE RegisteredAlike(b)'
  BY <1>16 DEF Register, CallsInv, CallInv, Holding, Alone
<1>17. ASSUME NEW c \in Calls, CallFails(c) PROVE RegisteredAlike(b)'
  BY <1>17 DEF CallFails, GaveUp
<1>18. ASSUME NEW c \in Calls, ServedLate(c) PROVE RegisteredAlike(b)'
  BY <1>18 DEF ServedLate, CreatesUser, RenamesUser, DeletesUser
<1>19. CASE Restart
  BY <1>19 DEF Restart, GaveUp
<1>20. CASE UNCHANGED vars
  BY <1>20
<1> HIDE DEF AccountsInv, TypeOK, RegisteredAlike
<1> QED
  BY <1>1, <1>2, <1>3, <1>4, <1>5, <1>6, <1>7, <1>8, <1>9, <1>10, <1>11, <1>12,
    <1>13, <1>14, <1>15, <1>16, <1>17, <1>18, <1>19, <1>20
  DEF Next, StartStep, TableStep, ChatServerStep, RegistryStep, FailureStep

LEMMA TroubledGrows == [Next]_vars => troubled \subseteq troubled'
<1> SUFFICES ASSUME [Next]_vars PROVE troubled \subseteq troubled'
  OBVIOUS
<1>1. CASE StartStep
  BY <1>1 DEF StartStep, StartCreate, Start
<1>2. CASE TableStep
  BY <1>2 DEF TableStep, FindOwnedBot, CheckUsername, InsertBot, SetToken, SaveName,
              UniqueViolation, Reload, Destroy
<1>3. CASE ChatServerStep \/ RegistryStep
  BY <1>3 DEF ChatServerStep, CreateBotUser, UpdateBotUser, RemoveFromTopics, DeleteBotUser,
              RegistryStep, Unregister, Register
<1>4. CASE FailureStep \/ UNCHANGED vars
  BY <1>4 DEF FailureStep, CallFails, ServedLate, Restart, vars
<1> QED
  BY <1>1, <1>2, <1>3, <1>4 DEF Next

LEMMA NextUntroubled ==
  AccountsInv /\ StageInv /\ UsersInv /\ UntroubledInv /\ [Next]_vars => UntroubledInv'
<1> SUFFICES ASSUME AccountsInv, StageInv, UsersInv, UntroubledInv, [Next]_vars,
                    NEW b \in BotIds, b \notin troubled'
             PROVE  (Alone(b) /\ GoneAlone(b) /\ NameHeld(b) /\ NamedAlike(b) /\ RegisteredAlike(b))'
  BY DEF UntroubledInv
<1>1. b \notin troubled
  BY TroubledGrows
<1>2. Alone(b) /\ GoneAlone(b) /\ NameHeld(b) /\ NamedAlike(b) /\ RegisteredAlike(b)
  BY <1>1 DEF UntroubledInv
<1> QED
  BY <1>1, <1>2, NextAlone, NextGoneAlone, NextNameHeld, NextNamedAlike, NextRegisteredAlike

PlacesInv ==
  StageInv /\ UsersInv /\ HalfDeactivated /\ NoOrphanUsers /\ OutOfService /\ UntroubledInv

LEMMA PlacesInitially == GatewayInit => PlacesInv
<1> SUFFICES ASSUME Init PROVE PlacesInv
  BY DEF GatewayInit
<1>1. StageInv /\ UsersInv
  BY DEF Init, StageInv, UsersInv
<1>2. HalfDeactivated /\ OutOfService
  BY DEF Init, HalfDeactivated, OutOfService, Stored
<1>3. NoOrphanUsers
  BY NamesAssumption DEF Init, NoOrphanUsers
<1>4. UntroubledInv
  BY DEF Init, UntroubledInv, Alone, GoneAlone, NameHeld, NamedAlike, RegisteredAlike, Working,
         InFlight, Awaiting, Stored
<1> QED
  BY <1>1, <1>2, <1>3, <1>4 DEF PlacesInv

\* A step of the gateway is a step of the calls, or leaves them alone.
LEMMA CallsOfGateway == [GatewayNext]_<<vars, gateway>> => [Next]_vars
<1>1. CallStep \/ Restart => Next
  BY DEF CallStep, Next, FailureStep
<1> QED
  BY <1>1 DEF GatewayNext

LEMMA AccountsInvariance == GatewaySpec => [](AccountsInv /\ PlacesInv)
<1>1. AccountsInv /\ PlacesInv /\ [GatewayNext]_<<vars, gateway>> => PlacesInv'
  BY CallsOfGateway, NextStageInv, NextUsersInv, NextHalfDeactivated, NextNoOrphanUsers,
     NextOutOfService, NextUntroubled
  DEF PlacesInv
<1> QED
  BY PlacesInitially, Invariance, <1>1, PTL DEF GatewaySpec

(***************************************************************************)
(* However calls of BotsService overlap and fail, no bot user is left in   *)
(* chat_server without a row that leads to it, except by a createBot that  *)
(* failed.                                                                 *)
(***************************************************************************)
THEOREM UsersHaveRows == GatewaySpec => []NoOrphanUsers
BY AccountsInvariance, PTL DEF PlacesInv

(***************************************************************************)
(* A row whose user was deleted is on its way out, or left over by a       *)
(* deactivation that failed.                                               *)
(***************************************************************************)
THEOREM RowsWithoutUser == GatewaySpec => []HalfDeactivated
BY AccountsInvariance, PTL DEF PlacesInv

(***************************************************************************)
(* A stored bot without updates or without a token that somebody was told  *)
(* is one whose createBot has not ended well, or whose deactivation had    *)
(* only its DELETE left.                                                   *)
(***************************************************************************)
THEOREM BotsInService == GatewaySpec => []OutOfService
BY AccountsInvariance, PTL DEF PlacesInv

(***************************************************************************)
(* Whatever instances the calls hold, the token of a bot changes only to a *)
(* new one, and its name only by a rename.                                 *)
(***************************************************************************)
THEOREM UpdatesAreKept == GatewaySpec => NoLostUpdates
<1>1. AccountsInv /\ [GatewayNext]_<<vars, gateway>> => [\A b \in BotIds : LosesNothing(b)]_vars
  BY CallsOfGateway, StepsLoseNothing
<1> QED
  BY AccountsInvariance, <1>1, PTL DEF GatewaySpec, NoLostUpdates

(***************************************************************************)
(* A bot on which no two calls overlapped and none failed is known alike   *)
(* to the table, to chat_server and to the registry whenever no call about *)
(* it is running.                                                          *)
(***************************************************************************)
THEOREM QuietBotsAgree == GatewaySpec => []QuietBotsConsistent
<1>1. AccountsInv /\ PlacesInv => QuietBotsConsistent
  <2> SUFFICES ASSUME AccountsInv, PlacesInv, NEW b \in BotIds, Quiet(b)
               PROVE  /\ Stored(b) => /\ registered[b] = row[b].user
                                      /\ chatUser[row[b].user] = row[b].name
                      /\ ~Stored(b) => registered[b] = NoUser
    BY DEF QuietBotsConsistent
  <2>1. GoneAlone(b) /\ NamedAlike(b) /\ RegisteredAlike(b)
    BY DEF PlacesInv, UntroubledInv, Quiet
  <2>2. \A c \in Calls : About(c, b) => pc[c] \notin Awaiting
    BY DEF Quiet, InFlight
  <2>3. Stored(b) => registered[b] = row[b].user /\ chatUser[row[b].user] = row[b].name
    BY <2>1, <2>2 DEF NamedAlike, RegisteredAlike, Awaiting
  <2>4. life[b] = "gone" => registered[b] = NoUser
    BY <2>1 DEF GoneAlone
  <2>5. life[b] = "unborn" => registered[b] = NoUser
    BY DEF AccountsInv, RowsInv, RowInv
  <2> QED
    BY <2>3, <2>4, <2>5, TypeParts DEF AccountsInv, TableOK, Stored
<1> QED
  BY AccountsInvariance, <1>1, PTL
=============================================================================
