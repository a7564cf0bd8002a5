----------------------------- MODULE BotGateway ------------------------------
(***************************************************************************)
(* The Bot API next to the calls of BotsService: BotApiAuthGuard reads the *)
(* bot of a token, then BotApiService works for the bot that it read. The  *)
(* row, its token, the chat user and the registry change in between.       *)
(*   send   sendMessage, editMessageText, deleteMessage, sendDocument      *)
(*   look   getChat, getChatMembersCount                                   *)
(*   write  setMyCommands, setWebhook, deleteWebhook                       *)
(* Methods that only read a row, or pass a file name on, are left out;     *)
(* getUpdates is in UpdateLog.                                             *)
(***************************************************************************)
EXTENDS BotAccounts

CONSTANTS
  HttpRequests,  \* bound: the requests of a behaviour
  Nobody         \* writer of settings that nobody wrote

ASSUME WritersAssumption == Nobody \notin HttpRequests

VARIABLES
  request,   \* the requests of developers
  settings,  \* commands and webhookConfig of each row, by who wrote them
  posts      \* what chat_server did for a request, and as which user

gateway == <<request, settings, posts>>

Methods == {"send", "look", "write"}
Running == {"verifying", "calling", "writing", "forwarded"}
Answered == {"ok", "error", "unauthorized"}

\* token: named by the call that generated it; stale: not in force when it
\* was presented; bot and user: of the instance the guard read; sender: as
\* whom chat_server is asked; rpc: what became of what it was asked.
Request ==
  [phase : {"idle"} \cup Running \cup Answered, method : Methods,
   token : Calls \cup {NoUser}, stale : BOOLEAN,
   bot : BotIds \cup {0}, user : Calls \cup {NoUser}, sender : Calls \cup {NoUser},
   rpc : {"none", "queued", "served", "refused"}]

GatewayTypeOK ==
  /\ TypeOK
  /\ request \in [HttpRequests -> Request]
  /\ settings \in [BotIds -> HttpRequests \cup {Nobody}]
  /\ posts \subseteq HttpRequests \X Calls

End(r, how) == request' = [request EXCEPT ![r].phase = how]

-----------------------------------------------------------------------------
(* Authentication                                                          *)

InForce(b, c) == Stored(b) /\ row[b].token = <<c, "final">>

\* A developer has the tokens that createBot and regenerateToken returned.
Ask(r, c, m) ==
  /\ request[r].phase = "idle"
  /\ kind[c] \in {"create", "regenerate"}
  /\ pc[c] = "done"
  /\ request' = [request EXCEPT ![r].phase = "verifying", ![r].method = m,
                   ![r].token = c, ![r].stale = ~InForce(target[c], c)]
  /\ UNCHANGED <<settings, posts>>

\* Mutant of TokenOf: by the id in front of the token, not by its hash.
TokenOfId(b, c) == Stored(b) /\ target[c] = b

TokenOf(b, c) == InForce(b, c)

\* BotApiAuthGuard: findOne by the hash of the token.
VerifyToken(r) ==
  /\ request[r].phase = "verifying"
  /\ \/ \E b \in BotIds :
          /\ TokenOf(b, request[r].token)
          /\ request' = [request EXCEPT ![r].phase = "calling",
                           ![r].bot = b, ![r].user = row[b].user]
     \/ /\ \A b \in BotIds : ~TokenOf(b, request[r].token)
        /\ End(r, "unauthorized")
  /\ UNCHANGED <<settings, posts>>

-----------------------------------------------------------------------------
(* BotApiService                                                           *)

Forward(r, u) ==
  request' = [request EXCEPT ![r].phase = "forwarded", ![r].sender = u, ![r].rpc = "queued"]

\* In the name of the user the registry has for the bot by now.
Send(r) ==
  /\ request[r].phase = "calling"
  /\ request[r].method = "send"
  /\ LET u == registered[request[r].bot]
     IN IF u = NoUser THEN End(r, "error") ELSE Forward(r, u)
  /\ UNCHANGED <<settings, posts>>

\* In the name of the user the guard read.
Look(r) ==
  /\ request[r].phase = "calling"
  /\ request[r].method = "look"
  /\ Forward(r, request[r].user)
  /\ UNCHANGED <<settings, posts>>

\* setWebhook resolves its url, setMyCommands checks its commands: both may
\* end the request.
Check(r) ==
  /\ request[r].phase = "calling"
  /\ request[r].method = "write"
  /\ \/ request' = [request EXCEPT ![r].phase = "writing"]
     \/ End(r, "error")
  /\ UNCHANGED <<settings, posts>>

\* An UPDATE by id: no matter if no row has the id any more.
Write(r) ==
  /\ request[r].phase = "writing"
  /\ settings' = IF Stored(request[r].bot)
                 THEN [settings EXCEPT ![request[r].bot] = r] ELSE settings
  /\ End(r, "ok")
  /\ UNCHANGED posts

\* chat_server does as it is asked for users it has; or refuses.
Serve(r) ==
  /\ request[r].rpc = "queued"
  /\ \/ /\ chatUser[request[r].sender] \in Usernames
        /\ request' = [request EXCEPT ![r].rpc = "served"]
        /\ posts' = posts \cup {<<r, request[r].sender>>}
     \/ request' = [request EXCEPT ![r].rpc = "refused"] /\ UNCHANGED posts
  /\ UNCHANGED settings

\* A refusal is an error for those who look. A refused send is answered ok,
\* with nothing as its result: sendMessage does not look at ok.
Answer(r) ==
  /\ request[r].phase = "forwarded"
  /\ \/ /\ request[r].rpc = "served" \/ (request[r].rpc = "refused" /\ request[r].method = "send")
        /\ End(r, "ok")
     \/ request[r].rpc = "refused" /\ request[r].method = "look" /\ End(r, "error")
  /\ UNCHANGED <<settings, posts>>

\* A query throws or an RPC times out; what was asked may still be served.
RequestFails(r) ==
  /\ request[r].phase \in Running \ {"calling"}
  /\ End(r, "error")
  /\ UNCHANGED <<settings, posts>>

\* Requests end with the process that runs them.
RequestsEnd ==
  /\ request' = [r \in HttpRequests |->
       IF request[r].phase \in Running THEN [request[r] EXCEPT !.phase = "error"]
                                       ELSE request[r]]
  /\ UNCHANGED <<settings, posts>>

-----------------------------------------------------------------------------
GatewayInit ==
  /\ Init
  /\ request = [r \in HttpRequests |->
       [phase |-> "idle", method |-> "send", token |-> NoUser, stale |-> FALSE,
        bot |-> 0, user |-> NoUser, sender |-> NoUser, rpc |-> "none"]]
  /\ settings = [b \in BotIds |-> Nobody]
  /\ posts = {}

CallStep ==
  \/ StartStep
  \/ TableStep
  \/ ChatServerStep
  \/ RegistryStep
  \/ \E c \in Calls : CallFails(c) \/ ServedLate(c)

RequestStep ==
  \E r \in HttpRequests :
    \/ \E c \in Calls, m \in Methods : Ask(r, c, m)
    \/ VerifyToken(r)
    \/ Send(r) \/ Look(r) \/ Check(r) \/ Write(r)
    \/ Serve(r) \/ Answer(r) \/ RequestFails(r)

GatewayNext ==
  \/ CallStep /\ UNCHANGED gateway
  \/ Restart /\ RequestsEnd
  \/ RequestStep /\ UNCHANGED vars

GatewaySpec == GatewayInit /\ [][GatewayNext]_<<vars, gateway>>

-----------------------------------------------------------------------------
(* Properties                                                              *)

(***************************************************************************)
(* However a request interleaves with calls that create, rename, revoke,   *)
(* deactivate and register again, and with restarts: a token that was not  *)
(* in force when it was presented lets nobody in, and what is asked of     *)
(* chat_server or written is asked and written for the bot of the token,   *)
(* as the user of that bot.                                                *)
(***************************************************************************)
ActsForItsToken ==
  /\ \A r \in HttpRequests :
       LET q == request[r]
       IN q.bot # 0 =>
            /\ ~q.stale
            /\ q.bot = target[q.token]
            /\ q.sender \in {NoUser, row[q.bot].user}
  /\ \A b \in BotIds : settings[b] # Nobody => request[settings[b]].bot = b
  /\ \A p \in posts :
       request[p[1]].bot # 0 /\ p[2] = row[request[p[1]].bot].user
=============================================================================
