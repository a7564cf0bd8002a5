--------------------------- MODULE WebhookRequest ---------------------------
(***************************************************************************)
(* One attempt of WebhookProcessor.process: requestPublicHttps of          *)
(* src/utils/security/safe-https.ts, its promise raced for by the events   *)
(* of the response, the errors of the connection and the timer, and the    *)
(* verdict of the processor on what it settled with.                       *)
(*                                                                         *)
(* node:https is external: its events come in any order a connection       *)
(* allows. After destroy() no data comes any more; an end that was due may *)
(* still come before the errors.                                           *)
(***************************************************************************)
EXTENDS NetworkAddress

CONSTANTS
  Answers,           \* what a resolver may answer: sequences of addresses
  MaxResponseBytes,  \* MAX_WEBHOOK_RESPONSE_BYTES
  MaxSent            \* bound: bytes a server sends

ASSUME BytesAssumption ==
  /\ MaxResponseBytes \in Nat
  /\ MaxSent \in Nat
  /\ MaxResponseBytes =< MaxSent

ASSUME AnswersAssumption ==
  /\ <<>> \in Answers
  /\ \A found \in Answers : \A k \in DOMAIN found : IsAddress(found[k])

Undeclared == -1

VARIABLES
  phase,        \* of the request and its connection
  addresses,    \* the addresses the target was checked by
  status,       \* class of the status code
  declared,     \* content-length
  received,     \* receivedBytes
  kept,         \* bytes in chunks
  timer,        \* timeout
  errors,       \* error events that are due
  outcome,      \* of the promise
  settlements,  \* history: times resolve or reject was called
  job           \* how the attempt ended

target  == <<addresses>>
answer  == <<status, declared>>
body    == <<received, kept>>
promise == <<timer, outcome, settlements>>
vars    == <<phase, target, answer, body, errors, promise, job>>

Phases == {"idle", "resolving", "waiting", "receiving", "ignoring", "aborted", "ended"}

TypeOK ==
  /\ phase \in Phases
  /\ addresses \in Answers
  /\ status \in {"none", "ok", "redirect", "refused"}
  /\ declared \in Undeclared..MaxSent
  /\ received \in 0..MaxSent
  /\ kept \in 0..MaxResponseBytes
  /\ timer \in {"none", "set", "fired", "cleared"}
  /\ errors \in 0..2
  /\ outcome \in {"none", "resolved", "rejected"}
  /\ settlements \in Nat
  /\ job \in {"none", "delivered", "failed"}

-----------------------------------------------------------------------------
(* The promise                                                             *)

Settle(how) ==
  /\ outcome' = how
  /\ settlements' = settlements + 1
  /\ timer' = "cleared"

\* Mutant of FinishWithError: without the check of settled.
FinishWithErrorAgain ==
  /\ settlements' = settlements + 1
  /\ timer' = "cleared"
  /\ outcome' = IF outcome = "none" THEN "rejected" ELSE outcome

FinishWithError ==
  \/ outcome # "none" /\ UNCHANGED promise
  \/ outcome = "none" /\ Settle("rejected")

-----------------------------------------------------------------------------
(* resolvePublicHttpsUrl                                                   *)

\* Mutant of Acceptable: looks only at the address it will connect to.
AcceptableFirst(found) == found # <<>> /\ ~isBlockedNetworkAddress(found[1])

Acceptable(found) ==
  found # <<>> /\ \A k \in DOMAIN found : ~isBlockedNetworkAddress(found[k])

\* To the first of the addresses; the timer runs from here on.
Send(found) ==
  /\ addresses' = found
  /\ IF Acceptable(found)
     THEN /\ phase' = "waiting"
          /\ timer' = "set"
          /\ UNCHANGED <<outcome, settlements>>
     ELSE phase' = "ended" /\ Settle("rejected")

\* A payload over the limit, a URL that is malformed, not https or carries
\* credentials, and a URL that names an address rather than a host.
Begin ==
  /\ phase = "idle"
  /\ \/ phase' = "ended" /\ Settle("rejected") /\ UNCHANGED addresses
     \/ \E found \in Answers : Len(found) = 1 /\ Send(found)
     \/ phase' = "resolving" /\ UNCHANGED <<addresses, promise>>
  /\ UNCHANGED <<answer, body, errors, job>>

Resolved ==
  /\ phase = "resolving"
  /\ \/ \E found \in Answers : Send(found)
     \/ phase' = "ended" /\ Settle("rejected") /\ UNCHANGED addresses
  /\ UNCHANGED <<answer, body, errors, job>>

-----------------------------------------------------------------------------
(* requestPublicHttps                                                      *)

\* Mutant of Respond: the timer is for the head of the response only.
RespondUntimed(code, length) ==
  /\ phase = "waiting"
  /\ status' = code
  /\ declared' = length
  /\ \/ /\ code = "redirect"
        /\ phase' = "ignoring"
        /\ FinishWithError
     \/ /\ code # "redirect"
        /\ length > MaxResponseBytes
        /\ phase' = "ended"
        /\ FinishWithError
     \/ /\ code # "redirect"
        /\ length =< MaxResponseBytes
        /\ phase' = "receiving"
        /\ timer' = "cleared"
        /\ UNCHANGED <<outcome, settlements>>
  /\ UNCHANGED <<target, body, errors, job>>

\* The callback: a redirect is drained, a response that declares too much
\* destroyed, the others listened to.
Respond(code, length) ==
  /\ phase = "waiting"
  /\ status' = code
  /\ declared' = length
  /\ \/ /\ code = "redirect"
        /\ phase' = "ignoring"
        /\ FinishWithError
     \/ /\ code # "redirect"
        /\ length > MaxResponseBytes
        /\ phase' = "ended"
        /\ FinishWithError
     \/ /\ code # "redirect"
        /\ length =< MaxResponseBytes
        /\ phase' = "receiving"
        /\ UNCHANGED promise
  /\ UNCHANGED <<target, body, errors, job>>

\* Mutant of Data: a chunk is kept before the limit is looked at.
DataKept(bytes) ==
  /\ phase = "receiving"
  /\ received + bytes =< MaxSent
  /\ received' = received + bytes
  /\ kept' = kept + bytes
  /\ IF received' > MaxResponseBytes
     THEN phase' = "ended" /\ FinishWithError
     ELSE UNCHANGED <<phase, promise>>
  /\ UNCHANGED <<target, answer, errors, job>>

Data(bytes) ==
  /\ phase = "receiving"
  /\ received + bytes =< MaxSent
  /\ received' = received + bytes
  /\ IF received' > MaxResponseBytes
     THEN phase' = "ended" /\ FinishWithError /\ UNCHANGED kept
     ELSE kept' = kept + bytes /\ UNCHANGED <<phase, promise>>
  /\ UNCHANGED <<target, answer, errors, job>>

\* The end of a response that was listened to. It may have been due already
\* when the connection was aborted.
End ==
  /\ \/ phase = "receiving"
     \/ phase = "aborted" /\ errors > 0 /\ status \notin {"none", "redirect"}
  /\ phase' = "ended"
  /\ \/ outcome # "none" /\ UNCHANGED promise
     \/ outcome = "none" /\ Settle("resolved")
  /\ UNCHANGED <<target, answer, body, errors, job>>

\* Nobody listens any more.
Drained ==
  /\ phase = "ignoring"
  /\ phase' = "ended"
  /\ UNCHANGED <<target, answer, body, errors, promise, job>>

\* The request has an error listener, and so has the response once it is
\* listened to: one of them hears of a lost connection, or both.
Abort ==
  /\ phase' = "aborted"
  /\ \/ errors' = 1
     \/ phase = "receiving" /\ errors' = 2

ConnectionLost ==
  /\ phase \in {"waiting", "receiving", "ignoring"}
  /\ Abort
  /\ UNCHANGED <<target, answer, body, promise, job>>

Timeout ==
  /\ timer = "set"
  /\ timer' = "fired"
  /\ \/ phase \in {"waiting", "receiving"} /\ Abort
     \/ phase = "aborted" /\ UNCHANGED <<phase, errors>>
  /\ UNCHANGED <<target, answer, body, outcome, settlements, job>>

Error ==
  /\ errors > 0
  /\ errors' = errors - 1
  /\ FinishWithError
  /\ UNCHANGED <<phase, target, answer, body, job>>

-----------------------------------------------------------------------------
(* WebhookProcessor.process, once the promise settled                      *)

Verdict == IF outcome = "resolved" /\ status = "ok" THEN "delivered" ELSE "failed"

Judge ==
  /\ outcome # "none"
  /\ job = "none"
  /\ job' = Verdict
  /\ UNCHANGED <<phase, target, answer, body, errors, promise>>

-----------------------------------------------------------------------------
Init ==
  /\ phase = "idle"
  /\ addresses = <<>>
  /\ status = "none"
  /\ declared = Undeclared
  /\ received = 0
  /\ kept = 0
  /\ timer = "none"
  /\ errors = 0
  /\ outcome = "none"
  /\ settlements = 0
  /\ job = "none"

Response ==
  \/ \E code \in {"ok", "redirect", "refused"}, length \in Undeclared..MaxSent :
       Respond(code, length)
  \/ \E bytes \in 1..MaxSent : Data(bytes)
  \/ End

Next ==
  \/ Begin
  \/ Resolved
  \/ Response
  \/ Drained
  \/ ConnectionLost
  \/ Timeout
  \/ Error
  \/ Judge

\* The resolver answers, timers fire and events are dispatched. A server
\* need not answer, go on or close.
Fairness ==
  /\ WF_vars(Begin)
  /\ WF_vars(Resolved)
  /\ WF_vars(Timeout)
  /\ WF_vars(Error)
  /\ WF_vars(Judge)

Spec == Init /\ [][Next]_vars /\ Fairness

-----------------------------------------------------------------------------
(* Properties                                                              *)

(***************************************************************************)
(* Through every race of data, end, errors and timer the promise is        *)
(* settled by one of them only, and the timer does not outlive it.         *)
(***************************************************************************)
SettledOnce ==
  /\ settlements =< 1
  /\ outcome # "none" => timer # "set"
  /\ settlements = 0 <=> outcome = "none"

(***************************************************************************)
(* What is handed to the processor is the whole of what came, within the   *)
(* limit, of no redirect, from a host with no address in a blocked range.  *)
(***************************************************************************)
AnswerIsSound ==
  outcome = "resolved" =>
    /\ status \in {"ok", "refused"}
    /\ kept = received
    /\ declared =< MaxResponseBytes
    /\ addresses # <<>>
    /\ \A k \in DOMAIN addresses : ~isBlockedNetworkAddress(addresses[k])

(***************************************************************************)
(* The arithmetic on prefixes, "::" and mapped addresses draws the ranges  *)
(* of the code's tables where they are: an address is blocked if and only  *)
(* if it is between the first and last of a range, worked out by hand.     *)
(***************************************************************************)
VerdictMatchesRanges ==
  \A k \in DOMAIN addresses :
    isBlockedNetworkAddress(addresses[k]) <=> Reserved(addresses[k])

(***************************************************************************)
(* Once the promise is settled no chunk of the response is taken any more: *)
(* its connection is gone, or drained unread.                              *)
(***************************************************************************)
DeafOnceSettled ==
  outcome # "none" => phase \in {"ignoring", "aborted", "ended"}

(***************************************************************************)
(* Whatever the server does, or leaves undone, an attempt ends.            *)
(***************************************************************************)
AttemptEnds == <>(job # "none")
=============================================================================
