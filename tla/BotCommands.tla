---------------------------- MODULE BotCommands ----------------------------
(***************************************************************************)
(* setMyCommands and the column bots.commands: the validation of the       *)
(* request (SetMyCommandsDto), the normalisation of names and descriptions *)
(* by BotsService, and what getMyCommands answers, sent back by a client   *)
(* that edits its list. A text is a sequence of characters, told apart as  *)
(* far as the code does: "/", " ", the characters of names, any other.     *)
(***************************************************************************)
EXTENDS Naturals, Sequences, SequencesExt

CONSTANTS
  Chars,           \* of texts
  NameChars,       \* a-z, A-Z, 0-9, _ and -
  LowerCase,       \* of each of them
  MaxName,         \* characters of a name in a request, its slash included
  MaxDescription,
  MaxCommands,
  Backfilled,      \* commands the migration has written to the row, or <<>>
  Requests         \* bound: the lists bots send

ASSUME CharsAssumption ==
  /\ NameChars \cup {"/", " "} \subseteq Chars
  /\ {"/", " "} \cap NameChars = {}
  /\ LowerCase \in [NameChars -> NameChars]

ASSUME LimitsAssumption ==
  MaxName \in Nat /\ MaxDescription \in Nat /\ MaxCommands \in Nat

Commands == [command : Seq(Chars), description : Seq(Chars)]

ASSUME RequestsAssumption == Requests \subseteq Seq(Commands)

VARIABLES
  commands, \* of the row of the bot
  request,  \* history: the last list sent
  answer    \* history: what came back

vars == <<commands, request, answer>>

-----------------------------------------------------------------------------
(* SetMyCommandsDto, by the ValidationPipe                                 *)

\* /^\/?[a-zA-Z0-9_-]+$/
Matches(name) ==
  LET slash == IF name # <<>> /\ name[1] = "/" THEN 1 ELSE 0
  IN Len(name) > slash /\ \A i \in slash + 1..Len(name) : name[i] \in NameChars

ValidBelow(list) ==   \* mutant: a name at the limit is too long
  /\ Len(list) =< MaxCommands
  /\ \A i \in DOMAIN list :
       /\ Matches(list[i].command) /\ Len(list[i].command) < MaxName
       /\ Len(list[i].description) \in 1..MaxDescription

Valid(list) ==
  /\ Len(list) =< MaxCommands
  /\ \A i \in DOMAIN list :
       /\ Matches(list[i].command) /\ Len(list[i].command) =< MaxName
       /\ Len(list[i].description) \in 1..MaxDescription

-----------------------------------------------------------------------------
(* BotsService.normalizeBotCommands                                        *)

\* s from its first character that is not in skip; up to its first space.
From(s, skip) ==
  LET kept == {i \in DOMAIN s : s[i] \notin skip}
  IN SubSeq(s, IF kept = {} THEN Len(s) + 1 ELSE Min(kept), Len(s))
FirstWord(s) ==
  LET spaces == {i \in DOMAIN s : s[i] = " "}
  IN SubSeq(s, 1, IF spaces = {} THEN Len(s) ELSE Min(spaces) - 1)

Trim(s) == Reverse(From(Reverse(From(s, {" "})), {" "}))

\* The characters of s that are in chars, in their order.
Only(s, chars) ==
  LET kept   == {i \in DOMAIN s : s[i] \in chars}
      nth(k) == CHOOSE i \in kept : Cardinality({j \in kept : j =< i}) = k
  IN [k \in 1..Cardinality(kept) |-> s[nth(k)]]

NormalName(name) ==
  LET word == FirstWord(From(Trim(name), {"/"}))
      kept == Only(word, NameChars)
  IN IF kept = <<>> THEN <<>> ELSE <<"/">> \o kept

Normal(list) ==
  [i \in DOMAIN list |-> [command     |-> NormalName(list[i].command),
                          description |-> Trim(list[i].description)]]

KeyAsWritten(name) == name   \* mutant: keys not in lower case

Key(name) == [i \in DOMAIN name |-> IF name[i] = "/" THEN "/" ELSE LowerCase[name[i]]]

\* No name or description is empty, no two names have one key.
Accepted(list) ==
  /\ Len(list) =< MaxCommands
  /\ \A i \in DOMAIN list : list[i].command # <<>> /\ list[i].description # <<>>
  /\ \A i, j \in DOMAIN list : Key(list[i].command) = Key(list[j].command) => i = j

\* What the row may hold: nothing is left to normalise.
Stored(list) ==
  /\ list \in Seq(Commands) /\ Normal(list) = list /\ Accepted(list)
  /\ \A i \in DOMAIN list :
       Matches(list[i].command) /\ Len(list[i].description) =< MaxDescription

ASSUME BackfilledAssumption == Stored(Backfilled)

-----------------------------------------------------------------------------
SetMyCommands(list) ==
  /\ request' = list
  /\ \/ /\ Valid(list) /\ Accepted(Normal(list))
        /\ commands' = Normal(list)
        /\ answer' = "ok"
     \/ /\ ~(Valid(list) /\ Accepted(Normal(list)))
        /\ answer' = "400"
        /\ UNCHANGED commands

\* A client sends back the list it read with getMyCommands.
SetAgain == SetMyCommands(commands)

Init ==
  /\ commands \in {<<>>, Backfilled}
  /\ request = <<>>
  /\ answer = "none"

Next == SetAgain \/ \E list \in Requests : SetMyCommands(list)

Spec == Init /\ [][Next]_vars

-----------------------------------------------------------------------------
(* Properties                                                              *)

\* A name without its slash, and in lower case.
Bare(name) == IF name # <<>> /\ name[1] = "/" THEN Tail(name) ELSE name
Folded(name) == [i \in DOMAIN Bare(name) |-> LowerCase[Bare(name)[i]]]

Meaningful(list) ==
  /\ Len(list) =< MaxCommands
  /\ \A i \in DOMAIN list :
       /\ Len(list[i].command) =< MaxName
       /\ Bare(list[i].command) # <<>>
       /\ Range(Bare(list[i].command)) \subseteq NameChars
       /\ Len(list[i].description) =< MaxDescription
       /\ \E k \in DOMAIN list[i].description : list[i].description[k] # " "
  /\ \A i, j \in DOMAIN list :
       Folded(list[i].command) = Folded(list[j].command) => i = j

(***************************************************************************)
(* setMyCommands takes a list exactly when it is meaningful, every name    *)
(* with or without its slash and different from the others in more than    *)
(* case, and then stores the names as they were sent, each with one slash: *)
(* the characters normalisation removes never make two names one, nor one  *)
(* name another, because validation lets none of them through.             *)
(***************************************************************************)
AcceptedAsSent ==
  /\ answer = "ok" => Meaningful(request)
  /\ answer = "400" => ~Meaningful(request)
  /\ answer = "ok" =>
       /\ Len(commands) = Len(request)
       /\ \A i \in DOMAIN request :
            commands[i].command = <<"/">> \o Bare(request[i].command)

(***************************************************************************)
(* What getMyCommands answers can be set again and changes nothing, unless *)
(* a name was sent without its slash at the limit of its length: stored    *)
(* with the slash it is one character longer than validation allows.       *)
(***************************************************************************)
SettingWhatIsSet ==
  [][request' = commands =>
       /\ commands' = commands
       /\ answer' = "ok" <=> \A i \in DOMAIN commands : Len(commands[i].command) =< MaxName]_vars
=============================================================================
