----------------------------- MODULE Migrations -----------------------------
(***************************************************************************)
(* src/scripts/migrations/umzug.ts, run at every start of a container      *)
(* (up) and by hand (down), and the migrations themselves. A run reads     *)
(* SequelizeMeta once, then goes through its migrations one statement      *)
(* after the other, and logs each when it is through. Nothing is in a      *)
(* transaction, nothing locks: replicas that start together run together,  *)
(* and a run may be killed anywhere. An error ends the run; it is printed  *)
(* and the application starts all the same.                                *)
(***************************************************************************)
EXTENDS Integers, Sequences

CONSTANTS
  Runs,       \* bound: invocations of umzug.ts
  MaxBroken,  \* bound: runs killed, or whose connection broke
  MaxDowns    \* bound: runs of migrate:down, each alone

ASSUME BoundsAssumption == MaxBroken \in Nat /\ MaxDowns \in Nat

\* What the statements of each migration make, by order of its file name.
Makes == << <<"bots", "token index", "owner index">>,
            <<"updates", "updates index">>,
            <<"commands">>,
            <<"backfill">> >>

\* parseInt of the name up to its first '-': "2026.03.30T01" and so on.
Key == <<2026, 2026, 2026, 2026>>

Names      == 1..Len(Makes)
Effects(m) == {Makes[m][k] : k \in DOMAIN Makes[m]}
Objects    == UNION {Effects(m) : m \in Names}
Tables     == {"bots", "updates"}
Looking    == {3, 4}   \* migrations that begin with describeTable('bots')

\* What an object is part of, or refers to.
Needs == [o \in Objects |->
  CASE o = "bots"          -> {}
    [] o = "updates index" -> {"updates"}
    [] o = "backfill"      -> {"bots", "commands"}
    [] OTHER               -> {"bots"}]

VARIABLES
  schema,   \* objects in the database
  meta,     \* SequelizeMeta: the executed migrations
  command,  \* what each run does
  pc,       \* what it does next, or how it ended
  todo,     \* the migrations it has still to go through
  step,     \* the statement of the present one
  broken,   \* runs killed so far
  downs,    \* runs of down so far
  undone    \* history: the migrations each run reverted

run  == <<command, pc, todo, step>>
vars == <<schema, meta, run, broken, downs, undone>>

Ended == {"done", "failed", "broken"}
Live(r) == pc[r] \in {"looking", "running", "logging"}

TypeOK ==
  /\ schema \subseteq Objects
  /\ meta \subseteq Names
  /\ command \in [Runs -> {"up", "down"}]
  /\ pc \in [Runs -> {"idle", "looking", "running", "logging"} \cup Ended]
  /\ todo \in [Runs -> SUBSET Names]
  /\ \A r \in Runs : Live(r) => todo[r] # {}
  /\ step \in [Runs -> 1..3]
  /\ broken \in 0..MaxBroken
  /\ downs \in 0..MaxDowns
  /\ undone \in [Runs -> SUBSET Names]

First(S) == CHOOSE m \in S : \A n \in S : m =< n
Last(S)  == CHOOSE m \in S : \A n \in S : n =< m

\* umzug goes up in the order of the names and down in the opposite one.
Present(r) == IF command[r] = "up" THEN First(todo[r]) ELSE Last(todo[r])

Begin(m) == IF m \in Looking THEN "looking" ELSE "running"

End(r, how) == pc' = [pc EXCEPT ![r] = how] /\ UNCHANGED <<command, todo, step>>

-----------------------------------------------------------------------------
(* A run starts                                                            *)

StartUp(r) ==
  LET pending == Names \ meta
  IN /\ pc[r] = "idle"
     /\ \A q \in Runs : Live(q) => command[q] = "up"
     /\ command' = [command EXCEPT ![r] = "up"]
     /\ todo' = [todo EXCEPT ![r] = pending]
     /\ step' = [step EXCEPT ![r] = 1]
     /\ pc' = [pc EXCEPT ![r] = IF pending = {} THEN "done" ELSE Begin(First(pending))]
     /\ UNCHANGED <<schema, meta, broken, downs, undone>>

\* The executed migrations by descending key; the sort is stable, so ties
\* leave them in the order of their names. Down to the first of those.
LastMigration(executed) ==
  First({m \in executed : \A n \in executed : Key[n] =< Key[m]})

StartDown(r) ==
  LET executed == meta
      reverted == {m \in executed : m >= LastMigration(executed)}
  IN /\ pc[r] = "idle"
     /\ downs < MaxDowns
     /\ \A q \in Runs : ~Live(q)
     /\ downs' = downs + 1
     /\ command' = [command EXCEPT ![r] = "down"]
     /\ IF executed = {}
        THEN /\ pc' = [pc EXCEPT ![r] = "failed"]
             /\ UNCHANGED <<todo, step>>
        ELSE /\ todo' = [todo EXCEPT ![r] = reverted]
             /\ step' = [step EXCEPT ![r] = 1]
             /\ pc' = [pc EXCEPT ![r] = Begin(Last(reverted))]
     /\ UNCHANGED <<schema, meta, broken, undone>>

-----------------------------------------------------------------------------
(* The statements of a migration                                           *)

\* Mutant of NothingToDo: returns early where the column is missing.
NothingToDoInverted(r) ==
  IF command[r] = "up" THEN "commands" \notin schema ELSE "commands" \in schema

NothingToDo(r) ==
  IF command[r] = "up" /\ Present(r) = 3 THEN "commands" \in schema
                                         ELSE "commands" \notin schema

\* describeTable, and the early return.
Look(r) ==
  /\ pc[r] = "looking"
  /\ \/ "bots" \notin schema /\ End(r, "failed")
     \/ "bots" \in schema /\ End(r, IF NothingToDo(r) THEN "logging" ELSE "running")
  /\ UNCHANGED <<schema, meta, broken, downs, undone>>

RunsOf(m, r) == {q \in Runs \ {r} : Live(q) /\ m \in todo[q]}

\* An index or a column exists already; what it is part of does not; or two
\* runs race to create a table, IF NOT EXISTS or not.
UpFails(r, o) ==
  \/ ~(Needs[o] \subseteq schema)
  \/ o \in schema /\ o \notin Tables \cup {"backfill"}
  \/ o \in schema \cap Tables /\ RunsOf(Present(r), r) # {}

UpSucceeds(r, o) ==
  /\ Needs[o] \subseteq schema
  /\ o \in schema => o \in Tables \cup {"backfill"}

UpStatement(r) ==
  LET m == Present(r)
      o == Makes[m][step[r]]
  IN /\ pc[r] = "running"
     /\ command[r] = "up"
     /\ \/ /\ UpFails(r, o)
           /\ End(r, "failed")
           /\ UNCHANGED schema
        \/ /\ UpSucceeds(r, o)
           /\ schema' = schema \cup {o}
           /\ IF step[r] < Len(Makes[m])
              THEN step' = [step EXCEPT ![r] = @ + 1] /\ UNCHANGED <<command, pc, todo>>
              ELSE End(r, "logging")
     /\ UNCHANGED <<meta, broken, downs, undone>>

\* A statement drops what the first one made, with all that needs it; a
\* table that another refers to cannot be dropped.
Drops(o) == {o} \cup {x \in Objects : o \in Needs[x]}

DownStatement(r) ==
  LET o == Makes[Present(r)][1]
  IN /\ pc[r] = "running"
     /\ command[r] = "down"
     /\ \/ /\ o = "bots" /\ "updates" \in schema
           /\ End(r, "failed")
           /\ UNCHANGED schema
        \/ /\ ~(o = "bots" /\ "updates" \in schema)
           /\ schema' = schema \ Drops(o)
           /\ End(r, "logging")
     /\ UNCHANGED <<meta, broken, downs, undone>>

-----------------------------------------------------------------------------
(* SequelizeStorage                                                        *)

Continue(r, rest) ==
  /\ todo' = [todo EXCEPT ![r] = rest]
  /\ step' = [step EXCEPT ![r] = 1]
  /\ pc' = [pc EXCEPT ![r] =
       IF rest = {} THEN "done"
       ELSE Begin(IF command[r] = "up" THEN First(rest) ELSE Last(rest))]
  /\ UNCHANGED command

\* Mutant of LogUp: one migration a run.
LogUpOnce(r) ==
  /\ pc[r] = "logging"
  /\ command[r] = "up"
  /\ meta' = meta \cup {Present(r)}
  /\ End(r, "done")
  /\ UNCHANGED <<schema, broken, downs, undone>>

\* The name is the primary key: of two runs that log it, the second fails.
LogUp(r) ==
  LET m == Present(r)
  IN /\ pc[r] = "logging"
     /\ command[r] = "up"
     /\ IF m \in meta THEN End(r, "failed") /\ UNCHANGED meta
                      ELSE Continue(r, todo[r] \ {m}) /\ meta' = meta \cup {m}
     /\ UNCHANGED <<schema, broken, downs, undone>>

\* Mutant of LogDown: takes the migration it was asked for off the list.
LogDownTarget(r) ==
  /\ pc[r] = "logging"
  /\ command[r] = "down"
  /\ meta' = meta \ {LastMigration(meta)}
  /\ undone' = [undone EXCEPT ![r] = @ \cup {Present(r)}]
  /\ Continue(r, todo[r] \ {Present(r)})
  /\ UNCHANGED <<schema, broken, downs>>

LogDown(r) ==
  LET m == Present(r)
  IN /\ pc[r] = "logging"
     /\ command[r] = "down"
     /\ meta' = meta \ {m}
     /\ undone' = [undone EXCEPT ![r] = @ \cup {m}]
     /\ Continue(r, todo[r] \ {m})
     /\ UNCHANGED <<schema, broken, downs>>

\* The container is stopped, or the database fails the run.
Breaks(r) ==
  /\ Live(r)
  /\ broken < MaxBroken
  /\ broken' = broken + 1
  /\ End(r, "broken")
  /\ UNCHANGED <<schema, meta, downs, undone>>

-----------------------------------------------------------------------------
Init ==
  /\ schema = {}
  /\ meta = {}
  /\ command = [r \in Runs |-> "up"]
  /\ pc = [r \in Runs |-> "idle"]
  /\ todo = [r \in Runs |-> {}]
  /\ step = [r \in Runs |-> 1]
  /\ broken = 0
  /\ downs = 0
  /\ undone = todo

StartStep == \E r \in Runs : StartUp(r) \/ StartDown(r)
MigrationStep == \E r \in Runs : Look(r) \/ UpStatement(r) \/ DownStatement(r)
StorageStep == \E r \in Runs : LogUp(r) \/ LogDown(r)
BreakStep == \E r \in Runs : Breaks(r)

Next == StartStep \/ MigrationStep \/ StorageStep \/ BreakStep

Spec == Init /\ [][Next]_vars

-----------------------------------------------------------------------------
(* Properties                                                              *)

(***************************************************************************)
(* A migration that SequelizeMeta lists has made all it makes, through all *)
(* concurrent and broken runs. The exception is a run of down that dropped *)
(* it, or one before it, and has not taken that one off the list: if it    *)
(* broke there, later migrations find nothing to do and are logged.        *)
(***************************************************************************)
HalfReverted(m) ==
  \E r \in Runs : /\ command[r] = "down"
                  /\ pc[r] \in {"logging", "broken"}
                  /\ Last(todo[r]) =< m

LoggedIsApplied ==
  \A m \in meta : Effects(m) \subseteq schema \/ HalfReverted(m)

(***************************************************************************)
(* Migrations are logged in the order of their names, whoever runs: none   *)
(* is executed before one it builds on.                                    *)
(***************************************************************************)
LoggedInOrder == \A m \in meta, n \in Names : n < m => n \in meta

(***************************************************************************)
(* Replicas that start together may fail each other's runs, but not all:   *)
(* if no run broke and none reverted, the schema is complete and logged    *)
(* when the last of them ends.                                             *)
(***************************************************************************)
OneRunSurvives ==
  /\ broken = 0 /\ downs = 0
  /\ \E r \in Runs : pc[r] \in Ended
  /\ \A r \in Runs : ~Live(r)
  => meta = Names /\ schema = Objects

(***************************************************************************)
(* migrate:down reverts "the last executed migration", as it prints.       *)
(***************************************************************************)
RevertsTheLast ==
  \A r \in Runs : \A m, n \in undone[r] : m = n
=============================================================================
