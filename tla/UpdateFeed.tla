----------------------------- MODULE UpdateFeed -----------------------------
(***************************************************************************)
(* What a developer may rely on when polling getUpdates: updates of the    *)
(* bot are logged under growing numbers, and each reader consumes batches  *)
(* of logged updates, always from its cursor on, moving the cursor past    *)
(* what it consumed. It says nothing about numbers the reader passed over. *)
(***************************************************************************)
EXTENDS Integers, Sequences

CONSTANTS
  MaxUpdates,  \* bound: the updates there are
  Readers      \* developers' processes, one after the other or at once

\* The numbers of updates.
Ids == 1..MaxUpdates

VARIABLES
  log,      \* the updates that can be read
  cursor,   \* the offset of each reader
  consumed  \* the batches each reader consumed

vars == <<log, cursor, consumed>>

Init ==
  /\ log = {}
  /\ cursor = [r \in Readers |-> 0]
  /\ consumed = [r \in Readers |-> <<>>]

Log(i) ==
  /\ log' = log \cup {i}
  /\ UNCHANGED <<cursor, consumed>>

Consume(r) ==
  \E batch \in SUBSET log : \E last \in batch :
    /\ \A i \in batch : cursor[r] =< i /\ i =< last
    /\ cursor' = [cursor EXCEPT ![r] = last + 1]
    /\ consumed' = [consumed EXCEPT ![r] = Append(@, batch)]
    /\ UNCHANGED log

Next ==
  \/ \E i \in Ids : Log(i)
  \/ \E r \in Readers : Consume(r)

Spec == Init /\ [][Next]_vars

-----------------------------------------------------------------------------
(* Every batch lies after the ones before it: no reader consumes an update *)
(* twice, or a lower number after a higher one.                            *)
Ascending(batches) ==
  \A m, n \in 1..Len(batches) : m < n =>
    \A i \in batches[m], j \in batches[n] : i < j

ConsumedInOrderOnce == \A r \in Readers : Ascending(consumed[r])
=============================================================================
