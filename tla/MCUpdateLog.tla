---------------------------- MODULE MCUpdateLog -----------------------------
(* Instances of UpdateLog for TLC: updates of two bots share the table.    *)
EXTENDS UpdateLog

CONSTANTS b1, b2
=============================================================================
