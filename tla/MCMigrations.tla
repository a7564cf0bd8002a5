---------------------------- MODULE MCMigrations ----------------------------
(* Instances of Migrations for TLC.                                        *)
EXTENDS Migrations, TLC

CONSTANTS r1, r2, r3, r4

SymmetricRuns == Permutations(Runs)
=============================================================================
