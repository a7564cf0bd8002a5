SPECIFICATION Spec
CONSTANTS
  r1 = r1
  r2 = r2
  r3 = r3
  r4 = r4
  Runs = {r1, r2, r3, r4}
  MaxBroken = 1
  MaxDowns = 1
SYMMETRY SymmetricRuns
INVARIANTS
  LoggedIsApplied
  LoggedInOrder
  OneRunSurvives
CHECK_DEADLOCK FALSE
