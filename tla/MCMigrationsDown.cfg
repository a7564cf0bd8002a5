SPECIFICATION Spec
CONSTANTS
  r1 = r1
  r2 = r2
  r3 = r3
  r4 = r4
  Runs = {r1, r2}
  MaxBroken = 0
  MaxDowns = 1
INVARIANTS
  RevertsTheLast
CHECK_DEADLOCK FALSE
