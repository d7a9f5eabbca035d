SPECIFICATION FairSpec
CONSTANTS
  Kind <- Single
  PendMin = 1
  PendMax = 1
  Failing = {1, 2, 3, 4, 5}
  MaxUtt = 2
  MaxAppl = 8
  MaxIntr = 0
INVARIANTS
  Concluded
CHECK_DEADLOCK FALSE
