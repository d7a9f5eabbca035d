SPECIFICATION FairSpec
CONSTANTS
  Kind <- Play
  PendMin = 1
  PendMax = 1
  Failing = {1, 3, 5, 6}
  MaxUtt = 6
  MaxAppl = 4
  MaxIntr = 2
PROPERTIES
  Resumes
CHECK_DEADLOCK FALSE
