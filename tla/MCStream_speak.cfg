SPECIFICATION FairSpec
CONSTANTS
  Kind <- Speak
  PendMin = 1
  PendMax = 1
  Failing = {}
  MaxUtt = 9
  MaxAppl = 2
  MaxIntr = 0
INVARIANTS
  PendConsistent
  Bounded
  Scheduled
PROPERTIES
  Completes
  Delivers
CHECK_DEADLOCK FALSE
