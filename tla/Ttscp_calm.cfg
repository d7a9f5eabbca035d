SPECIFICATION FairSpec
CONSTANTS
  Conn = {c1, c2, c3}
  MaxFd = 3
  OwnOnly = TRUE
  Empty = FALSE
  MaxDelh = 0
  MaxLoss = 0
  MaxIntr = 0
INVARIANTS
  Steady
PROPERTIES
  Served
CHECK_DEADLOCK FALSE
