SPECIFICATION Spec
CONSTANTS
  Conn = {c1, c2, c3, c4}
  MaxFd = 3
  OwnOnly = FALSE
  Empty = TRUE
  MaxDelh = 1
  MaxLoss = 1
  MaxIntr = 1
INVARIANTS
  Tables
SYMMETRY Symmetry
CHECK_DEADLOCK FALSE
