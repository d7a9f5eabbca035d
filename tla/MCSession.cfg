SPECIFICATION Spec
CONSTANTS
  Space = 4
  MaxLines = 4
  MaxLen = 5
  Blank = TRUE
  MaxSize = 7
  MaxTasks = 4
  MaxRelax = 2
  MaxFd = 2
  MaxSent = 4
  MaxMsg = 2
  MaxConns = 3
  Worlds <- MCWorlds
INVARIANTS
  WholeLines
  Written
  Replies
PROPERTIES
  Handled
  Finishes
  Reliable
CHECK_DEADLOCK FALSE
