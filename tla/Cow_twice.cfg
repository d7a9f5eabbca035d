SPECIFICATION CowSpec
CONSTANTS
  Session = {s1, s2}
  MaxConnect = 3
  MaxSetl = 1
  MaxSetg = 2
INVARIANT
  NoneDangling
CHECK_DEADLOCK FALSE
