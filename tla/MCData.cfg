SPECIFICATION Spec
CONSTANTS
  Key = {1, 2, 3, 4, 5, 6, 7}
  Data <- Few
  Missing = Missing
  Code <- Clash
  Size = 1
  Files <- WrittenFiles
  Optimal = 60
  Dense = 500
  TooDeep = 3
  MaxItems = 7
  Session = {s1, s2}
  MaxConnect = 3
  MaxSetl = 1
  MaxSetg = 2
  Texts <- MCTexts
  Pairs <- MCPairs
  MAX_SIZE = 10
  HashSearch = 2
INVARIANTS
  Shaped
  Owned
  Represents
PROPERTIES
  IsDictionary
  Isolated
CHECK_DEADLOCK FALSE
