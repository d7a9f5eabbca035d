SPECIFICATION Spec
CONSTANTS
  Lines <- TheLines
  MaxLines = 4
  MaxErrors = 2
  MaxNest = 2
  Codes = {0, 1, 2, 3, 4, 5, 6, 7}
  Ascii = {1, 2, 3}
  ControlBytes = {1}
  Maps <- MCMaps
  FileName = {f, g}
  Reader = {a, b}
  Second = {1, 2}
  Concurrent = FALSE
  MaxWrites = 4
  Programs <- MCConfigurations
  MaxSlots = 4
INVARIANTS
  Compiled
  Unified
  Claims
  Configured
PROPERTIES
  Fresh
CHECK_DEADLOCK FALSE
