SPECIFICATION Spec
CONSTANTS
  Perm <- Characters
  Relax = TRUE
  Default = " "
  MultiSubst = 4
  Longest = 4
  Programs <- GonePrograms
  Texts <- GoneTexts
  MaxTexts = 2
CHECK_DEADLOCK FALSE
INVARIANT Sane
