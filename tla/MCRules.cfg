SPECIFICATION Spec
CONSTANTS
  Perm <- Characters
  Relax = TRUE
  Default = " "
  MultiSubst = 4
  Longest = 4
  Programs <- MCRulesPrograms
  Texts <- MCTexts
  MaxTexts = 2
CHECK_DEADLOCK FALSE
INVARIANTS Upright Syllabified WholeText
PROPERTIES PhonesKept Intoned
