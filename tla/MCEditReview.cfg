\* Two failures or kills, and one write by the user, at any moment.
SPECIFICATION Spec
CONSTANTS
  Paths = {"f", "g"}
  Chars = {"a", "b"}
  Answers <- AnswersOfOneEditPerFile
  Initial <- InitialFiles
  UserTexts <- TheUsers
  Ids = {1, 2, 3}
  Faults = {"backup", "write"}
  MaxMishaps = 2
  MaxUserWrites = 1
INVARIANTS
  FailedApplyRestores
  NoTempIsLeft
  OverwrittenIsBackedUp
  ContentSurvives
PROPERTIES
  OnlyKnownContentIsOverwritten
CHECK_DEADLOCK FALSE
