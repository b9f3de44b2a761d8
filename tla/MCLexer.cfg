CONSTANTS
  MaxLen = 5
  Texts <- MCTexts
  Space <- MCSpace
  WordChar <- MCWordChar
  Width <- MCWidth
SPECIFICATION LexSpec
INVARIANTS
  LexTypeOK
  OnBoundaries
  NothingLost
  HandsOver
  FirstBadChar
PROPERTY LexTerminates
CHECK_DEADLOCK FALSE
