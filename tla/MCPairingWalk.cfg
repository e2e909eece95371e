CONSTANTS
  Marks <- MCMarks
  Width <- MCWidth
  Capture <- MCCapture
  Brackets <- MCBrackets
  Elements <- MCElements
  MaxNodes = 5
SPECIFICATION WalkSpec
INVARIANTS
  PairsAreMutual
  PairsNest
  EnclosingIsInnermost
  SeparatorsAreMutual
CHECK_DEADLOCK FALSE
