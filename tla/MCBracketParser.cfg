CONSTANTS
  Byte <- MCByte
  Newline = "nl"
  Blanks = {" "}
  WordBytes = {"f", "d", "e", "x"}
  Marks <- MCMarks
  Width <- MCWidth
  Capture <- MCCapture
  Brackets <- MCBrackets
  Lexis <- MCLexis
  Sources <- MCSources
SPECIFICATION Spec
INVARIANTS
  NodesTile
  TextRunsAreMaximal
  DerivationAgrees
  TableIsObeyed
  DemotionsAnchored
  DemotingGroupsEnd
CHECK_DEADLOCK FALSE
