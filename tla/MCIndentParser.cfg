CONSTANTS
  Byte <- MCByte
  Newline = "nl"
  Blanks = {" ", "tab"}
  WordBytes = {"x"}
  Tab = 2
  TabByte = "tab"
  Transparent = {1}
  Continuation <- MCContinuation
  Marks <- MCMarks
  Width <- MCWidth
  Capture <- MCCapture
  Brackets <- MCBrackets
  Lexis <- MCLexis
  HeadingMax = 2
  Sources <- MCSources
SPECIFICATION MarkdownSpec
INVARIANTS
  NodesTile
  LevelsAreDerivable
  IndentsAnnounceChanges
  LinesStandInFrames
  LineHeadsAreMarked
CHECK_DEADLOCK FALSE
