CONSTANTS
  Byte <- MCByte
  Newline = "nl"
  Blanks = {" "}
  WordBytes = {"f", "d", "e", "x"}
  Marks <- MCMarks
  Width <- MCWidth
  Capture <- MCCapture
  Brackets <- MCBrackets
  Lexis <- MCLexis
  Sources <- MCDemoting
SPECIFICATION Spec
PROPERTIES
  Terminates
CHECK_DEADLOCK FALSE
