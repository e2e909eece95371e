CONSTANTS
  Byte <- MCByte
  Newline = "nl"
  Blanks = {" "}
  WordBytes <- MCWords
  Tab = 4
  TabByte = "tab"
  Transparent = {2}
  Continuation <- MCContinuation
  Marks <- MCMarks
  Width <- MCWidth
  Capture <- MCCapture
  Brackets <- MCBrackets
  Lexis <- MCLexis
  Comments = {1, 2}
  Separators = {"nl", ";"}
  Assign = "="
  Paren = "("
  Comma = ","
  Local = "local"
  Function = "function"
  Func = "func"
  Vars = {"var"}
  Defs = {"def"}
  Languages <- MCLanguages
  Sources <- GroupSources
  Written <- GroupsWritten
  Programs <- GroupPrograms
SPECIFICATION SchemaSpec
INVARIANTS
  DeclaresWhatIsWritten
CHECK_DEADLOCK FALSE
