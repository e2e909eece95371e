CONSTANTS
  Origins = {"p"}
  NoOrigin = "nil"
  Byte <- MCByte
  Newline = "nl"
  DocSource <- MCSource
  ParseOrigin = "p"
  Layouts <- MCLayouts
  Kinds = {"Text", "Opener", "Closer", "DeclarationType", "DeclarationName"}
  NewTexts <- MCNoTexts
  ForeignNodes <- MCNoForeign
  MaxDepth = 1
  MaxEdits = 3
  Marks <- MCMarks
  Width <- MCWidth
  Capture <- MCCapture
  Brackets <- MCBrackets
SPECIFICATION CtxSpec
INVARIANTS
  LinksFollowStructure
  DeclarationsSurvive
  DeclarationsAreOwn
CHECK_DEADLOCK FALSE
