CONSTANTS
  Origins = {"p", "q"}
  NoOrigin = "nil"
  Byte <- MCByte
  Newline = "nl"
  DocSource <- MCSource
  ParseOrigin = "p"
  Layouts <- MCLayouts
  Kinds = {"Text", "Opener"}
  NewTexts <- MCNewTexts
  ForeignNodes <- MCNoForeign
  MaxDepth = 2
  MaxEdits = 3
SPECIFICATION Spec
INVARIANTS
  TypeOK
  FaithfulRenders
  ReadsTellTheTruth
  LinesTellTheTruth
  WindowOutlivesNesting
  MergePathUnobservable
PROPERTIES
  RestructuringKeepsBytes
  PoisonIsForever
  VersionsOrder
CHECK_DEADLOCK FALSE
