CONSTANTS
  Origins = {"p"}
  NoOrigin = "nil"
  Byte <- MCByte
  Newline = "nl"
  DocSource <- MCSource
  ParseOrigin = "p"
  Layouts <- MCLayouts
  Kinds = {"Text", "Indent"}
  NewTexts <- MCNewTexts
  ForeignNodes <- MCNoForeign
  MaxDepth = 1
  MaxEdits = 2
  Tab = 2
  TabByte = "tab"
SPECIFICATION FrameSpec
INVARIANTS
  ParentIsNearest
  ChildrenAreListed
CHECK_DEADLOCK FALSE
