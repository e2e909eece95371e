CONSTANTS
  Origins = {"o"}
  NoOrigin = "none"
  Bytes <- MCBytes
  Spaces = {" "}
  Matches <- MCMatches
  Bases <- MCBases
  Texts <- MCTexts
  ItemLists <- MCItemLists
  RefLists <- MCRefLists
SPECIFICATION FieldSpec
INVARIANTS
  DoneRefusesFaultsOnly
  ChildrenTileTheMatch
  AlterationIsTold
PROPERTY
  WritesReadBack
CHECK_DEADLOCK FALSE
