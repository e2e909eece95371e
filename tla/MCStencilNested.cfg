CONSTANTS
  Origins = {"o"}
  NoOrigin = "none"
  Bytes <- MCBytes
  Spaces = {" "}
  Matches <- NestedMatches
  Bases <- MCBases
  Texts <- MCTexts
  ItemLists <- MCItemLists
  RefLists <- MCRefLists
SPECIFICATION FieldSpec
INVARIANTS
  DoneRefusesFaultsOnly
CHECK_DEADLOCK FALSE
