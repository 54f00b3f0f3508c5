SPECIFICATION Spec
CONSTANTS
  Ids <- MCIds
  Keys <- MCKeys
  Limits <- MCLimits
  NULL = NULL
  UNDEF = UNDEF
INVARIANTS
  NoneSkipped
  NoneRepeated
PROPERTIES
  CursorAdvances
  CursorOnlyIfMore
