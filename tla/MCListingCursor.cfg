SPECIFICATION Spec
CONSTANTS
  Ids <- MCIds
  Keys <- MCKeys
  Limits <- MCLimits
  NULL = NULL
  UNDEF = UNDEF
PROPERTIES
  ContinuesInOrder
