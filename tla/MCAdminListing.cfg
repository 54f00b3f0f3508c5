SPECIFICATION Spec
CONSTANTS
  i1 = i1
  i2 = i2
  i3 = i3
  m1 = m1
  m2 = m2
  Ids <- MCIds
  Dates <- MCDates
  Marks <- MCMarks
  Queries <- MCQueries
  Sizes <- MCSizes
  MaxChanges = 2
  UNDEF = UNDEF
  ABSENT = ABSENT
SYMMETRY Symmetry
INVARIANTS
  NoneMissed
  NoneRepeated
  TotalFitsPage
CHECK_DEADLOCK FALSE
