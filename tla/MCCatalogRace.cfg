SPECIFICATION Spec
CONSTANTS
  Artists = {a1, a2}
  Genres = {g1}
  Songs = {s1}
  Slugs = {x, y}
  Requests = {r1, r2}
  NULL = NULL
  UNDEF = UNDEF
SYMMETRY Interchangeable
INVARIANTS
  TypeOK
  ClaimsStand
PROPERTIES
  OrphansOnlyWhenOvertaken
  StaleGenresOnlyWhenOvertaken
  HiddenTabsOnlyWhenOvertaken
  ReplacedUnlessOvertaken
  ServedUnlessOvertaken
