SPECIFICATION RatedSpec
CONSTANTS
  Tabs = {t1}
  Users = {u1, a1, a2}
  Admins = {a1, a2}
  Requests = {r1}
  Contents = {c1}
  Notes = {n1}
  Stamps = {s1, s2}
  Raters = {q1}
  Ratings = {1}
  NULL = NULL
  UNDEF = UNDEF
INVARIANTS DecidedWasSubmitted RatedWasPublished
PROPERTIES ImplementsStatusMachine PublishedUnlessOutrun
