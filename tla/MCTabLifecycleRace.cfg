SPECIFICATION Spec
CONSTANTS
  Tabs = {t1}
  Users = {u1, a1}
  Admins = {a1}
  Requests = {r1, r2}
  Contents = {c1}
  Notes = {n1}
  Stamps = {s1, s2}
  NULL = NULL
  UNDEF = UNDEF
SYMMETRY Interchangeable
INVARIANTS MetadataMatchesStatus
PROPERTIES
  DeletedTabsFrozen
  LegalUnlessOvertaken
  ServedUnlessOvertaken
  PublishedAtStable
  ChangedByOwnerOrAdmin
