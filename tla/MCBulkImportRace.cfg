SPECIFICATION Spec
CONSTANTS
  Songs = {k1}
  Contents = {c1, c2}
  Tabs = {t1, t2, t3}
  Importers = {p1, p2}
  PoolSize = 2
  Batches <- OneSong
  NULL = NULL
  k1 = k1
  k2 = k2
  c1 = c1
  c2 = c2
SYMMETRY Interchangeable
INVARIANTS ImportedVersionsUnique ImportedContentsUnique VersionsWithoutGap OnlyFirstVersionShared
