SPECIFICATION FairSpec
CONSTANTS
  Songs = {k1, k2}
  Contents = {c1}
  Tabs = {t1}
  Importers = {p1, p2}
  PoolSize = 2
  Batches <- TwoSongs
  NULL = NULL
  k1 = k1
  k2 = k2
  c1 = c1
  c2 = c2
INVARIANT WaitsOnlyAhead
PROPERTY EveryImportEnds
