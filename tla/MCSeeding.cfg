SPECIFICATION Spec
CONSTANTS
  g1 = g1
  a1 = a1
  s1 = s1
  Genres = {g1, g2}
  Artists = {a1, a2}
  SongSlugs = {s1, s2}
  Fixtures <- MCFixtures
  GenresOf <- MCGenresOf
  Runs = {r1, r2}
  MaxWrites = 2
  MaxKills = 1
  NULL = NULL
SYMMETRY Interchangeable
INVARIANTS
  TypeOK
  FixturesThere
  ExactlyFixtures
PROPERTY FailsOnlyByInterference
