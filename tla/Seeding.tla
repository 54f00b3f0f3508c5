------------------------------ MODULE Seeding ------------------------------
(***************************************************************************)
(* The seed script, prisma/seed.ts: it empties the catalog, row by row     *)
(* removed for good (its client has no soft-delete extension), and fills   *)
(* it with the fixtures, one statement after the other and no transaction  *)
(* around them.  A run may be killed between any two statements and        *)
(* started again, may meet another run, and may meet a server that is      *)
(* serving requests on the same tables.                                    *)
(***************************************************************************)
EXTENDS SequencesExt

CONSTANTS
  Genres, Artists, SongSlugs,  \* slugs, of the fixtures and of others
  Fixtures,   \* getFixtures(): a sequence of songs, <<artist slug, song slug>>
  GenresOf,   \* ARTISTS: the sequence of genre slugs of each artist of a fixture
  Runs,       \* processes that execute the script
  MaxWrites,  \* bound on the server's writes
  MaxKills,   \* bound on the runs killed
  NULL        \* no row, no key

Songs == Artists \X SongSlugs

FixtureSongs == ToSet(Fixtures)

FixtureArtists == {f[1] : f \in FixtureSongs}

FixtureGenres == UNION {ToSet(GenresOf[a]) : a \in FixtureArtists}

ASSUME FixturesAreSongs ==
  /\ Fixtures \in Seq(Songs)
  /\ \A a \in FixtureArtists : GenresOf[a] \in Seq(Genres)
  /\ \A i, j \in DOMAIN Fixtures : Fixtures[i] = Fixtures[j] => i = j
  /\ \A a \in FixtureArtists : \A i, j \in DOMAIN GenresOf[a] :
       GenresOf[a][i] = GenresOf[a][j] => i = j

ASSUME BoundsAreNumbers == MaxWrites \in Nat /\ MaxKills \in Nat

(***************************************************************************)
(* Rows are known by their unique keys: a slug, an artist's slug with a    *)
(* song's, and for a tab the fixture whose identifier (stableUuid) it has, *)
(* NULL for one of its own, with the song it belongs to.                   *)
(***************************************************************************)
Tabs == (FixtureSongs \cup {NULL}) \X Songs

\* Each kind of key has a table of its own.
ASSUME KindsDisjoint ==
  /\ Genres \cap (Artists \cup Songs \cup Tabs) = {}
  /\ Artists \cap (Songs \cup Tabs) = {}
  /\ Songs \cap Tabs = {}

Keys == Genres \cup Artists \cup Songs \cup Tabs

FixtureTabs == {<<f, f>> : f \in FixtureSongs}

FixtureKeys == FixtureGenres \cup FixtureArtists \cup FixtureSongs \cup FixtureTabs

FixtureLinks == {e \in FixtureSongs \X Genres : e[2] \in ToSet(GenresOf[e[1][1]])}

\* "seeded": as the script writes it, "changed": with other columns, "deleted":
\* soft-deleted.
Row == {"seeded", "changed", "deleted"}

ASSUME NullIsNoRow == NULL \notin Row \cup Songs

SeedUsers == {"author", "moderator"}

-----------------------------------------------------------------------------
(* The script as the sequence of its statements.                           *)

Do(what, key) == [do |-> what, key |-> key]

\* Mutant of ClearSeededCatalog: songs go before the tabs that refer to them.
ClearSongsFirst ==
  <<Do("deleteRatings", NULL), Do("deleteSongGenres", NULL), Do("deleteSongs", NULL),
    Do("deleteTabs", NULL), Do("deleteArtists", NULL), Do("deleteGenres", NULL)>>

\* Mutant of ClearSeededCatalog: genres stay.
ClearAllButGenres ==
  <<Do("deleteRatings", NULL), Do("deleteTabs", NULL), Do("deleteSongGenres", NULL),
    Do("deleteSongs", NULL), Do("deleteArtists", NULL)>>

ClearSeededCatalog ==
  <<Do("deleteRatings", NULL), Do("deleteTabs", NULL), Do("deleteSongGenres", NULL),
    Do("deleteSongs", NULL), Do("deleteArtists", NULL), Do("deleteGenres", NULL)>>

Each(keys, Statements(_)) == FlattenSeq([i \in DOMAIN keys |-> Statements(keys[i])])

\* The slugs of a set in alphabetical order: some order, the same in every run.
Sorted(slugs) == SetToSeq(slugs)

SeedGenres == Each(Sorted(FixtureGenres), LAMBDA g : <<Do("upsertGenre", g)>>)

SeedArtists == Each(Sorted(FixtureArtists), LAMBDA a : <<Do("upsertArtist", a)>>)

SeedSong(f) ==
  <<Do("findArtist", f[1]), Do("upsertSong", f), Do("unlinkSong", f)>>
    \o Each(GenresOf[f[1]], LAMBDA g : <<Do("findGenre", g), Do("linkSong", <<f, g>>)>>)

SeedSongs == Each(Fixtures, SeedSong)

SeedTab(f) ==
  <<Do("findArtist", f[1]), Do("findSong", f), Do("upsertTab", <<f, f>>)>>

SeedTabs ==
  <<Do("upsertUser", "author"), Do("upsertUser", "moderator")>> \o Each(Fixtures, SeedTab)

Script == ClearSeededCatalog \o SeedGenres \o SeedArtists \o SeedSongs \o SeedTabs

-----------------------------------------------------------------------------
VARIABLES
  rows,     \* the tables artists, genres, songs and tabs
  links,    \* song_genres
  rated,    \* the tabs that have ratings
  users,    \* the accounts the script makes: "none" before, "taken" when the
            \* e-mail address is another identity's
  runs,     \* each run: its next statement, its exit
  held,     \* the rows whose identifiers a run holds in artist, song and genre,
            \* by their keys of now: of a row that is removed nothing is left, as
            \* a new row has a new identifier
  spoiled,  \* history: what disturbed the runs since one began alone
  renamed,  \* history: the fixtures whose keys a rename took away since then
  writes, kills

catalog == <<rows, links, rated, users>>
history == <<spoiled, renamed>>
budget == <<writes, kills>>
vars == <<catalog, runs, held, history, budget>>

\* "overlap": two runs at once; "fault": one failed or was killed; "edit" and
\* "insert": the server wrote.
Disturbances == {"overlap", "fault", "edit", "insert"}

Run == [at : 0 .. Len(Script), exit : {"none", "ok", "failed", "killed"}]

\* No run at work; exit tells how the last one ended.
Over(exit) == [at |-> 0, exit |-> exit]

Init ==
  /\ rows = [k \in Keys |-> NULL]
  /\ links = {}
  /\ rated = {}
  /\ users = [u \in SeedUsers |-> "none"]
  /\ runs = [r \in Runs |-> Over("none")]
  /\ held = [r \in Runs |-> {}]
  /\ spoiled = {}
  /\ renamed = {}
  /\ writes = 0
  /\ kills = 0

Exists(k) == rows[k] # NULL

Running(r) == runs[r].at > 0

Quiet == \A r \in Runs : ~Running(r)

Statement(r) == Script[runs[r].at]

-----------------------------------------------------------------------------
(* One statement of a run: it succeeds and the next one follows, or it     *)
(* throws and main() ends.                                                 *)

Holding(r, keys) == held' = [held EXCEPT ![r] = keys]

\* Mutant of Fail: the catch clause forgets process.exitCode.
FailSilently(r) ==
  /\ runs' = [runs EXCEPT ![r] = Over("ok")]
  /\ Holding(r, {})
  /\ UNCHANGED <<catalog, history>>

\* catch: process.exitCode = 1.
Fail(r) ==
  /\ runs' = [runs EXCEPT ![r] = Over("failed")]
  /\ spoiled' = spoiled \cup {"fault"}
  /\ Holding(r, {})
  /\ UNCHANGED <<catalog, renamed>>

Proceed(r) ==
  /\ runs' = IF runs[r].at = Len(Script) THEN [runs EXCEPT ![r] = Over("ok")]
                                         ELSE [runs EXCEPT ![r].at = @ + 1]
  /\ UNCHANGED history

\* A read of the row of key k, one of a kind, or findUniqueOrThrow throws.
Find(r, k, kind) ==
  IF Exists(k)
    THEN /\ Holding(r, (held[r] \ kind) \cup {k})
         /\ UNCHANGED catalog
         /\ Proceed(r)
    ELSE Fail(r)

\* The row of a key as the script writes it: INSERT, or UPDATE of every column on
\* conflict.
Seeded(k) == [rows EXCEPT ![k] = "seeded"]

\* DELETE FROM: the rows that refer to these go with them.
Delete(r, kind) ==
  /\ rows' = [k \in Keys |-> IF k \in kind THEN NULL ELSE rows[k]]
  /\ links' = {e \in links : e[1] \notin kind /\ e[2] \notin kind}
  /\ rated' = rated \ kind
  /\ held' = [q \in Runs |-> held[q] \ kind]
  /\ UNCHANGED users
  /\ Proceed(r)

\* Mutant of DeleteMany: no foreign key forbids it.
DeleteUnchecked(r, kind, children) == Delete(r, kind)

\* The children's foreign key restricts the deletion.
DeleteMany(r, kind, children) ==
  IF \E k \in children : Exists(k) THEN Fail(r) ELSE Delete(r, kind)

Clear(r) ==
  LET what == Statement(r).do
  IN  \/ /\ what = "deleteRatings"
         /\ rated' = {}
         /\ UNCHANGED <<rows, links, users, held>>
         /\ Proceed(r)
      \/ what = "deleteTabs" /\ DeleteMany(r, Tabs, {})
      \/ /\ what = "deleteSongGenres"
         /\ links' = {}
         /\ UNCHANGED <<rows, rated, users, held>>
         /\ Proceed(r)
      \/ what = "deleteSongs" /\ DeleteMany(r, Songs, Tabs)
      \/ what = "deleteArtists" /\ DeleteMany(r, Artists, Songs)
      \/ what = "deleteGenres" /\ DeleteMany(r, Genres, {})

UpsertGenre(r) ==
  /\ Statement(r).do = "upsertGenre"
  /\ rows' = Seeded(Statement(r).key)
  /\ UNCHANGED <<links, rated, users, held>>
  /\ Proceed(r)

UpsertArtist(r) ==
  /\ Statement(r).do = "upsertArtist"
  /\ rows' = Seeded(Statement(r).key)
  /\ UNCHANGED <<links, rated, users, held>>
  /\ Proceed(r)

FindArtist(r) == Statement(r).do = "findArtist" /\ Find(r, Statement(r).key, Artists)

\* The song of this slug under the artist the run holds, whatever its slug is now;
\* an artist removed since violates the foreign key.
UpsertSong(r) ==
  /\ Statement(r).do = "upsertSong"
  /\ \/ \E a \in held[r] \cap Artists :
          LET song == <<a, Statement(r).key[2]>>
          IN  /\ rows' = Seeded(song)
              /\ Holding(r, (held[r] \ (Artists \cup Songs)) \cup {song})
              /\ UNCHANGED <<links, rated, users>>
              /\ Proceed(r)
     \/ held[r] \cap Artists = {} /\ Fail(r)

UnlinkSong(r) ==
  /\ Statement(r).do = "unlinkSong"
  /\ links' = {e \in links : e[1] \notin held[r]}
  /\ UNCHANGED <<rows, rated, users, held>>
  /\ Proceed(r)

FindGenre(r) == Statement(r).do = "findGenre" /\ Find(r, Statement(r).key, Genres)

\* A song or genre removed since violates a foreign key, an association that is
\* there the primary key.
LinkSong(r) ==
  LET new == ((held[r] \cap Songs) \X (held[r] \cap Genres)) \ links
  IN  /\ Statement(r).do = "linkSong"
      /\ \/ \E e \in new : /\ links' = links \cup {e}
                            /\ Holding(r, held[r] \ Genres)
                            /\ UNCHANGED <<rows, rated, users>>
                            /\ Proceed(r)
         \/ new = {} /\ Fail(r)

\* Created or made anew an active user of his role; the address is unique too.
UpsertSeedUser(r) ==
  LET u == Statement(r).key
  IN  /\ Statement(r).do = "upsertUser"
      /\ IF users[u] = "taken"
           THEN Fail(r)
           ELSE /\ users' = [users EXCEPT ![u] = "seeded"]
                /\ Holding(r, {})
                /\ UNCHANGED <<rows, links, rated>>
                /\ Proceed(r)

\* A song is looked up under the artist the run holds.
FindSong(r) ==
  LET found == {f \in Songs : Exists(f) /\ f[1] \in held[r] /\ f[2] = Statement(r).key[2]}
  IN  /\ Statement(r).do = "findSong"
      /\ \/ \E f \in found : Holding(r, {f}) /\ UNCHANGED catalog /\ Proceed(r)
         \/ found = {} /\ Fail(r)

\* The tab with the fixture's identifier comes, or is moved, to the song the run holds.
UpsertTab(r) ==
  LET f == Statement(r).key[1]
      same == {f} \X Songs
  IN  /\ Statement(r).do = "upsertTab"
      /\ \/ \E g \in held[r] \cap Songs :
              /\ rows' = [k \in Keys |-> IF k = <<f, g>> THEN "seeded"
                                       ELSE IF k \in same THEN NULL ELSE rows[k]]
              /\ rated' = (rated \ same)
                            \cup {t \in {<<f, g>>} : rated \cap same # {}}
              /\ Holding(r, {})
              /\ UNCHANGED <<links, users>>
              /\ Proceed(r)
         \/ held[r] \cap Songs = {} /\ Fail(r)

Step(r) ==
  /\ Running(r)
  /\ \/ Clear(r)
     \/ UpsertGenre(r) \/ UpsertArtist(r) \/ UpsertSong(r) \/ UpsertTab(r)
     \/ UpsertSeedUser(r)
     \/ FindArtist(r) \/ FindGenre(r) \/ FindSong(r)
     \/ UnlinkSong(r) \/ LinkSong(r)
  /\ UNCHANGED budget

\* Somebody runs the script.
Start(r) ==
  /\ ~Running(r)
  /\ runs' = [runs EXCEPT ![r] = [at |-> 1, exit |-> "none"]]
  /\ spoiled' = IF Quiet THEN {} ELSE spoiled \cup {"overlap"}
  /\ renamed' = IF Quiet THEN {} ELSE renamed
  /\ UNCHANGED <<catalog, held, budget>>

\* The process is killed, or loses its connection, before or after a statement.
Kill(r) ==
  /\ Running(r)
  /\ kills < MaxKills
  /\ kills' = kills + 1
  /\ runs' = [runs EXCEPT ![r] = Over("killed")]
  /\ Holding(r, {})
  /\ spoiled' = spoiled \cup {"fault"}
  /\ UNCHANGED <<catalog, renamed, writes>>

-----------------------------------------------------------------------------
(* The server's writes, each by the statement that has effect.             *)

Server(kind) ==
  /\ writes < MaxWrites
  /\ writes' = writes + 1
  /\ spoiled' = spoiled \cup {kind}
  /\ UNCHANGED <<runs, kills>>

Insert(k) == ~Exists(k) /\ rows' = [rows EXCEPT ![k] = "changed"]

ServerCreateGenre(g) ==
  Insert(g) /\ UNCHANGED <<links, rated, users, held, renamed>> /\ Server("edit")

ServerCreateArtist(a) ==
  Insert(a) /\ UNCHANGED <<links, rated, users, held, renamed>> /\ Server("edit")

ServerCreateSong(f) ==
  /\ Exists(f[1])
  /\ Insert(f)
  /\ \E gs \in SUBSET {g \in Genres : Exists(g)} : links' = links \cup ({f} \X gs)
  /\ UNCHANGED <<rated, users, held, renamed>>
  /\ Server("insert")

ServerCreateTab(f) ==
  /\ Exists(f)
  /\ Insert(<<NULL, f>>)
  /\ UNCHANGED <<links, rated, users, held, renamed>>
  /\ Server("insert")

\* An update that keeps the slug, a soft deletion or a restoration.
ServerWriteRow(k) ==
  /\ Exists(k)
  /\ \E state \in {"changed", "deleted"} \ {rows[k]} : rows' = [rows EXCEPT ![k] = state]
  /\ UNCHANGED <<links, rated, users, held, renamed>>
  /\ Server("edit")

\* What belongs to the row of key k and is known by its slug too: the songs of an
\* artist, the tabs of a song.
Belongs(x, k) ==
  \/ x = k
  \/ x \in Songs /\ x[1] = k
  \/ x \in Tabs /\ k \in {x[2], x[2][1]}

\* The key x with k and l exchanged in it.
Exchanged(k, l, x) ==
  LET Slug(y) == IF y = k THEN l ELSE IF y = l THEN k ELSE y
      Song(f) == IF f \in {k, l} THEN Slug(f) ELSE <<Slug(f[1]), f[2]>>
  IN  CASE x \in Tabs  -> <<x[1], Song(x[2])>>
        [] x \in Songs -> Song(x)
        [] OTHER       -> Slug(x)

\* updateGenre, updateArtist and updateSong compute the slug from the new name: the
\* row, which must not be soft-deleted, gets another key that nobody has, and what
\* belongs to it, or holds on to it, goes along.
ServerRename(k, l) ==
  LET New(x) == Exchanged(k, l, x)
  IN  /\ Exists(k) /\ rows[k] # "deleted" /\ ~Exists(l)
      /\ rows' = [x \in Keys |-> IF x = l THEN "changed" ELSE rows[New(x)]]
      /\ links' = {<<New(e[1]), New(e[2])>> : e \in links}
      /\ rated' = {New(t) : t \in rated}
      /\ held' = [r \in Runs |-> {New(x) : x \in held[r]}]
      /\ renamed' = renamed \cup {x \in FixtureKeys : Belongs(x, k)}
      /\ UNCHANGED users
      /\ Server("edit")

\* replaceForSong; with "insert" when there are associations the song had not.
ServerReplaceGenres(f) ==
  /\ Exists(f)
  /\ \E gs \in SUBSET {g \in Genres : Exists(g)} :
       /\ links' = {e \in links : e[1] # f} \cup ({f} \X gs)
       /\ links' # links
       /\ Server(IF links' \subseteq links THEN "edit" ELSE "insert")
  /\ UNCHANGED <<rows, rated, users, held, renamed>>

ServerRate(t) ==
  /\ Exists(t) /\ t \notin rated
  /\ rated' = rated \cup {t}
  /\ UNCHANGED <<rows, links, users, held, renamed>>
  /\ Server("edit")

\* A role or status is changed, or another identity signs up with the address.
ServerWriteUser(u) ==
  /\ users[u] \in {"none", "seeded"}
  /\ users' = [users EXCEPT ![u] = IF @ = "none" THEN "taken" ELSE "changed"]
  /\ UNCHANGED <<rows, links, rated, held, renamed>>
  /\ Server("edit")

ServerWrite ==
  \/ \E g \in Genres : ServerCreateGenre(g)
  \/ \E a \in Artists : ServerCreateArtist(a)
  \/ \E f \in Songs : ServerCreateSong(f) \/ ServerCreateTab(f) \/ ServerReplaceGenres(f)
  \/ \E k \in Keys : ServerWriteRow(k)
  \/ \E g, h \in Genres : ServerRename(g, h)
  \/ \E a, b \in Artists : ServerRename(a, b)
  \/ \E f \in Songs, s \in SongSlugs : ServerRename(f, <<f[1], s>>)
  \/ \E t \in Tabs : ServerRate(t)
  \/ \E u \in SeedUsers : ServerWriteUser(u)

Next ==
  \/ \E r \in Runs : Start(r) \/ Step(r) \/ Kill(r)
  \/ ServerWrite

Spec == Init /\ [][Next]_vars

-----------------------------------------------------------------------------
(* Properties.                                                             *)

\* The tables, the runs and the history hold values of their types, no row lacks
\* the row its foreign key names, a fixture's identifier is one tab's, and a run
\* holds at most one artist, one song and one genre.
TypeOK ==
  /\ rows \in [Keys -> Row \cup {NULL}]
  /\ links \subseteq Songs \X Genres
  /\ rated \subseteq Tabs
  /\ users \in [SeedUsers -> {"none", "seeded", "changed", "taken"}]
  /\ runs \in [Runs -> Run]
  /\ held \in [Runs -> SUBSET (Artists \cup Songs \cup Genres)]
  /\ spoiled \subseteq Disturbances /\ renamed \subseteq FixtureKeys
  /\ writes \in 0 .. MaxWrites /\ kills \in 0 .. MaxKills
  /\ \A f \in Songs : Exists(f) => Exists(f[1])
  /\ \A t \in Tabs : Exists(t) => Exists(t[2])
  /\ \A e \in links : Exists(e[1]) /\ Exists(e[2])
  /\ \A t \in rated : Exists(t)
  /\ \A t, u \in Tabs : Exists(t) /\ Exists(u) /\ t[1] = u[1] => t[1] = NULL \/ t = u
  /\ \A r \in Runs : \A k \in held[r] : Exists(k)
  /\ \A r \in Runs : \A kind \in {Artists, Songs, Genres} :
       \A k, l \in held[r] \cap kind : k = l

\* All runs are over, none of those that overlapped failed or was killed, and they
\* reported success.
Succeeded ==
  /\ Quiet
  /\ "fault" \notin spoiled
  /\ \E r \in Runs : runs[r].exit = "ok"

\* After success every fixture has its row, a soft-deleted one included, unless a
\* rename took it, or what it belongs to, away since the run began: whatever the
\* catalog held before, a run killed half-way included, whatever else the server
\* wrote meanwhile, and also when runs overlapped: what one of them removes from
\* another it writes again.
FixturesThere == Succeeded => \A k \in FixtureKeys \ renamed : Exists(k)

\* After success, if nobody else wrote since, the catalog is the fixtures and
\* nothing else: every row as seeded, a song associated with its artist's genres,
\* nothing left of earlier contents.
ExactlyFixtures ==
  Succeeded /\ spoiled \subseteq {"overlap"} =>
    /\ \A k \in Keys : Exists(k) <=> k \in FixtureKeys
    /\ \A k \in FixtureKeys : rows[k] = "seeded"
    /\ links = FixtureLinks
    /\ rated = {}
    /\ \A u \in SeedUsers : users[u] = "seeded"

\* A run fails only when another run is in its way, when since it began the server
\* has inserted a song, a tab or an association, or has renamed a fixture or what it
\* belongs to, or when an address is taken; never because of what earlier runs,
\* killed anywhere, have left, nor because rows were soft-deleted, restored, rated or
\* edited without a new slug, or others took or gave up slugs meanwhile.
FailsOnlyByInterference ==
  [][\A r \in Runs : Running(r) /\ runs'[r].exit = "failed" =>
       \/ spoiled \cap {"overlap", "insert"} # {}
       \/ renamed # {}
       \/ Statement(r).do = "upsertUser"]_vars
=============================================================================
