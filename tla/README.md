# Formal model of the TabSpot backend

TLA+ specifications of the TabSpot backend (NestJS 11, Prisma 7, PostgreSQL 16),
the TLC instances that check them, and TLAPS proofs of their main results. All
paths below are relative to the repository root.

The server is one Node process. A handler runs without interruption between two
`await`s; at an `await` any other request may run. One repository call is one SQL
statement, which PostgreSQL executes atomically under READ COMMITTED. So the unit
of interleaving is the statement, and a handler that reads, checks and then
writes is two or more steps. Only the bulk import, `createSong` and
`replaceForSong` open transactions. The models keep exactly this granularity.

## 1. Inventory

| Component | State | Operations | Talks to | Hard behaviour | Correct when |
|---|---|---|---|---|---|
| **Tab lifecycle** (`src/modules/tabs`, `src/modules/admin/tabs`) | rows of `tabs`: content, status, dates, moderator, notes, `deleted_at` | create, edit, submit, delete (author); create, PATCH, publish, reject, delete (administrator) | ratings, listing and catalog read the same rows; the guards supply the user | every check is made before an `await` and not repeated by the statement; PATCH is two statements | the status machine is followed, the moderation columns fit the status, deleted rows stay as they are, only the owner or an administrator changes a tab |
| **Bulk import** (`src/modules/admin/import`) | rows of `songs` and `tabs`, an advisory lock per song | resolve the artist; per song: genre pre-check, find / create / restore, lock, number, dedupe, insert, commit | catalog and tab rows; normalizes status as the lifecycle does | concurrent imports, aborts at any statement, lost acknowledgements and re-sent batches, restarts | versions unique and gap-free, contents imported once, failures isolated, no import waits for ever |
| **Soft-delete extension** (`src/prisma/prisma.service.ts`) | none | filters find, update, count, aggregate by `deletedAt: null` unless `includeDeleted` | under every repository | an `update` of a deleted row matches nothing and throws P2025 | deleted rows are out of reach except where asked for |
| **Admin catalog: artists, genres, songs** (`src/modules/admin/catalog-management`) | `artists`, `genres`, `songs`, `song_genres` | create, update, delete | imports restore artists and songs; tabs refer to songs | slug looked up before INSERT; dependants counted before the soft delete; `updateSong` commits genres before the row | live rows never hang under deleted ones; slugs unique; conflicts answered as conflicts |
| **Ratings** (`src/modules/tabs/services/tab-rating.service.ts`) | `tab_ratings`, unique per tab and user | rate (upsert), read, aggregate | tab status | checked published, then upsert | one rating per user; only published tabs rated |
| **Public tab listing** (`findPublished`, `src/common/utils/cursor.ts`) | none; the cursor is held by the client | keyset pagination by `createdAt` or `publishedAt` | tab rows | rows change between pages; ties of the sort column; the cursor's own row goes away; other parameters on a later page | pages neither skip nor repeat rows that stay in their place, and a walk ends |
| **Public catalog, search** | none | lists, details, search | catalog rows | same cursors | as above |
| **Accounts** (`src/modules/auth`, guards) | `users`: role, status | synchronise on first sight, resolve the active user | identity provider (external) | two first requests of a user; user read once per request | one row per identity, first requests do not fail each other, a request acts on authority its user has or had when it was read |
| **Admin users** (`src/modules/admin/users`) | role, status, `blocked_at` | change role, change status | guards | administrators act on each other concurrently | nobody changes oneself; an administrator remains |
| **Admin lists** (`findAdmin` of five repositories, `src/common/utils/pagination.ts`) | none; the page number is held by the client | offset pagination: `findMany` and `count` | catalog, tab and user rows | two statements on two connections; rows join and leave the list between pages and between the statements; equal dates | a walk misses and repeats only rows that moved, page and total agree |
| **Seeds** (`prisma/seed.ts`, `prisma/seeds`) | all catalog tables, two accounts | clear, fill, statement by statement, no transaction | the same tables as a serving application | killed half-way and run again; two runs at once; writes of the server in between | success means that the fixtures are there, and a rerun needs no repair by hand |
| **Dashboard, health, metrics** | counters | read | all | none | - |
| **Configuration, bootstrap, filters, interceptors, throttler, OpenAPI** | none of the program's own | - | - | none | - |

`PROJECT.json` lists each component with its status, and, under `hazards`, each
place of the code where something can go wrong that a unit test would hardly
reach, with the properties that watch it.

## 2. Modules

| Module | Models |
|---|---|
| `TabLifecycle` | the tab endpoints, statement by statement |
| `TabStatusMachine` | abstract: what the workflow promises, one atomic step per request |
| `TabLifecycleSerial` | the refinement mapping from the first to the second |
| `TabLifecycleProofs` | theorems about `TabLifecycle`, the refinement, and what follows from it |
| `TabRatings` | the lifecycle composed with the ratings of tabs and the public detail |
| `TabRatingsProofs` | theorems about `TabRatings` |
| `BulkImport` | imports after the artist is resolved, statement by statement, with locks and transactions |
| `BulkImportProofs` | theorems about `BulkImport` |
| `Catalog` | the administrator's artists, genres and songs, and the catalog side of an import |
| `CatalogProofs` | theorems about `Catalog` |
| `Accounts` | the guards, account synchronisation, PATCH /me, role and status changes |
| `AccountsProofs` | theorems about `Accounts` |
| `Listing` | cursor pagination of tabs, artists, songs and genres |
| `ListingProofs` | theorems about `Listing` |
| `AdminListing` | the administrator's lists, page by page, while the rows change |
| `AdminListingProofs` | theorems about `AdminListing` |
| `Seeding` | the seed script, its crashes and reruns, beside a server that writes |
| `SeedingProofs` | theorems about `Seeding` |
| `MCTabLifecycle`, `MCTabRatings`, `MCBulkImport`, `MCCatalog`, `MCAccounts`, `MCListing`, `MCAdminListing`, `MCSeeding` | symmetry, batches and small sets for TLC |

Definitions that begin with "Mutant of" in their comment are no part of a model: each
is a plausible slip in the definition that follows, kept beside it to show that the
properties notice.

### TabLifecycle

`tabs` is the table: a record per tab, NULL before its INSERT. The editable columns
(`content`, `tabType`, `instrument`, `difficulty`, `titleOverride`) are one value,
since no check tells them apart; an update of some of them is an update to another
value. `reqs` has a slot per request being served: `pc` is the statement it issues
next, `resp` the class of the last answer. `overtaken` is a history variable: the
requests that have read a tab whose status or deletion another request has written
since. No action's guard reads it.

A handler is `...Find` (the read and every check on what it returned, with the
answers 404, 403 and 409) and `...Write` (the UPDATE). The correspondence:

| Action | Code |
|---|---|
| `CreateTab`, `CreateAdminTab` | `CreateTabUseCase`, `TabsService.createAdminTab`, `PrismaTabRepository.create` (400 when the song's foreign key fails: which songs there are is left open) |
| `UpdateTabFind/Write` | `TabsService.updateTab`, `updateContent` |
| `SubmitTabFind/Write`, `PublishTab...`, `RejectTab...` | the three use cases, `updateStatus` |
| `SoftDeleteTabFind`, `SoftDeleteAdminTabFind`, `SoftDeleteTabWrite` | `softDeleteTab`, `softDeleteAdminTab`, `softDelete` |
| `UpdateAdminTabFind/Content/Status` | `updateAdminTab`: both statements, `held` being the dates of `currentTab` |
| `NormalizeAdminStatus` and its four parts | `domain/normalize-admin-status.ts`, column by column |

`Update` is the filtered UPDATE: on a deleted row it fails (P2025), which no one
catches, hence 500. `new Date()` returns any element of `Stamps`, equal or not to
earlier ones: no property needs clocks to advance. Who is an administrator is
fixed here; roles change in `Accounts`.

### TabRatings

`TabRatings` EXTENDS `TabLifecycle` and leaves its actions as they are; `TabStep` is any of
them. `ratings` is the table `tab_ratings`, a value or NULL for each tab and user, which is
its unique key. `raters` has a slot per request of `TabRatingService`: `RateFind` and
`AggregateFind` are `assertPublishedTab`, `RateWrite` the upsert and `AggregateRead` the
AVG and COUNT after the await; `GetUserRating` and `PublicDetail` are one statement each.
Two history variables: `outrun`, the slots whose tab has left the published ones since they
looked, and `everPublished`.

### BulkImport

`songs` has what is committed of each `(artist, slug)` and which import holds the
row uncommitted; `tabs` the rows, each with the open transaction that wrote it;
`lock` the advisory lock of each song; `imports` a slot per import. The statements
of `importSong` are the actions `FindSong`, `CreateSong`/`RestoreSong`, `LockSong`,
`ReadMaxVersion`, `ReadContents`, then the loop (`SkipVersion`, `InsertVersion`) and
`Commit`. `CheckGenres` is the pre-check outside the transaction. `Abort` is the
failure of any statement or the transaction's timeout; the per-song `catch` rolls
back and goes on with the next song. `Restart` drops every open transaction and
every request. A commit whose acknowledgement is lost is reported as a failure:
since the report changes no state, this is `Commit` followed by a new
`StartImport` of the same batch. Which rows the report lists is left out.

A song's genres are looked up on any connection; a transaction holds one of the
`PoolSize` connections of the driver's pool from its first statement to its end, while it
waits for a lock too; `CheckGenres` and `FindSong`, which begins it, wait until one is free.

The environment is what other requests write: `CreateTab` (always version 1, no
lock: `prisma-tab.repository.ts:218`), `EditTab`, `DeleteTab`, `AddSong`,
`DeleteSong`, each by its last statement. In `Row`, `imported` and `edited` are
history: what the import wrote, and whether it has been edited since.

### Catalog

`rows` holds artists, genres and songs, `songGenres` the join table, `published` the
songs that have a published tab: all the services ask of the tabs. The three services
follow one pattern, stated once: creation and update look a slug up (`CheckSlug`), a
song's genres are looked up (`FindGenres`), a deletion counts dependants (`CountUses`);
then `Insert`, `Update` or `SoftDelete` writes. `updateSong` with genres passes through
`ReplaceDelete` and `ReplaceInsert`, the two statements of `replaceForSong`, before its
UPDATE: under READ COMMITTED the DELETE removes what was committed when it ran, so
another replacement that commits in between survives beside the new associations. An
import is `ResolveById`/`ResolveBySlug`, `RestoreArtist` or the artist's `Insert`, then
per song `NextSong`, `FindSong` and `StoreSong` (create, restore or reuse) or `FailSong`.

What a request has found out is a claim (`Stands`): its artist is live, its genres are,
its slug is free, its row is unused, the song it found is live, the associations it has
deleted are all there are. `overtaken` has the claims that a step of another made false.

### Accounts

`accounts` has a row per identity, NULL before its INSERT; `reqs` the requests with the
claims of their tokens. The guard's read (`Authenticate`), the INSERT (`CreateAccount`)
and the lookup after a unique violation (`RecoverAccount`) each go on, in one run, through
`ensureUserIsActive`, `RolesGuard` and the handler up to its first statement (`Enter`);
then `UpdateProfile`, or `FindTarget` and `UpdateRole`/`UpdateStatus`. Requests carry the
snapshot's consequences, never the account itself, so later changes do not reach them.
The e-mail address is a second unique key; any pair of identity and address may arrive,
since tokens outlive a change of address. `blocked_at` is written with the status and
left out. `PromoteFirstAdmin` is the operator's UPDATE by hand that makes the first
administrator: no endpoint can.

### Listing

`rows` is a table with two sort columns, `createdAt`, which never changes, and `label`,
which does (the `publishedAt` of a tab, the name of an artist, the title of a song), and
with whether the listing's WHERE lets the row through; the filters of a walk are part of
that. A page (`Page`) is one SELECT of `limit + 1` rows in the order of the request, after
the condition the cursor adds (`Admits`): the column is the cursor's, the direction the
request's. `FirstPage` and `NextPage` are the client, `Show`, `Hide` and `Rename` what
other requests do between two pages. The server keeps nothing between pages, so one
client stands for any number. `findByUser` and the genres' listing order by id, with a
cursor of the id alone; `findPublished` and the listings of artists and songs share the
sorted form. Instants in a cursor are ISO strings of milliseconds, as precise as what
Prisma stores for `now()` and `new Date()`: the coding loses nothing and is the identity
here on purpose.

### AdminListing

A list is one of five `findAdmin`, `Where` its condition, parameter by parameter, with what
the soft-delete extension adds. A request is two statements that run at once
(`Promise.all`), in either order: `FindMany` takes the rows from `Skip` on, `Count` counts.
Rows of one `createdAt` come in any order, newly chosen by every scan, since no list sorts
by anything else. `NextPage` is the client, which stops at `TotalPages`. `Create`,
`SoftDelete`, `Restore` and `Alter` are what others do, through `Write`, which keeps the
history: `kept` (listed all along), `risen` and `sunk` (a newer row left or joined), `tied`,
`late` (sank between a request's count and its findMany), `torn` (the list changed between
the two statements). A row may be created with any date: `now()` is the beginning of the
transaction, which for an import may lie before that of a row already listed. Bounds:
`MaxChanges`.

### Seeding

`Script` is the sequence of the statements of `main()`: the loops of the seed files unrolled
over the fixtures (`Each`), which are a constant. A run is a position in the script and, in
`held`, the rows whose identifiers it holds from one statement to another; `Start` begins one,
`Kill` ends one anywhere, a failing statement ends it with `process.exitCode = 1`. Rows are
known by their unique keys, and `held` by the keys the rows have now: a row that is removed is
held no longer, as a new row of the same slug has a new identifier, and a row that is renamed is
held on to by its new key. The foreign keys are those of the schema (`ON DELETE CASCADE` for
associations and ratings, RESTRICT for songs and tabs). The server's writes are actions of
their own, each by the statement that has effect. One of them is the rename (`ServerRename`):
updateGenre, updateArtist and updateSong compute the slug from the new name, so that the row, the
songs of an artist and the tabs of a song get other keys that nobody has (`Exchanged`), and a run
that holds the old artist or song writes on under it. `spoiled` and `renamed` are
history: what has disturbed the runs since one began alone, and which fixtures a rename has taken
away, themselves or with what they belong to. Bounds: `MaxWrites`, `MaxKills`.

Two properties of the script hold only with these histories. Success means that every fixture
has its row unless a rename took it away (`FixturesThere`); a fixture that the server
soft-deleted after its upsert counts as there, its row is. And a lookup by slug finds nothing
after a rename as it does after a deletion, so a run fails beside a rename of a fixture, or of
what it belongs to, as well as beside an insertion (`FailsOnlyByInterference`); a rename of
anything else, into a slug of the fixtures too, does not make it fail.

## 3. Runs

| Run | Question | Bounds | Outcome |
|---|---|---|---|
| `tab_race` | what survives any interleaving of two requests on a tab | 1 tab, an author and an administrator, 2 slots, 1 content, 1 note, 2 instants; slots and instants symmetric | 6 properties hold, 675 178 states |
| `tab_ratings` | do the handlers, unraced, implement the status machine; what may be rated while tabs come and go | 1 tab, 1 slot, 1 slot for ratings, an author and 2 administrators, 1 content, 1 note, 2 instants | refinement and 3 properties hold, 1 019 166 states |
| `tab_transitions` | docs: each use case validates its transition (`ModerationDecidesPendingTabs`) | as `tab_race` | violated, see findings |
| `import_race` | numbering and dedupe | 1 song, room for 3 tabs, 2 importers sending a batch of three versions with a repeated content, 2 connections | 4 properties hold, 548 734 states |
| `import_live` | does every import end, and who waits for whom | 2 songs imported in either order, room for 1 tab, 2 importers, 2 connections | 2 properties hold, 118 041 states |
| `catalog_race` | what two overlapping catalog requests, imports included, can break | 2 artists, 1 genre, 1 song, 2 slugs, 2 slots; all symmetric | 7 properties hold, 1 216 552 states |
| `accounts_race` | first sign-ins, profile, role and status changes at once | 2 identities, 2 addresses, 1 name, 2 slots, no symmetry | 6 properties hold, 589 817 states |
| `accounts_recovery` | tests: the recovery lookup always finds the account (`RecoveryFindsTheAccount`) | 2 identities, 1 address, 1 slot | violated, see findings |
| `listing` | do pages skip or repeat rows | 3 rows, 2 values per sort column, pages of 1 and 2, all five orders | 4 properties hold, 365 312 states |
| `listing_cursor` | docs: the cursor remembers column and direction (`ContinuesInOrder`) | as `listing` | violated, see findings |
| `admin_lists` | what can a walk by page number miss or repeat | 3 rows of up to 3 dates, 2 marks, pages of 1 and 2, five lists, 2 changes | 3 properties hold, 769 923 states |
| `seeding` | what does success of the script mean, and what makes it fail | 2 runs, 2 genres, 2 artists, 4 songs of which one is a fixture, 2 writes of the server, renames included, 1 kill | 4 properties hold, 1 584 394 states |

Why the bounds are enough. Requests meet only through the row they share, so one
tab has all the interesting interleavings; two slots have every pair of handlers at
every pair of statements, and a slot that is free again serves the next request, so
sequences of any length occur. Two instants tell "kept" from "overwritten". In the
catalog a song, its artist, another artist and a genre are all the rows one request
reads; with two slugs a row can be renamed out of another's way. Two accounts suffice
for two first sign-ins of one identity, for two identities with one address and for two
administrators acting on each other. Three rows, of which any may tie, with pages of one
or two, have a cursor in every position: a page ends inside a tie, at the end, or one row
before it. Imports
of different songs share nothing but the order in which they wait, which
`import_live` has; numbering happens within one song. Room for three tabs lets a
single tab, an import and a second import meet; when there is no room the INSERT
fails, so the abort path is exercised too. Two changes to an administrator's list are enough
to make a row leave and another join between any two of its statements; one kill and two
writes of the server put the script's tables into any state it has to cope with, as a write
may come before, between or after the statements of either run. TLC ends with the complete state space in
every passing run; what a slot may do next is never cut off by a constraint.

What the properties say, and what they do not:

- `MetadataMatchesStatus` covers the CHECK constraint on `published_at`
  (`prisma/migrations/.../migration.sql:163`): no interleaving trips it, so no
  request fails because of it.
- `LegalUnlessOvertaken`, `ServedUnlessOvertaken`, `PublishedAtStable` are
  conditional on `overtaken` because the code does not promise more: without the
  condition they fail, as `tab_transitions` shows for the first.
  The condition is as narrow as the code allows: content edits by others, and any
  request on another tab, never excuse a violation.
- `ImplementsStatusMachine` keeps the notes of an earlier rejection on a published
  tab: `publish` leaves them, the PATCH to PUBLISHED clears them. Both are in the
  abstract machine, as the code has them.
- `ImportedVersionsUnique` is about imported tabs. A single tab is created with
  version 1 whatever the song has, so it may share a number: number 1, as
  `OnlyFirstVersionShared` says, and no other.
- `WaitsOnlyAhead` is about what the import itself waits for: connections, rows of songs and
  their locks. In `import_live` the pool has a connection for each importer, so that what is
  waited for are rows and locks; the theorem is about pools of any size.
- `RatedWasPublished` is unconditional: a tab the public never saw gets no rating, whatever
  interleaves. `PublishedUnlessOutrun` is not: a rating is stored for a tab withdrawn after
  the check.
- `NoneMissed` and `NoneRepeated` of `AdminListing` name what offset pagination costs: a row
  that a newer row's leaving moved up a page, rows of one date, and rows pushed off the
  last page between its count and its findMany. `TotalFitsPage` is about a list that did
  not change between the two statements.
- `ExactlyFixtures` says that a run of the script that succeeds, with nobody else writing, repairs
  whatever earlier runs have left. `FixturesThere` allows for the server's writes, and its
  exception is a rename: a fixture renamed after its upsert, or one under a renamed song or
  artist, is gone under its key although the run reports success. A soft-deleted fixture
  counts as there. `FailsOnlyByInterference` names what makes a run alone fail: an insertion,
  the rename of a fixture (`findUniqueOrThrow` no longer finds it) or a taken address; rows
  soft-deleted, restored, rated or edited without a new slug do not.
- `OrphansOnlyWhenOvertaken` and its siblings are conditional in the same way: a live
  song under a deleted artist, a deleted genre on a live song, a published tab in a
  deleted song. Two cases need no overlap and are named in the properties: an import
  that restores a song brings back associations with genres deleted meanwhile (the
  count before a genre's deletion sees live songs only, although docs/modules.md:270
  speaks of song associations), and publishing a tab never looks at its song.
- `AdminRemainsUnlessOvertaken`: two administrators who demote or block each other at
  the same time leave none; one at a time cannot, since nobody may change oneself.
- The listing's promises are to a client that repeats its parameters (`steady`; the
  limit may change) and about rows that stay listed with the same sort value (`kept`). A
  row that moves may be met twice or not at all: keyset pagination promises no more.
- `ImportedContentsUnique` excludes imported tabs that were edited or deleted since.

The type invariants of the tab modules, of the import and of the two kinds of listing are proved (section 4)
and not checked again by TLC. Each property of a run has a mutant in `PROJECT.json`: a plausible slip in the code that
makes TLC find it violated under the same configuration.

### Fairness

`TabLifecycle!FairSpec` and `Accounts!FairSpec` are weak fairness of each slot's next
statement. An INSERT or UPDATE by key never waits for anything that lasts (these
endpoints open no transaction), and the event loop runs every continuation; that new
requests arrive is not assumed. `accounts_race` checks `EveryRequestAnswered` under it:
the recovery after a unique violation does not loop. No liveness is claimed for
listings: whether a client asks for the next page is the client's business, and
`CursorAdvances` says that each page it asks for brings it further.

`BulkImport!FairSpec` is strong fairness of each import's next statement. A
transaction waits in three places, for a connection of the pool, for the row of a song and
for its advisory lock. The pool and PostgreSQL queue their waiters, so one that finds what it waits for free again and
again gets it, though others took it in between: that is strong fairness. Aborts are
allowed and not assumed; `EveryImportEnds` thus shows that nobody depends on the
transaction timeout to get unstuck.

### Findings

1. `tab_transitions`: the check of a transition and the UPDATE are separate
   statements, and the UPDATE does not repeat the check. Two moderators who read the
   same pending tab both decide it; the second gets no domain error.
2. `accounts_recovery`: the "impossible state" of the unit test is reached when another
   identity's row has the e-mail address of the token. The user gets a server error at
   every request until the address is freed.
3. `listing_cursor`: the cursor holds the column but no direction, and the request's own
   column decides the order. A client that follows `nextCursor` without repeating
   `sortBy` and `order` is given rows from before the cursor and misses others.

Of the same kind as the first, and shown by the models when the `overtaken` condition is
dropped: an author's edit, checked against a draft, is written into a tab submitted or
published meanwhile (`tabs.service.ts:122`); an artist is deleted although a song was
created after its songs were counted (`admin-artists.service.ts:106`, against
docs/modules.md:269); a song deleted after an import has found it alive receives the
import's tabs (`bulk-import.service.ts:194`); two overlapping replacements of a song's genres
leave the union of both, since the DELETE of the second does not see what the first commits
after it (`song-genre.repository.ts:10`), which `ReplacedUnlessOvertaken` bounds.

Seen while reading and not checked, since no model has two artists with one song slug or
searches: GET /artists/:slug also finds soft-deleted artists (`findBySlug` sets
`includeDeleted`); GET /songs/:slug looks a song up by its slug alone, though slugs are unique
per artist only; the search shows published tabs of deleted songs.

## 4. Proofs

TLAPS checks these for every value of the constants (any number of tabs, users,
requests, songs, batches, importers, fixtures, runs of the seeds), from the named assumptions of the modules:
administrators are users, and NULL and UNDEF are no values of the types they stand
beside; a batch is a non-empty sequence of songs with their versions; identifiers and
sort values are integers, identifiers are finitely many, page sizes positive; the fixtures
are a sequence of songs without repetition, each artist with a sequence of genres without
repetition, the kinds of keys are disjoint; in
`TabLifecycleSerial`, one request slot (an assumption of its theorems).

| Theorem | States |
|---|---|
| `TabLifecycleProofs!TypeCorrect`, `TypesAlwaysHold` | `Spec => []TypeInv`, which is `TypeOK` and that every waiting slot carries what its statement needs; hence `[]TypeOK` |
| `MetadataAlwaysMatchesStatus` | `[]MetadataMatchesStatus` |
| `ChecksAlwaysStand` | `[]ChecksStand` |
| `OnlyOvertakenRequestsBreakTheTable` | `LegalUnlessOvertaken` |
| `OnlyOvertakenRequestsFail` | `ServedUnlessOvertaken` |
| `NoRequestThawsATab` | `DeletedTabsFrozen` |
| `OnlyOwnerOrAdminChangesATab` | `ChangedByOwnerOrAdmin` |
| `PublicationDateStays` | `PublishedAtStable` |
| `SerialTabsFollowTheStatusMachine` | `ImplementsStatusMachine`, with one request slot |
| `SerialDecisionsKeepTheSubmissionDate` | `[]DecidedWasSubmitted`, with one request slot |
| `BulkImportProofs!TypeCorrect` | `[]TypeOK` |
| `VersionsNeverCollide` | `[]ImportedVersionsUnique` |
| `ContentsNeverRepeat` | `[]ImportedContentsUnique` |
| `NumbersHaveNoGap` | `[]VersionsWithoutGap` |
| `OnlyFirstShared` | `[]OnlyFirstVersionShared` |
| `NobodyWaitsInACircle` | `[]WaitsOnlyAhead` |
| `ImportsNeverDeadlock` | `[]SomeoneGoesOn` |
| `ImportsRunOut` | `EveryImportAdvances` |
| `TabRatingsProofs!RatedTypeCorrect` | `[]RatedTypeOK` |
| `RatingsAreOfPublishedTabs` | `[]RatedWasPublished` |
| `RatedWhilePublished` | `PublishedUnlessOutrun` |
| `CatalogProofs!TypeCorrect` | `[]TypeOK` |
| `ClaimsAlwaysStand` | `[]ClaimsStand` |
| `OrphansNeedARace` | `OrphansOnlyWhenOvertaken` |
| `StaleGenresNeedARace` | `StaleGenresOnlyWhenOvertaken` |
| `HiddenTabsNeedARace` | `HiddenTabsOnlyWhenOvertaken` |
| `ReplacementsNeedARace` | `ReplacedUnlessOvertaken` |
| `ServerErrorsNeedARace` | `ServedUnlessOvertaken` |
| `AccountsProofs!TypeCorrect` | `[]TypeOK` |
| `AuthorityAlwaysStands` | `[]AuthorityStands` |
| `OnlyRightHandsChange` | `ChangedByRightHands` |
| `AdminRemains` | `AdminRemainsUnlessOvertaken` |
| `SyncAlwaysServed` | `SyncServed` |
| `RequestsRunOut` | `EveryStatementCounts` |
| `ListingProofs!TypeCorrect` | `[]TypeOK` |
| `NothingIsSkipped` | `[]NoneSkipped` |
| `NothingIsRepeated` | `[]NoneRepeated` |
| `WalksAdvance` | `CursorAdvances` |
| `CursorsLeadOn` | `CursorOnlyIfMore` |
| `AdminListingProofs!TypeCorrect` | `[]TypeOK` |
| `NothingIsMissed` | `[]NoneMissed` |
| `NothingIsRepeated` | `[]NoneRepeated` |
| `TotalsFit` | `[]TotalFitsPage` |
| `SeedingProofs!TypesHold` | `[]TypeOK` |
| `SuccessMeansFixtures` | `[]FixturesThere` |
| `SuccessMeansOnlyFixtures` | `[]ExactlyFixtures` |
| `RunsFailOnlyByInterference` | `FailsOnlyByInterference` |

The arguments.

*Lifecycle.* `TypeOK` alone is not inductive: an UPDATE writes what its slot carries,
so `CallsWellFormed` says that a slot about to edit carries a content, one about to
reject carries notes, a moderator's user is an administrator, and the tab of a
waiting slot exists. `MetadataMatchesStatus` follows column by column: `submit`
leaves `publishedAt` and the moderator alone, which is harmless because PENDING asks
for neither; a PATCH sets all columns at once. The action properties rest on
`ChecksStand`: for every waiting slot, either it is in `overtaken` or what it checked
is still true of the row (and, for a PATCH, the dates it holds are the row's). Each
write either leaves status and deletion alone, or puts every other reader of that tab
into `overtaken`; the proof goes through the seven writes one by one.

*Refinement.* With one slot nobody is overtaken, so by `ChecksStand` whatever a request checked
still holds at its write. The state of the abstract machine is the moderation columns of each
row, a deleted row's included. Each write is then one abstract step (`Submits`,
`Publishes`, `Rejects`, `Overrides`, `Annotates`, `Deletes`, `Creates`), an edit of the content
and every read a stutter. `DecidedWasSubmitted` is proved of the abstract machine's steps alone
(`MachineKeepsDates`) and holds of the code through the refinement. With two slots a
request may be overtaken and neither follows, as `tab_transitions` shows for publishing.

*Import.* Uniqueness of versions is not inductive. The strengthening `IInv` has, for
each slot: from the statement after the lock on, the lock of its song is its own; from
`ReadContents` on, `next` is above every version any import has given the song
(`NumbersAhead`); in the loop, `seen` contains the content of every imported tab of
the song that is neither edited nor deleted (`KnowsContents`); and every uncommitted
row belongs to an import that is in its loop, at that song (`OwnsRow`). The last
conjunct makes READ COMMITTED harmless: whoever holds the lock sees every imported row
of the song, since another import's uncommitted rows would mean that it holds the lock
too (`SeesAllImports`). Rows only leave by rollback, become committed, or are edited or
deleted, none of which breaks uniqueness (`Inherits`). That numbers leave no
gap is `Follows`: each tab has number 1 or its song has one with the number below, which is
committed or of the same transaction, so it is rolled back only together with it; the next
number of an import follows in the same way (`NextFollows`). Only number 1 is shared because
a tab created on its own has it (`SingleIsFirst`).

That imports do not wait in a circle is an order on what a transaction holds: a connection first,
then the row of its song, then the song's lock (`Stage`). `HeldInv` says that who holds a row has
written it and who holds a lock has taken it, and that nobody holds anything after its end;
so what an import waits for is held by one that is further on, and the furthest ones, in the loop
under the lock, wait for nobody. `SomeoneGoesOn` follows, since a chain of waits has three links
at most. `EveryImportAdvances` says that no import moves in a circle by itself either: each of its
steps, a failing one included, goes to a later version, statement or song of its batch. Together
they are the safety half of `EveryImportEnds`, for any number of imports, songs and connections;
that whoever may go on does, and that the queues are fair, is what TLC's run adds.

*Ratings.* `RatedInv` adds `LooksStand`: a waiting slot is outrun or its tab is still
published, and in either case the tab has been published once. A step of the lifecycle
changes none of the ratings and puts every slot whose tab goes into `outrun`; so the proof
needs of the lifecycle's actions only that `TabStep` says which tabs are withdrawn.

*Catalog.* `IInv` is `TypeOK`, that requests are `WellFormed` (which columns a slot carries
at which statement), that what a request is about to create neither exists nor is
another's to create (`Fresh`), and that associations are between rows there are
(`LinksOfRows`). `ClaimsStand` then holds because a step of another that falsifies a claim
puts it into `overtaken` by definition, so what is left is that no step falsifies a claim
of its own request (`OwnStep`), action by action. The four action properties follow: a live
song under a deleted artist, say, appears by making or restoring the song, and then the
request held the claim that the artist is live, or by deleting the artist, and then it held
the claim that the row is unused; a claim that is false is in `overtaken`.
`ServedUnlessOvertaken` goes through every way a handler ends (`OutcomeOf`): a 500 comes from
an UPDATE that matched no row, from an INSERT or UPDATE whose slug was free when it was looked
up, or from an association that another replacement has inserted since the old ones were deleted.

*Accounts.* `SlotsInv` strengthens types and authority: a slot in `recover` has an account
or someone else has its address (a row once inserted is never removed, nor is its
address changed, so a failed INSERT stays explained), and an administrator's request
never targets its own user (`SpareSelf`). A slot enters a handler only through `Enter`,
whose snapshot is the row as it stands, so authority holds on entry and is lost only to a
step of another, which puts the slot into `overtaken`. The last administrator is then
lost only to a request that targets it and is made by somebody else, who must have been
overtaken, else there would be another administrator. `EveryStatementCounts` bounds the
statements of a request (`Left`), the safety half of `EveryRequestAnswered`.

*Listing.* `NoneSkipped` alone is not inductive; `Separates` is: of the rows kept in
place, exactly those not yet seen come after the cursor. A page takes the first rows
after the cursor (`PageDivides`), so its last row, the new cursor, divides the rest again;
the order of places is strict and total because of the id (`BeforeIsOrder`), which is
where a cursor without the tie-break fails. When no row was left over, the page had all
of them, by cardinality (`AllFetched`). Rows that appear or disappear do not move the
kept ones.

*Admin lists.* A row's place is the number of listed rows newer than it (`Ahead`), compared with
the number of rows the client has asked for so far (`Asked`). `GivenAreBehind`: a row given
lies before what has been asked for, unless it sank or shares a date. `UngivenAreAhead`:
a row that stayed and has not been given lies after it, unless it rose, came late or shares a date.
`AnswersFit` relates the page and the total while the list is as both statements saw it.
A page takes the rows at places `Skip` to `Skip + size` (`PlaceInList`, by cardinality); a change
moves a row's place by one at most, and only by a newer row that joins or leaves
(`WriteMoves`), which is when the history says that the row sank or rose. When the client stops,
`TotalPages` pages hold the whole count (`RoundsUp`), so nothing lies after them.

*Seeds.* First the script itself is taken apart, for any fixtures. It is built by flattening
sequences of sequences, so where a statement stands depends on all that is before it
(`Placement`); the lemmas then say no more than the order requires: the six deletions come
first and in this order, each fixture is written by one statement and nothing else is
(`ScriptWrites`), what a statement looks up by its slug an earlier one has written
(`ReadsFollowWrites`), a song's associations come right after its upsert
(`LinksFollowTheirSong`), and its artist is read just before it
(`ParentsAreReadJustBefore`). What a statement does to each row follows (`WriteKeepsCatalog`,
`DeleteKeepsCatalog`, `StepEffect`), and with it `TypeOK`, whose hard parts are that no
statement or cascade leaves a row that refers to one removed and that no rename tears apart what
belongs together: a rename exchanges two keys and with them what belongs to either, which maps
each table to itself and undoes itself (`ExchangedKeys`, `RenameEffect`).

What a statement writes is named by what its run holds, not by the fixture. So the first
strengthening (`HeldInv`) is that of a kind a run holds the row it has just read or written and
no other, unless that was renamed away, and that a rename of an artist or a song takes along
every fixture that belongs to it (`RenamedWhole`); a fixture that was not renamed is then written
by its own key (`Effect`).

None of the three others is inductive, since each is about what holds when the script has
ended. For success the question is what is still to come: every fixture not renamed away is
there, or some run has the statement that writes it before it (`FixturesToCome`); and every
row that should not be there, or is not as seeded, is still to be removed (`RestToCome`). A
run that overlaps can remove what another has written, but then it has the same statement
still before it. Both look at the runs at work only, so that what a killed run left behind is
a state like any other: a run that begins has the whole script before it. For failure the
question is what a run has done: while it is alone and the server inserts nothing and renames
no fixture, what it has written is there, its deletions have left nothing else behind, and it
holds what it has just read or written (`Own`). So no lookup finds nothing, no foreign key is
missing and no deletion meets a dependant (`OwnRunIsUnobstructed`); only the address of a
seed's account, which the script never removes, can still be taken.

Only model-checked: the liveness properties `EveryRequestAnswered` and `EveryImportEnds`, since
fairness and ENABLED are out of the prover's reach; their safety halves are proved. Every invariant and action property that a
passing run checks has a theorem. The library's induction theorems take an operator as a
parameter and cannot be used here. What is needed of `FlattenSeq` (its length, and
where a part begins) is derived from induction over a set of numbers instead; no
module has a RECURSIVE operator.

## 5. Not modelled, and the plan

What a continuation would add: the composition of `Catalog` with
`TabLifecycle`, where `Catalog` now has only the set of songs with a published tab; the status
and title of imported versions and which rows a report lists.

Left out for good: validation of single requests (schemas), token verification (the
identity provider's), reads without state (dashboard, health, metrics, search),
configuration, logging, OpenAPI, and the throttler, whose counters are a library's. The
timeout of a transaction, of a lock or of a connection is `Abort`, at any statement: no
clock is modelled.

Abstractions to keep in mind: an `updateSong` that renames a song is not among the
actions beside imports; two songs whose advisory keys collide
(`hashtext` has 32 bits) would only wait for each other more often.

## 6. Running

    tlc -config MCTabLifecycleRace.cfg MCTabLifecycle.tla
    tlc -config MCTabRatings.cfg MCTabRatings.tla
    tlc -config MCBulkImportRace.cfg MCBulkImport.tla
    tlc -config MCCatalogRace.cfg MCCatalog.tla
    tlc -config MCListingWalk.cfg MCListing.tla
    tlc -config MCAdminListing.cfg MCAdminListing.tla
    tlc -config MCSeeding.cfg MCSeeding.tla
    tlapm TabLifecycleProofs.tla
    tlapm CatalogProofs.tla
    tlapm AdminListingProofs.tla
    tlapm SeedingProofs.tla
