----------------------------- MODULE BulkImport -----------------------------
(***************************************************************************)
(* Bulk import of one artist's songs: BulkImportService.bulkImport, once   *)
(* it has resolved the artist.  Several imports run at the same time, each *)
(* one transaction per song, next to the requests that create, edit and    *)
(* delete single tabs, and that create and delete songs.                   *)
(*                                                                         *)
(* Transactions are READ COMMITTED: a statement sees the rows committed    *)
(* before it and the rows of its own transaction.  A row carries in tx the *)
(* import whose uncommitted transaction wrote it.                          *)
(***************************************************************************)
EXTENDS Naturals, Sequences, FiniteSets

CONSTANTS
  Songs,      \* (artist, slug) keys
  Contents,   \* tab contents, told apart byte by byte
  Tabs,       \* identifiers of the tabs that storage has room for
  Importers,  \* slots for import requests being served at the same time
  Batches,    \* the songs[] an import may carry
  PoolSize,   \* connections of the server to the database
  NULL

ASSUME PoolIsNotEmpty == PoolSize \in Nat \ {0}
ASSUME NullIsNoImporter == NULL \notin Importers

\* A batch names its songs and, in order, the contents of their versions.
ASSUME BatchesAreSongLists ==
  \A b \in Batches : b \in Seq([song : Songs, versions : Seq(Contents)]) /\ b # <<>>

Row == [song : Songs, version : Nat \ {0}, content : Contents, deleted : BOOLEAN,
        imported : BOOLEAN, edited : BOOLEAN, tx : Importers \cup {NULL}]

ASSUME NullIsNoTab == NULL \notin Row

\* pc names the statement to be issued next; `insert' is the loop over versions[].
InTransaction == {"find", "create", "restore", "lock", "max", "contents", "insert"}

Import == [pc : InTransaction \cup {"idle", "genres"},
           batch : Batches \cup {<<>>},
           index : Nat,          \* the song being imported
           version : Nat,        \* the version being imported
           next : Nat,           \* nextVersionNumber
           seen : SUBSET Contents]

NoImport == [pc |-> "idle", batch |-> <<>>, index |-> 0, version |-> 0, next |-> 0,
             seen |-> {}]

VARIABLES
  songs,    \* each song as committed, and the import that has it uncommitted
  tabs,     \* the tabs table
  lock,     \* who holds the advisory lock of each song
  imports   \* the import each slot is serving

vars == <<songs, tabs, lock, imports>>

Song == [seen : {"none", "live", "deleted"}, tx : Importers \cup {NULL}]

Init ==
  /\ songs = [k \in Songs |-> [seen |-> "none", tx |-> NULL]]
  /\ tabs = [t \in Tabs |-> NULL]
  /\ lock = [k \in Songs |-> NULL]
  /\ imports = [p \in Importers |-> NoImport]

-----------------------------------------------------------------------------

\* An interactive transaction keeps the connection it has begun on until it ends.
HoldsConnection(p) == imports[p].pc \in InTransaction \ {"find"}

\* Any other statement, BEGIN included, waits for a connection nobody holds.
ConnectionFree == Cardinality({p \in Importers : HoldsConnection(p)}) < PoolSize

\* The song import p is at.
Entry(p) == imports[p].batch[imports[p].index]

TabsOf(k) == {t \in Tabs : tabs[t] # NULL /\ tabs[t].song = k}

Visible(p, k) == {t \in TabsOf(k) : tabs[t].tx \in {p, NULL}}

At(p, pc) == imports[p].pc = pc

Goto(p, pc) == imports' = [imports EXCEPT ![p].pc = pc]

\* On to the next song, or the answer: always 200, whatever became of the songs.
NextSong(p) ==
  LET q == imports[p]
  IN  imports' = [imports EXCEPT ![p] =
        IF q.index < Len(q.batch)
          THEN [NoImport EXCEPT !.pc = "genres", !.batch = q.batch, !.index = q.index + 1]
          ELSE NoImport]

\* Mutant of Release: pg_advisory_lock, which belongs to the session, in place of
\* pg_advisory_xact_lock.
ReleaseNothing(p) == lock' = lock

\* Advisory transaction locks are freed when the transaction ends.
Release(p) == lock' = [k \in Songs |-> IF lock[k] = p THEN NULL ELSE lock[k]]

Rollback(p) ==
  /\ tabs' = [t \in Tabs |-> IF tabs[t] # NULL /\ tabs[t].tx = p THEN NULL ELSE tabs[t]]
  /\ songs' = [k \in Songs |-> IF songs[k].tx = p THEN [songs[k] EXCEPT !.tx = NULL]
                                                  ELSE songs[k]]
  /\ Release(p)

Persist(p) ==
  /\ tabs' = [t \in Tabs |-> IF tabs[t] # NULL /\ tabs[t].tx = p
                               THEN [tabs[t] EXCEPT !.tx = NULL] ELSE tabs[t]]
  /\ songs' = [k \in Songs |-> IF songs[k].tx = p THEN [seen |-> "live", tx |-> NULL]
                                                  ELSE songs[k]]
  /\ Release(p)

\* The per-song catch: the transaction is rolled back, the batch goes on.
Fail(p) == Rollback(p) /\ NextSong(p)

-----------------------------------------------------------------------------
(* An import, statement by statement.                                      *)

StartImport(p) ==
  /\ At(p, "idle")
  /\ \E b \in Batches :
       imports' = [imports EXCEPT ![p] = [NoImport EXCEPT !.pc = "genres", !.batch = b,
                                                          !.index = 1]]
  /\ UNCHANGED <<songs, tabs, lock>>

\* Outside the transaction.  Which genres there are is not this module's business.
CheckGenres(p) ==
  /\ At(p, "genres") /\ ConnectionFree
  /\ Goto(p, "find") \/ NextSong(p)
  /\ UNCHANGED <<songs, tabs, lock>>

\* BEGIN, and the first statement of the transaction.
FindSong(p) ==
  /\ At(p, "find") /\ ConnectionFree
  /\ LET found == songs[Entry(p).song].seen
     IN  \/ found = "none" /\ Goto(p, "create")
         \/ found = "deleted" /\ Goto(p, "restore")
         \/ found = "live" /\ Goto(p, "lock")
  /\ UNCHANGED <<songs, tabs, lock>>

\* The row of the song, and with it the row lock that other writers wait for.
WriteSong(p) ==
  /\ songs' = [songs EXCEPT ![Entry(p).song].tx = p]
  /\ Goto(p, "lock")
  /\ UNCHANGED <<tabs, lock>>

\* The INSERT waits for an uncommitted one with the same key, and fails (P2002,
\* which ends the transaction) if by then the song is there.
CreateSong(p) ==
  LET song == songs[Entry(p).song]
  IN  /\ At(p, "create") /\ song.tx = NULL
      /\ IF song.seen = "none" THEN WriteSong(p) ELSE Fail(p)

RestoreSong(p) ==
  /\ At(p, "restore") /\ songs[Entry(p).song].tx = NULL
  /\ WriteSong(p)

\* Mutant of LockFree: tabs are numbered without the lock.
LockIgnored(k) == TRUE

LockFree(k) == lock[k] = NULL

\* pg_advisory_xact_lock.
LockSong(p) ==
  /\ At(p, "lock") /\ LockFree(Entry(p).song)
  /\ lock' = [lock EXCEPT ![Entry(p).song] = p]
  /\ Goto(p, "max")
  /\ UNCHANGED <<songs, tabs>>

\* Mutant of UsedVersions: the numbers of deleted tabs are free again.
LiveVersions(p, k) == {0} \cup {tabs[t].version : t \in {u \in Visible(p, k) : ~tabs[u].deleted}}

\* Deleted tabs keep their numbers.
UsedVersions(p, k) == {0} \cup {tabs[t].version : t \in Visible(p, k)}

\* Mutant of After: numbering starts at the maximum.
AtMax(max) == max

After(max) == max + 1

\* Mutant of ReadMaxVersion: the client's statement in place of the transaction's.
ReadMaxVersionOutside(p) ==
  /\ At(p, "max") /\ ConnectionFree
  /\ \E max \in UsedVersions(NULL, Entry(p).song) :
       /\ \A v \in UsedVersions(NULL, Entry(p).song) : v <= max
       /\ imports' = [imports EXCEPT ![p].pc = "contents", ![p].next = After(max)]
  /\ UNCHANGED <<songs, tabs, lock>>

ReadMaxVersion(p) ==
  /\ At(p, "max")
  /\ \E max \in UsedVersions(p, Entry(p).song) :
       /\ \A v \in UsedVersions(p, Entry(p).song) : v <= max
       /\ imports' = [imports EXCEPT ![p].pc = "contents", ![p].next = After(max)]
  /\ UNCHANGED <<songs, tabs, lock>>

ReadContents(p) ==
  /\ At(p, "contents")
  /\ LET live == {t \in Visible(p, Entry(p).song) : ~tabs[t].deleted}
     IN  imports' = [imports EXCEPT ![p].pc = "insert", ![p].version = 1,
                                    ![p].seen = {tabs[t].content : t \in live}]
  /\ UNCHANGED <<songs, tabs, lock>>

\* The loop over the versions of the song.
Looping(p) == At(p, "insert") /\ imports[p].version <= Len(Entry(p).versions)

Content(p) == Entry(p).versions[imports[p].version]

\* Mutant of Skip: a version that is skipped uses up a number.
SkipNumbered(p) ==
  imports' = [imports EXCEPT ![p].version = @ + 1, ![p].next = @ + 1]

Skip(p) == imports' = [imports EXCEPT ![p].version = @ + 1]

\* Mutant of Insert: what the batch itself has brought is not remembered.
InsertForgotten(p, t) ==
  /\ tabs' = [tabs EXCEPT ![t] =
       [song |-> Entry(p).song, version |-> imports[p].next, content |-> Content(p),
        deleted |-> FALSE, imported |-> TRUE, edited |-> FALSE, tx |-> p]]
  /\ imports' = [imports EXCEPT ![p].version = @ + 1, ![p].next = @ + 1]

Insert(p, t) ==
  /\ tabs' = [tabs EXCEPT ![t] =
       [song |-> Entry(p).song, version |-> imports[p].next, content |-> Content(p),
        deleted |-> FALSE, imported |-> TRUE, edited |-> FALSE, tx |-> p]]
  /\ imports' = [imports EXCEPT ![p].version = @ + 1, ![p].next = @ + 1,
                                ![p].seen = @ \cup {Content(p)}]

SkipVersion(p) ==
  /\ Looping(p) /\ Content(p) \in imports[p].seen
  /\ Skip(p)
  /\ UNCHANGED <<songs, tabs, lock>>

InsertVersion(p) ==
  /\ Looping(p) /\ Content(p) \notin imports[p].seen
  /\ \/ /\ \E t \in Tabs : tabs[t] = NULL /\ Insert(p, t)
        /\ UNCHANGED <<songs, lock>>
     \/ /\ \A t \in Tabs : tabs[t] # NULL
        /\ Fail(p)

\* Its acknowledgement may be lost: the song is then reported as failed, and the
\* batch may come again.
Commit(p) ==
  /\ At(p, "insert") /\ ~Looping(p)
  /\ Persist(p) /\ NextSong(p)

\* A statement fails, or the transaction outlives its timeout, waiting or not; one that
\* waits too long for a connection is given up before it has begun.
Abort(p) == imports[p].pc \in InTransaction /\ Fail(p)

\* The server restarts: open transactions are rolled back, nobody is answered.
Restart ==
  /\ \E p \in Importers : ~At(p, "idle")
  /\ tabs' = [t \in Tabs |-> IF tabs[t] # NULL /\ tabs[t].tx # NULL THEN NULL ELSE tabs[t]]
  /\ songs' = [k \in Songs |-> [songs[k] EXCEPT !.tx = NULL]]
  /\ lock' = [k \in Songs |-> NULL]
  /\ imports' = [p \in Importers |-> NoImport]

-----------------------------------------------------------------------------
(* The other requests that write these rows, each by its last statement.   *)

\* Mutant of FirstVersion: the number after the greatest, read without the lock.
NextVersion(k) ==
  CHOOSE n \in 1..(Cardinality(TabsOf(k)) + 1) :
    /\ n - 1 \in UsedVersions(NULL, k)
    /\ \A v \in UsedVersions(NULL, k) : v < n

\* The column's default.
FirstVersion(k) == 1

\* PrismaTabRepository.create: always version 1, without the lock.
CreateTab ==
  /\ \E t \in Tabs, k \in Songs, c \in Contents :
       /\ tabs[t] = NULL /\ songs[k].seen # "none"
       /\ tabs' = [tabs EXCEPT ![t] =
            [song |-> k, version |-> FirstVersion(k), content |-> c, deleted |-> FALSE,
             imported |-> FALSE, edited |-> FALSE, tx |-> NULL]]
  /\ UNCHANGED <<songs, lock, imports>>

LiveTab(t) == tabs[t] # NULL /\ tabs[t].tx = NULL /\ ~tabs[t].deleted

\* Writing the content a tab has already changes nothing here.
EditTab ==
  /\ \E t \in Tabs, c \in Contents :
       /\ LiveTab(t) /\ c # tabs[t].content
       /\ tabs' = [tabs EXCEPT ![t].content = c, ![t].edited = TRUE]
  /\ UNCHANGED <<songs, lock, imports>>

DeleteTab ==
  /\ \E t \in Tabs : LiveTab(t) /\ tabs' = [tabs EXCEPT ![t].deleted = TRUE]
  /\ UNCHANGED <<songs, lock, imports>>

\* createSong of the admin catalog.
AddSong ==
  /\ \E k \in Songs :
       /\ songs[k] = [seen |-> "none", tx |-> NULL]
       /\ songs' = [songs EXCEPT ![k].seen = "live"]
  /\ UNCHANGED <<tabs, lock, imports>>

\* deleteSong of the admin catalog.  Its check that no tab is published is about
\* columns this module leaves out.  The UPDATE waits for a restore of the same row.
DeleteSong ==
  /\ \E k \in Songs :
       /\ songs[k] = [seen |-> "live", tx |-> NULL]
       /\ songs' = [songs EXCEPT ![k].seen = "deleted"]
  /\ UNCHANGED <<tabs, lock, imports>>

-----------------------------------------------------------------------------

\* What an import does next, when nothing goes wrong.
Step(p) ==
  \/ CheckGenres(p) \/ FindSong(p) \/ CreateSong(p) \/ RestoreSong(p)
  \/ LockSong(p) \/ ReadMaxVersion(p) \/ ReadContents(p)
  \/ SkipVersion(p) \/ InsertVersion(p) \/ Commit(p)

Next ==
  \/ \E p \in Importers : StartImport(p) \/ Step(p) \/ Abort(p)
  \/ Restart \/ CreateTab \/ EditTab \/ DeleteTab \/ AddSong \/ DeleteSong

Spec == Init /\ [][Next]_vars

\* PostgreSQL queues those who wait for a row or for the lock of a song, and the driver
\* those who wait for a connection, so whoever finds it free again and again is let in
\* (strong fairness); the event loop runs what comes after each await.
FairSpec == Spec /\ \A p \in Importers : SF_vars(Step(p))

-----------------------------------------------------------------------------
(* Properties.                                                             *)

\* The tables and the slots hold values of their types; versions start at 1 (the
\* table's CHECK constraint).
TypeOK ==
  /\ songs \in [Songs -> Song]
  /\ tabs \in [Tabs -> Row \cup {NULL}]
  /\ lock \in [Songs -> Importers \cup {NULL}]
  /\ imports \in [Importers -> Import]

ImportedTabs(k) == {t \in TabsOf(k) : tabs[t].imported}

\* bulk-import.service.ts:223: concurrent bulk imports assign no version number of a
\* song twice, the numbers of deleted tabs included, whatever single tabs are created,
\* imports aborted, or batches sent again after an answer was lost.
ImportedVersionsUnique ==
  \A k \in Songs : \A t, u \in ImportedTabs(k) :
    tabs[t].version = tabs[u].version => t = u

\* Tabs created one by one take no lock and all get number 1, by design; above 1 a
\* number of a song still names one tab, however they meet an import of that song.
OnlyFirstVersionShared ==
  \A k \in Songs : \A t, u \in TabsOf(k) :
    t # u /\ tabs[t].version = tabs[u].version => tabs[t].version = 1

AsImported(t) == tabs[t].imported /\ ~tabs[t].edited /\ ~tabs[t].deleted

\* Importing the same content again, in the batch, at the same time or as a retry,
\* leaves one live tab with it, unless it was edited or deleted meanwhile.
ImportedContentsUnique ==
  \A k \in Songs : \A t, u \in TabsOf(k) :
    AsImported(t) /\ AsImported(u) /\ tabs[t].content = tabs[u].content => t = u

\* Versions that are skipped, and transactions that are rolled back, leave no gap in
\* the numbers of a song.
VersionsWithoutGap ==
  \A k \in Songs : \A t \in TabsOf(k) :
    tabs[t].version = 1 \/ \E u \in TabsOf(k) : tabs[u].version = tabs[t].version - 1

\* What p's next statement waits for: a connection, the row of a song, or its lock.
Waits(p) ==
  \/ imports[p].pc \in {"genres", "find"} /\ ~ConnectionFree
  \/ imports[p].pc \in {"create", "restore"} /\ songs[Entry(p).song].tx # NULL
  \/ At(p, "lock") /\ ~LockFree(Entry(p).song)

\* The imports that hold it.
WaitsFor(p) ==
  {q \in Importers :
     \/ imports[p].pc \in {"genres", "find"} /\ HoldsConnection(q)
     \/ imports[p].pc \in {"create", "restore"} /\ songs[Entry(p).song].tx = q
     \/ At(p, "lock") /\ lock[Entry(p).song] = q}

\* How far the transaction of p has come: a connection, then a row, then the lock.
Stage(p) ==
  CASE imports[p].pc \in {"idle", "genres", "find"} -> 0
    [] imports[p].pc \in {"create", "restore"}      -> 1
    [] imports[p].pc = "lock"                       -> 2
    [] OTHER                                        -> 3

\* An import that waits does so for imports that are further in their transactions, so
\* no imports wait for one another in a circle, and whoever has the lock of a song
\* waits for nobody (bulk-import.service.ts:225: one song, one lock, per transaction).
WaitsOnlyAhead ==
  \A p \in Importers :
    Waits(p) => WaitsFor(p) # {} /\ \A q \in WaitsFor(p) : Stage(q) > Stage(p)

\* Every import is answered or dropped: no set of imports waits for one another on the
\* locks of songs or on connections, and a lock never outlives the transaction that
\* took it.
EveryImportEnds == \A p \in Importers : ~At(p, "idle") ~> At(p, "idle")
=============================================================================
