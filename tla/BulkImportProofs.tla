-------------------------- MODULE BulkImportProofs --------------------------
(***************************************************************************)
(* Theorems about BulkImport, for any songs, batches and number of imports *)
(* running at the same time.                                               *)
(***************************************************************************)
EXTENDS BulkImport, FiniteSetTheorems, TLAPS

\* An import that is being served is at one of the songs of its batch.
AtSong(p) ==
  ~At(p, "idle") => /\ imports[p].batch \in Batches
                    /\ imports[p].index \in 1..Len(imports[p].batch)

Locked == {"max", "contents", "insert"}

\* An import numbers and compares tabs only while it holds the lock of the song.
HoldsLock(p) == imports[p].pc \in Locked => lock[Entry(p).song] = p

\* The next number is above those of all imports, uncommitted ones included.
NumbersAhead(p) ==
  imports[p].pc \in {"contents", "insert"} =>
    /\ imports[p].next >= 1
    /\ \A t \in Tabs : /\ tabs[t] # NULL /\ tabs[t].imported
                       /\ tabs[t].song = Entry(p).song
                       => tabs[t].version < imports[p].next

\* What an import compares with has not grown since it read it.
KnowsContents(p) ==
  At(p, "insert") =>
    /\ imports[p].version >= 1
    /\ \A t \in Tabs : tabs[t] # NULL /\ AsImported(t) /\ tabs[t].song = Entry(p).song
                       => tabs[t].content \in imports[p].seen

\* Uncommitted tabs belong to the song their import is inserting into.
OwnsRow(t) ==
  tabs[t] # NULL /\ tabs[t].tx # NULL =>
    /\ tabs[t].imported
    /\ At(tabs[t].tx, "insert")
    /\ tabs[t].song = Entry(tabs[t].tx).song

SlotInv(p) ==
  AtSong(p) /\ HoldsLock(p) /\ NumbersAhead(p) /\ KnowsContents(p)

SlotsInv == \A p \in Importers : SlotInv(p)

RowsInv == \A t \in Tabs : OwnsRow(t)

Unique == ImportedVersionsUnique /\ ImportedContentsUnique

IInv == TypeOK /\ SlotsInv /\ RowsInv /\ Unique

-----------------------------------------------------------------------------
(* What a step keeps.                                                      *)

LEMMA EntryType ==
  ASSUME NEW p \in Importers, AtSong(p), ~At(p, "idle")
  PROVE  Entry(p).song \in Songs /\ Entry(p).versions \in Seq(Contents)
  <1>1. /\ imports[p].batch \in Seq([song : Songs, versions : Seq(Contents)])
        /\ imports[p].index \in 1..Len(imports[p].batch)
    BY BatchesAreSongLists DEF AtSong
  <1>2. Entry(p) \in [song : Songs, versions : Seq(Contents)]
    <2>1. ASSUME NEW S, NEW b \in Seq(S), NEW i \in 1..Len(b) PROVE b[i] \in S
      BY <2>1
    <2>2. QED
      BY <1>1, <2>1 DEF Entry
  <1>3. QED
    BY <1>2

\* The row t of an import is the one it was before, or has been edited or deleted.
Inherits(t) ==
  tabs'[t] # NULL /\ tabs'[t].imported =>
    /\ tabs[t] # NULL /\ tabs[t].imported
    /\ tabs'[t].song = tabs[t].song /\ tabs'[t].version = tabs[t].version
    /\ ~tabs'[t].edited /\ ~tabs'[t].deleted =>
         AsImported(t) /\ tabs'[t].content = tabs[t].content

LEMMA UniqueInherited ==
  ASSUME Unique, \A t \in Tabs : Inherits(t)
  PROVE  Unique'
  BY DEF Unique, ImportedVersionsUnique, ImportedContentsUnique, ImportedTabs, TabsOf,
         AsImported, Inherits

LEMMA SlotKept ==
  ASSUME NEW q \in Importers, SlotInv(q), imports'[q] = imports[q],
         imports[q].pc \in Locked =>
           /\ lock'[Entry(q).song] = lock[Entry(q).song]
           /\ \A t \in Tabs : Inherits(t) \/ tabs'[t].song # Entry(q).song
  PROVE  SlotInv(q)'
  <1>1. AtSong(q)'
    BY DEF SlotInv, AtSong, At
  <1>2. Entry(q)' = Entry(q)
    BY DEF Entry
  <1>3. HoldsLock(q)'
    BY <1>2 DEF SlotInv, HoldsLock
  <1>4. NumbersAhead(q)'
    BY <1>2 DEF SlotInv, NumbersAhead, Inherits, Locked
  <1>5. KnowsContents(q)'
    BY <1>2 DEF SlotInv, KnowsContents, Inherits, Locked, AsImported, At
  <1>6. QED
    BY <1>1, <1>3, <1>4, <1>5 DEF SlotInv

LEMMA OneHolder ==
  ASSUME SlotsInv, NEW p \in Importers, NEW q \in Importers,
         imports[p].pc \in Locked, imports[q].pc \in Locked, Entry(p).song = Entry(q).song
  PROVE  p = q
  BY DEF SlotsInv, SlotInv, HoldsLock

\* A step of import p that writes no tab and takes no lock.
LEMMA QuietStep ==
  ASSUME IInv, NEW p \in Importers, UNCHANGED <<tabs, lock>>, songs' \in [Songs -> Song],
         imports' \in [Importers -> Import],
         \A q \in Importers \ {p} : imports'[q] = imports[q],
         SlotInv(p)',
         At(p, "insert") => At(p, "insert")' /\ Entry(p)' = Entry(p)
  PROVE  IInv'
  <1>1. TypeOK'
    BY DEF IInv, TypeOK
  <1>2. \A t \in Tabs : Inherits(t)
    BY DEF Inherits, AsImported
  <1>3. SlotsInv'
    BY <1>2, SlotKept DEF IInv, SlotsInv
  <1>4. RowsInv'
    <2> SUFFICES ASSUME NEW t \in Tabs PROVE OwnsRow(t)'
      BY DEF RowsInv
    <2>1. OwnsRow(t)
      BY DEF IInv, RowsInv
    <2>2. tabs[t] # NULL => tabs[t].tx \in Importers \cup {NULL}
      BY DEF IInv, TypeOK, Row
    <2>3. QED
      BY <2>1, <2>2 DEF OwnsRow, At, Entry
  <1>5. Unique'
    BY <1>2, UniqueInherited DEF IInv
  <1>6. QED
    BY <1>1, <1>3, <1>4, <1>5 DEF IInv

-----------------------------------------------------------------------------
(* The statements of an import.                                            *)

LEMMA NextSongSlot ==
  ASSUME IInv, NEW p \in Importers, ~At(p, "idle"), NextSong(p)
  PROVE  /\ imports' \in [Importers -> Import]
         /\ \A q \in Importers \ {p} : imports'[q] = imports[q]
         /\ imports'[p].pc \in {"idle", "genres"}
         /\ AtSong(p)'
  <1> DEFINE q == imports[p]
  <1>1. q \in Import /\ q.batch \in Batches /\ q.index \in 1..Len(q.batch)
    BY DEF IInv, TypeOK, SlotsInv, SlotInv, AtSong
  <1>2. Len(q.batch) \in Nat
    BY <1>1, BatchesAreSongLists
  <1>3. CASE q.index < Len(q.batch)
    <2>1. imports' = [imports EXCEPT ![p] =
             [NoImport EXCEPT !.pc = "genres", !.batch = q.batch, !.index = q.index + 1]]
      BY <1>3 DEF NextSong
    <2>2. [NoImport EXCEPT !.pc = "genres", !.batch = q.batch, !.index = q.index + 1]
            \in Import
      <3>1. q.index + 1 \in Nat
        BY <1>1, <1>2
      <3>2. NoImport \in Import
        BY DEF NoImport, Import
      <3>3. QED
        BY <1>1, <3>1, <3>2 DEF Import
    <2>3. imports'[p].pc = "genres" /\ imports'[p].batch = q.batch
          /\ imports'[p].index = q.index + 1
      BY <2>1 DEF NoImport, IInv, TypeOK
    <2>4. QED
      BY <1>1, <1>2, <1>3, <2>1, <2>2, <2>3 DEF IInv, TypeOK, AtSong
  <1>4. CASE ~(q.index < Len(q.batch))
    <2>1. imports' = [imports EXCEPT ![p] = NoImport]
      BY <1>4 DEF NextSong
    <2>2. NoImport \in Import
      BY DEF NoImport, Import
    <2>3. imports'[p].pc = "idle"
      BY <2>1 DEF NoImport, IInv, TypeOK
    <2>4. QED
      BY <2>1, <2>2, <2>3 DEF IInv, TypeOK, AtSong, At
  <1>5. QED
    BY <1>3, <1>4

\* The end of a transaction, whether its rows go or stay.
LEMMA TransactionEnds ==
  ASSUME IInv, NEW p \in Importers, ~At(p, "idle"), Rollback(p) \/ Persist(p), NextSong(p)
  PROVE  IInv'
  <1>1. /\ imports' \in [Importers -> Import]
        /\ \A q \in Importers \ {p} : imports'[q] = imports[q]
        /\ imports'[p].pc \in {"idle", "genres"}
        /\ AtSong(p)'
    BY NextSongSlot
  <1>2. /\ tabs' \in [Tabs -> Row \cup {NULL}]
        /\ \A t \in Tabs : tabs'[t] # NULL =>
             /\ tabs[t] # NULL /\ tabs'[t].tx # p
             /\ \/ tabs'[t] = tabs[t]
                \/ tabs[t].tx = p /\ tabs'[t] = [tabs[t] EXCEPT !.tx = NULL]
    <2>1. p # NULL
      BY NullIsNoImporter
    <2>2. \A t \in Tabs : tabs[t] # NULL => tabs[t] \in Row
      BY DEF IInv, TypeOK
    <2>3. CASE Rollback(p)
      BY <2>2, <2>3 DEF Rollback
    <2>4. CASE Persist(p)
      <3>1. \A t \in Tabs : tabs[t] # NULL =>
               /\ [tabs[t] EXCEPT !.tx = NULL] \in Row
               /\ [tabs[t] EXCEPT !.tx = NULL].tx = NULL
        BY <2>2 DEF Row
      <3>2. QED
        BY <2>1, <2>2, <2>4, <3>1 DEF Persist
    <2>5. QED
      BY <2>3, <2>4
  <1>3. songs' \in [Songs -> Song]
    BY DEF Rollback, Persist, IInv, TypeOK, Song
  <1>4. lock' = [k \in Songs |-> IF lock[k] = p THEN NULL ELSE lock[k]]
    BY DEF Rollback, Persist, Release
  <1>5. \A t \in Tabs : Inherits(t)
    <2> SUFFICES ASSUME NEW t \in Tabs, tabs'[t] # NULL PROVE Inherits(t)
      BY DEF Inherits
    <2>1. tabs[t] \in Row
      BY <1>2 DEF IInv, TypeOK
    <2>2. QED
      BY <1>2, <2>1 DEF Inherits, AsImported, Row
  <1>6. SlotsInv'
    <2>1. SlotInv(p)'
      BY <1>1 DEF SlotInv, HoldsLock, NumbersAhead, KnowsContents, Locked, At
    <2>2. ASSUME NEW q \in Importers, q # p PROVE SlotInv(q)'
      <3>1. SlotInv(q) /\ imports'[q] = imports[q]
        BY <1>1, <2>2 DEF IInv, SlotsInv
      <3>2. imports[q].pc \in Locked => Entry(q).song \in Songs /\ lock[Entry(q).song] = q
        BY <3>1, EntryType DEF SlotInv, HoldsLock, Locked, At
      <3>3. QED
        BY <1>4, <1>5, <2>2, <3>1, <3>2, SlotKept
    <2>3. QED
      BY <2>1, <2>2 DEF SlotsInv
  <1>7. RowsInv'
    <2> SUFFICES ASSUME NEW t \in Tabs, tabs'[t] # NULL, tabs'[t].tx # NULL
                 PROVE  OwnsRow(t)'
      BY DEF RowsInv, OwnsRow
    <2>1. tabs[t] \in Row /\ tabs'[t] = tabs[t] /\ tabs[t].tx # p
      BY <1>2 DEF IInv, TypeOK, Row
    <2>2. imports'[tabs[t].tx] = imports[tabs[t].tx]
      BY <1>1, <2>1 DEF Row
    <2>3. OwnsRow(t)
      BY DEF IInv, RowsInv
    <2>4. QED
      BY <2>1, <2>2, <2>3 DEF OwnsRow, At, Entry
  <1>8. Unique'
    BY <1>5, UniqueInherited DEF IInv
  <1>9. TypeOK'
    BY <1>1, <1>2, <1>3, <1>4 DEF IInv, TypeOK
  <1>10. QED
    BY <1>6, <1>7, <1>8, <1>9 DEF IInv

LEMMA FailStep ==
  ASSUME IInv, NEW p \in Importers, ~At(p, "idle"), Fail(p)
  PROVE  IInv'
  BY TransactionEnds DEF Fail

LEMMA CommitStep ==
  ASSUME IInv, NEW p \in Importers, Commit(p)
  PROVE  IInv'
  BY TransactionEnds DEF Commit, At

\* The slot of p moves to a statement before the lock.
LEMMA BeforeTheLock ==
  ASSUME IInv, NEW p \in Importers, UNCHANGED <<tabs, lock>>, songs' \in [Songs -> Song],
         imports[p].pc \notin Locked, ~At(p, "idle"),
         NEW pc \in {"find", "create", "restore", "lock"}, Goto(p, pc)
  PROVE  IInv'
  <1>1. imports[p] \in Import
    BY DEF IInv, TypeOK
  <1>2. imports' = [imports EXCEPT ![p] = [imports[p] EXCEPT !.pc = pc]]
    BY DEF Goto, IInv, TypeOK
  <1>3. [imports[p] EXCEPT !.pc = pc] \in Import
    BY <1>1 DEF Import, InTransaction
  <1>4. /\ imports' \in [Importers -> Import]
        /\ \A q \in Importers \ {p} : imports'[q] = imports[q]
        /\ imports'[p].pc = pc
        /\ imports'[p].batch = imports[p].batch /\ imports'[p].index = imports[p].index
    BY <1>1, <1>2, <1>3 DEF IInv, TypeOK, Import
  <1>5. SlotInv(p)'
    BY <1>4 DEF IInv, SlotsInv, SlotInv, AtSong, HoldsLock, NumbersAhead,
                KnowsContents, Locked, At
  <1>6. QED
    BY <1>4, <1>5, QuietStep DEF Locked, At

LEMMA StartStep ==
  ASSUME IInv, NEW p \in Importers, StartImport(p)
  PROVE  IInv'
  <1>1. PICK b \in Batches :
          imports' = [imports EXCEPT ![p] = [NoImport EXCEPT !.pc = "genres", !.batch = b,
                                                             !.index = 1]]
    BY DEF StartImport
  <1>2. [NoImport EXCEPT !.pc = "genres", !.batch = b, !.index = 1] \in Import
    BY DEF NoImport, Import
  <1>3. /\ imports' \in [Importers -> Import]
        /\ \A q \in Importers \ {p} : imports'[q] = imports[q]
        /\ imports'[p].pc = "genres" /\ imports'[p].batch = b /\ imports'[p].index = 1
    BY <1>1, <1>2 DEF IInv, TypeOK, NoImport
  <1>4. 1 \in 1..Len(b)
    BY BatchesAreSongLists
  <1>5. SlotInv(p)'
    BY <1>3, <1>4 DEF SlotInv, AtSong, HoldsLock, NumbersAhead, KnowsContents,
                      Locked, At
  <1>6. QED
    BY <1>3, <1>5, QuietStep DEF StartImport, At, IInv, TypeOK

LEMMA GenresStep ==
  ASSUME IInv, NEW p \in Importers, CheckGenres(p)
  PROVE  IInv'
  <1>1. CASE Goto(p, "find")
    BY <1>1, BeforeTheLock DEF CheckGenres, At, Locked, IInv, TypeOK
  <1>2. CASE NextSong(p)
    <2>1. /\ imports' \in [Importers -> Import]
          /\ \A q \in Importers \ {p} : imports'[q] = imports[q]
          /\ imports'[p].pc \in {"idle", "genres"}
          /\ AtSong(p)'
      BY <1>2, NextSongSlot DEF CheckGenres, At
    <2>2. SlotInv(p)'
      BY <2>1 DEF SlotInv, HoldsLock, NumbersAhead, KnowsContents, Locked, At
    <2>3. QED
      BY <2>1, <2>2, QuietStep DEF CheckGenres, At, IInv, TypeOK
  <1>3. QED
    BY <1>1, <1>2 DEF CheckGenres

LEMMA FindStep ==
  ASSUME IInv, NEW p \in Importers, FindSong(p)
  PROVE  IInv'
  <1>1. ~At(p, "idle") /\ imports[p].pc \notin Locked /\ songs' \in [Songs -> Song]
    BY DEF FindSong, At, Locked, IInv, TypeOK
  <1>2. QED
    BY <1>1, BeforeTheLock DEF FindSong

LEMMA WriteSongStep ==
  ASSUME IInv, NEW p \in Importers, imports[p].pc \in {"create", "restore"}, WriteSong(p)
  PROVE  IInv'
  <1>1. songs' \in [Songs -> Song]
    BY DEF WriteSong, IInv, TypeOK, Song
  <1>2. QED
    BY <1>1, BeforeTheLock DEF WriteSong, Locked, At

LEMMA LockStep ==
  ASSUME IInv, NEW p \in Importers, LockSong(p)
  PROVE  IInv'
  <1> DEFINE k == Entry(p).song
  <1>1. At(p, "lock") /\ AtSong(p) /\ imports[p] \in Import
    BY DEF LockSong, IInv, TypeOK, SlotsInv, SlotInv
  <1>2. k \in Songs
    BY <1>1, EntryType DEF At
  <1>3. /\ imports' \in [Importers -> Import]
        /\ \A q \in Importers \ {p} : imports'[q] = imports[q]
        /\ imports'[p] = [imports[p] EXCEPT !.pc = "max"]
    BY <1>1 DEF LockSong, Goto, IInv, TypeOK, Import, InTransaction
  <1>4. /\ lock' \in [Songs -> Importers \cup {NULL}]
        /\ lock'[k] = p /\ lock[k] = NULL
        /\ \A o \in Songs \ {k} : lock'[o] = lock[o]
    BY <1>2 DEF LockSong, LockFree, IInv, TypeOK
  <1>5. TypeOK'
    BY <1>3, <1>4 DEF LockSong, IInv, TypeOK
  <1>6. \A t \in Tabs : Inherits(t)
    BY DEF LockSong, Inherits, AsImported
  <1>7. SlotInv(p)'
    <2>1. /\ imports'[p].pc = "max"
          /\ imports'[p].batch = imports[p].batch /\ imports'[p].index = imports[p].index
      BY <1>1, <1>3 DEF Import
    <2>2. Entry(p)' = Entry(p)
      BY <2>1 DEF Entry
    <2>3. QED
      BY <1>1, <1>4, <2>1, <2>2 DEF SlotInv, AtSong, HoldsLock, NumbersAhead,
                                    KnowsContents, Locked, At
  <1>8. SlotsInv'
    <2>1. ASSUME NEW q \in Importers, q # p PROVE SlotInv(q)'
      <3>1. SlotInv(q) /\ imports'[q] = imports[q]
        BY <1>3, <2>1 DEF IInv, SlotsInv
      <3>2. imports[q].pc \in Locked =>
              Entry(q).song \in Songs /\ lock'[Entry(q).song] = lock[Entry(q).song]
        BY <1>4, <3>1, EntryType, NullIsNoImporter DEF SlotInv, HoldsLock, Locked, At
      <3>3. QED
        BY <1>6, <3>1, <3>2, SlotKept
    <2>2. QED
      BY <1>7, <2>1 DEF SlotsInv
  <1>9. RowsInv'
    <2> SUFFICES ASSUME NEW t \in Tabs, tabs[t] # NULL, tabs[t].tx # NULL
                 PROVE  OwnsRow(t)'
      BY DEF LockSong, RowsInv, OwnsRow
    <2>1. OwnsRow(t) /\ tabs[t].tx \in Importers
      BY DEF IInv, RowsInv, TypeOK, Row
    <2>2. tabs[t].tx # p
      BY <1>1, <2>1 DEF OwnsRow, At
    <2>3. QED
      BY <1>3, <2>1, <2>2 DEF OwnsRow, At, Entry, LockSong
  <1>10. QED
    BY <1>5, <1>6, <1>8, <1>9, UniqueInherited DEF IInv

\* Under the lock of a song, the import sees all the tabs imported into it.
LEMMA SeesAllImports ==
  ASSUME IInv, NEW p \in Importers, imports[p].pc \in Locked,
         NEW t \in Tabs, tabs[t] # NULL, tabs[t].imported, tabs[t].song = Entry(p).song
  PROVE  t \in Visible(p, Entry(p).song)
  <1>1. OwnsRow(t) /\ tabs[t].tx \in Importers \cup {NULL}
    BY DEF IInv, RowsInv, TypeOK, Row
  <1>2. tabs[t].tx \in {p, NULL}
    BY <1>1, OneHolder DEF OwnsRow, Locked, At, IInv
  <1>3. QED
    BY <1>2 DEF Visible, TabsOf

LEMMA MaxStep ==
  ASSUME IInv, NEW p \in Importers, ReadMaxVersion(p)
  PROVE  IInv'
  <1>1. imports[p].pc = "max" /\ imports[p] \in Import /\ SlotInv(p)
    BY DEF ReadMaxVersion, At, IInv, TypeOK, SlotsInv
  <1>2. PICK max \in UsedVersions(p, Entry(p).song) :
          /\ \A v \in UsedVersions(p, Entry(p).song) : v <= max
          /\ imports' = [imports EXCEPT ![p].pc = "contents", ![p].next = After(max)]
    BY DEF ReadMaxVersion
  <1>3. max \in Nat
    BY <1>2 DEF UsedVersions, Visible, TabsOf, IInv, TypeOK, Row
  <1>4. After(max) \in Nat /\ After(max) >= 1
    BY <1>3 DEF After
  <1>5. imports' = [imports EXCEPT ![p] =
                      [imports[p] EXCEPT !.pc = "contents", !.next = After(max)]]
    BY <1>2 DEF IInv, TypeOK
  <1>6. [imports[p] EXCEPT !.pc = "contents", !.next = After(max)] \in Import
    BY <1>1, <1>4 DEF Import, InTransaction
  <1>7. /\ imports' \in [Importers -> Import]
        /\ \A q \in Importers \ {p} : imports'[q] = imports[q]
        /\ imports'[p].pc = "contents"
        /\ imports'[p].batch = imports[p].batch /\ imports'[p].index = imports[p].index
        /\ imports'[p].next = After(max)
    BY <1>1, <1>5, <1>6 DEF IInv, TypeOK, Import
  <1>8. Entry(p)' = Entry(p) /\ UNCHANGED <<songs, tabs, lock>>
    BY <1>7 DEF Entry, ReadMaxVersion
  <1>9. NumbersAhead(p)'
    <2> SUFFICES ASSUME NEW t \in Tabs, tabs[t] # NULL, tabs[t].imported,
                        tabs[t].song = Entry(p).song
                 PROVE  tabs[t].version < After(max)
      BY <1>4, <1>7, <1>8 DEF NumbersAhead
    <2>1. tabs[t].version \in UsedVersions(p, Entry(p).song)
      BY <1>1, SeesAllImports DEF UsedVersions, Locked
    <2>2. tabs[t].version \in Nat
      BY DEF IInv, TypeOK, Row
    <2>3. QED
      BY <1>2, <1>3, <2>1, <2>2 DEF After
  <1>10. SlotInv(p)'
    BY <1>1, <1>7, <1>8, <1>9 DEF SlotInv, AtSong, HoldsLock, KnowsContents,
                                  Locked, At
  <1>11. QED
    BY <1>1, <1>7, <1>8, <1>10, QuietStep DEF At, IInv, TypeOK

LEMMA ContentsStep ==
  ASSUME IInv, NEW p \in Importers, ReadContents(p)
  PROVE  IInv'
  <1> DEFINE live == {t \in Visible(p, Entry(p).song) : ~tabs[t].deleted}
  <1> DEFINE seen == {tabs[t].content : t \in live}
  <1>1. imports[p].pc = "contents" /\ imports[p] \in Import /\ SlotInv(p)
    BY DEF ReadContents, At, IInv, TypeOK, SlotsInv
  <1>2. imports' = [imports EXCEPT ![p] =
                      [imports[p] EXCEPT !.pc = "insert", !.version = 1, !.seen = seen]]
    BY DEF ReadContents, IInv, TypeOK
  <1>3. seen \subseteq Contents
    BY DEF Visible, TabsOf, IInv, TypeOK, Row
  <1>4. \A t \in Tabs : tabs[t] # NULL /\ AsImported(t) /\ tabs[t].song = Entry(p).song
                         => tabs[t].content \in seen
    BY <1>1, SeesAllImports DEF AsImported, Locked
  <1> HIDE DEF seen
  <1>5. [imports[p] EXCEPT !.pc = "insert", !.version = 1, !.seen = seen] \in Import
    BY <1>1, <1>3 DEF Import, InTransaction
  <1>6. /\ imports' \in [Importers -> Import]
        /\ \A q \in Importers \ {p} : imports'[q] = imports[q]
        /\ imports'[p].pc = "insert"
        /\ imports'[p].batch = imports[p].batch /\ imports'[p].index = imports[p].index
        /\ imports'[p].next = imports[p].next /\ imports'[p].version = 1
        /\ imports'[p].seen = seen
    BY <1>1, <1>2, <1>5 DEF IInv, TypeOK, Import
  <1>7. Entry(p)' = Entry(p) /\ UNCHANGED <<songs, tabs, lock>>
    BY <1>6 DEF Entry, ReadContents
  <1>8. KnowsContents(p)'
    BY <1>4, <1>6, <1>7 DEF KnowsContents, AsImported
  <1>9. SlotInv(p)'
    BY <1>1, <1>6, <1>7, <1>8 DEF SlotInv, AtSong, HoldsLock, NumbersAhead,
                                  Locked, At
  <1>10. QED
    BY <1>1, <1>6, <1>7, <1>9, QuietStep DEF At, IInv, TypeOK

LEMMA SkipStep ==
  ASSUME IInv, NEW p \in Importers, SkipVersion(p)
  PROVE  IInv'
  <1>1. imports[p].pc = "insert" /\ imports[p] \in Import /\ SlotInv(p)
    BY DEF SkipVersion, Looping, At, IInv, TypeOK, SlotsInv
  <1>2. imports' = [imports EXCEPT ![p] = [imports[p] EXCEPT !.version = @ + 1]]
    BY DEF SkipVersion, Skip, IInv, TypeOK
  <1>3. [imports[p] EXCEPT !.version = @ + 1] \in Import
    BY <1>1 DEF Import
  <1>4. /\ imports' \in [Importers -> Import]
        /\ \A q \in Importers \ {p} : imports'[q] = imports[q]
        /\ imports'[p].pc = "insert"
        /\ imports'[p].batch = imports[p].batch /\ imports'[p].index = imports[p].index
        /\ imports'[p].next = imports[p].next /\ imports'[p].version = imports[p].version + 1
        /\ imports'[p].seen = imports[p].seen
    BY <1>1, <1>2, <1>3 DEF IInv, TypeOK, Import
  <1>5. Entry(p)' = Entry(p) /\ UNCHANGED <<songs, tabs, lock>>
    BY <1>4 DEF Entry, SkipVersion
  <1>6. imports'[p].version >= 1
    BY <1>1, <1>4 DEF SlotInv, KnowsContents, At, Import
  <1>7. SlotInv(p)'
    BY <1>1, <1>4, <1>5, <1>6 DEF SlotInv, AtSong, HoldsLock, NumbersAhead,
                                  KnowsContents, AsImported, Locked, At
  <1>8. QED
    BY <1>1, <1>4, <1>5, <1>7, QuietStep DEF At, IInv, TypeOK

LEMMA InsertStep ==
  ASSUME IInv, NEW p \in Importers, Looping(p), Content(p) \notin imports[p].seen,
         NEW n \in Tabs, tabs[n] = NULL, Insert(p, n), UNCHANGED <<songs, lock>>
  PROVE  IInv'
  <1> DEFINE row == [song |-> Entry(p).song, version |-> imports[p].next,
                     content |-> Content(p), deleted |-> FALSE, imported |-> TRUE,
                     edited |-> FALSE, tx |-> p]
  <1>1. imports[p].pc = "insert" /\ imports[p] \in Import /\ SlotInv(p)
    BY DEF Looping, At, IInv, TypeOK, SlotsInv
  <1>2. Entry(p).song \in Songs /\ Entry(p).versions \in Seq(Contents)
    BY <1>1, EntryType DEF SlotInv, At
  <1>3. imports[p].version \in 1..Len(Entry(p).versions)
    BY <1>1, <1>2 DEF Looping, SlotInv, KnowsContents, At, Import
  <1>4. Content(p) \in Contents
    BY <1>2, <1>3 DEF Content
  <1>5. imports[p].next \in Nat \ {0}
    BY <1>1 DEF SlotInv, NumbersAhead, Import
  <1>6. row \in Row
    BY <1>2, <1>4, <1>5 DEF Row
  <1>7. tabs' = [tabs EXCEPT ![n] = row]
    BY DEF Insert
  <1>8. imports' = [imports EXCEPT ![p] =
          [imports[p] EXCEPT !.version = @ + 1, !.next = @ + 1,
                             !.seen = imports[p].seen \cup {Content(p)}]]
    BY DEF Insert, IInv, TypeOK
  <1>9. [imports[p] EXCEPT !.version = @ + 1, !.next = @ + 1,
                           !.seen = imports[p].seen \cup {Content(p)}] \in Import
    <2>1. /\ imports[p].version + 1 \in Nat /\ imports[p].next + 1 \in Nat
          /\ imports[p].seen \cup {Content(p)} \in SUBSET Contents
      BY <1>1, <1>4 DEF Import
    <2>2. QED
      BY <1>1, <2>1 DEF Import
  <1>10. /\ imports' \in [Importers -> Import]
         /\ \A q \in Importers \ {p} : imports'[q] = imports[q]
         /\ imports'[p].pc = "insert"
         /\ imports'[p].batch = imports[p].batch /\ imports'[p].index = imports[p].index
         /\ imports'[p].next = imports[p].next + 1
         /\ imports'[p].version = imports[p].version + 1
         /\ imports'[p].seen = imports[p].seen \cup {Content(p)}
    BY <1>1, <1>8, <1>9 DEF IInv, TypeOK, Import
  <1>11. Entry(p)' = Entry(p)
    BY <1>10 DEF Entry
  <1>12. /\ tabs'[n] # NULL /\ tabs'[n].song = Entry(p).song
         /\ tabs'[n].version = imports[p].next /\ tabs'[n].content = Content(p)
         /\ tabs'[n].imported /\ tabs'[n].tx = p
    BY <1>6, <1>7, NullIsNoTab DEF IInv, TypeOK
  <1>13. \A t \in Tabs \ {n} : tabs'[t] = tabs[t] /\ Inherits(t)
    BY <1>7 DEF Inherits, AsImported, IInv, TypeOK
  <1>14. TypeOK'
    BY <1>6, <1>7, <1>10 DEF IInv, TypeOK
  <1>15. SlotInv(p)'
    <2>1. NumbersAhead(p)'
      <3> SUFFICES ASSUME NEW t \in Tabs, tabs'[t] # NULL, tabs'[t].imported,
                          tabs'[t].song = Entry(p).song
                   PROVE  tabs'[t].version < imports[p].next + 1
        BY <1>5, <1>10, <1>11 DEF NumbersAhead
      <3>1. CASE t = n
        BY <1>5, <1>12, <3>1
      <3>2. CASE t # n
        <4>1. tabs[t].version < imports[p].next /\ tabs[t].version \in Nat
          BY <1>1, <1>13, <3>2 DEF SlotInv, NumbersAhead, IInv, TypeOK, Row
        <4>2. QED
          BY <1>5, <1>13, <3>2, <4>1
      <3>3. QED
        BY <3>1, <3>2
    <2>2. KnowsContents(p)'
      <3>1. imports'[p].version >= 1
        BY <1>3, <1>10
      <3>2. ASSUME NEW t \in Tabs, tabs'[t] # NULL, AsImported(t)',
                   tabs'[t].song = Entry(p).song
            PROVE  tabs'[t].content \in imports'[p].seen
        BY <1>1, <1>10, <1>12, <1>13, <3>2 DEF SlotInv, KnowsContents, AsImported, At
      <3>3. QED
        BY <1>11, <3>1, <3>2 DEF KnowsContents
    <2>3. QED
      BY <1>1, <1>10, <1>11, <2>1, <2>2 DEF SlotInv, AtSong, HoldsLock, Locked, At
  <1>16. SlotsInv'
    <2>1. ASSUME NEW q \in Importers, q # p PROVE SlotInv(q)'
      <3>1. SlotInv(q) /\ imports'[q] = imports[q]
        BY <1>10, <2>1 DEF IInv, SlotsInv
      <3>2. imports[q].pc \in Locked => Entry(q).song # Entry(p).song
        BY <1>1, <2>1, OneHolder DEF IInv, Locked
      <3>3. QED
        BY <1>12, <1>13, <3>1, <3>2, SlotKept
    <2>2. QED
      BY <1>15, <2>1 DEF SlotsInv
  <1>17. RowsInv'
    <2>1. OwnsRow(n)'
      BY <1>10, <1>11, <1>12 DEF OwnsRow, At
    <2>2. ASSUME NEW t \in Tabs, t # n PROVE OwnsRow(t)'
      <3>1. OwnsRow(t) /\ (tabs[t] # NULL => tabs[t].tx \in Importers \cup {NULL})
        BY DEF IInv, RowsInv, TypeOK, Row
      <3>2. QED
        BY <1>10, <1>11, <1>13, <2>2, <3>1 DEF OwnsRow, At, Entry
    <2>3. QED
      BY <2>1, <2>2 DEF RowsInv
  <1>18. Unique'
    <2>1. ASSUME NEW t \in Tabs, t # n, tabs'[t] # NULL, tabs'[t].imported,
                 tabs'[t].song = Entry(p).song
          PROVE  /\ tabs'[t].version # imports[p].next
                 /\ AsImported(t)' => tabs'[t].content # Content(p)
      <3>1. tabs[t].version < imports[p].next /\ tabs[t].version \in Nat
        BY <1>1, <1>13, <2>1 DEF SlotInv, NumbersAhead, IInv, TypeOK, Row
      <3>2. AsImported(t) => tabs[t].content \in imports[p].seen
        BY <1>1, <1>13, <2>1 DEF SlotInv, KnowsContents, At
      <3>3. QED
        BY <1>5, <1>13, <2>1, <3>1, <3>2 DEF AsImported
    <2>2. ImportedVersionsUnique'
      BY <1>12, <1>13, <2>1 DEF IInv, Unique, ImportedVersionsUnique, ImportedTabs, TabsOf
    <2>3. ImportedContentsUnique'
      BY <1>12, <1>13, <2>1 DEF IInv, Unique, ImportedContentsUnique, AsImported, TabsOf
    <2>4. QED
      BY <2>2, <2>3 DEF Unique
  <1>19. QED
    BY <1>14, <1>16, <1>17, <1>18 DEF IInv

-----------------------------------------------------------------------------
(* The other requests.                                                     *)

LEMMA RestartStep ==
  ASSUME IInv, Restart
  PROVE  IInv'
  <1>1. TypeOK'
    BY DEF Restart, IInv, TypeOK, Song, NoImport, Import
  <1>2. \A t \in Tabs : Inherits(t)
    BY DEF Restart, Inherits, AsImported
  <1>3. SlotsInv'
    BY DEF Restart, NoImport, SlotsInv, SlotInv, AtSong, HoldsLock, NumbersAhead,
           KnowsContents, Locked, At
  <1>4. RowsInv'
    BY DEF Restart, RowsInv, OwnsRow
  <1>5. QED
    BY <1>1, <1>2, <1>3, <1>4, UniqueInherited DEF IInv

\* A request that touches one tab, committed at once, and no import.
LEMMA SingleTabStep ==
  ASSUME IInv, NEW n \in Tabs, NEW row \in Row, tabs' = [tabs EXCEPT ![n] = row],
         UNCHANGED <<songs, lock, imports>>, row.tx = NULL, Inherits(n)
  PROVE  IInv'
  <1>1. TypeOK'
    BY DEF IInv, TypeOK
  <1>2. tabs'[n] = row /\ \A t \in Tabs \ {n} : tabs'[t] = tabs[t]
    BY DEF IInv, TypeOK
  <1>3. \A t \in Tabs : Inherits(t)
    BY <1>2 DEF Inherits, AsImported
  <1>4. SlotsInv'
    BY <1>3, SlotKept DEF IInv, SlotsInv
  <1>5. RowsInv'
    BY <1>2 DEF IInv, RowsInv, OwnsRow, At, Entry
  <1>6. QED
    BY <1>1, <1>3, <1>4, <1>5, UniqueInherited DEF IInv

LEMMA OtherRequestStep ==
  ASSUME IInv, CreateTab \/ EditTab \/ DeleteTab \/ AddSong \/ DeleteSong
  PROVE  IInv'
  <1>1. CASE CreateTab
    <2>1. PICK n \in Tabs, k \in Songs, c \in Contents :
            /\ tabs[n] = NULL
            /\ tabs' = [tabs EXCEPT ![n] =
                 [song |-> k, version |-> 1, content |-> c, deleted |-> FALSE,
                  imported |-> FALSE, edited |-> FALSE, tx |-> NULL]]
      BY <1>1 DEF CreateTab, FirstVersion
    <2>2. [song |-> k, version |-> 1, content |-> c, deleted |-> FALSE,
           imported |-> FALSE, edited |-> FALSE, tx |-> NULL] \in Row
      BY DEF Row
    <2>3. Inherits(n)
      BY <2>1 DEF Inherits, IInv, TypeOK
    <2>4. QED
      BY <1>1, <2>1, <2>2, <2>3, SingleTabStep DEF CreateTab
  <1>2. CASE EditTab
    <2>1. PICK n \in Tabs, c \in Contents :
            LiveTab(n) /\ tabs' = [tabs EXCEPT ![n].content = c, ![n].edited = TRUE]
      BY <1>2 DEF EditTab
    <2>2. tabs[n] \in Row /\ tabs[n].tx = NULL
      BY <2>1 DEF LiveTab, IInv, TypeOK
    <2>3. tabs' = [tabs EXCEPT ![n] = [tabs[n] EXCEPT !.content = c, !.edited = TRUE]]
      BY <2>1 DEF IInv, TypeOK
    <2>4. /\ [tabs[n] EXCEPT !.content = c, !.edited = TRUE] \in Row
          /\ [tabs[n] EXCEPT !.content = c, !.edited = TRUE].tx = NULL
      BY <2>2 DEF Row
    <2>5. Inherits(n)
      BY <2>1, <2>2, <2>3 DEF Inherits, LiveTab, Row, IInv, TypeOK
    <2>6. QED
      BY <1>2, <2>3, <2>4, <2>5, SingleTabStep DEF EditTab
  <1>3. CASE DeleteTab
    <2>1. PICK n \in Tabs : LiveTab(n) /\ tabs' = [tabs EXCEPT ![n].deleted = TRUE]
      BY <1>3 DEF DeleteTab
    <2>2. tabs[n] \in Row /\ tabs[n].tx = NULL
      BY <2>1 DEF LiveTab, IInv, TypeOK
    <2>3. tabs' = [tabs EXCEPT ![n] = [tabs[n] EXCEPT !.deleted = TRUE]]
      BY <2>1 DEF IInv, TypeOK
    <2>4. /\ [tabs[n] EXCEPT !.deleted = TRUE] \in Row
          /\ [tabs[n] EXCEPT !.deleted = TRUE].tx = NULL
      BY <2>2 DEF Row
    <2>5. Inherits(n)
      BY <2>1, <2>2, <2>3 DEF Inherits, LiveTab, Row, IInv, TypeOK
    <2>6. QED
      BY <1>3, <2>3, <2>4, <2>5, SingleTabStep DEF DeleteTab
  <1>4. CASE DeleteSong
    <2>1. TypeOK'
      BY <1>4 DEF DeleteSong, IInv, TypeOK, Song
    <2>2. \A t \in Tabs : Inherits(t)
      BY <1>4 DEF DeleteSong, Inherits, AsImported
    <2>3. SlotsInv'
      BY <1>4, <2>2, SlotKept DEF DeleteSong, IInv, SlotsInv
    <2>4. RowsInv'
      BY <1>4 DEF DeleteSong, IInv, RowsInv, OwnsRow, At, Entry
    <2>5. QED
      BY <2>1, <2>2, <2>3, <2>4, UniqueInherited DEF IInv
  <1>5. CASE AddSong
    <2>1. TypeOK'
      BY <1>5 DEF AddSong, IInv, TypeOK, Song
    <2>2. \A t \in Tabs : Inherits(t)
      BY <1>5 DEF AddSong, Inherits, AsImported
    <2>3. SlotsInv'
      BY <1>5, <2>2, SlotKept DEF AddSong, IInv, SlotsInv
    <2>4. RowsInv'
      BY <1>5 DEF AddSong, IInv, RowsInv, OwnsRow, At, Entry
    <2>5. QED
      BY <2>1, <2>2, <2>3, <2>4, UniqueInherited DEF IInv
  <1>6. QED
    BY <1>1, <1>2, <1>3, <1>4, <1>5

LEMMA ImportStep ==
  ASSUME IInv, NEW p \in Importers, Step(p)
  PROVE  IInv'
  <1>1. CASE CreateSong(p)
    BY <1>1, WriteSongStep, FailStep DEF CreateSong, At
  <1>2. CASE RestoreSong(p)
    BY <1>2, WriteSongStep DEF RestoreSong, At
  <1>3. CASE InsertVersion(p)
    BY <1>3, InsertStep, FailStep DEF InsertVersion, Looping, At
  <1>4. QED
    BY <1>1, <1>2, <1>3, GenresStep, FindStep, LockStep, MaxStep, ContentsStep, SkipStep,
       CommitStep DEF Step

LEMMA Invariance == Spec => []IInv
  <1>1. Init => IInv
    BY DEF Init, IInv, TypeOK, Song, NoImport, Import, SlotsInv, SlotInv, AtSong,
           HoldsLock, NumbersAhead, KnowsContents, Locked, At, RowsInv, OwnsRow, Unique,
           ImportedVersionsUnique, ImportedContentsUnique, ImportedTabs, TabsOf
  <1>2. IInv /\ [Next]_vars => IInv'
    <2> SUFFICES ASSUME IInv, [Next]_vars PROVE IInv'
      OBVIOUS
    <2>1. ASSUME NEW p \in Importers, StartImport(p) \/ Step(p) \/ Abort(p) PROVE IInv'
      BY <2>1, StartStep, ImportStep, FailStep DEF Abort, InTransaction, At
    <2>2. CASE Restart \/ CreateTab \/ EditTab \/ DeleteTab \/ AddSong \/ DeleteSong
      BY <2>2, RestartStep, OtherRequestStep
    <2>3. CASE UNCHANGED vars
      BY <2>3 DEF vars, IInv, TypeOK, SlotsInv, SlotInv, AtSong, HoldsLock,
                  NumbersAhead, KnowsContents, AsImported, At, Entry, RowsInv, OwnsRow, Unique,
                  ImportedVersionsUnique, ImportedContentsUnique, ImportedTabs, TabsOf
    <2>4. QED
      BY <2>1, <2>2, <2>3 DEF Next
  <1>3. QED
    BY <1>1, <1>2, PTL DEF Spec

-----------------------------------------------------------------------------
(* Numbers without gaps, and shared by none but first versions.            *)

\* The song has a tab with the number below that of t, which goes only if t goes:
\* it is committed, or of the same transaction.
Follows(t) ==
  tabs[t] # NULL =>
    \/ tabs[t].version = 1
    \/ \E u \in Tabs : /\ tabs[u] # NULL /\ tabs[u].song = tabs[t].song
                       /\ tabs[u].version = tabs[t].version - 1
                       /\ tabs[u].tx \in {tabs[t].tx, NULL}

\* So it has one with the number below the next an import will give.
NextFollows(p) ==
  imports[p].pc \in {"contents", "insert"} =>
    \/ imports[p].next = 1
    \/ \E u \in Tabs : /\ tabs[u] # NULL /\ tabs[u].song = Entry(p).song
                       /\ tabs[u].version = imports[p].next - 1
                       /\ tabs[u].tx \in {p, NULL}

\* A tab created on its own has the first number.
SingleIsFirst(t) == tabs[t] # NULL /\ ~tabs[t].imported => tabs[t].version = 1

NumberInv ==
  /\ \A t \in Tabs : Follows(t) /\ SingleIsFirst(t)
  /\ \A p \in Importers : NextFollows(p)

\* Row t keeps what numbers are about.
Stays(t) ==
  tabs[t] # NULL =>
    /\ tabs'[t] # NULL
    /\ tabs'[t].song = tabs[t].song /\ tabs'[t].version = tabs[t].version
    /\ tabs'[t].imported = tabs[t].imported /\ tabs'[t].tx = tabs[t].tx

\* An edit or a soft delete of a row.
LEMMA RowRewritten ==
  ASSUME NEW t \in Tabs, tabs[t] \in Row,
         \/ \E c \in Contents : tabs'[t] = [tabs[t] EXCEPT !.content = c, !.edited = TRUE]
         \/ tabs'[t] = [tabs[t] EXCEPT !.deleted = TRUE]
  PROVE  Stays(t)
  <1>1. \A c \in Contents : [tabs[t] EXCEPT !.content = c, !.edited = TRUE] \in Row
    BY DEF Row
  <1>2. [tabs[t] EXCEPT !.deleted = TRUE] \in Row
    BY DEF Row
  <1>3. tabs'[t] # NULL
    BY <1>1, <1>2, NullIsNoTab
  <1>4. /\ tabs'[t].song = tabs[t].song /\ tabs'[t].version = tabs[t].version
        /\ tabs'[t].imported = tabs[t].imported /\ tabs'[t].tx = tabs[t].tx
    BY DEF Row
  <1> QED
    BY <1>3, <1>4 DEF Stays

LEMMA FollowsStays ==
  ASSUME NEW t \in Tabs, Follows(t), tabs[t] # NULL, \A u \in Tabs : Stays(u)
  PROVE  Follows(t)'
  BY DEF Follows, Stays

LEMMA NextStays ==
  ASSUME NEW p \in Importers, NextFollows(p), \A u \in Tabs : Stays(u),
         imports'[p].pc \in {"contents", "insert"} =>
           /\ imports[p].pc \in {"contents", "insert"}
           /\ imports'[p].next = imports[p].next /\ Entry(p)' = Entry(p)
  PROVE  NextFollows(p)'
  BY DEF NextFollows, Stays

\* A statement that changes no row, and gives import p no number.
LEMMA NumbersQuiet ==
  ASSUME IInv, NumberInv, UNCHANGED tabs, NEW p \in Importers,
         \A q \in Importers \ {p} : imports'[q] = imports[q],
         imports'[p].pc \in {"contents", "insert"} =>
           /\ imports[p].pc \in {"contents", "insert"}
           /\ imports'[p].next = imports[p].next /\ Entry(p)' = Entry(p)
  PROVE  NumberInv'
  <1>1. \A u \in Tabs : Stays(u)
    BY DEF Stays
  <1>2. \A q \in Importers : NextFollows(q)'
    <2> SUFFICES ASSUME NEW q \in Importers PROVE NextFollows(q)'
      OBVIOUS
    <2>1. CASE q = p
      BY <1>1, <2>1, NextStays DEF NumberInv
    <2>2. CASE q # p
      BY <1>1, <2>2, NextStays DEF NumberInv, Entry
    <2> QED
      BY <2>1, <2>2
  <1>3. \A t \in Tabs : Follows(t)' /\ SingleIsFirst(t)'
    BY DEF NumberInv, Follows, SingleIsFirst
  <1> QED
    BY <1>2, <1>3 DEF NumberInv

LEMMA NumbersGoto ==
  ASSUME IInv, NumberInv, UNCHANGED tabs, NEW p \in Importers,
         NEW pc \in {"find", "create", "restore", "lock", "max"}, Goto(p, pc)
  PROVE  NumberInv'
  BY NumbersQuiet DEF Goto, IInv, TypeOK, Import

LEMMA NumbersStart ==
  ASSUME IInv, NumberInv, NEW p \in Importers, StartImport(p)
  PROVE  NumberInv'
  BY NumbersQuiet DEF StartImport, NoImport, IInv, TypeOK, Import

LEMMA NumbersSkipSong ==
  ASSUME IInv, NumberInv, UNCHANGED tabs, NEW p \in Importers, ~At(p, "idle"), NextSong(p)
  PROVE  NumberInv'
  BY NextSongSlot, NumbersQuiet

LEMMA NumbersMax ==
  ASSUME IInv, NumberInv, NEW p \in Importers, ReadMaxVersion(p)
  PROVE  NumberInv'
  <1>1. PICK max \in UsedVersions(p, Entry(p).song) :
          imports' = [imports EXCEPT ![p].pc = "contents", ![p].next = After(max)]
    BY DEF ReadMaxVersion
  <1>2. max \in Nat
    BY <1>1 DEF UsedVersions, Visible, TabsOf, IInv, TypeOK, Row
  <1>3. /\ \A q \in Importers \ {p} : imports'[q] = imports[q]
        /\ imports'[p].batch = imports[p].batch /\ imports'[p].index = imports[p].index
        /\ imports'[p].next = max + 1
    BY <1>1 DEF IInv, TypeOK, Import, After
  <1>4. UNCHANGED tabs
    BY DEF ReadMaxVersion
  <1>5. NextFollows(p)'
    <2>1. max = 0 \/ \E u \in Visible(p, Entry(p).song) : tabs[u].version = max
      BY <1>1 DEF UsedVersions
    <2> QED
      BY <1>2, <1>3, <1>4, <2>1 DEF NextFollows, Visible, TabsOf, Entry
  <1>6. \A q \in Importers \ {p} : NextFollows(q)'
    BY <1>3, <1>4 DEF NumberInv, NextFollows, Entry
  <1>7. \A t \in Tabs : Follows(t)' /\ SingleIsFirst(t)'
    BY <1>4 DEF NumberInv, Follows, SingleIsFirst
  <1> QED
    BY <1>5, <1>6, <1>7 DEF NumberInv

LEMMA NumbersContents ==
  ASSUME IInv, NumberInv, NEW p \in Importers, ReadContents(p)
  PROVE  NumberInv'
  <1>1. PICK seen :
          imports' = [imports EXCEPT ![p].pc = "insert", ![p].version = 1, ![p].seen = seen]
    BY DEF ReadContents
  <1>2. /\ \A q \in Importers \ {p} : imports'[q] = imports[q]
        /\ imports'[p].batch = imports[p].batch /\ imports'[p].index = imports[p].index
        /\ imports'[p].next = imports[p].next
    BY <1>1 DEF IInv, TypeOK, Import
  <1>3. imports[p].pc = "contents" /\ UNCHANGED tabs
    BY DEF ReadContents, At
  <1>4. Entry(p)' = Entry(p)
    BY <1>2 DEF Entry
  <1> QED
    BY <1>2, <1>3, <1>4, NumbersQuiet

LEMMA NumbersSkip ==
  ASSUME IInv, NumberInv, NEW p \in Importers, SkipVersion(p)
  PROVE  NumberInv'
  <1>1. imports' = [imports EXCEPT ![p].version = @ + 1] /\ UNCHANGED tabs
    BY DEF SkipVersion, Skip
  <1>2. /\ \A q \in Importers \ {p} : imports'[q] = imports[q]
        /\ imports'[p].batch = imports[p].batch /\ imports'[p].index = imports[p].index
        /\ imports'[p].next = imports[p].next /\ imports'[p].pc = imports[p].pc
    BY <1>1 DEF IInv, TypeOK, Import
  <1>3. Entry(p)' = Entry(p)
    BY <1>2 DEF Entry
  <1> QED
    BY <1>1, <1>2, <1>3, NumbersQuiet

LEMMA InsertedType ==
  ASSUME IInv, NEW p \in Importers, Looping(p), imports[p].next \in Nat \ {0}
  PROVE  [song |-> Entry(p).song, version |-> imports[p].next, content |-> Content(p),
          deleted |-> FALSE, imported |-> TRUE, edited |-> FALSE, tx |-> p] \in Row
  <1>1. imports[p].pc = "insert" /\ imports[p] \in Import /\ SlotInv(p)
    BY DEF Looping, At, IInv, TypeOK, SlotsInv
  <1>2. Entry(p).song \in Songs /\ Entry(p).versions \in Seq(Contents)
    BY <1>1, EntryType DEF SlotInv, At
  <1>3. imports[p].version \in 1..Len(Entry(p).versions)
    BY <1>1, <1>2 DEF Looping, SlotInv, KnowsContents, At, Import
  <1>4. Content(p) \in Contents
    BY <1>2, <1>3 DEF Content
  <1> QED
    BY <1>2, <1>4 DEF Row

LEMMA NumbersInsert ==
  ASSUME IInv, NumberInv, NEW p \in Importers, Looping(p), NEW n \in Tabs, tabs[n] = NULL,
         Insert(p, n)
  PROVE  NumberInv'
  <1> DEFINE row == [song |-> Entry(p).song, version |-> imports[p].next,
                     content |-> Content(p), deleted |-> FALSE, imported |-> TRUE,
                     edited |-> FALSE, tx |-> p]
  <1>1. imports[p].pc = "insert" /\ imports[p] \in Import
    BY DEF Looping, At, IInv, TypeOK
  <1>2. imports[p].next \in Nat /\ imports[p].next >= 1
    BY <1>1 DEF Import, IInv, SlotsInv, SlotInv, NumbersAhead
  <1>3. tabs'[n] = row /\ \A t \in Tabs \ {n} : tabs'[t] = tabs[t]
    BY DEF Insert, IInv, TypeOK
  <1>4. /\ \A q \in Importers \ {p} : imports'[q] = imports[q]
        /\ imports'[p].batch = imports[p].batch /\ imports'[p].index = imports[p].index
        /\ imports'[p].next = imports[p].next + 1
    BY <1>1 DEF Insert, IInv, TypeOK, Import
  <1>5. Entry(p)' = Entry(p)
    BY <1>4 DEF Entry
  <1>6. \A u \in Tabs : Stays(u)
    BY <1>3 DEF Stays
  <1>7. row # NULL
    <2>1. row \in Row
      BY <1>2, InsertedType
    <2> QED
      BY <2>1, NullIsNoTab
  <1>8. \A q \in Importers : NextFollows(q)'
    <2>1. NextFollows(p)'
      BY <1>2, <1>3, <1>4, <1>5, <1>7 DEF NextFollows
    <2>2. ASSUME NEW q \in Importers, q # p PROVE NextFollows(q)'
      BY <1>4, <1>6, <2>2, NextStays DEF NumberInv, Entry
    <2> QED
      BY <2>1, <2>2
  <1>9. ASSUME NEW t \in Tabs PROVE Follows(t)' /\ SingleIsFirst(t)'
    <2>1. CASE t = n
      <3>1. \/ imports[p].next = 1
            \/ \E u \in Tabs : /\ tabs[u] # NULL /\ tabs[u].song = Entry(p).song
                               /\ tabs[u].version = imports[p].next - 1
                               /\ tabs[u].tx \in {p, NULL}
        BY <1>1 DEF NumberInv, NextFollows
      <3> QED
        BY <1>3, <2>1, <3>1 DEF Follows, SingleIsFirst
    <2>2. CASE t # n
      BY <1>3, <1>6, <2>2, FollowsStays DEF NumberInv, SingleIsFirst, Follows
    <2> QED
      BY <2>1, <2>2
  <1> QED
    BY <1>8, <1>9 DEF NumberInv

\* A transaction ends: its rows are all there, committed, or all gone.
LEMMA NumbersEnd ==
  ASSUME IInv, NumberInv, NEW p \in Importers, ~At(p, "idle"), Rollback(p) \/ Persist(p),
         NextSong(p)
  PROVE  NumberInv'
  <1>1. /\ \A q \in Importers \ {p} : imports'[q] = imports[q]
        /\ imports'[p].pc \in {"idle", "genres"}
    BY NextSongSlot
  <1>2. p # NULL
    BY NullIsNoImporter
  <1>3. \A t \in Tabs : tabs[t] # NULL => tabs[t] \in Row
    BY DEF IInv, TypeOK
  <1>4. CASE Rollback(p)
    <2>1. \A t \in Tabs : tabs'[t] = IF tabs[t] # NULL /\ tabs[t].tx = p THEN NULL ELSE tabs[t]
      BY <1>4 DEF Rollback
    <2>2. \A t \in Tabs : Follows(t)' /\ SingleIsFirst(t)'
      BY <1>2, <2>1 DEF NumberInv, Follows, SingleIsFirst
    <2>3. ASSUME NEW q \in Importers, q # p PROVE NextFollows(q)'
      BY <1>1, <1>2, <2>1, <2>3 DEF NumberInv, NextFollows, Entry
    <2> QED
      BY <1>1, <2>2, <2>3 DEF NumberInv, NextFollows
  <1>5. CASE Persist(p)
    <2>1. \A t \in Tabs : tabs'[t] = IF tabs[t] # NULL /\ tabs[t].tx = p
                                       THEN [tabs[t] EXCEPT !.tx = NULL] ELSE tabs[t]
      BY <1>5 DEF Persist
    <2>2. \A t \in Tabs : tabs[t] # NULL =>
            /\ tabs'[t] # NULL
            /\ tabs'[t].song = tabs[t].song /\ tabs'[t].version = tabs[t].version
            /\ tabs'[t].imported = tabs[t].imported
            /\ tabs'[t].tx = IF tabs[t].tx = p THEN NULL ELSE tabs[t].tx
      <3>1. \A t \in Tabs : tabs[t] # NULL => [tabs[t] EXCEPT !.tx = NULL] \in Row
        BY <1>3 DEF Row
      <3> QED
        BY <1>3, <2>1, <3>1, NullIsNoTab DEF Row
    <2>3. \A t \in Tabs : tabs[t] = NULL => tabs'[t] = NULL
      BY <2>1
    <2>4. \A t \in Tabs : Follows(t)' /\ SingleIsFirst(t)'
      BY <2>2, <2>3 DEF NumberInv, Follows, SingleIsFirst
    <2>5. ASSUME NEW q \in Importers, q # p PROVE NextFollows(q)'
      BY <1>1, <2>2, <2>5 DEF NumberInv, NextFollows, Entry
    <2> QED
      BY <1>1, <2>4, <2>5 DEF NumberInv, NextFollows
  <1> QED
    BY <1>4, <1>5

LEMMA NumbersRestart ==
  ASSUME IInv, NumberInv, Restart
  PROVE  NumberInv'
  <1>1. \A t \in Tabs : tabs'[t] = IF tabs[t] # NULL /\ tabs[t].tx # NULL THEN NULL ELSE tabs[t]
    BY DEF Restart
  <1>2. \A p \in Importers : NextFollows(p)'
    BY DEF Restart, NoImport, NextFollows
  <1>3. \A t \in Tabs : Follows(t)' /\ SingleIsFirst(t)'
    BY <1>1 DEF NumberInv, Follows, SingleIsFirst
  <1> QED
    BY <1>2, <1>3 DEF NumberInv

\* The other requests create a first version, or leave numbers alone.
LEMMA NumbersOther ==
  ASSUME IInv, NumberInv, CreateTab \/ EditTab \/ DeleteTab \/ AddSong \/ DeleteSong
  PROVE  NumberInv'
  <1>1. UNCHANGED imports
    BY DEF CreateTab, EditTab, DeleteTab, AddSong, DeleteSong
  <1>2. /\ \A u \in Tabs : Stays(u)
        /\ \A u \in Tabs : tabs[u] = NULL /\ tabs'[u] # NULL => tabs'[u].version = 1
    <2>1. CASE CreateTab
      <3>1. PICK n \in Tabs, k \in Songs, c \in Contents :
              /\ tabs[n] = NULL
              /\ tabs' = [tabs EXCEPT ![n] =
                   [song |-> k, version |-> FirstVersion(k), content |-> c, deleted |-> FALSE,
                    imported |-> FALSE, edited |-> FALSE, tx |-> NULL]]
        BY <2>1 DEF CreateTab
      <3>2. tabs'[n].version = 1
        BY <3>1 DEF FirstVersion, IInv, TypeOK
      <3>3. \A u \in Tabs \ {n} : tabs'[u] = tabs[u]
        BY <3>1 DEF IInv, TypeOK
      <3> QED
        BY <3>1, <3>2, <3>3 DEF Stays
    <2>2. CASE EditTab
      <3>1. PICK n \in Tabs, c \in Contents :
              LiveTab(n) /\ tabs' = [tabs EXCEPT ![n].content = c, ![n].edited = TRUE]
        BY <2>2 DEF EditTab
      <3>2. tabs[n] \in Row
        BY <3>1 DEF LiveTab, IInv, TypeOK
      <3>3. tabs'[n] = [tabs[n] EXCEPT !.content = c, !.edited = TRUE]
        BY <3>1 DEF IInv, TypeOK
      <3>4. Stays(n)
        BY <3>2, <3>3, RowRewritten
      <3>5. \A u \in Tabs \ {n} : tabs'[u] = tabs[u]
        BY <3>1 DEF IInv, TypeOK
      <3>6. tabs[n] # NULL
        BY <3>1 DEF LiveTab
      <3> QED
        BY <3>4, <3>5, <3>6 DEF Stays
    <2>3. CASE DeleteTab
      <3>1. PICK n \in Tabs : LiveTab(n) /\ tabs' = [tabs EXCEPT ![n].deleted = TRUE]
        BY <2>3 DEF DeleteTab
      <3>2. tabs[n] \in Row
        BY <3>1 DEF LiveTab, IInv, TypeOK
      <3>3. tabs'[n] = [tabs[n] EXCEPT !.deleted = TRUE]
        BY <3>1 DEF IInv, TypeOK
      <3>4. Stays(n)
        BY <3>2, <3>3, RowRewritten
      <3>5. \A u \in Tabs \ {n} : tabs'[u] = tabs[u]
        BY <3>1 DEF IInv, TypeOK
      <3>6. tabs[n] # NULL
        BY <3>1 DEF LiveTab
      <3> QED
        BY <3>4, <3>5, <3>6 DEF Stays
    <2>4. CASE AddSong \/ DeleteSong
      BY <2>4 DEF AddSong, DeleteSong, Stays
    <2> QED
      BY <2>1, <2>2, <2>3, <2>4
  <1>3. \A q \in Importers : NextFollows(q)'
    BY <1>1, <1>2, NextStays DEF NumberInv, Entry
  <1>4. ASSUME NEW t \in Tabs PROVE Follows(t)' /\ SingleIsFirst(t)'
    <2>1. CASE tabs[t] = NULL
      BY <1>2, <2>1 DEF Follows, SingleIsFirst
    <2>2. CASE tabs[t] # NULL
      BY <1>2, <2>2, FollowsStays DEF NumberInv, SingleIsFirst, Stays
    <2> QED
      BY <2>1, <2>2
  <1> QED
    BY <1>3, <1>4 DEF NumberInv

LEMMA NumbersStep ==
  ASSUME IInv, NumberInv, NEW p \in Importers, Step(p)
  PROVE  NumberInv'
  <1>1. CASE CheckGenres(p)
    BY <1>1, NumbersGoto, NumbersSkipSong DEF CheckGenres, At
  <1>2. CASE FindSong(p)
    BY <1>2, NumbersGoto DEF FindSong
  <1>3. ASSUME WriteSong(p) PROVE NumberInv'
    BY <1>3, NumbersGoto DEF WriteSong
  <1>4. ASSUME Fail(p), ~At(p, "idle") PROVE NumberInv'
    BY <1>4, NumbersEnd DEF Fail
  <1>5. CASE CreateSong(p) \/ RestoreSong(p)
    BY <1>3, <1>4, <1>5 DEF CreateSong, RestoreSong, At
  <1>6. CASE LockSong(p)
    BY <1>6, NumbersGoto DEF LockSong
  <1>7. CASE InsertVersion(p)
    BY <1>4, <1>7, NumbersInsert DEF InsertVersion, Looping, At
  <1>8. CASE Commit(p)
    BY <1>8, NumbersEnd DEF Commit, At
  <1> QED
    BY <1>1, <1>2, <1>5, <1>6, <1>7, <1>8, NumbersMax, NumbersContents, NumbersSkip DEF Step

LEMMA NumberInvariance == Spec => [](IInv /\ NumberInv)
  <1>1. Init => NumberInv
    BY DEF Init, NoImport, NumberInv, Follows, SingleIsFirst, NextFollows
  <1>2. IInv /\ NumberInv /\ [Next]_vars => NumberInv'
    <2> SUFFICES ASSUME IInv, NumberInv, [Next]_vars PROVE NumberInv'
      OBVIOUS
    <2>1. ASSUME NEW p \in Importers, StartImport(p) \/ Step(p) \/ Abort(p) PROVE NumberInv'
      BY <2>1, NumbersStart, NumbersStep, NumbersEnd DEF Abort, InTransaction, At, Fail
    <2>2. CASE UNCHANGED vars
      BY <2>2 DEF vars, NumberInv, Follows, SingleIsFirst, NextFollows, Entry
    <2> QED
      BY <2>1, <2>2, NumbersRestart, NumbersOther DEF Next
  <1> QED
    BY <1>1, <1>2, Invariance, PTL DEF Spec

-----------------------------------------------------------------------------
(* Who holds what: the rows and the locks of songs.                        *)

\* Past the row of its song: it may have written it, and asks for the lock next.
PastRow == {"lock"} \cup Locked

\* A song's row is held by an import that has written it and not yet ended, a song's
\* lock by one that is past taking it.
HeldBySome(k) ==
  /\ songs[k].tx # NULL => imports[songs[k].tx].pc \in PastRow
  /\ lock[k] # NULL => imports[lock[k]].pc \in Locked

HeldInv == \A k \in Songs : HeldBySome(k)

\* What p holds it keeps holding rightly while it does not go back.
GoesOn(p) ==
  /\ \A q \in Importers \ {p} : imports'[q] = imports[q]
  /\ imports[p].pc \in PastRow => imports'[p].pc \in PastRow
  /\ imports[p].pc \in Locked => imports'[p].pc \in Locked

LEMMA HeldQuiet ==
  ASSUME IInv, HeldInv, NEW p \in Importers, GoesOn(p), UNCHANGED <<songs, lock>>
  PROVE  HeldInv'
  <1> SUFFICES ASSUME NEW k \in Songs PROVE HeldBySome(k)'
    BY DEF HeldInv
  <1>1. songs[k].tx \in Importers \cup {NULL} /\ lock[k] \in Importers \cup {NULL}
    BY DEF IInv, TypeOK, Song
  <1>2. HeldBySome(k)
    BY DEF HeldInv
  <1> QED
    BY <1>1, <1>2 DEF HeldBySome, GoesOn

LEMMA HeldGoto ==
  ASSUME IInv, HeldInv, NEW p \in Importers, NEW pc, Goto(p, pc), UNCHANGED <<songs, lock>>,
         imports[p].pc \notin PastRow
  PROVE  HeldInv'
  <1>1. GoesOn(p)
    BY DEF Goto, GoesOn, IInv, TypeOK, PastRow
  <1> QED
    BY <1>1, HeldQuiet

\* The end of a transaction leaves nothing held.
LEMMA HeldEnds ==
  ASSUME IInv, HeldInv, NEW p \in Importers, ~At(p, "idle"), Rollback(p) \/ Persist(p),
         NextSong(p)
  PROVE  HeldInv'
  <1>1. \A q \in Importers \ {p} : imports'[q] = imports[q]
    BY NextSongSlot
  <1> SUFFICES ASSUME NEW k \in Songs PROVE HeldBySome(k)'
    BY DEF HeldInv
  <1>2. HeldBySome(k)
    BY DEF HeldInv
  <1>3. /\ songs[k] \in Song /\ songs[k].tx \in Importers \cup {NULL}
        /\ lock[k] \in Importers \cup {NULL}
    BY DEF IInv, TypeOK, Song
  <1>4. songs'[k].tx = IF songs[k].tx = p THEN NULL ELSE songs[k].tx
    BY <1>3 DEF Rollback, Persist, Song
  <1>5. lock'[k] = IF lock[k] = p THEN NULL ELSE lock[k]
    BY DEF Rollback, Persist, Release
  <1> QED
    BY <1>1, <1>2, <1>3, <1>4, <1>5 DEF HeldBySome

LEMMA HeldWrite ==
  ASSUME IInv, HeldInv, NEW p \in Importers, imports[p].pc \in {"create", "restore"},
         WriteSong(p)
  PROVE  HeldInv'
  <1>1. /\ imports'[p].pc = "lock" /\ \A q \in Importers \ {p} : imports'[q] = imports[q]
        /\ lock' = lock
    BY DEF WriteSong, Goto, IInv, TypeOK
  <1>2. \A k \in Songs : songs'[k].tx \in {songs[k].tx, p}
    BY DEF WriteSong, IInv, TypeOK, Song
  <1> SUFFICES ASSUME NEW k \in Songs PROVE HeldBySome(k)'
    BY DEF HeldInv
  <1>3. HeldBySome(k) /\ songs[k].tx \in Importers \cup {NULL} /\ lock[k] \in Importers \cup {NULL}
    BY DEF HeldInv, IInv, TypeOK, Song
  <1>4. lock[k] # p
    BY <1>3, NullIsNoImporter DEF HeldBySome, Locked
  <1> QED
    BY <1>1, <1>2, <1>3, <1>4 DEF HeldBySome, PastRow

LEMMA HeldLock ==
  ASSUME IInv, HeldInv, NEW p \in Importers, LockSong(p)
  PROVE  HeldInv'
  <1>1. /\ imports'[p].pc = "max" /\ \A q \in Importers \ {p} : imports'[q] = imports[q]
        /\ songs' = songs
    BY DEF LockSong, Goto, IInv, TypeOK
  <1>2. \A k \in Songs : lock'[k] \in {lock[k], p}
    BY DEF LockSong, IInv, TypeOK
  <1> SUFFICES ASSUME NEW k \in Songs PROVE HeldBySome(k)'
    BY DEF HeldInv
  <1>3. HeldBySome(k) /\ songs[k].tx \in Importers \cup {NULL} /\ lock[k] \in Importers \cup {NULL}
    BY DEF HeldInv, IInv, TypeOK, Song
  <1> QED
    BY <1>1, <1>2, <1>3 DEF HeldBySome, PastRow, Locked

\* Numbering, comparing and inserting all happen under the lock.
LEMMA HeldLoop ==
  ASSUME IInv, HeldInv, NEW p \in Importers, imports[p].pc \in Locked,
         ReadMaxVersion(p) \/ ReadContents(p) \/ SkipVersion(p)
           \/ \E t \in Tabs : Insert(p, t) /\ UNCHANGED <<songs, lock>>
  PROVE  HeldInv'
  <1>1. GoesOn(p) /\ UNCHANGED <<songs, lock>>
    <2>0. imports[p] \in Import
      BY DEF IInv, TypeOK
    <2>1. CASE ReadMaxVersion(p)
      BY <2>0, <2>1 DEF ReadMaxVersion, GoesOn, PastRow, Locked, IInv, TypeOK, Import
    <2>2. CASE ReadContents(p)
      BY <2>0, <2>2 DEF ReadContents, GoesOn, PastRow, Locked, IInv, TypeOK, Import
    <2>3. CASE SkipVersion(p)
      BY <2>0, <2>3 DEF SkipVersion, Skip, GoesOn, PastRow, Locked, IInv, TypeOK, Import
    <2>4. CASE \E t \in Tabs : Insert(p, t) /\ UNCHANGED <<songs, lock>>
      BY <2>0, <2>4 DEF Insert, GoesOn, PastRow, Locked, IInv, TypeOK, Import
    <2> QED
      BY <2>1, <2>2, <2>3, <2>4
  <1> QED
    BY <1>1, HeldQuiet

LEMMA HeldStep ==
  ASSUME IInv, HeldInv, NEW p \in Importers, Step(p)
  PROVE  HeldInv'
  <1>1. ASSUME Fail(p), ~At(p, "idle") PROVE HeldInv'
    BY <1>1, HeldEnds DEF Fail
  <1>2. CASE CheckGenres(p)
    <2>1. CASE Goto(p, "find")
      BY <1>2, <2>1, HeldGoto DEF CheckGenres, At, PastRow, Locked
    <2>2. CASE NextSong(p)
      <3>1. GoesOn(p)
        BY <1>2, <2>2, NextSongSlot DEF CheckGenres, At, GoesOn, PastRow, Locked
      <3> QED
        BY <1>2, <3>1, HeldQuiet DEF CheckGenres
    <2> QED
      BY <1>2, <2>1, <2>2 DEF CheckGenres
  <1>3. CASE FindSong(p)
    <2>1. imports[p].pc \notin PastRow
      BY <1>3 DEF FindSong, At, PastRow, Locked
    <2> QED
      BY <1>3, <2>1, HeldGoto DEF FindSong
  <1>4. CASE CreateSong(p) \/ RestoreSong(p)
    BY <1>1, <1>4, HeldWrite DEF CreateSong, RestoreSong, At
  <1>5. CASE ReadMaxVersion(p) \/ ReadContents(p) \/ SkipVersion(p)
    <2>1. imports[p].pc \in Locked
      BY <1>5 DEF ReadMaxVersion, ReadContents, SkipVersion, Looping, At, Locked
    <2> QED
      BY <1>5, <2>1, HeldLoop
  <1>6. CASE InsertVersion(p)
    <2>1. imports[p].pc \in Locked /\ ~At(p, "idle")
      BY <1>6 DEF InsertVersion, Looping, At, Locked
    <2> QED
      BY <1>1, <1>6, <2>1, HeldLoop DEF InsertVersion
  <1>7. CASE Commit(p)
    BY <1>7, HeldEnds DEF Commit, At
  <1> QED
    BY <1>2, <1>3, <1>4, <1>5, <1>6, <1>7, HeldLock DEF Step

\* Requests on single songs write only rows that nobody holds.
LEMMA HeldOther ==
  ASSUME IInv, HeldInv,
         Restart \/ CreateTab \/ EditTab \/ DeleteTab \/ AddSong \/ DeleteSong \/ UNCHANGED vars
  PROVE  HeldInv'
  <1>1. CASE Restart
    BY <1>1 DEF Restart, HeldInv, HeldBySome, IInv, TypeOK, Song
  <1>2. CASE AddSong \/ DeleteSong
    <2>1. UNCHANGED <<lock, imports>>
      BY <1>2 DEF AddSong, DeleteSong
    <2>2. PICK k \in Songs, seen \in {"live", "deleted"} : songs' = [songs EXCEPT ![k].seen = seen]
      BY <1>2 DEF AddSong, DeleteSong
    <2>3. songs \in [Songs -> Song]
      BY DEF IInv, TypeOK
    <2>4. \A o \in Songs : songs'[o].tx = songs[o].tx
      BY <2>2, <2>3 DEF Song
    <2> QED
      BY <2>1, <2>4 DEF HeldInv, HeldBySome
  <1>3. CASE CreateTab \/ EditTab \/ DeleteTab \/ UNCHANGED vars
    BY <1>3 DEF CreateTab, EditTab, DeleteTab, vars, HeldInv, HeldBySome
  <1> QED
    BY <1>1, <1>2, <1>3

LEMMA HeldInvariance == Spec => [](IInv /\ HeldInv)
  <1>1. Init => HeldInv
    BY DEF Init, HeldInv, HeldBySome
  <1>2. IInv /\ HeldInv /\ [Next]_vars => HeldInv'
    <2> SUFFICES ASSUME IInv, HeldInv, [Next]_vars PROVE HeldInv'
      OBVIOUS
    <2>1. ASSUME NEW p \in Importers, StartImport(p) PROVE HeldInv'
      <3>1. GoesOn(p) /\ UNCHANGED <<songs, lock>>
        BY <2>1 DEF StartImport, At, GoesOn, PastRow, Locked, IInv, TypeOK
      <3> QED
        BY <3>1, HeldQuiet
    <2>2. ASSUME NEW p \in Importers, Abort(p) PROVE HeldInv'
      BY <2>2, HeldEnds DEF Abort, InTransaction, At, Fail
    <2> QED
      BY <2>1, <2>2, HeldStep, HeldOther DEF Next
  <1> QED
    BY <1>1, <1>2, Invariance, PTL DEF Spec

\* Whoever waits, waits for imports that are further on.
LEMMA WaitsAhead ==
  ASSUME IInv, HeldInv
  PROVE  WaitsOnlyAhead
  <1> SUFFICES ASSUME NEW p \in Importers, Waits(p)
               PROVE  WaitsFor(p) # {} /\ \A q \in WaitsFor(p) : Stage(q) > Stage(p)
    BY DEF WaitsOnlyAhead
  <1>1. \A q \in Importers : imports[q] \in Import
    BY DEF IInv, TypeOK
  <1>2. \A q \in Importers :
          /\ HoldsConnection(q) => Stage(q) > 0
          /\ imports[q].pc \in PastRow => Stage(q) > 1
          /\ imports[q].pc \in Locked => Stage(q) > 2
    BY <1>1 DEF HoldsConnection, InTransaction, PastRow, Locked, Stage
  <1>3. CASE imports[p].pc \in {"genres", "find"} /\ ~ConnectionFree
    <2>1. {q \in Importers : HoldsConnection(q)} # {}
      <3> SUFFICES ASSUME {q \in Importers : HoldsConnection(q)} = {} PROVE FALSE
        OBVIOUS
      <3>1. Cardinality({q \in Importers : HoldsConnection(q)}) = 0
        BY FS_EmptySet
      <3> QED
        BY <1>3, <3>1, PoolIsNotEmpty DEF ConnectionFree
    <2>2. Stage(p) = 0
      BY <1>3 DEF Stage
    <2>3. WaitsFor(p) = {q \in Importers : HoldsConnection(q)}
      BY <1>3 DEF WaitsFor, At
    <2> QED
      BY <1>2, <2>1, <2>2, <2>3
  <1>4. CASE imports[p].pc \in {"create", "restore"} /\ songs[Entry(p).song].tx # NULL
    <2> DEFINE q == songs[Entry(p).song].tx
    <2>1. Entry(p).song \in Songs
      BY <1>4, EntryType DEF IInv, SlotsInv, SlotInv, At
    <2>2. q \in Importers /\ imports[q].pc \in PastRow
      BY <1>4, <2>1 DEF IInv, TypeOK, Song, HeldInv, HeldBySome
    <2>3. WaitsFor(p) = {q}
      BY <1>4, <2>2 DEF WaitsFor, At
    <2>4. Stage(p) = 1
      BY <1>4 DEF Stage
    <2> QED
      BY <1>2, <2>2, <2>3, <2>4
  <1>5. CASE At(p, "lock") /\ ~LockFree(Entry(p).song)
    <2> DEFINE q == lock[Entry(p).song]
    <2>1. Entry(p).song \in Songs
      BY <1>5, EntryType DEF IInv, SlotsInv, SlotInv, At
    <2>2. q \in Importers /\ imports[q].pc \in Locked
      BY <1>5, <2>1 DEF IInv, TypeOK, HeldInv, HeldBySome, LockFree
    <2>3. WaitsFor(p) = {q}
      BY <1>5, <2>2 DEF WaitsFor, At
    <2>4. Stage(p) = 2
      BY <1>5 DEF Stage, At
    <2> QED
      BY <1>2, <2>2, <2>3, <2>4
  <1> QED
    BY <1>3, <1>4, <1>5 DEF Waits

\* While an import is being served, there is one that waits for nobody.
SomeoneGoesOn ==
  (\E p \in Importers : ~At(p, "idle")) => \E p \in Importers : ~At(p, "idle") /\ ~Waits(p)

LEMMA ChainsEnd ==
  ASSUME IInv, WaitsOnlyAhead
  PROVE  SomeoneGoesOn
  <1>1. \A p \in Importers : Stage(p) \in 0 .. 3 /\ (Stage(p) = 3 => ~Waits(p))
    BY DEF IInv, TypeOK, Import, InTransaction, Stage, Waits, At
  <1>2. \A q \in Importers : Stage(q) > 0 => ~At(q, "idle")
    BY DEF Stage, At
  <1>3. ASSUME NEW p \in Importers, Waits(p)
        PROVE  \E q \in Importers : Stage(q) > Stage(p) /\ ~At(q, "idle")
    <2>1. PICK q \in WaitsFor(p) : Stage(q) > Stage(p)
      BY <1>3 DEF WaitsOnlyAhead
    <2>2. q \in Importers
      BY DEF WaitsFor
    <2> QED
      BY <1>1, <1>2, <1>3, <2>1, <2>2
  <1> SUFFICES ASSUME NEW p \in Importers, ~At(p, "idle"),
                      \A q \in Importers : ~At(q, "idle") => Waits(q)
               PROVE  FALSE
    BY DEF SomeoneGoesOn
  <1>4. PICK q1 \in Importers : Stage(q1) > Stage(p) /\ ~At(q1, "idle")
    BY <1>3
  <1>5. PICK q2 \in Importers : Stage(q2) > Stage(q1) /\ ~At(q2, "idle")
    BY <1>3, <1>4
  <1>6. PICK q3 \in Importers : Stage(q3) > Stage(q2) /\ ~At(q3, "idle")
    BY <1>3, <1>5
  <1>7. Stage(q3) = 3
    BY <1>1, <1>4, <1>5, <1>6
  <1> QED
    BY <1>1, <1>6, <1>7

-----------------------------------------------------------------------------
(* No statement of an import is issued twice.                              *)

Order(pc) ==
  CASE pc = "genres" -> 1
    [] pc = "find" -> 2
    [] pc \in {"create", "restore"} -> 3
    [] pc = "lock" -> 4
    [] pc = "max" -> 5
    [] pc = "contents" -> 6
    [] OTHER -> 7

\* Import p ends, or goes on to the next song of its batch, to a later statement about
\* the song it is at, or to the next of the versions there are.
Advances(p) ==
  \/ At(p, "idle")'
  \/ /\ imports'[p].batch = imports[p].batch
     /\ \/ imports'[p].index = imports[p].index + 1 /\ imports'[p].index <= Len(imports[p].batch)
        \/ /\ imports'[p].index = imports[p].index
           /\ \/ Order(imports'[p].pc) > Order(imports[p].pc)
              \/ /\ At(p, "insert") /\ At(p, "insert")'
                 /\ imports'[p].version = imports[p].version + 1
                 /\ imports[p].version <= Len(Entry(p).versions)

\* Nobody but p moves, and p advances.
OnlyAdvances(p) == Advances(p) /\ \A q \in Importers \ {p} : imports'[q] = imports[q]

LEMMA NextSongAdvances ==
  ASSUME TypeOK, NEW p \in Importers, NextSong(p)
  PROVE  OnlyAdvances(p)
  <1>1. imports \in [Importers -> Import] /\ NoImport \in Import
    BY DEF TypeOK, NoImport, Import
  <1>2. CASE imports[p].index < Len(imports[p].batch)
    <2>1. imports' = [imports EXCEPT ![p] =
             [NoImport EXCEPT !.pc = "genres", !.batch = imports[p].batch,
                              !.index = imports[p].index + 1]]
      BY <1>2 DEF NextSong
    <2>2. /\ imports'[p].batch = imports[p].batch /\ imports'[p].index = imports[p].index + 1
          /\ \A q \in Importers \ {p} : imports'[q] = imports[q]
      BY <1>1, <2>1 DEF NoImport
    <2>3. imports[p].index \in Nat /\ Len(imports[p].batch) \in Nat
      BY <1>1, BatchesAreSongLists DEF Import
    <2>4. imports'[p].index <= Len(imports[p].batch)
      BY <1>2, <2>2, <2>3
    <2>5. QED
      BY <2>2, <2>4 DEF OnlyAdvances, Advances
  <1>3. CASE ~(imports[p].index < Len(imports[p].batch))
    <2>1. imports' = [imports EXCEPT ![p] = NoImport]
      BY <1>3 DEF NextSong
    <2>2. imports'[p].pc = "idle" /\ \A q \in Importers \ {p} : imports'[q] = imports[q]
      BY <1>1, <2>1 DEF NoImport
    <2>3. QED
      BY <2>2 DEF OnlyAdvances, Advances, At
  <1>4. QED
    BY <1>2, <1>3

LEMMA GotoAdvances ==
  ASSUME TypeOK, NEW p \in Importers, NEW pc, Goto(p, pc), Order(pc) > Order(imports[p].pc)
  PROVE  OnlyAdvances(p)
  <1>1. /\ imports'[p].pc = pc /\ imports'[p].batch = imports[p].batch
        /\ imports'[p].index = imports[p].index
        /\ \A q \in Importers \ {p} : imports'[q] = imports[q]
    BY DEF Goto, TypeOK, Import
  <1>2. QED
    BY <1>1 DEF OnlyAdvances, Advances

LEMMA StepAdvances ==
  ASSUME IInv, NEW p \in Importers, Step(p)
  PROVE  OnlyAdvances(p)
  <1>1. TypeOK /\ imports \in [Importers -> Import] /\ imports[p] \in Import
    BY DEF IInv, TypeOK
  <1>2. ASSUME Fail(p) PROVE OnlyAdvances(p)
    BY <1>1, <1>2, NextSongAdvances DEF Fail
  <1>3. CASE CheckGenres(p)
    <2>1. CASE Goto(p, "find")
      BY <1>1, <1>3, <2>1, GotoAdvances DEF CheckGenres, At, Order
    <2>2. QED
      BY <1>1, <1>3, <2>1, NextSongAdvances DEF CheckGenres
  <1>4. CASE FindSong(p)
    <2>1. PICK pc \in {"create", "restore", "lock"} : Goto(p, pc)
      BY <1>4 DEF FindSong
    <2>2. Order(pc) > Order(imports[p].pc)
      BY <1>4 DEF FindSong, At, Order
    <2>3. QED
      BY <1>1, <2>1, <2>2, GotoAdvances
  <1>5. CASE CreateSong(p) \/ RestoreSong(p)
    <2>1. imports[p].pc \in {"create", "restore"} /\ (WriteSong(p) \/ Fail(p))
      BY <1>5 DEF CreateSong, RestoreSong, At
    <2>2. CASE WriteSong(p)
      BY <1>1, <2>1, <2>2, GotoAdvances DEF WriteSong, Order
    <2>3. QED
      BY <1>2, <2>1, <2>2
  <1>6. CASE LockSong(p)
    BY <1>1, <1>6, GotoAdvances DEF LockSong, At, Order
  <1>7. CASE ReadMaxVersion(p) \/ ReadContents(p)
    <2>1. /\ imports'[p].batch = imports[p].batch /\ imports'[p].index = imports[p].index
          /\ \A q \in Importers \ {p} : imports'[q] = imports[q]
          /\ \/ imports[p].pc = "max" /\ imports'[p].pc = "contents"
             \/ imports[p].pc = "contents" /\ imports'[p].pc = "insert"
      <3>1. CASE ReadMaxVersion(p)
        BY <1>1, <3>1 DEF ReadMaxVersion, At, Import
      <3>2. CASE ReadContents(p)
        BY <1>1, <3>2 DEF ReadContents, At, Import
      <3>3. QED
        BY <1>7, <3>1, <3>2
    <2>2. QED
      BY <2>1 DEF OnlyAdvances, Advances, Order
  <1>8. ASSUME Looping(p), Skip(p) \/ \E t \in Tabs : Insert(p, t) PROVE OnlyAdvances(p)
    <2>1. /\ imports'[p].batch = imports[p].batch /\ imports'[p].index = imports[p].index
          /\ imports'[p].pc = imports[p].pc /\ imports'[p].version = imports[p].version + 1
          /\ \A q \in Importers \ {p} : imports'[q] = imports[q]
      <3>1. CASE Skip(p)
        BY <1>1, <3>1 DEF Skip, Import
      <3>2. CASE \E t \in Tabs : Insert(p, t)
        BY <1>1, <3>2 DEF Insert, Import
      <3>3. QED
        BY <1>8, <3>1, <3>2
    <2>2. QED
      BY <1>8, <2>1 DEF OnlyAdvances, Advances, Looping, At
  <1>9. CASE SkipVersion(p) \/ InsertVersion(p)
    BY <1>2, <1>8, <1>9 DEF SkipVersion, InsertVersion
  <1>10. CASE Commit(p)
    BY <1>1, <1>10, NextSongAdvances DEF Commit
  <1>11. QED
    BY <1>3, <1>4, <1>5, <1>6, <1>7, <1>9, <1>10 DEF Step

\* Failed or not, an import never goes back: not to a song, a statement or a version.
EveryImportAdvances ==
  [][\A p \in Importers : ~At(p, "idle") /\ imports'[p] # imports[p] => Advances(p)]_vars

-----------------------------------------------------------------------------
(* The theorems.                                                           *)

\* The tables and the slots keep their types; no version number is below 1.
THEOREM TypeCorrect == Spec => []TypeOK
  <1>1. IInv => TypeOK
    BY DEF IInv
  <1>2. QED
    BY <1>1, Invariance, PTL

\* However many imports run at the same time, fail, are cut off by a restart or are
\* sent again, no two imported tabs of a song, deleted ones included, have the same
\* version number (bulk-import.service.ts:223, the advisory lock).
THEOREM VersionsNeverCollide == Spec => []ImportedVersionsUnique
  <1>1. IInv => ImportedVersionsUnique
    BY DEF IInv, Unique
  <1>2. QED
    BY <1>1, Invariance, PTL

\* However many imports carry the same content, at the same time or as retries, one
\* live tab of the song holds it as imported (bulk-import.service.ts:235, the dedupe).
THEOREM ContentsNeverRepeat == Spec => []ImportedContentsUnique
  <1>1. IInv => ImportedContentsUnique
    BY DEF IInv, Unique
  <1>2. QED
    BY <1>1, Invariance, PTL

\* Skipped versions, rolled back transactions and restarts leave no gap in the numbers
\* of a song: what is below a number stays as long as that number does.
THEOREM NumbersHaveNoGap == Spec => []VersionsWithoutGap
  <1>1. IInv /\ NumberInv => VersionsWithoutGap
    BY DEF NumberInv, Follows, VersionsWithoutGap, TabsOf
  <1>2. QED
    BY <1>1, NumberInvariance, PTL

\* Tabs created on their own share number 1 among them and with an imported tab; no
\* other number of a song is given twice.
THEOREM OnlyFirstShared == Spec => []OnlyFirstVersionShared
  <1>1. IInv /\ NumberInv => OnlyFirstVersionShared
    BY DEF IInv, Unique, ImportedVersionsUnique, ImportedTabs, NumberInv, SingleIsFirst,
           OnlyFirstVersionShared, TabsOf
  <1>2. QED
    BY <1>1, NumberInvariance, PTL
\* An import waits only for imports that are further in their transactions, for any
\* number of imports, songs and connections: no circle of imports wait for one another,
\* and nobody waits for an import that has ended (bulk-import.service.ts:225).
THEOREM NobodyWaitsInACircle == Spec => []WaitsOnlyAhead
  <1>1. IInv /\ HeldInv => WaitsOnlyAhead
    BY WaitsAhead
  <1>2. QED
    BY <1>1, HeldInvariance, PTL

\* So one of the imports being served always waits for nobody, however small the pool:
\* there is no deadlock that a timeout or PostgreSQL would have to end.
THEOREM ImportsNeverDeadlock == Spec => []SomeoneGoesOn
  <1>1. IInv /\ WaitsOnlyAhead => SomeoneGoesOn
    BY ChainsEnd
  <1>2. QED
    BY <1>1, Invariance, NobodyWaitsInACircle, PTL

\* Nor does an import go round in a circle by itself: every step it makes, also one that
\* fails, brings it nearer to the end of its batch (bulk-import.service.ts:55, the loop).
THEOREM ImportsRunOut == Spec => EveryImportAdvances
  <1>1. IInv /\ [Next]_vars
          => [\A p \in Importers : ~At(p, "idle") /\ imports'[p] # imports[p] => Advances(p)]_vars
    <2> SUFFICES ASSUME IInv, Next, NEW p \in Importers, ~At(p, "idle"), imports'[p] # imports[p]
                 PROVE  Advances(p)
      OBVIOUS
    <2>1. ASSUME NEW q \in Importers, Step(q) PROVE Advances(p)
      BY <2>1, StepAdvances DEF OnlyAdvances
    <2>2. ASSUME NEW q \in Importers, Abort(q) PROVE Advances(p)
      BY <2>2, NextSongAdvances DEF Abort, Fail, OnlyAdvances, IInv
    <2>3. ASSUME NEW q \in Importers, StartImport(q) PROVE FALSE
      <3>1. q # p
        BY <2>3 DEF StartImport
      <3>2. QED
        BY <2>3, <3>1 DEF StartImport, IInv, TypeOK
    <2>4. CASE Restart
      BY <2>4 DEF Restart, Advances, At, NoImport
    <2>5. CASE CreateTab \/ EditTab \/ DeleteTab \/ AddSong \/ DeleteSong
      BY <2>5 DEF CreateTab, EditTab, DeleteTab, AddSong, DeleteSong
    <2>6. QED
      BY <2>1, <2>2, <2>3, <2>4, <2>5 DEF Next
  <1>2. QED
    BY <1>1, Invariance, PTL DEF Spec, EveryImportAdvances
=============================================================================
