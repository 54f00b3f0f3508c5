------------------------------ MODULE Listing -------------------------------
(* Cursor pagination of the public and user listings: findPublished (tabs by *)
(* createdAt or publishedAt), the listCursor of artists and songs (by         *)
(* createdAt or by name or title), and findByUser and the listCursor of       *)
(* genres, which order by id alone.                                           *)
(*                                                                            *)
(* A page is one SELECT of limit + 1 rows; the client gets limit of them and, *)
(* when there was one more, a cursor made from the last.  The server keeps    *)
(* nothing between two pages, and clients share nothing: one client stands    *)
(* for any, walking while rows appear, disappear and are renamed.             *)
EXTENDS Integers, FiniteSets

CONSTANTS
  Ids,      \* identifiers: UUIDs, of which only the order matters
  Keys,     \* values of the sort columns: instants or texts, equally ordered
  Limits,   \* page sizes the request schema admits
  NULL,     \* JavaScript's null
  UNDEF     \* JavaScript's undefined

ASSUME IdsAssumption == Ids \subseteq Int /\ IsFiniteSet(Ids)
ASSUME KeysAssumption == Keys \subseteq Int
ASSUME LimitsAssumption == Limits \subseteq Nat \ {0}
ASSUME UndefAssumption == UNDEF \notin Keys /\ UNDEF \notin {"createdAt", "label"}

\* The columns a listing may be sorted by: createdAt never changes; label is the
\* publishedAt of a tab, the name of an artist or the title of a song.
Columns == {"createdAt", "label"}

\* A row, and whether the listing's WHERE lets it through: published and not
\* deleted, of the author, matching q, and so on.
Row == [listed : BOOLEAN, createdAt : Keys, label : Keys]

\* What a request sorts by; the listings by id know no other order.
Orderings ==
  [sortBy : Columns, order : {"asc", "desc"}]
    \cup {[sortBy |-> "id", order |-> "asc"]}

\* A decoded cursor: of a sorted listing, or of one by id (`legacy').
Cursor ==
  [id : Ids, sortBy : Columns, sortValue : Keys]
    \cup [id : Ids, sortBy : {UNDEF}, sortValue : {UNDEF}]

ASSUME NullAssumption == NULL \notin Cursor

VARIABLES
  rows,       \* the table
  cursor,     \* the nextCursor the client holds; NULL before and after a walk
  first,      \* history: how the first page of the walk was ordered
  steady,     \* history: every page of the walk was asked for in that order
  kept,       \* history: rows listed, in the same place, since a steady walk began
  seen,       \* history: rows the walk has been given
  repeated    \* history: rows it has been given more than once

vars == <<rows, cursor, first, steady, kept, seen, repeated>>

Init ==
  /\ rows \in [Ids -> Row]
  /\ cursor = NULL
  /\ first \in Orderings
  /\ steady = TRUE
  /\ kept = {} /\ seen = {} /\ repeated = {}

-----------------------------------------------------------------------------
(* One page.                                                               *)

Listed == {i \in Ids : rows[i].listed}

\* Where a row stands under ORDER BY column, id.
Place(i, column) ==
  [key |-> IF column = "id" THEN i ELSE rows[i][column], id |-> i]

\* The place a cursor remembers.
CursorPlace(c) ==
  [key |-> IF c.sortBy = UNDEF THEN c.id ELSE c.sortValue, id |-> c.id]

Less(p, q) == p.key < q.key \/ (p.key = q.key /\ p.id < q.id)

Before(order, p, q) ==
  \/ order = "asc" /\ Less(p, q)
  \/ order = "desc" /\ Less(q, p)

\* Row i comes before row j in a page ordered by o.
Ahead(o, i, j) == Before(o.order, Place(i, o.sortBy), Place(j, o.sortBy))

\* Mutant of Admits: ties of the sort column are not broken by the id.
AdmitsByKey(o, c, i) ==
  \/ c = NULL
  \/ c.sortBy # UNDEF /\ c.sortValue # UNDEF
     /\ IF o.order = "asc" THEN rows[i][c.sortBy] > c.sortValue
                           ELSE rows[i][c.sortBy] < c.sortValue
  \/ (c.sortBy = UNDEF \/ c.sortValue = UNDEF) /\ i > c.id

\* Mutant of Admits: lte and gte for lt and gt.
AdmitsFrom(o, c, i) ==
  \/ c = NULL
  \/ c.sortBy # UNDEF /\ c.sortValue # UNDEF
     /\ ~Before(o.order, Place(i, c.sortBy), CursorPlace(c))
  \/ (c.sortBy = UNDEF \/ c.sortValue = UNDEF) /\ i > c.id

\* The cursor's condition in the WHERE: the column is the cursor's, the direction
\* the request's; a cursor of an id alone is compared by id, in any direction.
Admits(o, c, i) ==
  \/ c = NULL
  \/ /\ c.sortBy # UNDEF /\ c.sortValue # UNDEF
     /\ Before(o.order, CursorPlace(c), Place(i, c.sortBy))
  \/ /\ c.sortBy = UNDEF \/ c.sortValue = UNDEF
     /\ i > c.id

\* P is the first n elements of S in the order o, or all of them.
FirstOf(o, S, n, P) ==
  /\ P \subseteq S
  /\ \A i \in P, j \in S \ P : Ahead(o, i, j)
  /\ Cardinality(P) <= n
  /\ P # S => Cardinality(P) = n

\* Mutant of HasMore: a full page is taken for an unfinished one.
HasMoreIfFull(fetched, n) == Cardinality(fetched) >= n

HasMore(fetched, n) == Cardinality(fetched) > n

\* Mutant of CursorAt: the cursor is the id alone, whatever the page is sorted by.
CursorById(i, o) == [id |-> i, sortBy |-> UNDEF, sortValue |-> UNDEF]

\* encodeCursor of the last item.
CursorAt(i, o) ==
  IF o.sortBy = "id" THEN [id |-> i, sortBy |-> UNDEF, sortValue |-> UNDEF]
  ELSE [id |-> i, sortBy |-> o.sortBy, sortValue |-> rows[i][o.sortBy]]

IsLast(o, P, i) == \A j \in P \ {i} : Ahead(o, j, i)

\* findMany with take: limit + 1, the slice, and the cursor, for the order o, the limit
\* n and the cursor c; the client has been given the rows of before, those of again twice.
Page(o, n, c, before, again) ==
  \E fetched \in SUBSET Listed : \E items \in SUBSET fetched :
    /\ FirstOf(o, {i \in Listed : Admits(o, c, i)}, n + 1, fetched)
    /\ FirstOf(o, fetched, n, items)
    /\ seen' = before \cup items
    /\ repeated' = again \cup (before \cap items)
    /\ IF HasMore(fetched, n)
         THEN \E i \in items : IsLast(o, items, i) /\ cursor' = CursorAt(i, o)
         ELSE cursor' = NULL

-----------------------------------------------------------------------------
(* The client.                                                             *)

\* A walk begins with a request that has no cursor.  A client that abandons a walk
\* is one that takes no further step: another walk may begin over any table.
FirstPage(o, n) ==
  /\ cursor = NULL
  /\ Page(o, n, NULL, {}, {})
  /\ first' = o
  /\ steady' = TRUE
  /\ kept' = Listed
  /\ UNCHANGED rows

\* The client sends the cursor back to the same endpoint, with the parameters of
\* the first page or with others: absent ones become the defaults of the endpoint.
NextPage(o, n) ==
  /\ cursor # NULL
  /\ (o.sortBy = "id") = (first.sortBy = "id")
  /\ Page(o, n, cursor, seen, repeated)
  /\ steady' = (steady /\ o = first)
  /\ kept' = IF steady' THEN kept ELSE {}
  /\ UNCHANGED <<rows, first>>

-----------------------------------------------------------------------------
(* What other requests do to the table between two pages.                  *)

\* A tab is published, again or for the first time, which dates it; an artist, a
\* genre or a song is created, or restored by an import.
Show(i, k) ==
  /\ ~rows[i].listed
  /\ rows' = [rows EXCEPT ![i] = [listed |-> TRUE, createdAt |-> @.createdAt, label |-> k]]
  /\ UNCHANGED <<cursor, first, steady, kept, seen, repeated>>

\* A tab is withdrawn by a PATCH of its status, or a row is soft-deleted.
Hide(i) ==
  /\ rows[i].listed
  /\ rows' = [rows EXCEPT ![i] = [@ EXCEPT !.listed = FALSE]]
  /\ kept' = kept \ {i}
  /\ UNCHANGED <<cursor, first, steady, seen, repeated>>

\* An artist is renamed, or a song's title changed, while it is listed.
Rename(i, k) ==
  /\ rows[i].listed /\ rows[i].label # k
  /\ rows' = [rows EXCEPT ![i] = [@ EXCEPT !.label = k]]
  /\ kept' = IF first.sortBy = "label" THEN kept \ {i} ELSE kept
  /\ UNCHANGED <<cursor, first, steady, seen, repeated>>

Next ==
  \/ \E o \in Orderings, n \in Limits : FirstPage(o, n) \/ NextPage(o, n)
  \/ \E i \in Ids : Hide(i) \/ \E k \in Keys : Show(i, k) \/ Rename(i, k)

Spec == Init /\ [][Next]_vars

-----------------------------------------------------------------------------
(* Properties.                                                             *)

\* A cursor is complete: it names a column and holds a value of it, or neither.
TypeOK ==
  /\ rows \in [Ids -> Row]
  /\ cursor \in Cursor \cup {NULL}
  /\ first \in Orderings
  /\ steady \in BOOLEAN
  /\ kept \subseteq Listed
  /\ seen \subseteq Ids
  /\ repeated \subseteq seen

\* Row i comes after the client's cursor, in the order of the first page.
After(i) == Before(first.order, CursorPlace(cursor), Place(i, first.sortBy))

\* A client that keeps its parameters is given every row that stays listed in its
\* place during the walk, whatever appears, disappears or moves around it and
\* however many rows share a value of the sort column.
NoneSkipped == steady => \A i \in kept \ seen : cursor # NULL /\ After(i)

\* Such a client is given no row twice that stays in its place.
NoneRepeated == steady => kept \cap repeated = {}

\* A walk never turns back: each cursor is further on than the one before, also
\* when its row has gone or moved meanwhile, so a finite table is walked to its end.
CursorAdvances ==
  [][steady' /\ rows' = rows /\ cursor # NULL /\ cursor' # NULL
       => Before(first.order, CursorPlace(cursor), CursorPlace(cursor'))]_vars

\* A cursor is handed out only when there is a row after it.
CursorOnlyIfMore ==
  [][rows' = rows /\ cursor' # NULL /\ steady' => \E i \in Listed : After(i)']_vars

\* docs/architecture.md:143: `The cursor is sort-aware: it remembers the sort column
\* and direction, ensuring stable ordering across pages': whatever else the next
\* request says, its rows come after the cursor in the order of the first page.
ContinuesInOrder ==
  [][rows' = rows /\ cursor # NULL => \A i \in seen' \ seen : After(i)]_vars
=============================================================================
