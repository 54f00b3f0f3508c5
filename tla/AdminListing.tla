---------------------------- MODULE AdminListing ----------------------------
(* Offset pagination of the administrator's lists: listOffset of artists,     *)
(* genres and songs, findAllAdmin of tabs, listPaginated of users.            *)
(*                                                                            *)
(* A page is two statements sent together, on two connections of the pool:    *)
(* the rows, by createdAt and nothing else, and the number of all rows.  They *)
(* run in either order, outside any transaction, while rows are created,      *)
(* deleted, restored and altered.  The client walks from page 1 to totalPages *)
(* of the page it has last been given.  The server keeps nothing between two  *)
(* pages, and clients share nothing: one walk stands for any.                 *)
EXTENDS Integers, FiniteSets

CONSTANTS
  Ids,      \* identifiers of rows
  Dates,    \* values of createdAt
  Marks,    \* values of what a list is filtered by
  Queries,  \* the parameters walks are made with
  Sizes,    \* values of pageSize
  MaxChanges, \* bound: writes of others to the table during a walk
  UNDEF,    \* JavaScript's undefined: a parameter that is left out
  ABSENT    \* a row that does not exist

ASSUME IdsAssumption == IsFiniteSet(Ids)
ASSUME DatesAssumption == Dates \subseteq Int
ASSUME MarksAssumption == UNDEF \notin Marks
ASSUME MaxChangesAssumption == MaxChanges \in Nat
ASSUME SizesAssumption == Sizes \subseteq Nat \ {0}

Lists == {"artists", "genres", "songs", "tabs", "users"}

\* SOFT_DELETABLE_MODELS.
SoftDeletable == Lists \ {"users"}

\* Status or role for tabs and users; whether q occurs in its name or title for
\* the others, or the artist for songs.
Row == [deleted : BOOLEAN, mark : Marks, createdAt : Dates]

ASSUME RowAssumption == ABSENT \notin Row

\* The query parameters besides page and pageSize, parsed: includeDeleted has a
\* default, and users know no such parameter.
Query ==
  {q \in [list : Lists, includeDeleted : BOOLEAN, filter : Marks \cup {UNDEF}] :
     q.list = "users" => ~q.includeDeleted}

ASSUME QueriesAssumption == Queries \subseteq Query

VARIABLES
  rows,       \* the table
  changes,    \* bound: how often others have written to it
  query, size, page,  \* the request under way, or the last one of the walk
  awaiting,   \* its statements that have not answered
  items,      \* what findMany has answered it, and
  total,      \* what count has
  torn,       \* history: the list changed between the two statements
  kept,       \* history: rows listed ever since the walk began
  seen,       \* history: rows the walk has been given
  repeated,   \* history: rows it has been given more than once
  risen,      \* history: rows some newer row of which left the list
  sunk,       \* history: rows some newer row of which joined it
  tied,       \* history: rows listed, at a findMany, with another of their date
  late        \* history: rows that sank after the request's count, before its findMany

request == <<query, size, page>>
answers == <<awaiting, items, total>>
vars == <<rows, changes, query, size, page, awaiting, items, total, torn, kept, seen,
          repeated, risen, sunk, tied, late>>

-----------------------------------------------------------------------------
(* The WHERE of each list.                                                 *)

Exists(i) == rows[i] # ABSENT

\* The soft-delete extension: deletedAt: null, unless the caller's marker says otherwise.
Visible(q, r) == q.includeDeleted \/ ~r.deleted

\* A condition is added only for a parameter that is there.
Filtered(q, r) == q.filter = UNDEF \/ r.mark = q.filter

ArtistWhere(q, r) == q.list = "artists" /\ Visible(q, r) /\ Filtered(q, r)
GenreWhere(q, r) == q.list = "genres" /\ Visible(q, r) /\ Filtered(q, r)
SongWhere(q, r) == q.list = "songs" /\ Visible(q, r) /\ Filtered(q, r)
TabWhere(q, r) == q.list = "tabs" /\ Visible(q, r) /\ Filtered(q, r)

\* users are not soft-deletable: the extension leaves their WHERE alone.
UserWhere(q, r) == q.list = "users" /\ Filtered(q, r)

Where(q, r) ==
  \/ ArtistWhere(q, r) \/ GenreWhere(q, r) \/ SongWhere(q, r)
  \/ TabWhere(q, r) \/ UserWhere(q, r)

Listed == {i \in Ids : Exists(i) /\ Where(query, rows[i])}

\* The two statements of a request.
Statements == {"findMany", "count"}

Newer(i, j) == rows[i].createdAt > rows[j].createdAt

Init ==
  /\ query \in Queries
  /\ rows \in [Ids -> {r \in Row : query.list = "users" => ~r.deleted} \cup {ABSENT}]
  /\ size \in Sizes
  /\ page = 1 /\ changes = 0
  /\ awaiting = Statements /\ items = {} /\ total = 0
  /\ torn = FALSE
  /\ kept = Listed
  /\ seen = {} /\ repeated = {} /\ risen = {} /\ sunk = {} /\ tied = {} /\ late = {}

-----------------------------------------------------------------------------
(* One page.                                                               *)

\* S is what a scan in the order of createdAt, newest first, gives before it is
\* cut after n rows; rows of one date come in any order.
Leading(S, n) ==
  /\ S \subseteq Listed
  /\ \A i \in S, j \in Listed \ S : ~Newer(j, i)
  /\ Cardinality(S) <= n
  /\ Cardinality(S) < n => S = Listed

\* Mutant of Skip: rows are skipped by the number of pages.
SkipPages == page - 1

Skip == (page - 1) * size

\* findMany: ORDER BY createdAt DESC OFFSET skip LIMIT take.  Two scans of the same
\* rows may order those of one date differently.
FindMany ==
  /\ "findMany" \in awaiting
  /\ awaiting' = awaiting \ {"findMany"}
  /\ \E passed \in SUBSET Listed : \E upTo \in SUBSET Listed :
       /\ passed \subseteq upTo
       /\ Leading(passed, Skip)
       /\ Leading(upTo, Skip + size)
       /\ items' = upTo \ passed
  /\ seen' = seen \cup items'
  /\ repeated' = repeated \cup (seen \cap items')
  /\ tied' = tied \cup {i \in Listed : \E j \in Listed \ {i} : rows[j].createdAt = rows[i].createdAt}
  /\ UNCHANGED <<rows, changes, request, total, torn, kept, risen, sunk, late>>

\* Mutant of Counted: the marker is left out, so that deleted rows are not counted.
CountedVisible == {i \in Listed : ~rows[i].deleted}

Counted == Listed

\* count, with the same WHERE.
Count ==
  /\ "count" \in awaiting
  /\ awaiting' = awaiting \ {"count"}
  /\ total' = Cardinality(Counted)
  /\ UNCHANGED <<rows, changes, request, items, torn, kept, seen, repeated, risen, sunk, tied, late>>

\* Both statements have answered: Promise.all, and the client has the page.
Answered == awaiting = {}

\* Mutant of TotalPages: Math.floor.
TotalPagesDown == total \div size

\* Math.ceil(totalCount / pageSize).
TotalPages == (total + size - 1) \div size

\* The client asks for the next page, with the same parameters.
NextPage ==
  /\ Answered
  /\ page < TotalPages
  /\ page' = page + 1
  /\ awaiting' = Statements /\ items' = {} /\ total' = 0
  /\ torn' = FALSE /\ late' = {}
  /\ UNCHANGED <<rows, changes, query, size, kept, seen, repeated, risen, sunk, tied>>

-----------------------------------------------------------------------------
(* What other requests do to the table.                                    *)

\* The row i becomes r.  What that does to the walk: i may leave the list or join it,
\* and the rows behind it move up or down by one.
Write(i, r) ==
  LET Behind == {j \in Listed \ {i} : rows[j].createdAt <= r.createdAt}
      Leaves == i \in Listed /\ ~Where(query, r)
      Joins == i \notin Listed /\ Where(query, r)
  IN /\ changes < MaxChanges /\ changes' = changes + 1
     /\ rows' = [rows EXCEPT ![i] = r]
     /\ kept' = IF Leaves THEN kept \ {i} ELSE kept
     /\ risen' = IF Leaves THEN risen \cup Behind ELSE risen
     /\ sunk' = IF Joins THEN sunk \cup Behind ELSE sunk
     /\ late' = IF Joins /\ awaiting = {"findMany"} THEN late \cup Behind ELSE late
     /\ torn' = (torn \/ ((Leaves \/ Joins) /\ Cardinality(awaiting) = 1))
     /\ UNCHANGED <<request, answers, seen, repeated, tied>>

\* Whatever creates a row: the date is its transaction's, which may have been open
\* longer than that of a row already listed.
Create(i, m, k) ==
  /\ ~Exists(i)
  /\ Write(i, [deleted |-> FALSE, mark |-> m, createdAt |-> k])

SoftDelete(i) ==
  /\ Exists(i) /\ query.list \in SoftDeletable
  /\ ~rows[i].deleted
  /\ Write(i, [rows[i] EXCEPT !.deleted = TRUE])

\* An import brings deleted artists and songs back; nothing brings back genres or tabs.
Restore(i) ==
  /\ Exists(i) /\ query.list \in {"artists", "songs"}
  /\ rows[i].deleted
  /\ Write(i, [rows[i] EXCEPT !.deleted = FALSE])

\* A tab changes status, a user role or status; an artist, genre or song is renamed.
Alter(i, m) ==
  /\ Exists(i) /\ ~rows[i].deleted
  /\ Write(i, [rows[i] EXCEPT !.mark = m])

Next ==
  \/ FindMany \/ Count \/ NextPage
  \/ \E i \in Ids :
       \/ \E m \in Marks : Alter(i, m) \/ \E k \in Dates : Create(i, m, k)
       \/ SoftDelete(i)
       \/ Restore(i)

Spec == Init /\ [][Next]_vars

-----------------------------------------------------------------------------
(* Properties.                                                             *)

\* Users are never deleted, whatever the shared parameters and filters say.
TypeOK ==
  /\ rows \in [Ids -> Row \cup {ABSENT}]
  /\ query.list = "users" => \A i \in Ids : Exists(i) => ~rows[i].deleted
  /\ query \in Queries /\ size \in Sizes /\ page \in Nat \ {0}
  /\ awaiting \subseteq Statements /\ items \subseteq Ids /\ total \in Nat
  /\ torn \in BOOLEAN /\ changes \in 0..MaxChanges
  /\ kept \subseteq Listed /\ seen \subseteq Ids /\ repeated \subseteq seen
  /\ risen \subseteq Ids /\ sunk \subseteq Ids /\ tied \subseteq Ids /\ late \subseteq sunk

\* A walk is over when it has been given its last page.
Over == Answered /\ page >= TotalPages

\* An administrator who walks a list to its end has been given every row that stayed
\* in it, except rows of one date, rows that moved up a page because a newer one
\* left the list meanwhile, and rows pushed off the last page between its count
\* and its findMany.
NoneMissed == Over => kept \ seen \subseteq risen \cup tied \cup late

\* No row that stayed comes twice, but for rows of one date and rows that moved down
\* because a newer one joined the list meanwhile.
NoneRepeated == repeated \cap kept \subseteq sunk \cup tied

\* Page and total agree whenever the list did not change between the two statements:
\* the page is full, or it is what the total leaves for it.
TotalFitsPage ==
  Answered /\ ~torn =>
    Cardinality(items) =
      IF total <= Skip THEN 0 ELSE IF total - Skip >= size THEN size ELSE total - Skip
=============================================================================
