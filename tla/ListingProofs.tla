--------------------------- MODULE ListingProofs ----------------------------
(* Proofs about Listing, for any finite set of rows, any values of the sort    *)
(* columns and any page sizes.                                                 *)
EXTENDS Listing, FiniteSetTheorems, TLAPS

\* A place in some order.
Places == [key : Int, id : Int]

\* The cursor separates what the client has been given from what it has not: of
\* the rows that stayed in their place, exactly those not yet seen come after it.
Separates ==
  steady =>
    /\ cursor # NULL => cursor.sortBy = IF first.sortBy = "id" THEN UNDEF ELSE first.sortBy
    /\ \A i \in kept : i \notin seen <=> cursor # NULL /\ After(i)

\* The inductive invariant.
IInv == TypeOK /\ Separates /\ NoneRepeated

USE IdsAssumption, KeysAssumption, LimitsAssumption, UndefAssumption, NullAssumption

-----------------------------------------------------------------------------
(* The order of the places, and the rows a page takes.                     *)

\* No place is before itself, before is transitive, and of two places with
\* different ids one is before the other.
LEMMA BeforeIsOrder ==
  ASSUME NEW order \in {"asc", "desc"},
         NEW p \in Places, NEW q \in Places, NEW r \in Places
  PROVE  /\ ~Before(order, p, p)
         /\ Before(order, p, q) /\ Before(order, q, r) => Before(order, p, r)
         /\ p.id # q.id => Before(order, p, q) \/ Before(order, q, p)
BY DEF Places, Before, Less

\* Rows and cursors have places.
LEMMA PlacesAre ==
  ASSUME TypeOK
  PROVE  /\ \A i \in Ids, column \in Columns \cup {"id"} :
              Place(i, column) \in Places /\ Place(i, column).id = i
         /\ cursor # NULL => CursorPlace(cursor) \in Places
BY DEF TypeOK, Row, Cursor, Columns, Place, CursorPlace, Places

\* Without a further row the n + 1 first and the n first are all there are.
LEMMA AllFetched ==
  ASSUME NEW o, NEW S, IsFiniteSet(S), NEW n \in Nat, NEW fetched, NEW items,
         FirstOf(o, S, n + 1, fetched), FirstOf(o, fetched, n, items),
         ~HasMore(fetched, n)
  PROVE  fetched = S /\ items = fetched
<1>1. IsFiniteSet(fetched) /\ IsFiniteSet(items)
  BY FS_Subset DEF FirstOf
<1>2. Cardinality(fetched) \in Nat /\ Cardinality(items) \in Nat
  BY <1>1, FS_CardinalityType
<1>3. fetched = S
  BY <1>2 DEF FirstOf, HasMore
<1>4. items = fetched
  <2>1. items # fetched => Cardinality(items) < Cardinality(fetched)
    BY <1>1, <1>2, FS_Subset DEF FirstOf
  <2> QED
    BY <2>1, <1>2 DEF FirstOf, HasMore
<1> QED
  BY <1>3, <1>4

-----------------------------------------------------------------------------
(* The invariant is inductive.                                             *)

LEMMA InitEstablishes == Init => IInv
BY DEF Init, IInv, TypeOK, Separates, NoneRepeated, Listed

LEMMA TableChangesPreserve ==
  ASSUME IInv, NEW i \in Ids,
         Hide(i) \/ \E k \in Keys : Show(i, k) \/ Rename(i, k)
  PROVE  IInv'
<1>1. TypeOK'
  <2>1. CASE Hide(i)
    BY <2>1 DEF IInv, TypeOK, Hide, Row, Listed
  <2>2. CASE \E k \in Keys : Show(i, k)
    BY <2>2 DEF IInv, TypeOK, Show, Row, Listed
  <2>3. CASE \E k \in Keys : Rename(i, k)
    <3>1. PICK k \in Keys : Rename(i, k)
      BY <2>3
    <3>2. rows' = [rows EXCEPT ![i] = [@ EXCEPT !.label = k]] /\ rows \in [Ids -> Row]
      BY <3>1 DEF Rename, IInv, TypeOK
    <3>3. rows' \in [Ids -> Row]
      BY <3>2 DEF Row
    <3>4. Listed' = Listed
      BY <3>2 DEF Listed, Row
    <3>5. kept' \subseteq kept
      BY <3>1 DEF Rename
    <3> QED
      BY <3>1, <3>3, <3>4, <3>5 DEF IInv, TypeOK, Rename
  <2> QED
    BY <2>1, <2>2, <2>3
<1>2. ASSUME NEW j \in kept'
      PROVE  j \in kept /\ Place(j, first.sortBy)' = Place(j, first.sortBy)
  <2>1. first \in Orderings /\ rows \in [Ids -> Row] /\ j \in Ids /\ j \in kept
    BY <1>2 DEF IInv, TypeOK, Hide, Show, Rename, Listed
  <2>2. CASE Hide(i)
    BY <2>1, <2>2, <1>2 DEF Hide, Place, Row, Orderings, Columns
  <2>3. CASE \E k \in Keys : Show(i, k)
    <3>1. j # i
      BY <2>1, <2>3 DEF IInv, TypeOK, Show, Listed
    <3> QED
      BY <2>1, <2>3, <3>1 DEF Show, Place
  <2>4. CASE \E k \in Keys : Rename(i, k)
    BY <2>1, <2>4, <1>2 DEF Rename, Place, Row, Orderings, Columns
  <2> QED
    BY <2>2, <2>3, <2>4
<1>3. cursor' = cursor /\ first' = first /\ steady' = steady /\ seen' = seen /\ repeated' = repeated
  BY DEF Hide, Show, Rename
<1>4. Separates'
  <2>1. ASSUME NEW j \in kept' PROVE After(j)' <=> After(j)
    BY <2>1, <1>2, <1>3 DEF After, CursorPlace
  <2> QED
    BY <2>1, <1>2, <1>3 DEF IInv, Separates
<1>5. NoneRepeated'
  BY <1>2, <1>3 DEF IInv, NoneRepeated
<1> QED
  BY <1>1, <1>4, <1>5 DEF IInv

\* What a page does to the history: the rows given come after the cursor sent, and
\* of the listed rows after that cursor exactly those after the new one remain.
Divides(o, c, before, again, items) ==
  /\ seen' = before \cup items
  /\ repeated' = again \cup (before \cap items)
  /\ \A i \in items : c # NULL => Before(o.order, CursorPlace(c), Place(i, o.sortBy))
  /\ cursor' = NULL =>
       \A j \in Listed :
         c = NULL \/ Before(o.order, CursorPlace(c), Place(j, o.sortBy)) => j \in items
  /\ cursor' # NULL =>
       /\ cursor' \in Cursor
       /\ cursor'.sortBy = IF o.sortBy = "id" THEN UNDEF ELSE o.sortBy
       /\ c # NULL => Before(o.order, CursorPlace(c), CursorPlace(cursor'))
       /\ \E j \in Listed : Before(o.order, CursorPlace(cursor'), Place(j, o.sortBy))
       /\ \A j \in Listed :
            c = NULL \/ Before(o.order, CursorPlace(c), Place(j, o.sortBy))
              => (j \in items <=> ~Before(o.order, CursorPlace(cursor'), Place(j, o.sortBy)))

\* encodeCursor makes well-formed cursors that remember where the row stands.
LEMMA CursorAtIs ==
  ASSUME TypeOK, NEW i \in Ids, NEW o \in Orderings
  PROVE  /\ CursorAt(i, o) \in Cursor
         /\ CursorAt(i, o).sortBy = IF o.sortBy = "id" THEN UNDEF ELSE o.sortBy
         /\ CursorPlace(CursorAt(i, o)) = Place(i, o.sortBy)
BY DEF TypeOK, Row, CursorAt, Cursor, CursorPlace, Place, Orderings, Columns

LEMMA PageDivides ==
  ASSUME IInv, NEW o \in Orderings, NEW n \in Limits, NEW c \in Cursor \cup {NULL},
         NEW before \in SUBSET Ids, NEW again \in SUBSET before,
         Page(o, n, c, before, again), UNCHANGED rows,
         c # NULL => c.sortBy = IF o.sortBy = "id" THEN UNDEF ELSE o.sortBy
  PROVE  \E items \in SUBSET Listed : Divides(o, c, before, again, items)
<1> DEFINE S == {i \in Listed : Admits(o, c, i)}
<1>1. PICK fetched \in SUBSET Listed, items \in SUBSET Listed :
        /\ items \subseteq fetched
        /\ FirstOf(o, S, n + 1, fetched)
        /\ FirstOf(o, fetched, n, items)
        /\ seen' = before \cup items
        /\ repeated' = again \cup (before \cap items)
        /\ IF HasMore(fetched, n)
             THEN \E i \in items : IsLast(o, items, i) /\ cursor' = CursorAt(i, o)
             ELSE cursor' = NULL
  BY DEF Page
<1>2. n \in Nat /\ IsFiniteSet(S) /\ Listed \subseteq Ids
  BY FS_Subset DEF Listed
<1>3. ASSUME NEW i \in Listed
      PROVE  i \in S <=> c = NULL \/ Before(o.order, CursorPlace(c), Place(i, o.sortBy))
  BY <1>2, <1>3 DEF Orderings, Columns, Cursor, Admits, CursorPlace, Place, Before, Less
<1>4. items \subseteq S /\ fetched \subseteq S
  BY <1>1 DEF FirstOf
<1>5. CASE ~HasMore(fetched, n)
  <2>1. items = S
    <3> HIDE DEF S
    <3> QED BY <1>1, <1>2, <1>5, AllFetched
  <2> QED
    BY <2>1, <1>1, <1>3, <1>5 DEF Divides
<1>6. CASE HasMore(fetched, n)
  <2>1. PICK last \in items : IsLast(o, items, last) /\ cursor' = CursorAt(last, o)
    BY <1>1, <1>6
  <2>2. /\ cursor' \in Cursor /\ cursor' # NULL
        /\ cursor'.sortBy = IF o.sortBy = "id" THEN UNDEF ELSE o.sortBy
        /\ CursorPlace(cursor') = Place(last, o.sortBy)
    <3>1. last \in Ids /\ TypeOK
      BY <1>2 DEF IInv
    <3>2. /\ CursorAt(last, o) \in Cursor
          /\ CursorAt(last, o).sortBy = IF o.sortBy = "id" THEN UNDEF ELSE o.sortBy
          /\ CursorPlace(CursorAt(last, o)) = Place(last, o.sortBy)
      BY <3>1, CursorAtIs
    <3> QED
      BY <2>1, <3>2
  <2>3. \A i \in Ids : Place(i, o.sortBy) \in Places /\ Place(i, o.sortBy).id = i
    BY PlacesAre DEF IInv, Orderings
  <2>4. o.order \in {"asc", "desc"}
    BY DEF Orderings
  <2>5. items # fetched
    <3>1. Cardinality(fetched) > n
      BY <1>6 DEF HasMore
    <3> QED
      BY <3>1, <1>1, <1>2, FS_Subset, FS_CardinalityType DEF FirstOf
  <2>6. ASSUME NEW j \in S
        PROVE  j \in items <=> ~Before(o.order, Place(last, o.sortBy), Place(j, o.sortBy))
    <3>1. CASE j \in items
      BY <3>1, <2>1, <2>3, <2>4, <1>1, <1>2, BeforeIsOrder DEF IsLast, Ahead
    <3>2. CASE j \in fetched \ items
      BY <3>2, <2>1, <1>1 DEF FirstOf, Ahead
    <3>3. CASE j \in S \ fetched
      BY <3>3, <2>1, <1>1 DEF FirstOf, Ahead
    <3> QED
      BY <3>1, <3>2, <3>3
  <2>7. PICK j \in fetched \ items : TRUE
    BY <2>5, <1>1
  <2>8. Before(o.order, Place(last, o.sortBy), Place(j, o.sortBy))
    BY <2>6, <2>7, <1>4
  <2> QED
    BY <2>1, <2>2, <2>6, <2>7, <2>8, <1>1, <1>3, <1>4 DEF Divides
<1> QED
  BY <1>5, <1>6

LEMMA FirstPagePreserves ==
  ASSUME IInv, NEW o \in Orderings, NEW n \in Limits, FirstPage(o, n)
  PROVE  IInv'
<1>1. Page(o, n, NULL, {}, {}) /\ UNCHANGED rows /\ first' = o /\ steady' = TRUE /\ kept' = Listed
  BY DEF FirstPage
<1>2. PICK items \in SUBSET Listed :
        /\ seen' = items /\ repeated' = {}
        /\ cursor' = NULL => \A j \in Listed : j \in items
        /\ cursor' # NULL =>
             /\ cursor' \in Cursor
             /\ cursor'.sortBy = IF o.sortBy = "id" THEN UNDEF ELSE o.sortBy
             /\ \A j \in Listed :
                  j \in items <=> ~Before(o.order, CursorPlace(cursor'), Place(j, o.sortBy))
  <2>1. PICK items \in SUBSET Listed : Divides(o, NULL, {}, {}, items)
    <3>1. {} \in SUBSET Ids /\ NULL \in Cursor \cup {NULL}
      OBVIOUS
    <3> QED
      BY <1>1, <3>1, PageDivides
  <2> QED
    BY <2>1 DEF Divides
<1>3. Listed' = Listed /\ Listed \subseteq Ids
  BY <1>1 DEF Listed
<1>4. TypeOK'
  BY <1>1, <1>2, <1>3 DEF IInv, TypeOK
<1>5. ASSUME NEW j, cursor' # NULL
      PROVE  After(j)' <=> Before(o.order, CursorPlace(cursor'), Place(j, o.sortBy))
  BY <1>1 DEF After, CursorPlace, Place
<1>6. Separates'
  BY <1>1, <1>2, <1>5 DEF Separates
<1>7. NoneRepeated'
  BY <1>2 DEF NoneRepeated
<1> QED
  BY <1>4, <1>6, <1>7 DEF IInv

\* The cursor a client holds after asking for every page in the same order.
LEMMA SteadyPage ==
  ASSUME IInv, NEW o \in Orderings, NEW n \in Limits, NextPage(o, n), steady'
  PROVE  /\ steady /\ o = first
         /\ cursor \in Cursor
         /\ cursor.sortBy = IF o.sortBy = "id" THEN UNDEF ELSE o.sortBy
BY DEF NextPage, IInv, TypeOK, Separates

LEMMA NextPagePreserves ==
  ASSUME IInv, NEW o \in Orderings, NEW n \in Limits, NextPage(o, n)
  PROVE  IInv'
<1>1. /\ cursor # NULL /\ Page(o, n, cursor, seen, repeated)
      /\ UNCHANGED <<rows, first>>
      /\ kept' = IF steady' THEN kept ELSE {}
      /\ steady' \in BOOLEAN
  BY DEF NextPage, IInv, TypeOK
<1>2. Listed' = Listed /\ Listed \subseteq Ids
  BY <1>1 DEF Listed
<1>3. TypeOK'
  <2>1. PICK items \in SUBSET Listed :
          /\ seen' = seen \cup items /\ repeated' = repeated \cup (seen \cap items)
          /\ \/ cursor' = NULL
             \/ \E i \in items : cursor' = CursorAt(i, o)
    BY <1>1 DEF Page
  <2>2. cursor' \in Cursor \cup {NULL}
    BY <2>1, <1>2, CursorAtIs DEF IInv
  <2> QED
    BY <1>1, <1>2, <2>1, <2>2 DEF IInv, TypeOK
<1>4. CASE ~steady'
  BY <1>1, <1>3, <1>4 DEF IInv, Separates, NoneRepeated
<1>5. CASE steady'
  <2>1. steady /\ o = first /\ cursor \in Cursor
    BY <1>5, SteadyPage
  <2>2. PICK items \in SUBSET Listed :
          /\ seen' = seen \cup items /\ repeated' = repeated \cup (seen \cap items)
          /\ \A i \in items : After(i)
          /\ cursor' = NULL => \A j \in Listed : After(j) => j \in items
          /\ cursor' # NULL =>
               /\ cursor'.sortBy = IF o.sortBy = "id" THEN UNDEF ELSE o.sortBy
               /\ Before(o.order, CursorPlace(cursor), CursorPlace(cursor'))
               /\ \A j \in Listed : After(j) =>
                    (j \in items <=> ~Before(o.order, CursorPlace(cursor'), Place(j, o.sortBy)))
    <3>1. seen \in SUBSET Ids /\ repeated \in SUBSET seen
      BY DEF IInv, TypeOK
    <3>2. cursor.sortBy = IF o.sortBy = "id" THEN UNDEF ELSE o.sortBy
      BY <1>5, SteadyPage
    <3>3. PICK items \in SUBSET Listed : Divides(o, cursor, seen, repeated, items)
      BY <1>1, <2>1, <3>1, <3>2, PageDivides
    <3> QED
      BY <1>1, <2>1, <3>3 DEF Divides, After
  <2>3. kept' = kept /\ kept \subseteq Listed
    BY <1>1, <1>5 DEF IInv, TypeOK
  <2>4. \A j \in kept : j \notin seen <=> After(j)
    BY <2>1, <1>1 DEF IInv, Separates
  <2>5. ASSUME NEW j, cursor' # NULL
        PROVE  After(j)' <=> Before(o.order, CursorPlace(cursor'), Place(j, o.sortBy))
    BY <1>1, <2>1 DEF After, CursorPlace, Place
  <2>6. ASSUME NEW j \in kept, cursor' # NULL, ~After(j)
        PROVE  ~After(j)'
    <3>1. Place(j, o.sortBy) \in Places /\ o.order \in {"asc", "desc"}
      BY <2>3, <1>2, PlacesAre DEF IInv, Orderings
    <3>2. CursorPlace(cursor) \in Places
      BY <1>1, PlacesAre DEF IInv
    <3>3. CursorPlace(cursor') \in Places
      BY <1>3, <2>6 DEF TypeOK, Cursor, CursorPlace, Places
    <3> QED
      BY <3>1, <3>2, <3>3, <2>1, <2>2, <2>5, <2>6, BeforeIsOrder DEF After
  <2>7. Separates'
    BY <1>1, <2>1, <2>2, <2>3, <2>4, <2>5, <2>6 DEF Separates
  <2>8. NoneRepeated'
    BY <2>1, <2>2, <2>3, <2>4 DEF IInv, NoneRepeated
  <2> QED
    BY <1>3, <2>7, <2>8 DEF IInv
<1> QED
  BY <1>1, <1>4, <1>5

LEMMA NextPreserves == IInv /\ [Next]_vars => IInv'
<1> SUFFICES ASSUME IInv, [Next]_vars PROVE IInv'
  OBVIOUS
<1>1. ASSUME NEW o \in Orderings, NEW n \in Limits, FirstPage(o, n) PROVE IInv'
  BY <1>1, FirstPagePreserves
<1>2. ASSUME NEW o \in Orderings, NEW n \in Limits, NextPage(o, n) PROVE IInv'
  BY <1>2, NextPagePreserves
<1>3. ASSUME NEW i \in Ids, Hide(i) \/ \E k \in Keys : Show(i, k) \/ Rename(i, k) PROVE IInv'
  BY <1>3, TableChangesPreserve
<1>4. CASE UNCHANGED vars
  BY <1>4 DEF vars, IInv, TypeOK, Separates, NoneRepeated, After, Place, CursorPlace, Listed
<1> QED
  BY <1>1, <1>2, <1>3, <1>4 DEF Next

-----------------------------------------------------------------------------
(* The theorems.                                                           *)

\* The invariant holds in every reachable state.
THEOREM InvariantHolds == Spec => []IInv
BY InitEstablishes, NextPreserves, PTL DEF Spec

\* Cursors stay well formed, for any table and any sequence of requests.
THEOREM TypeCorrect == Spec => []TypeOK
<1>1. IInv => TypeOK
  BY DEF IInv
<1> QED
  BY <1>1, InvariantHolds, PTL

\* No client that keeps its parameters misses a row that stayed in its place, for
\* any number of rows with equal sort values and any changes between two pages.
THEOREM NothingIsSkipped == Spec => []NoneSkipped
<1>1. IInv => NoneSkipped
  BY DEF IInv, Separates, NoneSkipped
<1> QED
  BY <1>1, InvariantHolds, PTL

\* No such client is given such a row twice.
THEOREM NothingIsRepeated == Spec => []NoneRepeated
<1>1. IInv => NoneRepeated
  BY DEF IInv
<1> QED
  BY <1>1, InvariantHolds, PTL

\* Each of the other requests changes the table.
LEMMA TableChanges ==
  ASSUME TypeOK, NEW i \in Ids,
         Hide(i) \/ \E k \in Keys : Show(i, k) \/ Rename(i, k)
  PROVE  rows' # rows
<1>1. rows \in [Ids -> Row]
  BY DEF TypeOK
<1>2. CASE Hide(i)
  <2>1. rows'[i].listed = FALSE
    BY <1>1, <1>2 DEF Hide, Row
  <2> QED
    BY <2>1, <1>2 DEF Hide
<1>3. CASE \E k \in Keys : Show(i, k)
  <2>1. rows'[i].listed = TRUE
    BY <1>1, <1>3 DEF Show
  <2> QED
    BY <2>1, <1>3 DEF Show
<1>4. CASE \E k \in Keys : Rename(i, k)
  <2>1. PICK k \in Keys : Rename(i, k)
    BY <1>4
  <2>2. rows'[i].label = k
    BY <1>1, <2>1 DEF Rename, Row
  <2> QED
    BY <2>1, <2>2 DEF Rename
<1> QED
  BY <1>2, <1>3, <1>4

\* What a page asked for in the order of the walk does to cursor and history.
LEMMA SteadyPageDivides ==
  ASSUME IInv, [Next]_vars, steady', rows' = rows, vars' # vars, cursor' # NULL
  PROVE  /\ cursor # NULL => first' = first
         /\ cursor # NULL => Before(first.order, CursorPlace(cursor), CursorPlace(cursor'))
         /\ \E j \in Listed : Before(first'.order, CursorPlace(cursor'), Place(j, first'.sortBy))
<1>1. ASSUME NEW i \in Ids, Hide(i) \/ \E k \in Keys : Show(i, k) \/ Rename(i, k)
      PROVE  rows' # rows
  BY <1>1, TableChanges DEF IInv
<1>2. PICK o \in Orderings, n \in Limits : FirstPage(o, n) \/ NextPage(o, n)
  BY <1>1 DEF Next
<1>3. CASE FirstPage(o, n)
  <2>1. PICK items \in SUBSET Listed : Divides(o, NULL, {}, {}, items)
    <3>1. {} \in SUBSET Ids /\ NULL \in Cursor \cup {NULL}
      OBVIOUS
    <3> QED
      BY <1>3, <3>1, PageDivides DEF FirstPage
  <2> QED
    BY <2>1, <1>3 DEF FirstPage, Divides
<1>4. CASE NextPage(o, n)
  <2>1. /\ o = first /\ cursor \in Cursor
        /\ cursor.sortBy = IF o.sortBy = "id" THEN UNDEF ELSE o.sortBy
    BY <1>4, SteadyPage
  <2>2. seen \in SUBSET Ids /\ repeated \in SUBSET seen
    BY DEF IInv, TypeOK
  <2>3. PICK items \in SUBSET Listed : Divides(o, cursor, seen, repeated, items)
    BY <1>4, <2>1, <2>2, PageDivides DEF NextPage
  <2> QED
    BY <2>1, <2>3, <1>4 DEF NextPage, Divides
<1> QED
  BY <1>2, <1>3, <1>4

\* However the table changes, the cursors of a walk only move forward.
THEOREM WalksAdvance == Spec => CursorAdvances
<1>1. IInv /\ [Next]_vars =>
        [steady' /\ rows' = rows /\ cursor # NULL /\ cursor' # NULL
           => Before(first.order, CursorPlace(cursor), CursorPlace(cursor'))]_vars
  BY SteadyPageDivides
<1> QED
  BY <1>1, InvariantHolds, PTL DEF Spec, CursorAdvances

\* No page promises another that would be empty over the same table.
THEOREM CursorsLeadOn == Spec => CursorOnlyIfMore
<1>1. IInv /\ [Next]_vars =>
        [rows' = rows /\ cursor' # NULL /\ steady' => \E i \in Listed : After(i)']_vars
  <2> SUFFICES ASSUME IInv, [Next]_vars, vars' # vars,
                      rows' = rows, cursor' # NULL, steady'
               PROVE  \E i \in Listed : After(i)'
    OBVIOUS
  <2>1. PICK j \in Listed : Before(first'.order, CursorPlace(cursor'), Place(j, first'.sortBy))
    BY SteadyPageDivides
  <2>2. After(j)'
    BY <2>1 DEF After, CursorPlace, Place
  <2> QED
    BY <2>2
<1> QED
  BY <1>1, InvariantHolds, PTL DEF Spec, CursorOnlyIfMore
=============================================================================
