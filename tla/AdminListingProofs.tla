------------------------- MODULE AdminListingProofs -------------------------
(* Proofs about AdminListing, for any finite set of rows, any dates, marks,    *)
(* page sizes and number of changes.  A row's place is the number of listed    *)
(* rows that are newer: the invariant compares it with the number of rows the  *)
(* walk has asked for.                                                         *)
EXTENDS AdminListing, FiniteSetTheorems, TLAPS

USE IdsAssumption, DatesAssumption, MarksAssumption, MaxChangesAssumption,
    SizesAssumption, RowAssumption, QueriesAssumption

\* The rows of the list that are newer than row i.
Ahead(i) == {j \in Listed : Newer(j, i)}

\* The rows the walk has asked for.
Asked == IF "findMany" \in awaiting THEN Skip ELSE Skip + size

\* The rows a page gets of a list of n.
Fit(n) == IF n <= Skip THEN 0 ELSE IF n - Skip >= size THEN size ELSE n - Skip

\* A row that was given has its place before what will be asked for next, and no
\* row has its date, unless it sank or was tied.
GivenAreBehind ==
  \A i \in (seen \cap kept) \ (sunk \cup tied) :
    /\ Cardinality(Ahead(i)) < Asked
    /\ \A j \in Listed \ {i} : rows[j].createdAt # rows[i].createdAt

\* A row that was not given has its place beyond what was asked for, and the count tells
\* the client that there is more, unless the row rose, was tied or came late.
UngivenAreAhead ==
  \A i \in kept \ (seen \cup risen \cup tied) :
    /\ Cardinality(Ahead(i)) >= Asked
    /\ awaiting = {"findMany"} /\ i \notin late => total > Cardinality(Ahead(i))
    /\ awaiting = {} /\ i \notin late => total > Asked

\* Until the list changes, each answer agrees with the list, hence with the other.
AnswersFit ==
  ~torn =>
    /\ awaiting = {"findMany"} => total = Cardinality(Listed)
    /\ awaiting = {"count"} => Cardinality(items) = Fit(Cardinality(Listed))
    /\ awaiting = {} => Cardinality(items) = Fit(total)

\* The inductive invariant.
IInv == TypeOK /\ GivenAreBehind /\ UngivenAreAhead /\ AnswersFit /\ NoneRepeated

-----------------------------------------------------------------------------
(* Numbers.                                                                *)

LEMMA Products ==
  ASSUME NEW p \in Nat \ {0}, NEW s \in Nat \ {0}
  PROVE  /\ (p - 1) * s \in Nat
         /\ (p + 1 - 1) * s = (p - 1) * s + s
         /\ p * s = (p - 1) * s + s
  <1>1. \A a, b \in Nat : a * b \in Nat
    OBVIOUS
  <1>2. p - 1 \in Nat
    OBVIOUS
  <1>3. p * s = (p - 1) * s + s
    OBVIOUS
  <1> QED
    BY <1>1, <1>2, <1>3

\* Rounding up: n items do not fit p pages of s.
LEMMA RoundsUp ==
  ASSUME NEW p \in Nat \ {0}, NEW s \in Nat \ {0}, NEW n \in Nat, n > p * s
  PROVE  (n + s - 1) \div s > p
  <1> DEFINE q == (n + s - 1) \div s
  <1>1. q \in Int /\ n + s - 1 < s * q + s
    OBVIOUS
  <1>2. n <= s * q
    BY <1>1
  <1>3. q <= p => s * q <= s * p
    BY <1>1
  <1> QED
    BY <1>1, <1>2, <1>3

LEMMA Ranges ==
  ASSUME TypeOK
  PROVE  /\ IsFiniteSet(Listed) /\ Cardinality(Listed) \in Nat
         /\ \A S \in SUBSET Listed : IsFiniteSet(S) /\ Cardinality(S) \in Nat
         /\ \A i \in Ids : Ahead(i) \subseteq Listed /\ Cardinality(Ahead(i)) \in Nat
         /\ Skip \in Nat /\ Skip + size \in Nat /\ size \in Nat \ {0} /\ Asked \in Nat
         /\ \A i \in Listed : rows[i] \in Row /\ rows[i].createdAt \in Int
  <1>1. IsFiniteSet(Listed) /\ Cardinality(Listed) \in Nat
    BY FS_Subset, FS_CardinalityType DEF Listed
  <1>2. \A S \in SUBSET Listed : IsFiniteSet(S) /\ Cardinality(S) \in Nat
    BY <1>1, FS_Subset, FS_CardinalityType
  <1>3. size \in Nat \ {0} /\ page \in Nat \ {0}
    BY DEF TypeOK
  <1>4. Skip \in Nat
    BY <1>3, Products DEF Skip
  <1>5. \A i \in Listed : rows[i] \in Row /\ rows[i].createdAt \in Int
    BY DEF TypeOK, Listed, Exists, Row
  <1> QED
    BY <1>1, <1>2, <1>3, <1>4, <1>5 DEF Ahead, Asked

\* A row is not newer than itself, so its place is a place of the list.
LEMMA PlaceInList ==
  ASSUME TypeOK, NEW i \in Listed
  PROVE  Cardinality(Ahead(i)) < Cardinality(Listed)
  <1>1. i \notin Ahead(i)
    BY Ranges DEF Ahead, Newer
  <1>2. Ahead(i) \subseteq Listed /\ Ahead(i) # Listed
    BY <1>1 DEF Ahead
  <1> QED
    BY <1>2, Ranges, FS_Subset

-----------------------------------------------------------------------------
(* The steps of the walk.                                                  *)

LEMMA InitEstablishes == Init => IInv
  <1> SUFFICES ASSUME Init PROVE IInv
    OBVIOUS
  <1>1. \A i \in Ids : rows[i] = ABSENT \/ (rows[i] \in Row /\ (query.list = "users" => ~rows[i].deleted))
    BY DEF Init
  <1>2. TypeOK
    <2>1. rows \in [Ids -> Row \cup {ABSENT}]
      BY DEF Init
    <2>2. query.list = "users" => \A i \in Ids : Exists(i) => ~rows[i].deleted
      BY <1>1 DEF Exists
    <2>3. changes \in 0..MaxChanges /\ page \in Nat \ {0} /\ total \in Nat
      BY DEF Init
    <2> QED
      BY <2>1, <2>2, <2>3 DEF Init, TypeOK
  <1>3. Skip = 0 /\ Asked = 0
    BY <1>2, Ranges DEF Init, Skip, Asked, Statements
  <1>4. UngivenAreAhead
    BY <1>2, <1>3, Ranges DEF Init, UngivenAreAhead, Statements, TypeOK, Listed
  <1>5. AnswersFit /\ GivenAreBehind /\ NoneRepeated
    BY DEF Init, AnswersFit, GivenAreBehind, NoneRepeated, Statements
  <1> QED
    BY <1>2, <1>4, <1>5 DEF IInv

\* As many rows lead as were asked for, or all there are.
LEMMA LeadingNumber ==
  ASSUME TypeOK, NEW S, NEW n \in Nat, Leading(S, n)
  PROVE  /\ Cardinality(S) \in Nat
         /\ Cardinality(S) = IF Cardinality(Listed) >= n THEN n ELSE Cardinality(Listed)
  <1>1. S \in SUBSET Listed /\ Cardinality(S) \in Nat /\ Cardinality(Listed) \in Nat
    BY Ranges DEF Leading
  <1>2. Cardinality(S) <= Cardinality(Listed)
    BY <1>1, Ranges, FS_Subset
  <1> QED
    BY <1>1, <1>2 DEF Leading

\* Without a row of its date, a row is among the first n exactly if fewer than n are newer.
LEMMA LeadingPlace ==
  ASSUME TypeOK, NEW S, NEW n \in Nat, Leading(S, n), NEW i \in Listed,
         \A j \in Listed \ {i} : rows[j].createdAt # rows[i].createdAt
  PROVE  i \in S <=> Cardinality(Ahead(i)) < n
  <1>1. S \in SUBSET Listed /\ IsFiniteSet(S) /\ Cardinality(S) \in Nat
    BY Ranges DEF Leading
  <1>2. i \in Ids /\ Ahead(i) \subseteq Listed /\ Cardinality(Ahead(i)) \in Nat
    BY Ranges DEF Listed
  <1>3. IsFiniteSet(Ahead(i)) /\ i \notin Ahead(i)
    BY <1>2, Ranges DEF Ahead, Newer
  <1>4. ASSUME i \in S PROVE Cardinality(Ahead(i)) < n
    <2>1. Ahead(i) \subseteq S
      BY <1>4 DEF Ahead, Leading
    <2>2. Cardinality(Ahead(i)) <= Cardinality(S) /\ Ahead(i) # S
      BY <1>1, <1>3, <1>4, <2>1, FS_Subset
    <2>3. Cardinality(Ahead(i)) # Cardinality(S)
      BY <1>1, <2>1, <2>2, FS_Subset
    <2> QED
      BY <1>1, <1>2, <2>2, <2>3 DEF Leading
  <1>5. ASSUME i \notin S PROVE Cardinality(Ahead(i)) >= n
    <2>1. \A j \in S : ~Newer(i, j) /\ j \in Listed \ {i}
      BY <1>5 DEF Leading
    <2>2. S \subseteq Ahead(i)
      BY <2>1, Ranges DEF Ahead, Newer
    <2>3. Cardinality(S) <= Cardinality(Ahead(i))
      BY <1>3, <2>2, FS_Subset
    <2>4. Cardinality(S) = n
      BY <1>1, <1>5 DEF Leading
    <2> QED
      BY <1>2, <2>3, <2>4
  <1> QED
    BY <1>2, <1>4, <1>5

LEMMA FindManyPreserves ==
  ASSUME IInv, FindMany
  PROVE  IInv'
  <1>1. PICK passed \in SUBSET Listed, upTo \in SUBSET Listed :
          /\ passed \subseteq upTo
          /\ Leading(passed, Skip)
          /\ Leading(upTo, Skip + size)
          /\ items' = upTo \ passed
    BY DEF FindMany
  <1>2. TypeOK
    BY DEF IInv
  <1>3. /\ Listed' = Listed /\ Skip' = Skip /\ size' = size
        /\ \A i : Ahead(i)' = Ahead(i)
        /\ Asked = Skip /\ Asked' = Skip + size
    BY DEF FindMany, Listed, Exists, Ahead, Newer, Skip, Asked, request
  <1>4. TypeOK'
    BY <1>1, <1>2, <1>3 DEF FindMany, TypeOK, request, Exists, Listed
  <1>5. \A i \in Listed \ tied' : \A j \in Listed \ {i} : rows[j].createdAt # rows[i].createdAt
    BY DEF FindMany
  <1>6. \A i \in Listed \ tied' :
          i \in items' <=> Skip <= Cardinality(Ahead(i)) /\ Cardinality(Ahead(i)) < Skip + size
    BY <1>1, <1>2, <1>5, LeadingPlace, Ranges DEF Listed
  <1>7. kept' = kept /\ kept \subseteq Listed /\ sunk' = sunk /\ risen' = risen /\ late' = late
        /\ tied \subseteq tied' /\ seen' = seen \cup items' /\ rows' = rows /\ total' = total
        /\ repeated' = repeated \cup (seen \cap items')
    BY <1>2 DEF FindMany, TypeOK
  <1>8. GivenAreBehind'
    <2> SUFFICES ASSUME NEW i \in (seen' \cap kept') \ (sunk' \cup tied')
                 PROVE  /\ Cardinality(Ahead(i)) < Skip + size
                        /\ \A j \in Listed \ {i} : rows[j].createdAt # rows[i].createdAt
      BY <1>3, <1>7 DEF GivenAreBehind
    <2>1. i \in Listed /\ i \in Ids
      BY <1>7 DEF Listed
    <2>2. i \in seen => Cardinality(Ahead(i)) < Skip
      BY <1>3, <1>7 DEF IInv, GivenAreBehind
    <2> QED
      BY <1>2, <1>5, <1>6, <1>7, <2>1, <2>2, Ranges
  <1>9. UngivenAreAhead'
    <2> SUFFICES ASSUME NEW i \in kept \ (seen' \cup risen \cup tied')
                 PROVE  /\ Cardinality(Ahead(i)) >= Skip + size
                        /\ awaiting' # {"findMany"}
                        /\ awaiting' = {} /\ i \notin late => total > Skip + size
      BY <1>3, <1>7 DEF UngivenAreAhead
    <2>1. i \in Listed /\ i \in Ids /\ i \in kept \ (seen \cup risen \cup tied)
      BY <1>7 DEF Listed
    <2>2. Cardinality(Ahead(i)) >= Skip
      BY <1>3, <2>1 DEF IInv, UngivenAreAhead
    <2>3. Cardinality(Ahead(i)) >= Skip + size
      BY <1>2, <1>6, <1>7, <2>1, <2>2, Ranges
    <2>4. awaiting' = {} => awaiting = {"findMany"}
      BY DEF FindMany
    <2>5. awaiting' = {} /\ i \notin late => total > Cardinality(Ahead(i))
      BY <2>1, <2>4 DEF IInv, UngivenAreAhead
    <2>6. total \in Int
      BY <1>2 DEF TypeOK
    <2> QED
      BY <1>2, <2>1, <2>3, <2>5, <2>6, Ranges DEF FindMany
  <1>10. AnswersFit'
    <2>1. IsFiniteSet(upTo) /\ upTo \cap passed = passed
      BY <1>1, <1>2, Ranges
    <2>2. Cardinality(items') = Cardinality(upTo) - Cardinality(passed)
      BY <1>1, <2>1, FS_Difference
    <2>3. Cardinality(items') = Fit(Cardinality(Listed))
      BY <1>1, <1>2, <2>2, LeadingNumber, Ranges DEF Fit
    <2>4. \A n : Fit(n)' = Fit(n)
      BY <1>3 DEF Fit
    <2>5. awaiting' # {"findMany"} /\ (awaiting' = {} => awaiting = {"findMany"})
      BY DEF FindMany
    <2>6. torn' = torn
      BY DEF FindMany
    <2>7. ~torn /\ awaiting = {"findMany"} => total = Cardinality(Listed)
      BY DEF IInv, AnswersFit
    <2>8. Fit(total)' = Fit(total) /\ Fit(Cardinality(Listed))' = Fit(Cardinality(Listed))
      BY <1>3, <1>7 DEF Fit
    <2> QED
      BY <2>3, <2>5, <2>6, <2>7, <2>8 DEF AnswersFit
  <1>11. NoneRepeated'
    <2> SUFFICES ASSUME NEW i \in repeated' \cap kept, i \notin sunk, i \notin tied' PROVE FALSE
      BY <1>7 DEF NoneRepeated
    <2>1. i \in seen \cap items' /\ i \in Listed /\ i \in Ids
      BY <1>7 DEF IInv, NoneRepeated, Listed
    <2>2. Cardinality(Ahead(i)) < Skip
      BY <1>3, <1>7, <2>1 DEF IInv, GivenAreBehind
    <2> QED
      BY <1>2, <1>6, <2>1, <2>2, Ranges
  <1> QED
    BY <1>4, <1>8, <1>9, <1>10, <1>11 DEF IInv

LEMMA CountPreserves ==
  ASSUME IInv, Count
  PROVE  IInv'
  <1>1. TypeOK
    BY DEF IInv
  <1>2. /\ Listed' = Listed /\ Skip' = Skip /\ size' = size
        /\ \A i : Ahead(i)' = Ahead(i)
        /\ Asked' = Asked /\ total' = Cardinality(Listed)
    BY DEF Count, Counted, Listed, Exists, Ahead, Newer, Skip, Asked, request
  <1>3. TypeOK'
    BY <1>1, <1>2, Ranges DEF Count, TypeOK, request, Exists, Listed
  <1>4. GivenAreBehind' /\ NoneRepeated'
    BY <1>2 DEF Count, IInv, GivenAreBehind, NoneRepeated
  <1>5. UngivenAreAhead'
    <2> SUFFICES ASSUME NEW i \in kept \ (seen \cup risen \cup tied)
                 PROVE  /\ Cardinality(Ahead(i)) >= Asked
                        /\ Cardinality(Listed) > Cardinality(Ahead(i))
                        /\ Cardinality(Listed) > Asked
      BY <1>2 DEF UngivenAreAhead, Count
    <2>1. i \in Listed /\ i \in Ids
      BY <1>1 DEF TypeOK, Listed
    <2>2. Cardinality(Ahead(i)) >= Asked
      BY DEF IInv, UngivenAreAhead
    <2> QED
      BY <1>1, <2>1, <2>2, PlaceInList, Ranges
  <1>6. AnswersFit'
    <2>1. Fit(total)' = Fit(Cardinality(Listed))
      BY <1>2 DEF Fit
    <2>2. awaiting' # {"count"} /\ (awaiting' = {} => awaiting = {"count"})
      BY DEF Count
    <2> QED
      BY <1>2, <2>1, <2>2 DEF Count, IInv, AnswersFit
  <1> QED
    BY <1>3, <1>4, <1>5, <1>6 DEF IInv

LEMMA NextPagePreserves ==
  ASSUME IInv, NextPage
  PROVE  IInv'
  <1>1. TypeOK
    BY DEF IInv
  <1>2. /\ Listed' = Listed /\ size' = size /\ page' = page + 1
        /\ \A i : Ahead(i)' = Ahead(i)
        /\ awaiting = {} /\ awaiting' = Statements
    BY DEF NextPage, Answered, Listed, Exists, Ahead, Newer, request
  <1>3. Asked' = Asked
    BY <1>1, <1>2, Products DEF Asked, Skip, Statements, TypeOK
  <1>4. TypeOK'
    <2>1. page' \in Nat \ {0} /\ total' \in Nat
      BY <1>1, <1>2 DEF NextPage, TypeOK
    <2>2. \A i : Exists(i)' = Exists(i)
      BY DEF NextPage, Exists
    <2> QED
      BY <1>1, <1>2, <2>1, <2>2 DEF NextPage, TypeOK
  <1>5. GivenAreBehind' /\ NoneRepeated'
    BY <1>2, <1>3 DEF NextPage, IInv, GivenAreBehind, NoneRepeated
  <1>6. UngivenAreAhead' /\ AnswersFit'
    BY <1>2, <1>3 DEF NextPage, IInv, UngivenAreAhead, AnswersFit, Statements
  <1> QED
    BY <1>4, <1>5, <1>6 DEF IInv

-----------------------------------------------------------------------------
(* The steps of others.                                                    *)

\* A row that is there keeps its date.
SameDate(i, r) == Exists(i) => r.createdAt = rows[i].createdAt

Leaves(i, r) == i \in Listed /\ ~Where(query, r)

Joins(i, r) == i \notin Listed /\ Where(query, r)

\* What a write does to the list and to the places of the rows that stay.
LEMMA WriteMoves ==
  ASSUME TypeOK, NEW i \in Ids, NEW r \in Row, SameDate(i, r), Write(i, r)
  PROVE  /\ Listed' = IF Leaves(i, r) THEN Listed \ {i}
                      ELSE IF Joins(i, r) THEN Listed \cup {i} ELSE Listed
         /\ \A k \in Listed \ {i} :
              /\ rows'[k] = rows[k]
              /\ k \notin risen' => Ahead(k) \subseteq Ahead(k)'
              /\ k \notin sunk' => Ahead(k)' \subseteq Ahead(k)
              /\ awaiting = {"findMany"} /\ k \notin late' => Ahead(k)' \subseteq Ahead(k)
         /\ i \in Listed /\ ~Leaves(i, r) => Ahead(i)' = Ahead(i) /\ rows'[i].createdAt = rows[i].createdAt
  <1>1. rows' = [rows EXCEPT ![i] = r] /\ query' = query
    BY DEF Write, request
  <1>2. rows'[i] = r /\ \A k \in Ids \ {i} : rows'[k] = rows[k]
    BY <1>1 DEF TypeOK
  <1>3. r # ABSENT /\ r.createdAt \in Int
    BY DEF Row
  <1>4. \A k \in Ids \ {i} : k \in Listed' <=> k \in Listed
    BY <1>1, <1>2 DEF Listed, Exists
  <1>5. i \in Listed' <=> Where(query, r)
    BY <1>1, <1>2, <1>3 DEF Listed, Exists
  <1>6. Listed \subseteq Ids /\ Listed' \subseteq Ids
    BY DEF Listed
  <1>7. Listed' = IF Leaves(i, r) THEN Listed \ {i}
                  ELSE IF Joins(i, r) THEN Listed \cup {i} ELSE Listed
    BY <1>4, <1>5, <1>6 DEF Leaves, Joins
  <1>8. \A k \in Listed : rows[k].createdAt \in Int
    BY Ranges
  <1>9. i \in Listed => rows[i].createdAt = r.createdAt
    BY DEF SameDate, Listed
  <1>10. ASSUME NEW k \in Listed \ {i}
         PROVE  /\ rows'[k] = rows[k]
                /\ k \notin risen' => Ahead(k) \subseteq Ahead(k)'
                /\ k \notin sunk' => Ahead(k)' \subseteq Ahead(k)
                /\ awaiting = {"findMany"} /\ k \notin late' => Ahead(k)' \subseteq Ahead(k)
    <2>1. rows'[k] = rows[k]
      BY <1>2, <1>6
    <2>2. \A j \in Listed \ {i} : Newer(j, k)' <=> Newer(j, k)
      BY <1>2, <1>6, <2>1 DEF Newer
    <2>3. Newer(i, k)' <=> r.createdAt > rows[k].createdAt
      BY <1>2, <2>1 DEF Newer
    <2>4. Leaves(i, r) /\ rows[k].createdAt <= r.createdAt => k \in risen'
      BY DEF Write, Leaves
    <2>5. /\ Joins(i, r) /\ rows[k].createdAt <= r.createdAt => k \in sunk'
          /\ Joins(i, r) /\ rows[k].createdAt <= r.createdAt /\ awaiting = {"findMany"} => k \in late'
      BY DEF Write, Joins
    <2>6. ASSUME k \notin risen' PROVE Ahead(k) \subseteq Ahead(k)'
      <3> SUFFICES ASSUME NEW j \in Listed, Newer(j, k) PROVE j \in Listed' /\ Newer(j, k)'
        BY DEF Ahead
      <3>1. CASE j # i
        BY <1>7, <2>2, <3>1
      <3>2. CASE j = i
        <4>1. r.createdAt > rows[k].createdAt
          BY <1>9, <3>2 DEF Newer
        <4>2. ~Leaves(i, r)
          BY <1>3, <1>8, <2>4, <2>6, <4>1
        <4> QED
          BY <1>7, <2>3, <3>2, <4>1, <4>2
      <3> QED
        BY <3>1, <3>2
    <2>7. ASSUME k \notin sunk' \/ (awaiting = {"findMany"} /\ k \notin late')
          PROVE  Ahead(k)' \subseteq Ahead(k)
      <3> SUFFICES ASSUME NEW j \in Listed', Newer(j, k)' PROVE j \in Listed /\ Newer(j, k)
        BY DEF Ahead
      <3>1. CASE j # i
        BY <1>4, <1>6, <2>2, <3>1
      <3>2. CASE j = i
        <4>1. r.createdAt > rows[k].createdAt
          BY <2>3, <3>2
        <4>2. ~Joins(i, r)
          BY <1>3, <1>8, <2>5, <2>7, <4>1
        <4> QED
          BY <1>7, <1>9, <3>2, <4>1, <4>2 DEF Newer, Leaves
      <3> QED
        BY <3>1, <3>2
    <2> QED
      BY <2>1, <2>6, <2>7
  <1>11. ASSUME i \in Listed, ~Leaves(i, r)
         PROVE  Ahead(i)' = Ahead(i) /\ rows'[i].createdAt = rows[i].createdAt
    <2>1. Listed' = Listed
      BY <1>7, <1>11 DEF Joins
    <2>2. \A j \in Listed : rows'[j].createdAt = rows[j].createdAt
      BY <1>2, <1>6, <1>9
    <2> QED
      BY <1>11, <2>1, <2>2 DEF Ahead, Newer
  <1> QED
    BY <1>7, <1>10, <1>11

LEMMA WriteKeepsTypes ==
  ASSUME TypeOK, NEW i \in Ids, NEW r \in Row, SameDate(i, r), Write(i, r),
         query.list = "users" => ~r.deleted
  PROVE  TypeOK'
  <1>1. rows' = [rows EXCEPT ![i] = r] /\ query' = query /\ size' = size /\ page' = page
        /\ awaiting' = awaiting /\ items' = items /\ total' = total /\ seen' = seen
        /\ repeated' = repeated /\ tied' = tied
    BY DEF Write, request, answers
  <1>2. rows' \in [Ids -> Row \cup {ABSENT}]
    BY <1>1 DEF TypeOK
  <1>3. query.list = "users" => \A k \in Ids : Exists(k)' => ~rows'[k].deleted
    BY <1>1 DEF TypeOK, Exists
  <1>4. changes' \in 0..MaxChanges
    BY DEF Write, TypeOK
  <1>5. kept' \subseteq Listed'
    <2>1. kept' = IF Leaves(i, r) THEN kept \ {i} ELSE kept
      BY DEF Write, Leaves
    <2>2. kept \subseteq Listed
      BY DEF TypeOK
    <2>3. Listed' = IF Leaves(i, r) THEN Listed \ {i}
                    ELSE IF Joins(i, r) THEN Listed \cup {i} ELSE Listed
      BY WriteMoves
    <2> QED
      BY <2>1, <2>2, <2>3 DEF Leaves
  <1>6. risen' \subseteq Ids /\ sunk' \subseteq Ids /\ late' \subseteq sunk' /\ torn' \in BOOLEAN
    BY DEF Write, TypeOK, Listed
  <1> QED
    BY <1>1, <1>2, <1>3, <1>4, <1>5, <1>6 DEF TypeOK

LEMMA WritePreserves ==
  ASSUME IInv, NEW i \in Ids, NEW r \in Row, SameDate(i, r), Write(i, r),
         query.list = "users" => ~r.deleted
  PROVE  IInv'
  <1>1. TypeOK /\ TypeOK'
    BY WriteKeepsTypes DEF IInv
  <1>2. /\ size' = size /\ page' = page /\ awaiting' = awaiting /\ items' = items
        /\ total' = total /\ seen' = seen /\ repeated' = repeated /\ tied' = tied
    BY DEF Write, request, answers
  <1>3. Skip' = Skip /\ Asked' = Asked
    BY <1>2 DEF Skip, Asked
  <1>4. /\ kept' = IF Leaves(i, r) THEN kept \ {i} ELSE kept
        /\ risen \subseteq risen' /\ sunk \subseteq sunk' /\ late \subseteq late'
    BY DEF Write, Leaves
  <1>5. kept \subseteq Listed /\ kept' \subseteq Listed' /\ Listed \subseteq Ids
    BY <1>1 DEF TypeOK, Listed
  <1>6. \A k \in kept' : Cardinality(Ahead(k)) \in Nat /\ Cardinality(Ahead(k)') \in Nat
                         /\ IsFiniteSet(Ahead(k)) /\ IsFiniteSet(Ahead(k)')
    <2>1. \A k : Ahead(k) \subseteq Listed /\ Ahead(k)' \subseteq Listed'
      BY DEF Ahead
    <2>2. \A S \in SUBSET Listed : IsFiniteSet(S) /\ Cardinality(S) \in Nat
      BY <1>1, Ranges
    <2>3. \A S \in SUBSET Listed' : IsFiniteSet(S) /\ Cardinality(S) \in Nat
      <3>1. IsFiniteSet(Listed')
        BY FS_Subset DEF Listed
      <3> QED
        BY <3>1, FS_Subset, FS_CardinalityType
    <2> QED
      BY <2>1, <2>2, <2>3
  <1>7. \A k \in kept' :
          /\ k \notin risen' => Cardinality(Ahead(k)) <= Cardinality(Ahead(k)')
          /\ k \notin sunk' => Cardinality(Ahead(k)') <= Cardinality(Ahead(k))
          /\ awaiting = {"findMany"} /\ k \notin late' =>
               Cardinality(Ahead(k)') <= Cardinality(Ahead(k))
    <2> SUFFICES ASSUME NEW k \in kept'
                 PROVE  /\ k \notin risen' => Cardinality(Ahead(k)) <= Cardinality(Ahead(k)')
                        /\ k \notin sunk' => Cardinality(Ahead(k)') <= Cardinality(Ahead(k))
                        /\ awaiting = {"findMany"} /\ k \notin late' =>
                             Cardinality(Ahead(k)') <= Cardinality(Ahead(k))
      OBVIOUS
    <2>1. k \in Listed /\ (k = i => ~Leaves(i, r))
      BY <1>4, <1>5
    <2>2. /\ k \notin risen' => Ahead(k) \subseteq Ahead(k)'
          /\ k \notin sunk' => Ahead(k)' \subseteq Ahead(k)
          /\ awaiting = {"findMany"} /\ k \notin late' => Ahead(k)' \subseteq Ahead(k)
      BY <1>1, <2>1, WriteMoves
    <2> QED
      BY <1>6, <2>2, FS_Subset
  <1>8. GivenAreBehind'
    <2> SUFFICES ASSUME NEW k \in (seen \cap kept') \ (sunk' \cup tied)
                 PROVE  /\ Cardinality(Ahead(k)') < Asked
                        /\ \A j \in Listed' \ {k} : rows'[j].createdAt # rows'[k].createdAt
      BY <1>2, <1>3 DEF GivenAreBehind
    <2>1. /\ Cardinality(Ahead(k)) < Asked
          /\ \A j \in Listed \ {k} : rows[j].createdAt # rows[k].createdAt
      BY <1>4 DEF IInv, GivenAreBehind
    <2>2. Cardinality(Ahead(k)') < Asked
      BY <1>1, <1>6, <1>7, <2>1, Ranges
    <2>3. k \in Listed /\ (k = i => ~Leaves(i, r))
      BY <1>4, <1>5
    <2>4. \A j \in Listed \cap Listed' : rows'[j].createdAt = rows[j].createdAt
      BY <1>1, WriteMoves
    <2>5. k \in Listed'
      BY <1>5
    <2>6. ASSUME Joins(i, r) PROVE rows'[i].createdAt # rows'[k].createdAt
      <3>1. rows'[i] = r /\ k # i /\ rows[k].createdAt \in Int /\ r.createdAt \in Int
        BY <1>1, <2>3, <2>6, Ranges DEF Write, Joins, TypeOK, Row
      <3>2. ~(rows[k].createdAt <= r.createdAt)
        BY <2>3, <2>6, <3>1 DEF Write, Joins
      <3> QED
        BY <2>3, <2>4, <2>5, <3>1, <3>2
    <2>7. ASSUME NEW j \in Listed' \ {k} PROVE rows'[j].createdAt # rows'[k].createdAt
      <3>1. j \in Listed \/ (j = i /\ Joins(i, r))
        BY <1>1, WriteMoves
      <3> QED
        BY <2>1, <2>3, <2>4, <2>5, <2>6, <3>1
    <2> QED
      BY <2>2, <2>7
  <1>9. UngivenAreAhead'
    <2> SUFFICES ASSUME NEW k \in kept' \ (seen \cup risen' \cup tied)
                 PROVE  /\ Cardinality(Ahead(k)') >= Asked
                        /\ awaiting = {"findMany"} /\ k \notin late' => total > Cardinality(Ahead(k)')
                        /\ awaiting = {} /\ k \notin late' => total > Asked
      BY <1>2, <1>3 DEF UngivenAreAhead
    <2>1. /\ Cardinality(Ahead(k)) >= Asked
          /\ awaiting = {"findMany"} /\ k \notin late => total > Cardinality(Ahead(k))
          /\ awaiting = {} /\ k \notin late => total > Asked
      BY <1>4 DEF IInv, UngivenAreAhead
    <2>2. total \in Nat /\ Asked \in Nat
      BY <1>1, Ranges DEF TypeOK
    <2> QED
      BY <1>4, <1>6, <1>7, <2>1, <2>2
  <1>10. AnswersFit'
    <2>1. CASE ~Leaves(i, r) /\ ~Joins(i, r)
      <3>0. ~torn' => ~torn
        BY DEF Write
      <3>1. Listed' = Listed
        BY <1>1, <2>1, WriteMoves
      <3>2. Fit(total)' = Fit(total) /\ Fit(Cardinality(Listed))' = Fit(Cardinality(Listed))
        BY <1>2, <1>3, <3>1 DEF Fit
      <3> QED
        BY <1>2, <3>0, <3>1, <3>2 DEF IInv, AnswersFit
    <2>2. CASE Leaves(i, r) \/ Joins(i, r)
      <3>1. awaiting \in {{"findMany"}, {"count"}} => Cardinality(awaiting) = 1
        BY FS_Singleton
      <3>2. awaiting \in {{"findMany"}, {"count"}} => torn'
        BY <2>2, <3>1 DEF Write, Leaves, Joins
      <3>3. ~torn' => ~torn
        BY DEF Write
      <3>4. Fit(total)' = Fit(total)
        BY <1>2, <1>3 DEF Fit
      <3> QED
        BY <1>2, <3>2, <3>3, <3>4 DEF IInv, AnswersFit
    <2> QED
      BY <2>1, <2>2
  <1>11. NoneRepeated'
    BY <1>2, <1>4 DEF IInv, NoneRepeated
  <1> QED
    BY <1>1, <1>8, <1>9, <1>10, <1>11 DEF IInv

LEMMA NextPreserves == IInv /\ [Next]_vars => IInv'
  <1> SUFFICES ASSUME IInv, [Next]_vars PROVE IInv'
    OBVIOUS
  <1>0. TypeOK
    BY DEF IInv
  <1>1. CASE FindMany \/ Count \/ NextPage
    BY <1>1, FindManyPreserves, CountPreserves, NextPagePreserves
  <1>2. ASSUME NEW i \in Ids, NEW m \in Marks, Alter(i, m) PROVE IInv'
    <2>1. rows[i] \in Row
      BY <1>0, <1>2 DEF Alter, TypeOK, Exists
    <2>2. PICK r \in Row : r = [rows[i] EXCEPT !.mark = m]
      BY <2>1 DEF Row
    <2>3. r.createdAt = rows[i].createdAt /\ r.deleted = rows[i].deleted
      BY <2>1, <2>2 DEF Row
    <2> QED
      BY <1>2, <2>2, <2>3, WritePreserves DEF Alter, SameDate
  <1>3. ASSUME NEW i \in Ids, NEW m \in Marks, NEW k \in Dates, Create(i, m, k) PROVE IInv'
    <2>1. PICK r \in Row : r = [deleted |-> FALSE, mark |-> m, createdAt |-> k]
      BY DEF Row
    <2> QED
      BY <1>3, <2>1, WritePreserves DEF Create, SameDate
  <1>4. ASSUME NEW i \in Ids, SoftDelete(i) PROVE IInv'
    <2>1. rows[i] \in Row /\ query.list # "users"
      BY <1>0, <1>4 DEF SoftDelete, TypeOK, Exists, SoftDeletable
    <2>2. PICK r \in Row : r = [rows[i] EXCEPT !.deleted = TRUE]
      BY <2>1 DEF Row
    <2>3. r.createdAt = rows[i].createdAt
      BY <2>1, <2>2 DEF Row
    <2> QED
      BY <1>4, <2>1, <2>2, <2>3, WritePreserves DEF SoftDelete, SameDate
  <1>5. ASSUME NEW i \in Ids, Restore(i) PROVE IInv'
    <2>1. rows[i] \in Row /\ query.list # "users"
      BY <1>0, <1>5 DEF Restore, TypeOK, Exists
    <2>2. PICK r \in Row : r = [rows[i] EXCEPT !.deleted = FALSE]
      BY <2>1 DEF Row
    <2>3. r.createdAt = rows[i].createdAt
      BY <2>1, <2>2 DEF Row
    <2> QED
      BY <1>5, <2>1, <2>2, <2>3, WritePreserves DEF Restore, SameDate
  <1>6. CASE UNCHANGED vars
    <2>1. /\ \A i : Exists(i)' = Exists(i)
          /\ Listed' = Listed /\ Asked' = Asked
          /\ \A i : Ahead(i)' = Ahead(i)
      BY <1>6 DEF vars, Listed, Exists, Ahead, Newer, Asked, Skip
    <2>2. Fit(total)' = Fit(total) /\ Fit(Cardinality(Listed))' = Fit(Cardinality(Listed))
      BY <1>6, <2>1 DEF vars, Fit, Skip
    <2>3. TypeOK'
      BY <1>0, <1>6, <2>1 DEF vars, TypeOK
    <2>4. GivenAreBehind' /\ UngivenAreAhead'
      BY <1>6, <2>1 DEF vars, IInv, GivenAreBehind, UngivenAreAhead
    <2>5. AnswersFit' /\ NoneRepeated'
      BY <1>6, <2>1, <2>2 DEF vars, IInv, AnswersFit, NoneRepeated
    <2> QED
      BY <2>3, <2>4, <2>5 DEF IInv
  <1> QED
    BY <1>1, <1>2, <1>3, <1>4, <1>5, <1>6 DEF Next

-----------------------------------------------------------------------------
(* Theorems.                                                               *)

\* The invariant of a walk: what was given lies behind, what was not ahead, of the rows
\* asked for, and answers fit the list they were read from (findAdmin's skip and take).
THEOREM InvariantHolds == Spec => []IInv
  BY InitEstablishes, NextPreserves, PTL DEF Spec

\* The table, the request and the history hold values of their types; users are never
\* deleted.
THEOREM TypeCorrect == Spec => []TypeOK
  <1>1. IInv => TypeOK
    BY DEF IInv
  <1> QED
    BY <1>1, InvariantHolds, PTL

\* For any number of rows, changes and pages: a walk that ends has been given every row
\* that stayed in the list, but for those that rose, came late or shared a date.
THEOREM NothingIsMissed == Spec => []NoneMissed
  <1>1. IInv => NoneMissed
    <2> SUFFICES ASSUME IInv, Over, NEW i \in kept \ (seen \cup risen \cup tied), i \notin late
                 PROVE  FALSE
      BY DEF NoneMissed
    <2>1. total > Skip + size
      BY DEF IInv, UngivenAreAhead, Over, Answered, Asked
    <2>2. page \in Nat \ {0} /\ size \in Nat \ {0} /\ total \in Nat
      BY DEF IInv, TypeOK
    <2>3. total > page * size
      BY <2>1, <2>2, Products DEF Skip
    <2> QED
      BY <2>2, <2>3, RoundsUp DEF Over, TotalPages
  <1> QED
    BY <1>1, InvariantHolds, PTL

\* Nor is it given a row twice that stayed, but for those that sank or shared a date.
THEOREM NothingIsRepeated == Spec => []NoneRepeated
  <1>1. IInv => NoneRepeated
    BY DEF IInv
  <1> QED
    BY <1>1, InvariantHolds, PTL

\* Page and total agree whenever the list did not change between the two statements.
THEOREM TotalsFit == Spec => []TotalFitsPage
  <1>1. IInv => TotalFitsPage
    BY DEF IInv, AnswersFit, TotalFitsPage, Answered, Fit
  <1> QED
    BY <1>1, InvariantHolds, PTL

=============================================================================
