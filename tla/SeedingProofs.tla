---------------------------- MODULE SeedingProofs ----------------------------
(* Theorems about the seed script, for any fixtures, any number of runs at    *)
(* once and any number of writes of the server.  First what the script is as  *)
(* a sequence of statements, then what a run leaves to do at each of them.    *)
EXTENDS Seeding, FiniteSetTheorems, SequenceTheorems, TLAPS

-----------------------------------------------------------------------------
(* Sequences.                                                              *)

\* Induction over the naturals, as a fact about sets.
LEMMA NatSet ==
  ASSUME NEW S, 0 \in S, \A n \in Nat : n \in S => n + 1 \in S
  PROVE  Nat \subseteq S
  <1> SUFFICES ASSUME Nat \ S # {} PROVE FALSE
    OBVIOUS
  <1>1. PICK x \in Nat \ S : \A y \in Nat \ S : <<y, x>> \notin OpToRel(<, Nat)
    BY NatLessThanWellFounded, WFMin
  <1>2. x # 0 /\ x - 1 \in Nat /\ x - 1 \notin S
    <2>1. x # 0
      OBVIOUS
    <2>2. x - 1 \in Nat /\ (x - 1) + 1 = x
      BY <2>1
    <2> QED
      BY <2>1, <2>2
  <1>3. <<x - 1, x>> \in OpToRel(<, Nat)
    BY <1>2 DEF OpToRel
  <1> QED
    BY <1>1, <1>2, <1>3

\* The recursion in FlattenSeq defines a function.
LEMMA FlattenDefined ==
  ASSUME NEW seqs, NEW n \in Nat
  PROVE  \E f : f = [i \in 1 .. n |-> IF i = 1 THEN seqs[i] ELSE f[i - 1] \o seqs[i]]
  <1> DEFINE Defines(f, m) == f = [i \in 1 .. m |-> IF i = 1 THEN seqs[i] ELSE f[i - 1] \o seqs[i]]
             S == {m \in Nat : \E f : Defines(f, m)}
  <1>1. 0 \in S
    <2>1. Defines([i \in 1 .. 0 |-> i], 0)
      OBVIOUS
    <2> QED
      BY <2>1
  <1>2. ASSUME NEW m \in Nat, m \in S PROVE m + 1 \in S
    <2>1. PICK f : Defines(f, m)
      BY <1>2
    <2> DEFINE last == IF m + 1 = 1 THEN seqs[m + 1] ELSE f[m] \o seqs[m + 1]
               g == [i \in 1 .. m + 1 |-> IF i = m + 1 THEN last ELSE f[i]]
    <2>2. \A i \in 1 .. m : f[i] = IF i = 1 THEN seqs[i] ELSE f[i - 1] \o seqs[i]
      BY <2>1
    <2>3. \A i \in 1 .. m : g[i] = f[i]
      OBVIOUS
    <2>4. g[m + 1] = IF m + 1 = 1 THEN seqs[m + 1] ELSE g[m] \o seqs[m + 1]
      <3>1. m + 1 # 1 => m \in 1 .. m
        OBVIOUS
      <3> QED
        BY <3>1
    <2>5. \A i \in 1 .. m + 1 : g[i] = IF i = 1 THEN seqs[i] ELSE g[i - 1] \o seqs[i]
      <3> TAKE i \in 1 .. m + 1
      <3>1. CASE i = m + 1
        BY <2>4, <3>1
      <3>2. CASE i # m + 1
        <4>1. i \in 1 .. m /\ (i # 1 => i - 1 \in 1 .. m)
          BY <3>2
        <4> HIDE DEF g
        <4> QED
          BY <2>2, <2>3, <4>1
      <3> QED
        BY <3>1, <3>2
    <2>6. DOMAIN g = 1 .. m + 1 /\ g = [i \in DOMAIN g |-> g[i]]
      OBVIOUS
    <2> DEFINE body(i) == IF i = 1 THEN seqs[i] ELSE g[i - 1] \o seqs[i]
    <2>7. Defines(g, m + 1)
      <3>1. \A i \in 1 .. m + 1 : g[i] = body(i)
        BY <2>5
      <3>2. g = [i \in 1 .. m + 1 |-> body(i)]
        <4> HIDE DEF g, body
        <4> QED
          BY <2>6, <3>1
      <3> HIDE DEF g
      <3> QED
        BY <3>2
    <2> HIDE DEF g, Defines
    <2> QED
      BY <2>7
  <1>3. n \in S
    <2> HIDE DEF S
    <2> QED
      BY <1>1, <1>2, NatSet
  <1> QED
    BY <1>3

\* flat is the first m of seqs one after the other, the i-th after position off[i].
Lays(flat, seqs, m, off) ==
  /\ off \in [1 .. m -> Nat]
  /\ \A i \in 1 .. m : \A j \in DOMAIN seqs[i] :
       off[i] + j \in DOMAIN flat /\ flat[off[i] + j] = seqs[i][j]
  /\ \A k \in DOMAIN flat : \E i \in 1 .. m : \E j \in DOMAIN seqs[i] : k = off[i] + j

LEMMA Flattened ==
  ASSUME NEW S, NEW seqs \in Seq(Seq(S))
  PROVE  /\ FlattenSeq(seqs) \in Seq(S)
         /\ \E off : Lays(FlattenSeq(seqs), seqs, Len(seqs), off)
  <1> DEFINE n == Len(seqs)
  <1>1. n \in Nat /\ DOMAIN seqs = 1 .. n /\ \A i \in 1 .. n : seqs[i] \in Seq(S)
    BY LenProperties, ElementOfSeq
  <1>2. CASE n = 0
    <2>1. seqs = << >> /\ FlattenSeq(seqs) = << >>
      BY <1>2, EmptySeq DEF FlattenSeq
    <2>2. << >> \in Seq(S) /\ DOMAIN << >> = {}
      BY EmptySeq
    <2>3. Lays(FlattenSeq(seqs), seqs, 0, [i \in 1 .. 0 |-> 0])
      BY <2>1, <2>2 DEF Lays
    <2> QED
      BY <1>2, <2>1, <2>2, <2>3
  <1>3. CASE n # 0
    <2> DEFINE IsFlatten(f) == f = [i \in 1 .. n |-> IF i = 1 THEN seqs[i] ELSE f[i - 1] \o seqs[i]]
               flatten == CHOOSE f : IsFlatten(f)
    <2>1. FlattenSeq(seqs) = flatten[n]
      BY <1>3 DEF FlattenSeq
    <2>2. IsFlatten(flatten)
      <3>1. \E f : IsFlatten(f)
        BY <1>1, FlattenDefined
      <3> HIDE DEF IsFlatten
      <3> QED
        BY <3>1
    <2> HIDE DEF flatten, n
    <2>3. \A i \in 1 .. n : flatten[i] = IF i = 1 THEN seqs[i] ELSE flatten[i - 1] \o seqs[i]
      BY <2>2
    <2> DEFINE Laid(m) == /\ flatten[m] \in Seq(S)
                          /\ \E off : Lays(flatten[m], seqs, m, off)
               T == {m \in Nat : m + 1 <= n => Laid(m + 1)}
    <2>4. 0 \in T
      <3>1. flatten[1] = seqs[1]
        BY <1>1, <1>3, <2>3, SMTT(30)
      <3>2. seqs[1] \in Seq(S)
        BY <1>1, <1>3
      <3>3. DOMAIN seqs[1] = 1 .. Len(seqs[1]) /\ Len(seqs[1]) \in Nat
        BY <3>2, LenProperties
      <3> DEFINE off == [i \in 1 .. 1 |-> 0]
      <3>4. off \in [1 .. 1 -> Nat] /\ off[1] = 0 /\ 1 \in 1 .. 1 /\ \A i \in 1 .. 1 : i = 1
        OBVIOUS
      <3> HIDE DEF off
      <3>5. \A j \in DOMAIN seqs[1] : off[1] + j = j
        BY <3>3, <3>4
      <3>6. Lays(seqs[1], seqs, 1, off)
        BY <3>4, <3>5 DEF Lays
      <3>7. Laid(1)
        BY <3>1, <3>2, <3>6
      <3> QED
        BY <3>7
    <2>5. ASSUME NEW m \in Nat, m \in T PROVE m + 1 \in T
      <3> SUFFICES ASSUME (m + 1) + 1 <= n PROVE Laid((m + 1) + 1)
        <4> HIDE DEF Laid
        <4> QED
          OBVIOUS
      <3> DEFINE b == m + 1
                 c == (m + 1) + 1
                 s == flatten[b]
                 t == seqs[c]
      <3>1. Laid(b)
        <4>1. m + 1 <= n
          BY <1>1
        <4> HIDE DEF Laid
        <4> QED
          BY <2>5, <4>1
      <3>2. b \in 1 .. n /\ c \in 1 .. n /\ c # 1 /\ c - 1 = b /\ c \notin 1 .. b
        BY <1>1
      <3>3. flatten[c] = s \o t
        BY <2>3, <3>2
      <3>4. s \in Seq(S) /\ t \in Seq(S)
        BY <1>1, <3>1, <3>2
      <3>5. /\ s \o t \in Seq(S) /\ Len(s \o t) = Len(s) + Len(t)
            /\ \A i \in 1 .. Len(s) + Len(t) :
                 (s \o t)[i] = IF i <= Len(s) THEN s[i] ELSE t[i - Len(s)]
        BY <3>4, ConcatProperties
      <3>6. /\ Len(s) \in Nat /\ Len(t) \in Nat /\ DOMAIN s = 1 .. Len(s) /\ DOMAIN t = 1 .. Len(t)
            /\ DOMAIN (s \o t) = 1 .. Len(s) + Len(t)
        BY <3>4, <3>5, LenProperties
      <3>7. PICK off : Lays(s, seqs, b, off)
        BY <3>1
      <3> DEFINE new == [i \in 1 .. c |-> IF i = c THEN Len(s) ELSE off[i]]
      <3>8. new \in [1 .. c -> Nat] /\ new[c] = Len(s) /\ \A i \in 1 .. b : new[i] = off[i]
        BY <3>2, <3>6, <3>7 DEF Lays
      <3>9. \A i \in 1 .. c : i \in 1 .. b \/ i = c
        BY <3>2
      <3> HIDE DEF s, t, b, c, new
      <3>10. ASSUME NEW i \in 1 .. c, NEW j \in DOMAIN seqs[i]
             PROVE  new[i] + j \in DOMAIN (s \o t) /\ (s \o t)[new[i] + j] = seqs[i][j]
        <4>1. CASE i = c
          <5>1. j \in 1 .. Len(t) /\ new[i] = Len(s)
            BY <3>6, <3>8, <4>1 DEF t
          <5>2. new[i] + j \in 1 .. Len(s) + Len(t) /\ ~(new[i] + j <= Len(s))
                /\ (new[i] + j) - Len(s) = j
            BY <3>6, <5>1, SMTT(30)
          <5> QED
            BY <3>5, <3>6, <4>1, <5>1, <5>2 DEF t
        <4>2. CASE i \in 1 .. b
          <5>1. new[i] + j \in 1 .. Len(s) /\ s[new[i] + j] = seqs[i][j]
            BY <3>6, <3>7, <3>8, <4>2 DEF Lays
          <5> QED
            BY <3>5, <3>6, <5>1
        <4> QED
          BY <3>9, <4>1, <4>2
      <3>11. ASSUME NEW k \in DOMAIN (s \o t)
             PROVE  \E i \in 1 .. c : \E j \in DOMAIN seqs[i] : k = new[i] + j
        <4>1. k \in 1 .. Len(s) + Len(t)
          BY <3>6
        <4>2. CASE k <= Len(s)
          <5>1. k \in DOMAIN s
            BY <3>6, <4>1, <4>2
          <5>2. PICK i \in 1 .. b : \E j \in DOMAIN seqs[i] : k = off[i] + j
            BY <3>7, <5>1 DEF Lays
          <5>3. i \in 1 .. c
            BY <3>2 DEF b, c
          <5> QED
            BY <3>8, <5>2, <5>3
        <4>3. CASE ~(k <= Len(s))
          <5>1. k - Len(s) \in DOMAIN t /\ k = Len(s) + (k - Len(s))
            BY <3>6, <4>1, <4>3
          <5>2. c \in 1 .. c
            BY <3>2 DEF b, c
          <5> QED
            BY <3>8, <5>1, <5>2 DEF t
        <4> QED
          BY <4>2, <4>3
      <3>12. Lays(s \o t, seqs, c, new)
        BY <3>8, <3>10, <3>11 DEF Lays
      <3>13. Laid(c)
        BY <3>3, <3>5, <3>12
      <3> QED
        BY <3>13 DEF c
    <2>6. n - 1 \in Nat /\ (n - 1) + 1 = n
      BY <1>1, <1>3
    <2>7. Laid(n)
      <3>1. Nat \subseteq T
        <4> HIDE DEF T
        <4> QED
          BY <2>4, <2>5, NatSet
      <3>2. n - 1 \in T
        BY <2>6, <3>1
      <3>3. (n - 1) + 1 <= n => Laid((n - 1) + 1)
        BY <3>2
      <3> HIDE DEF Laid
      <3> QED
        BY <1>1, <2>6, <3>3
    <2> QED
      BY <2>1, <2>7 DEF n
  <1> QED
    BY <1>2, <1>3

LEMMA Placed ==
  ASSUME NEW S, NEW n \in Nat, NEW seqs \in [1 .. n -> Seq(S)]
  PROVE  FlattenSeq(seqs) \in Seq(S) /\ \E off : Lays(FlattenSeq(seqs), seqs, n, off)
  <1>1. seqs \in Seq(Seq(S)) /\ Len(seqs) = n
    OBVIOUS
  <1> QED
    BY <1>1, Flattened

\* Sorted lists the elements of a finite set.
LEMMA SortedLists ==
  ASSUME NEW T, IsFiniteSet(T)
  PROVE  /\ Sorted(T) \in Seq(T)
         /\ \A x \in T : \E i \in 1 .. Len(Sorted(T)) : Sorted(T)[i] = x
  <1> DEFINE n == Cardinality(T)
             s == Sorted(T)
  <1>1. n \in Nat /\ ExistsBijection(1 .. n, T)
    BY FS_CardinalityType
  <1>2. \E f \in [1 .. n -> T] : IsInjective(f)
    BY <1>1 DEF ExistsBijection, Bijection, Injection
  <1>3. s \in [1 .. n -> T] /\ IsInjective(s)
    BY <1>2 DEF Sorted, SetToSeq
  <1> HIDE DEF s
  <1>4. s \in Injection(1 .. n, T)
    BY <1>3 DEF Injection
  <1>5. IsFiniteSet(1 .. n) /\ Cardinality(1 .. n) = n
    BY <1>1, FS_Interval
  <1>6. s \in Surjection(1 .. n, T)
    BY <1>4, <1>5, FS_Injection
  <1>7. s \in Seq(T) /\ Len(s) = n
    BY <1>1, <1>3
  <1> QED
    BY <1>6, <1>7 DEF Surjection, s

-----------------------------------------------------------------------------
(* The parts of the script.                                                *)

Deletes == {"deleteRatings", "deleteTabs", "deleteSongGenres", "deleteSongs",
            "deleteArtists", "deleteGenres"}

\* The statements of the script and the keys they are about.
Statements ==
  [do : Deletes, key : {NULL}]
    \cup [do : {"upsertGenre", "findGenre"}, key : FixtureGenres]
    \cup [do : {"upsertArtist", "findArtist"}, key : FixtureArtists]
    \cup [do : {"upsertSong", "unlinkSong", "findSong"}, key : FixtureSongs]
    \cup [do : {"linkSong"}, key : FixtureLinks]
    \cup [do : {"upsertTab"}, key : FixtureTabs]
    \cup [do : {"upsertUser"}, key : SeedUsers]

LEMMA FixtureKinds ==
  /\ FixtureSongs \subseteq Songs /\ FixtureArtists \subseteq Artists
  /\ FixtureGenres \subseteq Genres /\ FixtureTabs \subseteq Tabs
  /\ FixtureLinks \subseteq Songs \X Genres
  /\ \A f \in FixtureSongs : f[1] \in FixtureArtists
  /\ \A f \in FixtureSongs : \A g \in ToSet(GenresOf[f[1]]) :
       g \in FixtureGenres /\ <<f, g>> \in FixtureLinks
  /\ \A e \in FixtureLinks :
       /\ e[1] \in FixtureSongs /\ e[2] \in FixtureGenres /\ e = <<e[1], e[2]>>
       /\ e[2] \in ToSet(GenresOf[e[1][1]])
  /\ \A f \in FixtureSongs : \E i \in 1 .. Len(Fixtures) : Fixtures[i] = f
  /\ \A i \in 1 .. Len(Fixtures) : Fixtures[i] \in FixtureSongs
  <1>1. Fixtures \in Seq(Songs) /\ DOMAIN Fixtures = 1 .. Len(Fixtures)
    BY FixturesAreSongs, LenProperties
  <1>2. FixtureSongs \subseteq Songs
    BY <1>1, ElementOfSeq DEF FixtureSongs, ToSet
  <1>3. \A f \in Songs : f[1] \in Artists
    BY DEF Songs
  <1>4. FixtureArtists \subseteq Artists
    BY <1>2, <1>3 DEF FixtureArtists
  <1>5. ASSUME NEW a \in FixtureArtists PROVE ToSet(GenresOf[a]) \subseteq Genres
    <2>1. GenresOf[a] \in Seq(Genres)
      BY FixturesAreSongs
    <2>2. DOMAIN GenresOf[a] = 1 .. Len(GenresOf[a])
      BY <2>1, LenProperties
    <2> QED
      BY <2>1, <2>2, ElementOfSeq DEF ToSet
  <1>6. FixtureGenres \subseteq Genres
    BY <1>5 DEF FixtureGenres
  <1>7. \A f \in FixtureSongs : f[1] \in FixtureArtists
    BY DEF FixtureArtists
  <1>8. \A f \in FixtureSongs : \A g \in ToSet(GenresOf[f[1]]) : g \in FixtureGenres
    BY <1>7 DEF FixtureGenres
  <1>9. \A f \in FixtureSongs : \A g \in ToSet(GenresOf[f[1]]) : <<f, g>> \in FixtureLinks
    BY <1>6, <1>8 DEF FixtureLinks
  <1>10. \A e \in FixtureLinks : /\ e[1] \in FixtureSongs /\ e = <<e[1], e[2]>>
                                 /\ e[2] \in ToSet(GenresOf[e[1][1]]) /\ e[2] \in Genres
    BY DEF FixtureLinks
  <1>11. \A e \in FixtureLinks : e[2] \in FixtureGenres
    BY <1>8, <1>10
  <1>12. FixtureLinks \subseteq Songs \X Genres
    BY <1>2 DEF FixtureLinks
  <1>13. FixtureTabs \subseteq Tabs
    BY <1>2 DEF FixtureTabs, Tabs
  <1>14. /\ \A f \in FixtureSongs : \E i \in 1 .. Len(Fixtures) : Fixtures[i] = f
         /\ \A i \in 1 .. Len(Fixtures) : Fixtures[i] \in FixtureSongs
    BY <1>1 DEF FixtureSongs, ToSet
  <1> QED
    BY <1>2, <1>4, <1>6, <1>7, <1>8, <1>9, <1>10, <1>11, <1>12, <1>13, <1>14

LEMMA FixturesFinite ==
  IsFiniteSet(FixtureArtists) /\ IsFiniteSet(FixtureGenres)
  <1>1. ASSUME NEW S, NEW s \in Seq(S) PROVE IsFiniteSet(ToSet(s))
    <2>1. Len(s) \in Nat /\ DOMAIN s = 1 .. Len(s)
      BY LenProperties
    <2>2. IsFiniteSet(1 .. Len(s))
      BY <2>1, FS_Interval
    <2>3. s \in [1 .. Len(s) -> S]
      BY LenProperties
    <2>4. s \in Surjection(1 .. Len(s), ToSet(s))
      BY <2>1, <2>3 DEF Surjection, ToSet
    <2> QED
      BY <2>2, <2>4, FS_Surjection
  <1>2. IsFiniteSet(FixtureSongs)
    BY <1>1, FixturesAreSongs DEF FixtureSongs
  <1>3. IsFiniteSet(FixtureArtists)
    <2>1. [f \in FixtureSongs |-> f[1]] \in Surjection(FixtureSongs, FixtureArtists)
      BY DEF Surjection, FixtureArtists
    <2> QED
      BY <1>2, <2>1, FS_Surjection
  <1>4. IsFiniteSet(FixtureGenres)
    <2> DEFINE lists == {ToSet(GenresOf[a]) : a \in FixtureArtists}
    <2>1. [a \in FixtureArtists |-> ToSet(GenresOf[a])] \in Surjection(FixtureArtists, lists)
      BY DEF Surjection
    <2>2. IsFiniteSet(lists)
      BY <1>3, <2>1, FS_Surjection
    <2>3. \A T \in lists : IsFiniteSet(T)
      BY <1>1, FixturesAreSongs
    <2> HIDE DEF lists
    <2>4. IsFiniteSet(UNION lists)
      BY <2>2, <2>3, FS_UNION
    <2> QED
      BY <2>4 DEF FixtureGenres, lists
  <1> QED
    BY <1>3, <1>4

\* The upserts of the keys of a set, in order.
Upserts(what, T) == FlattenSeq([i \in 1 .. Len(Sorted(T)) |-> <<Do(what, Sorted(T)[i])>>])

LEMMA UpsertsPart ==
  ASSUME NEW what, NEW T, IsFiniteSet(T), \A x \in T : Do(what, x) \in Statements
  PROVE  /\ Upserts(what, T) \in Seq(Statements)
         /\ \A k \in DOMAIN Upserts(what, T) : Upserts(what, T)[k].do = what
         /\ \A x \in T : \E k \in DOMAIN Upserts(what, T) : Upserts(what, T)[k] = Do(what, x)
  <1> DEFINE keys == Sorted(T)
             n == Len(keys)
             seqs == [i \in 1 .. n |-> <<Do(what, keys[i])>>]
             part == Upserts(what, T)
  <1>1. keys \in Seq(T) /\ \A x \in T : \E i \in 1 .. n : keys[i] = x
    BY SortedLists
  <1>2. n \in Nat /\ \A i \in 1 .. n : keys[i] \in T
    BY <1>1, LenProperties, ElementOfSeq
  <1>3. part = FlattenSeq(seqs)
    BY DEF Upserts
  <1>4. seqs \in [1 .. n -> Seq(Statements)]
    BY <1>2
  <1>5. \A i \in 1 .. n : DOMAIN seqs[i] = {1} /\ seqs[i][1] = Do(what, keys[i])
    OBVIOUS
  <1> HIDE DEF n, keys, seqs, part
  <1>6. part \in Seq(Statements) /\ \E off : Lays(part, seqs, n, off)
    BY <1>2, <1>3, <1>4, Placed
  <1>7. PICK off : Lays(part, seqs, n, off)
    BY <1>6
  <1>8. ASSUME NEW k \in DOMAIN part PROVE part[k].do = what
    <2>1. PICK i \in 1 .. n : \E j \in DOMAIN seqs[i] : k = off[i] + j
      BY <1>7 DEF Lays
    <2>2. part[k] = Do(what, keys[i])
      BY <1>5, <1>7, <2>1 DEF Lays
    <2> QED
      BY <2>2 DEF Do
  <1>9. ASSUME NEW x \in T PROVE \E k \in DOMAIN part : part[k] = Do(what, x)
    <2>1. PICK i \in 1 .. n : keys[i] = x
      BY <1>1
    <2>2. off[i] + 1 \in DOMAIN part /\ part[off[i] + 1] = Do(what, x)
      BY <1>5, <1>7, <2>1 DEF Lays
    <2> QED
      BY <2>2
  <1> QED
    BY <1>6, <1>8, <1>9 DEF part

\* SeedGenres upserts the genres of the fixtures, SeedArtists their artists.
LEMMA GenresAndArtistsParts ==
  /\ SeedGenres \in Seq(Statements) /\ SeedArtists \in Seq(Statements)
  /\ \A k \in DOMAIN SeedGenres : SeedGenres[k].do = "upsertGenre"
  /\ \A k \in DOMAIN SeedArtists : SeedArtists[k].do = "upsertArtist"
  /\ \A g \in FixtureGenres : \E k \in DOMAIN SeedGenres : SeedGenres[k] = Do("upsertGenre", g)
  /\ \A a \in FixtureArtists : \E k \in DOMAIN SeedArtists : SeedArtists[k] = Do("upsertArtist", a)
  <1>1. \A T : IsFiniteSet(T) => DOMAIN Sorted(T) = 1 .. Len(Sorted(T))
    BY SortedLists, LenProperties
  <1>2. SeedGenres = Upserts("upsertGenre", FixtureGenres)
    BY <1>1, FixturesFinite DEF SeedGenres, Each, Upserts
  <1>3. SeedArtists = Upserts("upsertArtist", FixtureArtists)
    BY <1>1, FixturesFinite DEF SeedArtists, Each, Upserts
  <1>4. /\ \A g \in FixtureGenres : Do("upsertGenre", g) \in Statements
        /\ \A a \in FixtureArtists : Do("upsertArtist", a) \in Statements
    BY DEF Do, Statements
  <1>5. /\ SeedGenres \in Seq(Statements)
        /\ \A k \in DOMAIN SeedGenres : SeedGenres[k].do = "upsertGenre"
        /\ \A g \in FixtureGenres : \E k \in DOMAIN SeedGenres : SeedGenres[k] = Do("upsertGenre", g)
    BY <1>2, <1>4, FixturesFinite, UpsertsPart
  <1>6. /\ SeedArtists \in Seq(Statements)
        /\ \A k \in DOMAIN SeedArtists : SeedArtists[k].do = "upsertArtist"
        /\ \A a \in FixtureArtists :
             \E k \in DOMAIN SeedArtists : SeedArtists[k] = Do("upsertArtist", a)
    BY <1>3, <1>4, FixturesFinite, UpsertsPart
  <1> QED
    BY <1>5, <1>6

\* The statements of a song: its artist is found, it is upserted and its associations
\* removed; then for each genre of its artist, which is found, the association is
\* made, once.
LEMMA SongPart ==
  ASSUME NEW f \in FixtureSongs
  PROVE  LET block == SeedSong(f)
             genres == ToSet(GenresOf[f[1]])
         IN  /\ block \in Seq(Statements) /\ {1, 2, 3} \subseteq DOMAIN block
             /\ block[1] = Do("findArtist", f[1])
             /\ block[2] = Do("upsertSong", f)
             /\ block[3] = Do("unlinkSong", f)
             /\ \A j \in DOMAIN block : j > 3 => \E g \in genres :
                  \/ block[j] = Do("findGenre", g)
                  \/ /\ j > 4 /\ block[j - 1] = Do("findGenre", g)
                     /\ block[j] = Do("linkSong", <<f, g>>)
             /\ \A g \in genres : \E j \in DOMAIN block : j > 3 /\ block[j] = Do("linkSong", <<f, g>>)
             /\ \A j, m \in DOMAIN block :
                  block[j].do = "linkSong" /\ block[j] = block[m] => j = m
  <1> DEFINE block == SeedSong(f)
             keys == GenresOf[f[1]]
             n == Len(keys)
             seqs == [i \in 1 .. n |-> <<Do("findGenre", keys[i]), Do("linkSong", <<f, keys[i]>>)>>]
             head == <<Do("findArtist", f[1]), Do("upsertSong", f), Do("unlinkSong", f)>>
             tail == FlattenSeq(seqs)
  <1>1. f[1] \in FixtureArtists
    BY FixtureKinds
  <1>2. /\ keys \in Seq(Genres) /\ n \in Nat /\ DOMAIN keys = 1 .. n
        /\ \A i, j \in 1 .. n : keys[i] = keys[j] => i = j
    <2>1. keys \in Seq(Genres)
      BY <1>1, FixturesAreSongs
    <2>2. n \in Nat /\ DOMAIN keys = 1 .. n
      BY <2>1, LenProperties
    <2> QED
      BY <1>1, <2>1, <2>2, FixturesAreSongs
  <1>3. /\ \A i \in 1 .. n : keys[i] \in ToSet(keys)
        /\ \A g \in ToSet(keys) : \E i \in 1 .. n : keys[i] = g
    BY <1>2 DEF ToSet
  <1>4. block = head \o tail
    BY <1>2 DEF SeedSong, Each
  <1>5. /\ Do("findArtist", f[1]) \in Statements /\ Do("upsertSong", f) \in Statements
        /\ Do("unlinkSong", f) \in Statements
        /\ \A g \in ToSet(keys) : /\ Do("findGenre", g) \in Statements
                                  /\ Do("linkSong", <<f, g>>) \in Statements
    BY <1>1, FixtureKinds DEF Do, Statements
  <1>6. head \in Seq(Statements) /\ Len(head) = 3
    BY <1>5
  <1>7. head[1] = Do("findArtist", f[1]) /\ head[2] = Do("upsertSong", f)
        /\ head[3] = Do("unlinkSong", f)
    OBVIOUS
  <1>8. seqs \in [1 .. n -> Seq(Statements)]
    <2>1. \A g \in ToSet(keys) : <<Do("findGenre", g), Do("linkSong", <<f, g>>)>> \in Seq(Statements)
      BY <1>5
    <2> QED
      BY <1>3, <2>1
  <1>9. \A i \in 1 .. n : /\ DOMAIN seqs[i] = {1, 2}
                          /\ seqs[i][1] = Do("findGenre", keys[i])
                          /\ seqs[i][2] = Do("linkSong", <<f, keys[i]>>)
    OBVIOUS
  <1> HIDE DEF n, keys, seqs, block, head
  <1>10. tail \in Seq(Statements) /\ \E off : Lays(tail, seqs, n, off)
    BY <1>2, <1>8, Placed
  <1> HIDE DEF tail
  <1>11. PICK off : Lays(tail, seqs, n, off)
    BY <1>10
  <1>12. \A i \in 1 .. n : /\ off[i] \in Nat
                           /\ off[i] + 1 \in DOMAIN tail /\ tail[off[i] + 1] = Do("findGenre", keys[i])
                           /\ off[i] + 2 \in DOMAIN tail
                           /\ tail[off[i] + 2] = Do("linkSong", <<f, keys[i]>>)
    BY <1>9, <1>11 DEF Lays
  <1>13. ASSUME NEW k \in DOMAIN tail PROVE \E i \in 1 .. n : k = off[i] + 1 \/ k = off[i] + 2
    <2>1. PICK i \in 1 .. n : \E j \in DOMAIN seqs[i] : k = off[i] + j
      BY <1>11 DEF Lays
    <2>2. PICK j \in DOMAIN seqs[i] : k = off[i] + j
      BY <2>1
    <2>3. j = 1 \/ j = 2
      BY <1>9
    <2> QED
      BY <2>2, <2>3
  <1>14. /\ block \in Seq(Statements) /\ Len(tail) \in Nat /\ DOMAIN tail = 1 .. Len(tail)
         /\ DOMAIN block = 1 .. 3 + Len(tail)
         /\ \A j \in 1 .. 3 + Len(tail) : block[j] = IF j <= 3 THEN head[j] ELSE tail[j - 3]
    <2>1. /\ block \in Seq(Statements) /\ Len(block) = 3 + Len(tail)
          /\ \A j \in 1 .. 3 + Len(tail) : block[j] = IF j <= 3 THEN head[j] ELSE tail[j - 3]
      <3>1. /\ head \o tail \in Seq(Statements) /\ Len(head \o tail) = Len(head) + Len(tail)
            /\ \A j \in 1 .. Len(head) + Len(tail) :
                 (head \o tail)[j] = IF j <= Len(head) THEN head[j] ELSE tail[j - Len(head)]
        BY <1>6, <1>10, ConcatProperties
      <3> QED
        BY <1>4, <1>6, <3>1
    <2> QED
      BY <1>10, <2>1, LenProperties
  <1>15. /\ {1, 2, 3} \subseteq DOMAIN block /\ block[1] = Do("findArtist", f[1])
         /\ block[2] = Do("upsertSong", f) /\ block[3] = Do("unlinkSong", f)
    BY <1>7, <1>14
  <1>16. \A j \in DOMAIN block : j > 3 =>
           \E i \in 1 .. n : \/ j = 3 + (off[i] + 1) /\ block[j] = Do("findGenre", keys[i])
                             \/ /\ j = 3 + (off[i] + 2) /\ block[j] = Do("linkSong", <<f, keys[i]>>)
                                /\ block[j - 1] = Do("findGenre", keys[i])
    <2> SUFFICES ASSUME NEW j \in DOMAIN block, j > 3
                 PROVE  \E i \in 1 .. n :
                          \/ j = 3 + (off[i] + 1) /\ block[j] = Do("findGenre", keys[i])
                          \/ /\ j = 3 + (off[i] + 2) /\ block[j] = Do("linkSong", <<f, keys[i]>>)
                             /\ block[j - 1] = Do("findGenre", keys[i])
      OBVIOUS
    <2>1. j - 3 \in DOMAIN tail /\ block[j] = tail[j - 3] /\ j \in Nat
      BY <1>14
    <2>2. PICK i \in 1 .. n : j - 3 = off[i] + 1 \/ j - 3 = off[i] + 2
      BY <1>13, <2>1
    <2>3. PICK o \in Nat : o = off[i]
      BY <1>12
    <2>4. CASE j - 3 = o + 1
      <3>1. j = 3 + (o + 1)
        BY <2>1, <2>4
      <3>2. block[j] = Do("findGenre", keys[i])
        BY <1>12, <2>1, <2>3, <2>4
      <3> QED
        BY <2>3, <3>1, <3>2
    <2>5. CASE j - 3 = o + 2
      <3>1. j = 3 + (o + 2)
        BY <2>1, <2>5
      <3>2. block[j] = Do("linkSong", <<f, keys[i]>>)
        BY <1>12, <2>1, <2>3, <2>5
      <3>3. (j - 1) - 3 = o + 1 /\ j - 1 \in 1 .. 3 + Len(tail) /\ ~(j - 1 <= 3)
        BY <1>14, <3>1
      <3>4. block[j - 1] = tail[(j - 1) - 3]
        BY <1>14, <3>3
      <3>5. block[j - 1] = Do("findGenre", keys[i])
        BY <1>12, <2>3, <3>3, <3>4
      <3> QED
        BY <2>3, <3>1, <3>2, <3>5
    <2> QED
      BY <2>2, <2>3, <2>4, <2>5
  <1>17. ASSUME NEW j \in DOMAIN block, j > 3
         PROVE  \E g \in ToSet(keys) : \/ block[j] = Do("findGenre", g)
                                       \/ /\ j > 4 /\ block[j - 1] = Do("findGenre", g)
                                          /\ block[j] = Do("linkSong", <<f, g>>)
    <2>1. PICK i \in 1 .. n : \/ j = 3 + (off[i] + 1) /\ block[j] = Do("findGenre", keys[i])
                              \/ /\ j = 3 + (off[i] + 2) /\ block[j] = Do("linkSong", <<f, keys[i]>>)
                                 /\ block[j - 1] = Do("findGenre", keys[i])
      BY <1>16, <1>17
    <2>2. off[i] \in Nat /\ keys[i] \in ToSet(keys)
      BY <1>3, <1>12
    <2> QED
      BY <2>1, <2>2
  <1>18. ASSUME NEW g \in ToSet(keys)
         PROVE  \E j \in DOMAIN block : j > 3 /\ block[j] = Do("linkSong", <<f, g>>)
    <2>1. PICK i \in 1 .. n : keys[i] = g
      BY <1>3
    <2>2. PICK o \in Nat : o = off[i]
      BY <1>12
    <2>3. o + 2 \in 1 .. Len(tail) /\ tail[o + 2] = Do("linkSong", <<f, g>>)
      BY <1>12, <1>14, <2>1, <2>2
    <2>4. 3 + (o + 2) \in 1 .. 3 + Len(tail) /\ 3 + (o + 2) > 3 /\ (3 + (o + 2)) - 3 = o + 2
      BY <1>14, <2>3
    <2> QED
      BY <1>14, <2>3, <2>4
  <1>19. ASSUME NEW j \in DOMAIN block, NEW m \in DOMAIN block, block[j].do = "linkSong",
                block[j] = block[m]
         PROVE  j = m
    <2>1. j > 3 /\ m > 3
      <3>1. \A x \in DOMAIN block : ~(x > 3) => x = 1 \/ x = 2 \/ x = 3
        BY <1>14
      <3> QED
        BY <1>15, <1>19, <3>1 DEF Do
    <2>2. ASSUME NEW x \in DOMAIN block, x > 3, block[x].do = "linkSong"
          PROVE  \E i \in 1 .. n : x = 3 + (off[i] + 2) /\ block[x].key = <<f, keys[i]>>
      <3>1. PICK i \in 1 .. n : \/ x = 3 + (off[i] + 1) /\ block[x] = Do("findGenre", keys[i])
                                \/ x = 3 + (off[i] + 2) /\ block[x] = Do("linkSong", <<f, keys[i]>>)
        BY <1>16, <2>2
      <3>2. block[x] # Do("findGenre", keys[i])
        BY <2>2 DEF Do
      <3>3. Do("linkSong", <<f, keys[i]>>).key = <<f, keys[i]>>
        BY DEF Do
      <3> QED
        BY <3>1, <3>2, <3>3
    <2>3. PICK i \in 1 .. n : j = 3 + (off[i] + 2) /\ block[j].key = <<f, keys[i]>>
      BY <1>19, <2>1, <2>2
    <2>4. PICK l \in 1 .. n : m = 3 + (off[l] + 2) /\ block[m].key = <<f, keys[l]>>
      BY <1>19, <2>1, <2>2
    <2>5. keys[i] = keys[l]
      BY <1>19, <2>3, <2>4
    <2> QED
      BY <1>2, <2>3, <2>4, <2>5
  <1> QED
    BY <1>14, <1>15, <1>17, <1>18, <1>19 DEF block, keys

\* Block `statements' of the script starts after position o.
Block(statements, part, o) ==
  /\ o \in Nat
  /\ \A j \in DOMAIN statements : o + j \in DOMAIN part /\ part[o + j] = statements[j]

\* SeedSongs is a block per fixture.
LEMMA SongsPart ==
  /\ SeedSongs \in Seq(Statements)
  /\ \E off : /\ \A i \in 1 .. Len(Fixtures) : Block(SeedSong(Fixtures[i]), SeedSongs, off[i])
              /\ \A k \in DOMAIN SeedSongs : \E i \in 1 .. Len(Fixtures) :
                   \E j \in DOMAIN SeedSong(Fixtures[i]) : k = off[i] + j
  <1> DEFINE n == Len(Fixtures)
             seqs == [i \in 1 .. n |-> SeedSong(Fixtures[i])]
  <1>1. n \in Nat /\ DOMAIN Fixtures = 1 .. n /\ \A i \in 1 .. n : Fixtures[i] \in FixtureSongs
    BY FixturesAreSongs, FixtureKinds, LenProperties
  <1>2. SeedSongs = FlattenSeq(seqs)
    BY <1>1 DEF SeedSongs, Each
  <1>3. \A f \in FixtureSongs : SeedSong(f) \in Seq(Statements)
    BY SongPart
  <1>4. seqs \in [1 .. n -> Seq(Statements)]
    BY <1>1, <1>3
  <1>5. \A i \in 1 .. n : seqs[i] = SeedSong(Fixtures[i])
    OBVIOUS
  <1> HIDE DEF n, seqs
  <1>6. SeedSongs \in Seq(Statements) /\ \E off : Lays(SeedSongs, seqs, n, off)
    BY <1>1, <1>2, <1>4, Placed
  <1>7. PICK off : Lays(SeedSongs, seqs, n, off)
    BY <1>6
  <1>8. \A i \in 1 .. n : Block(SeedSong(Fixtures[i]), SeedSongs, off[i])
    BY <1>5, <1>7 DEF Lays, Block
  <1>9. \A k \in DOMAIN SeedSongs : \E i \in 1 .. n : \E j \in DOMAIN SeedSong(Fixtures[i]) :
          k = off[i] + j
    BY <1>5, <1>7 DEF Lays
  <1> QED
    BY <1>6, <1>8, <1>9 DEF n

\* SeedTabs makes the accounts, then a block per fixture.
LEMMA TabsPart ==
  /\ SeedTabs \in Seq(Statements) /\ {1, 2} \subseteq DOMAIN SeedTabs
  /\ SeedTabs[1] = Do("upsertUser", "author") /\ SeedTabs[2] = Do("upsertUser", "moderator")
  /\ \E off : /\ \A i \in 1 .. Len(Fixtures) : Block(SeedTab(Fixtures[i]), SeedTabs, off[i])
              /\ \A k \in DOMAIN SeedTabs :
                   \/ k \in {1, 2}
                   \/ \E i \in 1 .. Len(Fixtures) : \E j \in {1, 2, 3} : k = off[i] + j
  <1> DEFINE n == Len(Fixtures)
             seqs == [i \in 1 .. n |-> SeedTab(Fixtures[i])]
             head == <<Do("upsertUser", "author"), Do("upsertUser", "moderator")>>
             tail == FlattenSeq(seqs)
  <1>1. n \in Nat /\ DOMAIN Fixtures = 1 .. n /\ \A i \in 1 .. n : Fixtures[i] \in FixtureSongs
    BY FixturesAreSongs, FixtureKinds, LenProperties
  <1>2. SeedTabs = head \o tail
    BY <1>1 DEF SeedTabs, Each
  <1>3. ASSUME NEW f \in FixtureSongs
        PROVE  SeedTab(f) \in Seq(Statements) /\ DOMAIN SeedTab(f) = {1, 2, 3}
    <2>1. /\ Do("findArtist", f[1]) \in Statements /\ Do("findSong", f) \in Statements
          /\ Do("upsertTab", <<f, f>>) \in Statements
      BY FixtureKinds DEF Do, Statements, FixtureTabs
    <2> QED
      BY <2>1 DEF SeedTab
  <1>4. seqs \in [1 .. n -> Seq(Statements)]
    BY <1>1, <1>3
  <1>5. \A i \in 1 .. n : seqs[i] = SeedTab(Fixtures[i]) /\ DOMAIN seqs[i] = {1, 2, 3}
    BY <1>1, <1>3
  <1>6. head \in Seq(Statements) /\ Len(head) = 2
    BY DEF Do, Statements, SeedUsers
  <1>7. head[1] = Do("upsertUser", "author") /\ head[2] = Do("upsertUser", "moderator")
    OBVIOUS
  <1> HIDE DEF n, seqs, head
  <1>8. tail \in Seq(Statements) /\ \E off : Lays(tail, seqs, n, off)
    BY <1>1, <1>4, Placed
  <1> HIDE DEF tail
  <1>9. PICK off : Lays(tail, seqs, n, off)
    BY <1>8
  <1>10. /\ SeedTabs \in Seq(Statements) /\ Len(tail) \in Nat /\ DOMAIN tail = 1 .. Len(tail)
         /\ DOMAIN SeedTabs = 1 .. 2 + Len(tail)
         /\ \A j \in 1 .. 2 + Len(tail) : SeedTabs[j] = IF j <= 2 THEN head[j] ELSE tail[j - 2]
    <2>1. /\ head \o tail \in Seq(Statements) /\ Len(head \o tail) = Len(head) + Len(tail)
          /\ \A j \in 1 .. Len(head) + Len(tail) :
               (head \o tail)[j] = IF j <= Len(head) THEN head[j] ELSE tail[j - Len(head)]
      BY <1>6, <1>8, ConcatProperties
    <2> QED
      BY <1>2, <1>6, <1>8, <2>1, LenProperties
  <1>11. /\ {1, 2} \subseteq DOMAIN SeedTabs
         /\ SeedTabs[1] = Do("upsertUser", "author") /\ SeedTabs[2] = Do("upsertUser", "moderator")
    BY <1>7, <1>10
  <1> DEFINE new == [i \in 1 .. n |-> off[i] + 2]
  <1>12. \A i \in 1 .. n : new[i] = off[i] + 2 /\ off[i] \in Nat
    BY <1>9 DEF Lays
  <1> HIDE DEF new
  <1>13. ASSUME NEW i \in 1 .. n PROVE Block(SeedTab(Fixtures[i]), SeedTabs, new[i])
    <2>1. PICK o \in Nat : o = off[i]
      BY <1>12
    <2>2. ASSUME NEW j \in DOMAIN SeedTab(Fixtures[i])
          PROVE  (o + 2) + j \in DOMAIN SeedTabs /\ SeedTabs[(o + 2) + j] = SeedTab(Fixtures[i])[j]
      <3>1. o + j \in 1 .. Len(tail) /\ tail[o + j] = SeedTab(Fixtures[i])[j] /\ j \in Nat
        <4>1. seqs[i] = SeedTab(Fixtures[i]) /\ j \in DOMAIN seqs[i] /\ j \in {1, 2, 3}
          BY <1>5
        <4>2. off[i] + j \in DOMAIN tail /\ tail[off[i] + j] = seqs[i][j]
          BY <1>9, <4>1 DEF Lays
        <4> QED
          BY <1>10, <2>1, <4>1, <4>2
      <3>2. (o + 2) + j \in 1 .. 2 + Len(tail) /\ ~((o + 2) + j <= 2) /\ ((o + 2) + j) - 2 = o + j
        BY <1>10, <3>1
      <3> QED
        BY <1>10, <3>1, <3>2
    <2> QED
      BY <1>12, <2>1, <2>2 DEF Block
  <1>14. ASSUME NEW k \in DOMAIN SeedTabs, k \notin {1, 2}
         PROVE  \E i \in 1 .. n : \E j \in {1, 2, 3} : k = new[i] + j
    <2>1. k - 2 \in DOMAIN tail /\ k \in Nat
      BY <1>10, <1>14
    <2>2. PICK i \in 1 .. n : \E j \in DOMAIN seqs[i] : k - 2 = off[i] + j
      BY <1>9, <2>1 DEF Lays
    <2>3. PICK j \in {1, 2, 3} : k - 2 = off[i] + j
      BY <1>5, <2>2
    <2>4. PICK o \in Nat : o = off[i]
      BY <1>12
    <2>5. k = (o + 2) + j
      BY <2>1, <2>3, <2>4
    <2> QED
      BY <1>12, <2>4, <2>5
  <1> QED
    BY <1>10, <1>11, <1>13, <1>14 DEF n

\* part is the script's, from the position after `from' to position `to'.
In(whole, part, from, to) ==
  \A k \in DOMAIN part : /\ k \in Nat \ {0} /\ from + k <= to
                         /\ from + k \in DOMAIN whole /\ whole[from + k] = part[k]

Sits(part, from, to) == In(Script, part, from, to)

\* whole is p and then q: both are where they belong, and nothing else is there.
Joins(whole, p, q) ==
  /\ Len(p) \in Nat /\ Len(whole) \in Nat /\ Len(p) <= Len(whole)
  /\ In(whole, q, Len(p), Len(whole))
  /\ \A part, from, to : In(p, part, from, to) => In(whole, part, from, to)
  /\ \A k \in DOMAIN whole : k \in DOMAIN p \/ \E x \in DOMAIN q : k = Len(p) + x

\* What a sequence has at some positions it has there when another is appended.
LEMMA Appended ==
  ASSUME NEW S, NEW p \in Seq(S), NEW q \in Seq(S)
  PROVE  p \o q \in Seq(S) /\ Joins(p \o q, p, q)
  <1> DEFINE whole == p \o q
             m == Len(p)
             n == Len(q)
  <1>1. /\ whole \in Seq(S) /\ Len(whole) = m + n
        /\ \A i \in 1 .. m + n : whole[i] = IF i <= m THEN p[i] ELSE q[i - m]
    BY ConcatProperties
  <1>2. m \in Nat /\ n \in Nat /\ DOMAIN p = 1 .. m /\ DOMAIN q = 1 .. n
    BY LenProperties
  <1>3. DOMAIN whole = 1 .. m + n
    BY <1>1, LenProperties
  <1> HIDE DEF whole, m, n
  <1>4. In(whole, q, m, Len(whole))
    <2> SUFFICES ASSUME NEW k \in 1 .. n
                 PROVE  /\ k \in Nat \ {0} /\ m + k <= Len(whole)
                        /\ m + k \in DOMAIN whole /\ whole[m + k] = q[k]
      BY <1>2 DEF In
    <2>1. m + k \in 1 .. m + n /\ ~(m + k <= m) /\ (m + k) - m = k
      BY <1>2
    <2>2. whole[m + k] = q[k]
      BY <1>1, <2>1
    <2>3. k \in Nat \ {0} /\ m + k <= Len(whole)
      BY <1>1, <1>2
    <2> QED
      BY <1>3, <2>1, <2>2, <2>3
  <1>5. \A i \in DOMAIN p : i \in DOMAIN whole /\ whole[i] = p[i]
    BY <1>1, <1>2, <1>3
  <1>6. \A part, from, to : In(p, part, from, to) => In(whole, part, from, to)
    BY <1>5 DEF In
  <1>7. ASSUME NEW k \in DOMAIN whole PROVE k \in DOMAIN p \/ \E x \in DOMAIN q : k = m + x
    <2>1. k \in 1 .. m + n
      BY <1>3
    <2>2. CASE k <= m
      BY <1>2, <2>1, <2>2
    <2>3. CASE ~(k <= m)
      <3>1. k - m \in DOMAIN q /\ k = m + (k - m)
        BY <1>2, <2>1, <2>3
      <3> QED
        BY <3>1
    <2> QED
      BY <2>2, <2>3
  <1>8. m <= Len(whole) /\ Len(whole) \in Nat
    BY <1>1, <1>2
  <1> QED
    BY <1>1, <1>2, <1>4, <1>6, <1>7, <1>8 DEF whole, m, Joins

\* The five parts of the script, one after the other.
LEMMA Parts ==
  /\ Script \in Seq(Statements) /\ Len(Script) \in Nat /\ DOMAIN Script = 1 .. Len(Script)
  /\ \E a, s, t \in Nat :
       /\ 6 <= a /\ a <= s /\ s <= t /\ t <= Len(Script)
       /\ Sits(ClearSeededCatalog, 0, 6) /\ Sits(SeedGenres, 6, a) /\ Sits(SeedArtists, a, s)
       /\ Sits(SeedSongs, s, t) /\ Sits(SeedTabs, t, Len(Script))
       /\ \A k \in DOMAIN Script :
            \/ k \in 1 .. 6
            \/ \E x \in DOMAIN SeedGenres : k = 6 + x
            \/ \E x \in DOMAIN SeedArtists : k = a + x
            \/ \E x \in DOMAIN SeedSongs : k = s + x
            \/ \E x \in DOMAIN SeedTabs : k = t + x
  <1>1. PICK clear, p2, p3, p4 : /\ clear = ClearSeededCatalog
                                 /\ p2 = clear \o SeedGenres /\ p3 = p2 \o SeedArtists
                                 /\ p4 = p3 \o SeedSongs /\ Script = p4 \o SeedTabs
    BY DEF Script
  <1>2. clear \in Seq(Statements) /\ Len(clear) = 6 /\ DOMAIN clear = 1 .. 6
    <2>1. ClearSeededCatalog \in Seq(Statements) /\ Len(ClearSeededCatalog) = 6
      BY DEF ClearSeededCatalog, Do, Statements, Deletes
    <2> QED
      BY <1>1, <2>1, LenProperties
  <1>3. In(clear, clear, 0, 6)
    BY <1>2 DEF In
  <1>4. /\ SeedGenres \in Seq(Statements) /\ SeedArtists \in Seq(Statements)
        /\ SeedSongs \in Seq(Statements) /\ SeedTabs \in Seq(Statements)
    BY GenresAndArtistsParts, SongsPart, TabsPart
  <1>5. /\ p2 \in Seq(Statements) /\ Len(p2) \in Nat /\ 6 <= Len(p2)
        /\ In(p2, clear, 0, 6) /\ In(p2, SeedGenres, 6, Len(p2))
        /\ \A k \in DOMAIN p2 : k \in 1 .. 6 \/ \E x \in DOMAIN SeedGenres : k = 6 + x
    <2>1. clear \in Seq(Statements) /\ SeedGenres \in Seq(Statements)
      BY <1>2, <1>4
    <2>2. clear \o SeedGenres \in Seq(Statements) /\ Joins(clear \o SeedGenres, clear, SeedGenres)
      BY <2>1, Appended
    <2> QED
      BY <1>1, <1>2, <1>3, <2>2 DEF Joins
  <1>6. /\ p3 \in Seq(Statements) /\ Len(p3) \in Nat /\ Len(p2) <= Len(p3)
        /\ In(p3, SeedArtists, Len(p2), Len(p3))
        /\ \A part, from, to : In(p2, part, from, to) => In(p3, part, from, to)
        /\ \A k \in DOMAIN p3 : k \in DOMAIN p2 \/ \E x \in DOMAIN SeedArtists : k = Len(p2) + x
    <2>1. p2 \in Seq(Statements) /\ SeedArtists \in Seq(Statements)
      BY <1>5, <1>4
    <2>2. p2 \o SeedArtists \in Seq(Statements) /\ Joins(p2 \o SeedArtists, p2, SeedArtists)
      BY <2>1, Appended
    <2> QED
      BY <1>1, <2>2 DEF Joins
  <1>7. /\ p4 \in Seq(Statements) /\ Len(p4) \in Nat /\ Len(p3) <= Len(p4)
        /\ In(p4, SeedSongs, Len(p3), Len(p4))
        /\ \A part, from, to : In(p3, part, from, to) => In(p4, part, from, to)
        /\ \A k \in DOMAIN p4 : k \in DOMAIN p3 \/ \E x \in DOMAIN SeedSongs : k = Len(p3) + x
    <2>1. p3 \in Seq(Statements) /\ SeedSongs \in Seq(Statements)
      BY <1>6, <1>4
    <2>2. p3 \o SeedSongs \in Seq(Statements) /\ Joins(p3 \o SeedSongs, p3, SeedSongs)
      BY <2>1, Appended
    <2> QED
      BY <1>1, <2>2 DEF Joins
  <1>8. /\ Script \in Seq(Statements) /\ Len(Script) \in Nat /\ Len(p4) <= Len(Script)
        /\ In(Script, SeedTabs, Len(p4), Len(Script))
        /\ \A part, from, to : In(p4, part, from, to) => In(Script, part, from, to)
        /\ \A k \in DOMAIN Script : k \in DOMAIN p4 \/ \E x \in DOMAIN SeedTabs : k = Len(p4) + x
    <2>1. p4 \in Seq(Statements) /\ SeedTabs \in Seq(Statements)
      BY <1>7, <1>4
    <2>2. p4 \o SeedTabs \in Seq(Statements) /\ Joins(p4 \o SeedTabs, p4, SeedTabs)
      BY <2>1, Appended
    <2> QED
      BY <1>1, <2>2 DEF Joins
  <1>9. /\ Sits(ClearSeededCatalog, 0, 6) /\ Sits(SeedGenres, 6, Len(p2))
        /\ Sits(SeedArtists, Len(p2), Len(p3)) /\ Sits(SeedSongs, Len(p3), Len(p4))
        /\ Sits(SeedTabs, Len(p4), Len(Script))
    BY <1>1, <1>5, <1>6, <1>7, <1>8 DEF Sits
  <1>10. \A k \in DOMAIN Script :
          \/ k \in 1 .. 6
          \/ \E x \in DOMAIN SeedGenres : k = 6 + x
          \/ \E x \in DOMAIN SeedArtists : k = Len(p2) + x
          \/ \E x \in DOMAIN SeedSongs : k = Len(p3) + x
          \/ \E x \in DOMAIN SeedTabs : k = Len(p4) + x
    BY <1>5, <1>6, <1>7, <1>8
  <1>11. DOMAIN Script = 1 .. Len(Script)
    BY <1>8, LenProperties
  <1> QED
    BY <1>5, <1>6, <1>7, <1>8, <1>9, <1>10, <1>11

\* The script: positions 1 to 6 delete, those up to s upsert genres and artists, a block
\* for each song follows, then from t the accounts and a block for each tab.
Layout(s, t, songs, tabs) ==
  /\ s \in Nat /\ t \in Nat /\ 6 <= s /\ s <= t
  /\ \A p \in 1 .. 6 : p \in DOMAIN Script /\ Script[p] = ClearSeededCatalog[p]
  /\ \A g \in FixtureGenres : \E p \in DOMAIN Script : p <= s /\ Script[p] = Do("upsertGenre", g)
  /\ \A a \in FixtureArtists : \E p \in DOMAIN Script : p <= s /\ Script[p] = Do("upsertArtist", a)
  /\ \A i \in 1 .. Len(Fixtures) :
       /\ songs[i] \in Nat /\ s <= songs[i]
       /\ \A j \in DOMAIN SeedSong(Fixtures[i]) :
            /\ songs[i] + j \in DOMAIN Script /\ songs[i] + j <= t
            /\ Script[songs[i] + j] = SeedSong(Fixtures[i])[j]
  /\ t + 1 \in DOMAIN Script /\ Script[t + 1] = Do("upsertUser", "author")
  /\ t + 2 \in DOMAIN Script /\ Script[t + 2] = Do("upsertUser", "moderator")
  /\ \A i \in 1 .. Len(Fixtures) :
       /\ tabs[i] \in Nat /\ t <= tabs[i]
       /\ \A j \in {1, 2, 3} : /\ tabs[i] + j \in DOMAIN Script
                               /\ Script[tabs[i] + j] = SeedTab(Fixtures[i])[j]
  /\ \A p \in DOMAIN Script :
       \/ p \in 1 .. 6
       \/ 6 < p /\ p <= s /\ Script[p].do \in {"upsertGenre", "upsertArtist"}
       \/ \E i \in 1 .. Len(Fixtures) : \E j \in DOMAIN SeedSong(Fixtures[i]) : p = songs[i] + j
       \/ p = t + 1 \/ p = t + 2
       \/ \E i \in 1 .. Len(Fixtures) : \E j \in {1, 2, 3} : p = tabs[i] + j

LEMMA ScriptLayout == \E s, t, songs, tabs : Layout(s, t, songs, tabs)
  <1> DEFINE n == Len(Fixtures)
  <1>1. PICK a \in Nat, s \in Nat, t \in Nat :
          /\ 6 <= a /\ a <= s /\ s <= t /\ t <= Len(Script)
          /\ Sits(ClearSeededCatalog, 0, 6) /\ Sits(SeedGenres, 6, a) /\ Sits(SeedArtists, a, s)
          /\ Sits(SeedSongs, s, t) /\ Sits(SeedTabs, t, Len(Script))
          /\ \A k \in DOMAIN Script :
               \/ k \in 1 .. 6
               \/ \E x \in DOMAIN SeedGenres : k = 6 + x
               \/ \E x \in DOMAIN SeedArtists : k = a + x
               \/ \E x \in DOMAIN SeedSongs : k = s + x
               \/ \E x \in DOMAIN SeedTabs : k = t + x
    BY Parts
  <1>2. PICK off : /\ \A i \in 1 .. n : Block(SeedSong(Fixtures[i]), SeedSongs, off[i])
                   /\ \A k \in DOMAIN SeedSongs : \E i \in 1 .. n :
                        \E j \in DOMAIN SeedSong(Fixtures[i]) : k = off[i] + j
    BY SongsPart
  <1>3. PICK toff : /\ \A i \in 1 .. n : Block(SeedTab(Fixtures[i]), SeedTabs, toff[i])
                    /\ \A k \in DOMAIN SeedTabs :
                         \/ k \in {1, 2}
                         \/ \E i \in 1 .. n : \E j \in {1, 2, 3} : k = toff[i] + j
    BY TabsPart
  <1>4. PICK songs, tabs : /\ songs = [i \in 1 .. n |-> s + off[i]]
                           /\ tabs = [i \in 1 .. n |-> t + toff[i]]
    OBVIOUS
  <1> HIDE DEF n
  <1>5. \A i \in 1 .. n : /\ off[i] \in Nat /\ songs[i] = s + off[i]
                          /\ toff[i] \in Nat /\ tabs[i] = t + toff[i]
    BY <1>2, <1>3, <1>4 DEF Block
  <1>6. ASSUME NEW p \in 1 .. 6 PROVE p \in DOMAIN Script /\ Script[p] = ClearSeededCatalog[p]
    <2>1. p \in DOMAIN ClearSeededCatalog /\ 0 + p = p
      BY DEF ClearSeededCatalog
    <2> QED
      BY <1>1, <2>1 DEF Sits, In
  <1>7. ASSUME NEW g \in FixtureGenres
        PROVE  \E p \in DOMAIN Script : p <= s /\ Script[p] = Do("upsertGenre", g)
    <2>1. PICK k \in DOMAIN SeedGenres : SeedGenres[k] = Do("upsertGenre", g)
      BY GenresAndArtistsParts
    <2>2. k \in Nat /\ 6 + k <= a /\ 6 + k \in DOMAIN Script /\ Script[6 + k] = SeedGenres[k]
      BY <1>1 DEF Sits, In
    <2>3. 6 + k <= s
      BY <1>1, <2>2
    <2> QED
      BY <2>1, <2>2, <2>3
  <1>8. ASSUME NEW b \in FixtureArtists
        PROVE  \E p \in DOMAIN Script : p <= s /\ Script[p] = Do("upsertArtist", b)
    <2>1. PICK k \in DOMAIN SeedArtists : SeedArtists[k] = Do("upsertArtist", b)
      BY GenresAndArtistsParts
    <2>2. a + k <= s /\ a + k \in DOMAIN Script /\ Script[a + k] = SeedArtists[k]
      BY <1>1 DEF Sits, In
    <2> QED
      BY <2>1, <2>2
  <1>9. ASSUME NEW i \in 1 .. n
        PROVE  /\ songs[i] \in Nat /\ s <= songs[i]
               /\ \A j \in DOMAIN SeedSong(Fixtures[i]) :
                    /\ songs[i] + j \in DOMAIN Script /\ songs[i] + j <= t
                    /\ Script[songs[i] + j] = SeedSong(Fixtures[i])[j]
    <2>1. PICK o \in Nat : o = off[i]
      BY <1>5
    <2>2. songs[i] = s + o
      BY <1>5, <2>1
    <2>3. ASSUME NEW j \in DOMAIN SeedSong(Fixtures[i])
          PROVE  /\ songs[i] + j \in DOMAIN Script /\ songs[i] + j <= t
                 /\ Script[songs[i] + j] = SeedSong(Fixtures[i])[j]
      <3>1. o + j \in DOMAIN SeedSongs /\ SeedSongs[o + j] = SeedSong(Fixtures[i])[j]
        BY <1>2, <2>1 DEF Block
      <3>2. /\ s + (o + j) <= t /\ s + (o + j) \in DOMAIN Script
            /\ Script[s + (o + j)] = SeedSongs[o + j]
        BY <1>1, <3>1 DEF Sits, In
      <3>3. Fixtures[i] \in FixtureSongs
        BY FixtureKinds DEF n
      <3>4. j \in Nat
        BY <3>3, SongPart, LenProperties
      <3>5. (s + o) + j = s + (o + j)
        BY <3>4
      <3> QED
        BY <2>2, <3>1, <3>2, <3>5
    <2> QED
      BY <2>2, <2>3
  <1>10. /\ t + 1 \in DOMAIN Script /\ Script[t + 1] = Do("upsertUser", "author")
         /\ t + 2 \in DOMAIN Script /\ Script[t + 2] = Do("upsertUser", "moderator")
    BY <1>1, TabsPart DEF Sits, In
  <1>11. ASSUME NEW i \in 1 .. n
         PROVE  /\ tabs[i] \in Nat /\ t <= tabs[i]
                /\ \A j \in {1, 2, 3} : /\ tabs[i] + j \in DOMAIN Script
                                        /\ Script[tabs[i] + j] = SeedTab(Fixtures[i])[j]
    <2>1. PICK o \in Nat : o = toff[i]
      BY <1>5
    <2>2. tabs[i] = t + o
      BY <1>5, <2>1
    <2>3. ASSUME NEW j \in {1, 2, 3}
          PROVE  /\ tabs[i] + j \in DOMAIN Script
                 /\ Script[tabs[i] + j] = SeedTab(Fixtures[i])[j]
      <3>1. j \in DOMAIN SeedTab(Fixtures[i])
        BY DEF SeedTab
      <3>2. o + j \in DOMAIN SeedTabs /\ SeedTabs[o + j] = SeedTab(Fixtures[i])[j]
        BY <1>3, <2>1, <3>1 DEF Block
      <3>3. t + (o + j) \in DOMAIN Script /\ Script[t + (o + j)] = SeedTabs[o + j]
        BY <1>1, <3>2 DEF Sits, In
      <3>4. (t + o) + j = t + (o + j)
        OBVIOUS
      <3> QED
        BY <2>2, <3>2, <3>3, <3>4
    <2> QED
      BY <2>2, <2>3
  <1>12. ASSUME NEW p \in DOMAIN Script
         PROVE  \/ p \in 1 .. 6
                \/ 6 < p /\ p <= s /\ Script[p].do \in {"upsertGenre", "upsertArtist"}
                \/ \E i \in 1 .. n : \E j \in DOMAIN SeedSong(Fixtures[i]) : p = songs[i] + j
                \/ p = t + 1 \/ p = t + 2
                \/ \E i \in 1 .. n : \E j \in {1, 2, 3} : p = tabs[i] + j
    <2>1. ASSUME NEW x \in DOMAIN SeedGenres, p = 6 + x
          PROVE  6 < p /\ p <= s /\ Script[p].do = "upsertGenre"
      <3>1. x \in Nat \ {0} /\ 6 + x <= a /\ Script[6 + x] = SeedGenres[x]
        BY <1>1 DEF Sits, In
      <3>2. SeedGenres[x].do = "upsertGenre"
        BY GenresAndArtistsParts
      <3> QED
        BY <1>1, <2>1, <3>1, <3>2
    <2>2. ASSUME NEW x \in DOMAIN SeedArtists, p = a + x
          PROVE  6 < p /\ p <= s /\ Script[p].do = "upsertArtist"
      <3>1. x \in Nat \ {0} /\ a + x <= s /\ Script[a + x] = SeedArtists[x]
        BY <1>1 DEF Sits, In
      <3>2. SeedArtists[x].do = "upsertArtist"
        BY GenresAndArtistsParts
      <3> QED
        BY <1>1, <2>2, <3>1, <3>2
    <2>3. ASSUME NEW x \in DOMAIN SeedSongs, p = s + x
          PROVE  \E i \in 1 .. n : \E j \in DOMAIN SeedSong(Fixtures[i]) : p = songs[i] + j
      <3>1. PICK i \in 1 .. n : \E j \in DOMAIN SeedSong(Fixtures[i]) : x = off[i] + j
        BY <1>2
      <3>2. PICK j \in DOMAIN SeedSong(Fixtures[i]) : x = off[i] + j
        BY <3>1
      <3>3. PICK o \in Nat : o = off[i]
        BY <1>5
      <3>4. Fixtures[i] \in FixtureSongs
        BY FixtureKinds DEF n
      <3>5. j \in Nat
        BY <3>4, SongPart, LenProperties
      <3>6. p = (s + o) + j
        BY <2>3, <3>2, <3>3, <3>5
      <3> QED
        BY <1>5, <3>3, <3>6
    <2>4. ASSUME NEW x \in DOMAIN SeedTabs, p = t + x, x \notin {1, 2}
          PROVE  \E i \in 1 .. n : \E j \in {1, 2, 3} : p = tabs[i] + j
      <3>1. PICK i \in 1 .. n, j \in {1, 2, 3} : x = toff[i] + j
        BY <1>3, <2>4
      <3>2. PICK o \in Nat : o = toff[i]
        BY <1>5
      <3>3. p = (t + o) + j
        BY <2>4, <3>1, <3>2
      <3> QED
        BY <1>5, <3>2, <3>3
    <2> QED
      BY <1>1, <2>1, <2>2, <2>3, <2>4
  <1>13. Layout(s, t, songs, tabs)
    BY <1>1, <1>6, <1>7, <1>8, <1>9, <1>10, <1>11, <1>12 DEF Layout, n
  <1> QED
    BY <1>13

\* Position p is in the block of song f that follows position o, or in that of its tab.
AtSong(p, o, f) ==
  \/ p = o + 1 /\ Script[p] = Do("findArtist", f[1])
  \/ p = o + 2 /\ Script[p] = Do("upsertSong", f)
  \/ p = o + 3 /\ Script[p] = Do("unlinkSong", f)
  \/ \E j \in DOMAIN SeedSong(f) : \E g \in ToSet(GenresOf[f[1]]) :
       /\ j > 3 /\ p = o + j
       /\ \/ Script[p] = Do("findGenre", g)
          \/ /\ j > 4 /\ Script[p - 1] = Do("findGenre", g)
             /\ Script[p] = Do("linkSong", <<f, g>>)

AtTab(p, o, f) ==
  \/ p = o + 1 /\ Script[p] = Do("findArtist", f[1])
  \/ /\ p = o + 2 /\ Script[p] = Do("findSong", f)
     /\ Script[p - 1] = Do("findArtist", f[1])
  \/ /\ p = o + 3 /\ Script[p] = Do("upsertTab", <<f, f>>)
     /\ Script[p - 1] = Do("findSong", f)

\* What there is at each position.
LEMMA Placement ==
  ASSUME NEW s, NEW t, NEW songs, NEW tabs, Layout(s, t, songs, tabs), NEW p \in DOMAIN Script
  PROVE  \/ p \in 1 .. 6 /\ Script[p].do \in Deletes
         \/ 6 < p /\ p <= s /\ Script[p].do \in {"upsertGenre", "upsertArtist"}
         \/ \E i \in 1 .. Len(Fixtures) : AtSong(p, songs[i], Fixtures[i])
         \/ p > t /\ Script[p] \in {Do("upsertUser", "author"), Do("upsertUser", "moderator")}
         \/ \E i \in 1 .. Len(Fixtures) : AtTab(p, tabs[i], Fixtures[i])
  <1>1. CASE p \in 1 .. 6
    <2>1. Script[p] = ClearSeededCatalog[p]
      BY <1>1 DEF Layout
    <2> QED
      BY <1>1, <2>1 DEF ClearSeededCatalog, Do, Deletes
  <1>2. CASE p = t + 1 \/ p = t + 2
    <2>1. t \in Nat /\ Script[t + 1] = Do("upsertUser", "author")
          /\ Script[t + 2] = Do("upsertUser", "moderator")
      BY DEF Layout
    <2> QED
      BY <1>2, <2>1
  <1>3. ASSUME NEW i \in 1 .. Len(Fixtures), NEW j \in DOMAIN SeedSong(Fixtures[i]), p = songs[i] + j
        PROVE  AtSong(p, songs[i], Fixtures[i])
    <2>1. PICK f \in FixtureSongs : f = Fixtures[i]
      BY FixtureKinds
    <2>2. PICK block : block = SeedSong(f)
      OBVIOUS
    <2>3. /\ block \in Seq(Statements)
          /\ block[1] = Do("findArtist", f[1]) /\ block[2] = Do("upsertSong", f)
          /\ block[3] = Do("unlinkSong", f)
          /\ \A k \in DOMAIN block : k > 3 => \E g \in ToSet(GenresOf[f[1]]) :
               \/ block[k] = Do("findGenre", g)
               \/ /\ k > 4 /\ block[k - 1] = Do("findGenre", g)
                  /\ block[k] = Do("linkSong", <<f, g>>)
      <3>1. /\ SeedSong(f) \in Seq(Statements)
            /\ SeedSong(f)[1] = Do("findArtist", f[1]) /\ SeedSong(f)[2] = Do("upsertSong", f)
            /\ SeedSong(f)[3] = Do("unlinkSong", f)
            /\ \A k \in DOMAIN SeedSong(f) : k > 3 => \E g \in ToSet(GenresOf[f[1]]) :
                 \/ SeedSong(f)[k] = Do("findGenre", g)
                 \/ /\ k > 4 /\ SeedSong(f)[k - 1] = Do("findGenre", g)
                    /\ SeedSong(f)[k] = Do("linkSong", <<f, g>>)
        BY SongPart
      <3> QED
        BY <2>2, <3>1
    <2>4. PICK o \in Nat : o = songs[i]
      BY DEF Layout
    <2>5. \A k \in DOMAIN block : Script[o + k] = block[k]
      BY <2>1, <2>2, <2>4 DEF Layout
    <2>6. Len(block) \in Nat /\ DOMAIN block = 1 .. Len(block)
      BY <2>3, LenProperties
    <2>7. j \in 1 .. Len(block) /\ p = o + j
      BY <1>3, <2>1, <2>2, <2>4, <2>6
    <2>8. CASE j > 3
      <3>1. PICK g \in ToSet(GenresOf[f[1]]) : \/ block[j] = Do("findGenre", g)
                                              \/ /\ j > 4 /\ block[j - 1] = Do("findGenre", g)
                                                 /\ block[j] = Do("linkSong", <<f, g>>)
        BY <2>3, <2>6, <2>7, <2>8
      <3>2. j > 4 => j - 1 \in DOMAIN block /\ o + (j - 1) = p - 1
        BY <2>6, <2>7
      <3>3. Script[p] = block[j] /\ (j > 4 => Script[p - 1] = block[j - 1])
        BY <2>5, <2>6, <2>7, <3>2
      <3> QED
        BY <1>3, <2>1, <2>8, <3>1, <3>3 DEF AtSong
    <2>9. CASE ~(j > 3)
      <3>1. j = 1 \/ j = 2 \/ j = 3
        BY <2>6, <2>7, <2>9
      <3>2. Script[p] = block[j]
        BY <2>5, <2>6, <2>7
      <3> QED
        BY <1>3, <2>1, <2>3, <3>1, <3>2 DEF AtSong
    <2> QED
      BY <2>8, <2>9
  <1>4. ASSUME NEW i \in 1 .. Len(Fixtures), NEW j \in {1, 2, 3}, p = tabs[i] + j
        PROVE  AtTab(p, tabs[i], Fixtures[i])
    <2>1. PICK o \in Nat : o = tabs[i]
      BY DEF Layout
    <2>2. \A k \in {1, 2, 3} : Script[o + k] = SeedTab(Fixtures[i])[k]
      BY <2>1 DEF Layout
    <2>3. /\ Script[o + 1] = Do("findArtist", Fixtures[i][1])
          /\ Script[o + 2] = Do("findSong", Fixtures[i])
          /\ Script[o + 3] = Do("upsertTab", <<Fixtures[i], Fixtures[i]>>)
      BY <2>2 DEF SeedTab
    <2>4. (o + 2) - 1 = o + 1 /\ (o + 3) - 1 = o + 2
      OBVIOUS
    <2> QED
      BY <1>4, <2>1, <2>3, <2>4 DEF AtTab
  <1>5. \/ p \in 1 .. 6
        \/ 6 < p /\ p <= s /\ Script[p].do \in {"upsertGenre", "upsertArtist"}
        \/ \E i \in 1 .. Len(Fixtures) : \E j \in DOMAIN SeedSong(Fixtures[i]) : p = songs[i] + j
        \/ p = t + 1 \/ p = t + 2
        \/ \E i \in 1 .. Len(Fixtures) : \E j \in {1, 2, 3} : p = tabs[i] + j
    BY DEF Layout
  <1> QED
    BY <1>1, <1>2, <1>3, <1>4, <1>5

\* Where the statements of each kind are.
LEMMA PositionsOfKinds ==
  ASSUME NEW s, NEW t, NEW songs, NEW tabs, Layout(s, t, songs, tabs), NEW p \in DOMAIN Script
  PROVE  /\ Script[p].do \in Deletes => p \in 1 .. 6
         /\ Script[p].do = "findArtist" => \E i \in 1 .. Len(Fixtures) :
              /\ p = songs[i] + 1 \/ p = tabs[i] + 1
              /\ Script[p] = Do("findArtist", Fixtures[i][1])
         /\ Script[p].do = "upsertSong" => \E i \in 1 .. Len(Fixtures) :
              p = songs[i] + 2 /\ Script[p] = Do("upsertSong", Fixtures[i])
         /\ Script[p].do = "unlinkSong" => \E i \in 1 .. Len(Fixtures) :
              p = songs[i] + 3 /\ Script[p] = Do("unlinkSong", Fixtures[i])
         /\ Script[p].do = "findGenre" => \E i \in 1 .. Len(Fixtures) :
              \E j \in DOMAIN SeedSong(Fixtures[i]) : j > 3 /\ p = songs[i] + j
         /\ Script[p].do = "linkSong" => \E i \in 1 .. Len(Fixtures) :
              \E j \in DOMAIN SeedSong(Fixtures[i]) : \E g \in ToSet(GenresOf[Fixtures[i][1]]) :
                /\ j > 4 /\ p = songs[i] + j /\ Script[p] = Do("linkSong", <<Fixtures[i], g>>)
                /\ Script[p - 1] = Do("findGenre", g)
         /\ Script[p].do = "findSong" => \E i \in 1 .. Len(Fixtures) :
              /\ p = tabs[i] + 2 /\ Script[p] = Do("findSong", Fixtures[i])
              /\ Script[p - 1] = Do("findArtist", Fixtures[i][1])
         /\ Script[p].do = "upsertTab" => \E i \in 1 .. Len(Fixtures) :
              /\ p = tabs[i] + 3 /\ Script[p] = Do("upsertTab", <<Fixtures[i], Fixtures[i]>>)
              /\ Script[p - 1] = Do("findSong", Fixtures[i])
  <1> DEFINE n == Len(Fixtures)
  <1>1. \A what, key : Script[p] = Do(what, key) => Script[p].do = what
    BY DEF Do
  <1>2. CASE p \in 1 .. 6 /\ Script[p].do \in Deletes
    BY <1>2 DEF Deletes
  <1>3. CASE 6 < p /\ p <= s /\ Script[p].do \in {"upsertGenre", "upsertArtist"}
    BY <1>3 DEF Deletes
  <1>4. CASE Script[p] \in {Do("upsertUser", "author"), Do("upsertUser", "moderator")}
    BY <1>1, <1>4 DEF Deletes
  <1>5. CASE \E i \in 1 .. n : p = songs[i] + 1 /\ Script[p] = Do("findArtist", Fixtures[i][1])
    BY <1>1, <1>5 DEF Deletes
  <1>6. CASE \E i \in 1 .. n : p = songs[i] + 2 /\ Script[p] = Do("upsertSong", Fixtures[i])
    BY <1>1, <1>6 DEF Deletes
  <1>7. CASE \E i \in 1 .. n : p = songs[i] + 3 /\ Script[p] = Do("unlinkSong", Fixtures[i])
    BY <1>1, <1>7 DEF Deletes
  <1>8. CASE \E i \in 1 .. n : \E j \in DOMAIN SeedSong(Fixtures[i]) :
               \E g \in ToSet(GenresOf[Fixtures[i][1]]) :
                 j > 3 /\ p = songs[i] + j /\ Script[p] = Do("findGenre", g)
    BY <1>1, <1>8 DEF Deletes
  <1>9. CASE \E i \in 1 .. n : \E j \in DOMAIN SeedSong(Fixtures[i]) :
               \E g \in ToSet(GenresOf[Fixtures[i][1]]) :
                 /\ j > 4 /\ p = songs[i] + j /\ Script[p] = Do("linkSong", <<Fixtures[i], g>>)
                 /\ Script[p - 1] = Do("findGenre", g)
    <2>1. Script[p].do = "linkSong"
      BY <1>1, <1>9
    <2> QED
      BY <1>9, <2>1 DEF Deletes
  <1>10. CASE \E i \in 1 .. n : p = tabs[i] + 1 /\ Script[p] = Do("findArtist", Fixtures[i][1])
    BY <1>1, <1>10 DEF Deletes
  <1>11. CASE \E i \in 1 .. n : /\ p = tabs[i] + 2 /\ Script[p] = Do("findSong", Fixtures[i])
                                /\ Script[p - 1] = Do("findArtist", Fixtures[i][1])
    <2>1. Script[p].do = "findSong"
      BY <1>1, <1>11
    <2> QED
      BY <1>11, <2>1 DEF Deletes
  <1>12. CASE \E i \in 1 .. n : /\ p = tabs[i] + 3
                                /\ Script[p] = Do("upsertTab", <<Fixtures[i], Fixtures[i]>>)
                                /\ Script[p - 1] = Do("findSong", Fixtures[i])
    <2>1. Script[p].do = "upsertTab"
      BY <1>1, <1>12
    <2> QED
      BY <1>12, <2>1 DEF Deletes
  <1> DEFINE InSongs ==
               \/ \E i \in 1 .. n : p = songs[i] + 1 /\ Script[p] = Do("findArtist", Fixtures[i][1])
               \/ \E i \in 1 .. n : p = songs[i] + 2 /\ Script[p] = Do("upsertSong", Fixtures[i])
               \/ \E i \in 1 .. n : p = songs[i] + 3 /\ Script[p] = Do("unlinkSong", Fixtures[i])
               \/ \E i \in 1 .. n : \E j \in DOMAIN SeedSong(Fixtures[i]) :
                    \E g \in ToSet(GenresOf[Fixtures[i][1]]) :
                      j > 3 /\ p = songs[i] + j /\ Script[p] = Do("findGenre", g)
               \/ \E i \in 1 .. n : \E j \in DOMAIN SeedSong(Fixtures[i]) :
                    \E g \in ToSet(GenresOf[Fixtures[i][1]]) :
                      /\ j > 4 /\ p = songs[i] + j /\ Script[p] = Do("linkSong", <<Fixtures[i], g>>)
                      /\ Script[p - 1] = Do("findGenre", g)
             InTabs ==
               \/ \E i \in 1 .. n : p = tabs[i] + 1 /\ Script[p] = Do("findArtist", Fixtures[i][1])
               \/ \E i \in 1 .. n : /\ p = tabs[i] + 2 /\ Script[p] = Do("findSong", Fixtures[i])
                                     /\ Script[p - 1] = Do("findArtist", Fixtures[i][1])
               \/ \E i \in 1 .. n : /\ p = tabs[i] + 3
                                     /\ Script[p] = Do("upsertTab", <<Fixtures[i], Fixtures[i]>>)
                                     /\ Script[p - 1] = Do("findSong", Fixtures[i])
  <1>13. ASSUME NEW i \in 1 .. n, AtSong(p, songs[i], Fixtures[i]) PROVE InSongs
    BY <1>13 DEF AtSong
  <1>14. ASSUME NEW i \in 1 .. n, AtTab(p, tabs[i], Fixtures[i]) PROVE InTabs
    BY <1>14 DEF AtTab
  <1>15. \/ p \in 1 .. 6 /\ Script[p].do \in Deletes
         \/ 6 < p /\ p <= s /\ Script[p].do \in {"upsertGenre", "upsertArtist"}
         \/ Script[p] \in {Do("upsertUser", "author"), Do("upsertUser", "moderator")}
         \/ InSongs \/ InTabs
    <2> HIDE DEF InSongs, InTabs
    <2> QED
      BY <1>13, <1>14, Placement
  <1> QED
    BY <1>2, <1>3, <1>4, <1>5, <1>6, <1>7, <1>8, <1>9, <1>10, <1>11, <1>12, <1>15, ZenonT(60)

\* The statements that write the row of a key, and those that remove it.
Writes(k) == {w \in Statements :
  w.do \in {"upsertGenre", "upsertArtist", "upsertSong", "upsertTab"} /\ w.key = k}

Removes(k) == {Do(what, NULL) : what \in
  IF k \in Genres THEN {"deleteGenres"} ELSE IF k \in Artists THEN {"deleteArtists"}
  ELSE IF k \in Songs THEN {"deleteSongs"} ELSE {"deleteTabs"}}

\* The script consists of statements, first of all the six that delete, in the order in
\* which the foreign keys allow it; none deletes later.
LEMMA ScriptStatements ==
  /\ Script \in Seq(Statements) /\ Len(Script) \in Nat /\ DOMAIN Script = 1 .. Len(Script)
  /\ Len(Script) > 6
  /\ \A p \in DOMAIN Script : Script[p] \in Statements
  /\ \A p \in DOMAIN Script : p <= 6 <=> Script[p].do \in Deletes
  /\ \A p \in 1 .. 6 : p \in DOMAIN Script /\ Script[p] = ClearSeededCatalog[p]
  <1>1. PICK s, t, songs, tabs : Layout(s, t, songs, tabs)
    BY ScriptLayout
  <1>2. Script \in Seq(Statements) /\ Len(Script) \in Nat /\ DOMAIN Script = 1 .. Len(Script)
    BY Parts
  <1>3. \A p \in DOMAIN Script : Script[p] \in Statements
    BY <1>2, ElementOfSeq
  <1>4. s \in Nat /\ t \in Nat /\ 6 <= s /\ s <= t /\ t + 1 \in DOMAIN Script
        /\ \A p \in 1 .. 6 : p \in DOMAIN Script /\ Script[p] = ClearSeededCatalog[p]
    BY <1>1 DEF Layout
  <1>5. \A i \in 1 .. Len(Fixtures) : /\ songs[i] \in Nat /\ s <= songs[i]
                                      /\ tabs[i] \in Nat /\ t <= tabs[i]
    BY <1>1 DEF Layout
  <1>6. Len(Script) > 6
    BY <1>2, <1>4
  <1>7. ASSUME NEW p \in DOMAIN Script PROVE p <= 6 <=> Script[p].do \in Deletes
    <2>1. CASE p <= 6
      <3>1. p \in 1 .. 6
        BY <1>2, <2>1
      <3>2. Script[p] = ClearSeededCatalog[p]
        BY <1>4, <3>1
      <3> QED
        BY <2>1, <3>1, <3>2 DEF ClearSeededCatalog, Do, Deletes
    <2>2. CASE p > 6
      <3>1. p \notin 1 .. 6
        BY <2>2
      <3>2. Script[p].do \notin Deletes
        BY <1>1, <3>1, PositionsOfKinds
      <3> QED
        BY <1>2, <2>2, <3>2
    <2> QED
      BY <1>2, <2>1, <2>2
  <1> QED
    BY <1>2, <1>3, <1>4, <1>6, <1>7

\* The script writes every fixture, associates every song with the genres of its artist
\* and makes both accounts.
LEMMA ScriptWrites ==
  /\ \A k \in FixtureKeys : \E p \in DOMAIN Script : Script[p] \in Writes(k)
  /\ \A e \in FixtureLinks : \E p \in DOMAIN Script : Script[p] = Do("linkSong", e)
  /\ \A u \in SeedUsers : \E p \in DOMAIN Script : Script[p] = Do("upsertUser", u)
  /\ \A p \in DOMAIN Script : \A e \in FixtureLinks :
       Script[p] = Do("unlinkSong", e[1]) =>
         \E m \in DOMAIN Script : p < m /\ Script[m] = Do("linkSong", e)
  <1>1. PICK s, t, songs, tabs : Layout(s, t, songs, tabs)
    BY ScriptLayout
  <1>2. \A p \in DOMAIN Script : Script[p] \in Statements
    BY ScriptStatements
  <1>3. ASSUME NEW what \in {"upsertGenre", "upsertArtist", "upsertSong", "upsertTab"}, NEW k,
               NEW p \in DOMAIN Script, Script[p] = Do(what, k)
        PROVE  Script[p] \in Writes(k)
    BY <1>2, <1>3 DEF Writes, Do
  <1>4. ASSUME NEW i \in 1 .. Len(Fixtures), NEW f, f = Fixtures[i]
        PROVE  /\ songs[i] \in Nat /\ songs[i] + 2 \in DOMAIN Script
               /\ Script[songs[i] + 2] = Do("upsertSong", f)
               /\ tabs[i] + 3 \in DOMAIN Script
               /\ Script[tabs[i] + 3] = Do("upsertTab", <<f, f>>)
    <2>1. f \in FixtureSongs
      BY <1>4, FixtureKinds
    <2>2. /\ SeedSong(f) \in Seq(Statements) /\ 2 \in DOMAIN SeedSong(f)
          /\ SeedSong(f)[2] = Do("upsertSong", f)
      BY <2>1, SongPart
    <2>3. \A j \in DOMAIN SeedSong(f) : /\ songs[i] + j \in DOMAIN Script
                                        /\ Script[songs[i] + j] = SeedSong(f)[j]
      BY <1>1, <1>4 DEF Layout
    <2>4. tabs[i] + 3 \in DOMAIN Script /\ Script[tabs[i] + 3] = SeedTab(f)[3]
      BY <1>1, <1>4 DEF Layout
    <2>5. SeedTab(f)[3] = Do("upsertTab", <<f, f>>)
      BY DEF SeedTab
    <2>6. songs[i] \in Nat
      BY <1>1 DEF Layout
    <2> QED
      BY <2>2, <2>3, <2>4, <2>5, <2>6
  <1>5. ASSUME NEW k \in FixtureKeys PROVE \E p \in DOMAIN Script : Script[p] \in Writes(k)
    <2>1. CASE k \in FixtureGenres
      <3>1. PICK p \in DOMAIN Script : Script[p] = Do("upsertGenre", k)
        BY <1>1, <2>1 DEF Layout
      <3> QED
        BY <1>3, <3>1
    <2>2. CASE k \in FixtureArtists
      <3>1. PICK p \in DOMAIN Script : Script[p] = Do("upsertArtist", k)
        BY <1>1, <2>2 DEF Layout
      <3> QED
        BY <1>3, <3>1
    <2>3. CASE k \in FixtureSongs
      <3>1. PICK i \in 1 .. Len(Fixtures) : Fixtures[i] = k
        BY <2>3, FixtureKinds
      <3>2. songs[i] + 2 \in DOMAIN Script /\ Script[songs[i] + 2] = Do("upsertSong", k)
        BY <1>4, <3>1
      <3> QED
        BY <1>3, <3>2
    <2>4. CASE k \in FixtureTabs
      <3>1. PICK f \in FixtureSongs : k = <<f, f>>
        BY <2>4 DEF FixtureTabs
      <3>2. PICK i \in 1 .. Len(Fixtures) : Fixtures[i] = f
        BY FixtureKinds
      <3>3. tabs[i] + 3 \in DOMAIN Script /\ Script[tabs[i] + 3] = Do("upsertTab", k)
        BY <1>4, <3>1, <3>2
      <3> QED
        BY <1>3, <3>3
    <2> QED
      BY <2>1, <2>2, <2>3, <2>4 DEF FixtureKeys
  <1>6. ASSUME NEW e \in FixtureLinks
        PROVE  \E i \in 1 .. Len(Fixtures) : \E j \in Nat :
                 /\ Fixtures[i] = e[1] /\ j > 3 /\ songs[i] \in Nat
                 /\ songs[i] + j \in DOMAIN Script /\ Script[songs[i] + j] = Do("linkSong", e)
    <2>1. PICK f \in FixtureSongs : \E g \in ToSet(GenresOf[f[1]]) : e = <<f, g>>
      BY FixtureKinds
    <2>2. PICK g \in ToSet(GenresOf[f[1]]) : e = <<f, g>>
      BY <2>1
    <2>3. PICK i \in 1 .. Len(Fixtures) : Fixtures[i] = f
      BY FixtureKinds
    <2>4. PICK j \in DOMAIN SeedSong(f) : j > 3 /\ SeedSong(f)[j] = Do("linkSong", <<f, g>>)
      BY SongPart
    <2>5. songs[i] \in Nat /\ songs[i] + j \in DOMAIN Script /\ Script[songs[i] + j] = SeedSong(f)[j]
      BY <1>1, <2>3 DEF Layout
    <2>6. j \in Nat
      <3>1. SeedSong(f) \in Seq(Statements)
        BY SongPart
      <3> QED
        BY <3>1, LenProperties
    <2>7. f = e[1]
      BY <2>2
    <2>8. Script[songs[i] + j] = Do("linkSong", e)
      BY <2>2, <2>4, <2>5
    <2> QED
      BY <2>3, <2>4, <2>5, <2>6, <2>7, <2>8
  <1>7. ASSUME NEW p \in DOMAIN Script, NEW e \in FixtureLinks, Script[p] = Do("unlinkSong", e[1])
        PROVE  \E m \in DOMAIN Script : p < m /\ Script[m] = Do("linkSong", e)
    <2>1. PICK i \in 1 .. Len(Fixtures) : \E j \in Nat :
            /\ Fixtures[i] = e[1] /\ j > 3 /\ songs[i] \in Nat
            /\ songs[i] + j \in DOMAIN Script /\ Script[songs[i] + j] = Do("linkSong", e)
      BY <1>6
    <2>2. PICK j \in Nat :
            /\ Fixtures[i] = e[1] /\ j > 3 /\ songs[i] \in Nat
            /\ songs[i] + j \in DOMAIN Script /\ Script[songs[i] + j] = Do("linkSong", e)
      BY <2>1
    <2>3. Script[p].do = "unlinkSong"
      BY <1>7 DEF Do
    <2>4. PICK l \in 1 .. Len(Fixtures) : p = songs[l] + 3 /\ Script[p] = Do("unlinkSong", Fixtures[l])
      BY <1>1, <2>3, PositionsOfKinds
    <2>5. Fixtures[l] = e[1]
      BY <1>7, <2>4 DEF Do
    <2>6. l = i
      <3>1. DOMAIN Fixtures = 1 .. Len(Fixtures)
        BY FixturesAreSongs, LenProperties
      <3> QED
        BY <2>2, <2>5, <3>1, FixturesAreSongs
    <2>7. p < songs[i] + j
      BY <2>2, <2>4, <2>6
    <2> QED
      BY <2>2, <2>7
  <1>8. \A u \in SeedUsers : \E p \in DOMAIN Script : Script[p] = Do("upsertUser", u)
    BY <1>1 DEF Layout, SeedUsers
  <1> QED
    BY <1>5, <1>6, <1>7, <1>8

\* A row is looked up after it has been upserted.
LEMMA ReadsFollowWrites ==
  ASSUME NEW p \in DOMAIN Script, Script[p].do \in {"findArtist", "findGenre", "findSong"}
  PROVE  \E m \in DOMAIN Script : m < p /\ Script[m] \in Writes(Script[p].key)
  <1>1. PICK s, t, songs, tabs : Layout(s, t, songs, tabs)
    BY ScriptLayout
  <1>2. s \in Nat /\ t \in Nat /\ s <= t
    BY <1>1 DEF Layout
  <1>3. DOMAIN Script \subseteq Nat /\ \A m \in DOMAIN Script : Script[m] \in Statements
    BY ScriptStatements
  <1>4. \A i \in 1 .. Len(Fixtures) : /\ songs[i] \in Nat /\ s <= songs[i]
                                      /\ tabs[i] \in Nat /\ t <= tabs[i]
    BY <1>1 DEF Layout
  <1>5. ASSUME NEW what \in {"upsertGenre", "upsertArtist", "upsertSong"}, NEW k,
               NEW m \in DOMAIN Script, Script[m] = Do(what, k)
        PROVE  Script[m] \in Writes(k)
    BY <1>3, <1>5 DEF Writes, Do
  <1>6. CASE Script[p].do = "findArtist"
    <2>1. PICK i \in 1 .. Len(Fixtures) : /\ p = songs[i] + 1 \/ p = tabs[i] + 1
                                          /\ Script[p] = Do("findArtist", Fixtures[i][1])
      BY <1>1, <1>6, PositionsOfKinds
    <2>2. Script[p].key = Fixtures[i][1] /\ Fixtures[i][1] \in FixtureArtists
      BY <2>1, FixtureKinds DEF Do
    <2>3. PICK m \in DOMAIN Script : m <= s /\ Script[m] = Do("upsertArtist", Fixtures[i][1])
      BY <1>1, <2>2 DEF Layout
    <2>4. m < p
      BY <1>2, <1>3, <1>4, <2>1, <2>3
    <2> QED
      BY <1>5, <2>2, <2>3, <2>4
  <1>7. CASE Script[p].do = "findGenre"
    <2>1. PICK i \in 1 .. Len(Fixtures) : \E j \in DOMAIN SeedSong(Fixtures[i]) :
            j > 3 /\ p = songs[i] + j
      BY <1>1, <1>7, PositionsOfKinds
    <2>2. PICK j \in DOMAIN SeedSong(Fixtures[i]) : j > 3 /\ p = songs[i] + j
      BY <2>1
    <2>3. Fixtures[i] \in FixtureSongs
      BY FixtureKinds
    <2>4. j \in Nat
      BY <2>3, SongPart, LenProperties
    <2>5. Script[p].key \in FixtureGenres
      BY <1>3, <1>7 DEF Statements, Deletes
    <2>6. PICK m \in DOMAIN Script : m <= s /\ Script[m] = Do("upsertGenre", Script[p].key)
      BY <1>1, <2>5 DEF Layout
    <2>7. m < p
      BY <1>2, <1>3, <1>4, <2>2, <2>4, <2>6
    <2> QED
      BY <1>5, <2>6, <2>7
  <1>8. CASE Script[p].do = "findSong"
    <2>1. PICK i \in 1 .. Len(Fixtures) : p = tabs[i] + 2 /\ Script[p] = Do("findSong", Fixtures[i])
      BY <1>1, <1>8, PositionsOfKinds
    <2>2. Fixtures[i] \in FixtureSongs
      BY FixtureKinds
    <2>3. 2 \in DOMAIN SeedSong(Fixtures[i]) /\ SeedSong(Fixtures[i])[2] = Do("upsertSong", Fixtures[i])
      BY <2>2, SongPart
    <2>4. /\ songs[i] + 2 \in DOMAIN Script /\ songs[i] + 2 <= t
          /\ Script[songs[i] + 2] = Do("upsertSong", Fixtures[i])
      BY <1>1, <2>3 DEF Layout
    <2>5. songs[i] + 2 < p
      BY <1>2, <1>4, <2>1, <2>4
    <2>6. Script[p].key = Fixtures[i]
      BY <2>1 DEF Do
    <2> QED
      BY <1>5, <2>4, <2>5, <2>6
  <1> QED
    BY <1>6, <1>7, <1>8

\* The artist a song is upserted or looked up under was looked up just before, and so was
\* the song of a tab; a song whose associations are removed was upserted just before.
LEMMA ParentsAreReadJustBefore ==
  ASSUME NEW p \in DOMAIN Script
  PROVE  /\ Script[p].do \in {"upsertSong", "findSong"} =>
              p - 1 \in DOMAIN Script /\ Script[p - 1] = Do("findArtist", Script[p].key[1])
         /\ Script[p].do = "upsertTab" =>
              p - 1 \in DOMAIN Script /\ Script[p - 1] = Do("findSong", Script[p].key[2])
         /\ Script[p].do = "unlinkSong" =>
              p - 1 \in DOMAIN Script /\ Script[p - 1] = Do("upsertSong", Script[p].key)
  <1>1. PICK s, t, songs, tabs : Layout(s, t, songs, tabs)
    BY ScriptLayout
  <1>2. \A i \in 1 .. Len(Fixtures) :
          /\ songs[i] \in Nat /\ tabs[i] \in Nat
          /\ tabs[i] + 1 \in DOMAIN Script /\ tabs[i] + 2 \in DOMAIN Script
    BY <1>1 DEF Layout
  <1>3. CASE Script[p].do = "upsertSong"
    <2>1. PICK i \in 1 .. Len(Fixtures) : p = songs[i] + 2 /\ Script[p] = Do("upsertSong", Fixtures[i])
      BY <1>1, <1>3, PositionsOfKinds
    <2>2. PICK f \in FixtureSongs : f = Fixtures[i]
      BY FixtureKinds
    <2>3. 1 \in DOMAIN SeedSong(f) /\ SeedSong(f)[1] = Do("findArtist", f[1])
      BY SongPart
    <2>4. songs[i] + 1 \in DOMAIN Script /\ Script[songs[i] + 1] = Do("findArtist", f[1])
      BY <1>1, <2>2, <2>3 DEF Layout
    <2>5. p - 1 = songs[i] + 1
      BY <1>2, <2>1
    <2>6. Script[p].key = f
      BY <2>1, <2>2 DEF Do
    <2> QED
      BY <1>3, <2>4, <2>5, <2>6
  <1>4. CASE Script[p].do = "findSong"
    <2>1. PICK i \in 1 .. Len(Fixtures) : /\ p = tabs[i] + 2 /\ Script[p] = Do("findSong", Fixtures[i])
                                          /\ Script[p - 1] = Do("findArtist", Fixtures[i][1])
      BY <1>1, <1>4, PositionsOfKinds
    <2>2. p - 1 = tabs[i] + 1
      BY <1>2, <2>1
    <2>3. Script[p].key = Fixtures[i]
      BY <2>1 DEF Do
    <2> QED
      BY <1>2, <1>4, <2>1, <2>2, <2>3
  <1>5. CASE Script[p].do = "upsertTab"
    <2>1. PICK i \in 1 .. Len(Fixtures) :
            /\ p = tabs[i] + 3 /\ Script[p] = Do("upsertTab", <<Fixtures[i], Fixtures[i]>>)
            /\ Script[p - 1] = Do("findSong", Fixtures[i])
      BY <1>1, <1>5, PositionsOfKinds
    <2>2. p - 1 = tabs[i] + 2
      BY <1>2, <2>1
    <2>3. Script[p].key[2] = Fixtures[i]
      BY <2>1 DEF Do
    <2> QED
      BY <1>2, <1>5, <2>1, <2>2, <2>3
  <1>6. CASE Script[p].do = "unlinkSong"
    <2>1. PICK i \in 1 .. Len(Fixtures) : p = songs[i] + 3 /\ Script[p] = Do("unlinkSong", Fixtures[i])
      BY <1>1, <1>6, PositionsOfKinds
    <2>2. PICK f \in FixtureSongs : f = Fixtures[i]
      BY FixtureKinds
    <2>3. 2 \in DOMAIN SeedSong(f) /\ SeedSong(f)[2] = Do("upsertSong", f)
      BY SongPart
    <2>4. songs[i] + 2 \in DOMAIN Script /\ Script[songs[i] + 2] = Do("upsertSong", f)
      BY <1>1, <2>2, <2>3 DEF Layout
    <2>5. p - 1 = songs[i] + 2
      BY <1>2, <2>1
    <2>6. Script[p].key = f
      BY <2>1, <2>2 DEF Do
    <2> QED
      BY <1>6, <2>4, <2>5, <2>6
  <1> QED
    BY <1>3, <1>4, <1>5, <1>6

\* An association is made right after its genre was looked up, in the block that upserted
\* its song, and only once.
LEMMA LinksFollowTheirSong ==
  ASSUME NEW p \in DOMAIN Script, Script[p].do = "linkSong"
  PROVE  /\ p - 1 \in DOMAIN Script /\ Script[p - 1] = Do("findGenre", Script[p].key[2])
         /\ \E m \in DOMAIN Script :
              /\ m < p /\ Script[m] = Do("upsertSong", Script[p].key[1])
              /\ \A x \in DOMAIN Script : m < x /\ x < p =>
                   Script[x].do \in {"unlinkSong", "findGenre", "linkSong"}
         /\ \A q \in DOMAIN Script : Script[q] = Script[p] => q = p
  <1>1. PICK s, t, songs, tabs : Layout(s, t, songs, tabs)
    BY ScriptLayout
  <1>2. \A i \in 1 .. Len(Fixtures) : songs[i] \in Nat
    BY <1>1 DEF Layout
  \* Where an association is made.
  <1>3. ASSUME NEW q \in DOMAIN Script, Script[q].do = "linkSong"
        PROVE  \E i \in 1 .. Len(Fixtures) : \E j \in DOMAIN SeedSong(Fixtures[i]) :
                 \E g \in ToSet(GenresOf[Fixtures[i][1]]) :
                   /\ j > 4 /\ q = songs[i] + j /\ Script[q] = Do("linkSong", <<Fixtures[i], g>>)
                   /\ Script[q - 1] = Do("findGenre", g)
    BY <1>1, <1>3, PositionsOfKinds
  <1>4. PICK i \in 1 .. Len(Fixtures) : \E j \in DOMAIN SeedSong(Fixtures[i]) :
          \E g \in ToSet(GenresOf[Fixtures[i][1]]) :
            /\ j > 4 /\ p = songs[i] + j /\ Script[p] = Do("linkSong", <<Fixtures[i], g>>)
            /\ Script[p - 1] = Do("findGenre", g)
    BY <1>3
  <1>5. PICK f \in FixtureSongs : f = Fixtures[i]
    BY FixtureKinds
  <1>6. PICK j \in DOMAIN SeedSong(f) : \E g \in ToSet(GenresOf[f[1]]) :
          /\ j > 4 /\ p = songs[i] + j /\ Script[p] = Do("linkSong", <<f, g>>)
          /\ Script[p - 1] = Do("findGenre", g)
    BY <1>4, <1>5
  <1>7. PICK g \in ToSet(GenresOf[f[1]]) :
          /\ j > 4 /\ p = songs[i] + j /\ Script[p] = Do("linkSong", <<f, g>>)
          /\ Script[p - 1] = Do("findGenre", g)
    BY <1>6
  <1>8. PICK o \in Nat : o = songs[i]
    BY <1>2
  <1>9. PICK block : block = SeedSong(f)
    OBVIOUS
  <1>10. Len(block) \in Nat /\ DOMAIN block = 1 .. Len(block)
    <2>1. SeedSong(f) \in Seq(Statements)
      BY SongPart
    <2> QED
      BY <1>9, <2>1, LenProperties
  <1>11. \A x \in 1 .. Len(block) : o + x \in DOMAIN Script /\ Script[o + x] = block[x]
    BY <1>1, <1>5, <1>8, <1>9, <1>10 DEF Layout
  <1>12. Script[p].key[1] = f /\ Script[p].key[2] = g
    BY <1>7 DEF Do
  <1>13. j \in 1 .. Len(block) /\ p = o + j /\ j > 4
    BY <1>7, <1>8, <1>9, <1>10
  <1>14. p - 1 \in DOMAIN Script
    <2>1. j - 1 \in 1 .. Len(block) /\ o + (j - 1) = p - 1
      BY <1>10, <1>13
    <2> QED
      BY <1>11, <2>1
  <1>15. \E m \in DOMAIN Script :
           /\ m < p /\ Script[m] = Do("upsertSong", f)
           /\ \A x \in DOMAIN Script : m < x /\ x < p =>
                Script[x].do \in {"unlinkSong", "findGenre", "linkSong"}
    <2>1. /\ 2 \in DOMAIN SeedSong(f) /\ SeedSong(f)[2] = Do("upsertSong", f)
          /\ SeedSong(f)[3] = Do("unlinkSong", f)
          /\ \A y \in DOMAIN SeedSong(f) : y > 3 => \E h \in ToSet(GenresOf[f[1]]) :
               \/ SeedSong(f)[y] = Do("findGenre", h)
               \/ SeedSong(f)[y] = Do("linkSong", <<f, h>>)
      BY SongPart
    <2>2. o + 2 \in DOMAIN Script /\ Script[o + 2] = Do("upsertSong", f) /\ o + 2 < p
      BY <1>9, <1>10, <1>11, <1>13, <2>1
    <2>3. ASSUME NEW x \in DOMAIN Script, o + 2 < x, x < p
          PROVE  Script[x].do \in {"unlinkSong", "findGenre", "linkSong"}
      <3>1. x \in Nat
        BY ScriptStatements
      <3>2. PICK y \in 1 .. Len(block) : x = o + y /\ y > 2
        <4>1. x - o \in 1 .. Len(block) /\ x = o + (x - o) /\ x - o > 2
          BY <1>10, <1>13, <2>3, <3>1
        <4> QED
          BY <4>1
      <3>3. Script[x] = block[y]
        BY <1>11, <3>2
      <3>4. CASE y = 3
        BY <1>9, <2>1, <3>3, <3>4 DEF Do
      <3>5. CASE y > 3
        <4>1. PICK h \in ToSet(GenresOf[f[1]]) : \/ block[y] = Do("findGenre", h)
                                                \/ block[y] = Do("linkSong", <<f, h>>)
          BY <1>9, <1>10, <2>1, <3>5
        <4> QED
          BY <3>3, <4>1 DEF Do
      <3> QED
        BY <3>2, <3>4, <3>5
    <2> QED
      BY <2>2, <2>3
  <1>16. ASSUME NEW q \in DOMAIN Script, Script[q] = Script[p] PROVE q = p
    <2>1. PICK l \in 1 .. Len(Fixtures) : \E y \in DOMAIN SeedSong(Fixtures[l]) :
            \E h \in ToSet(GenresOf[Fixtures[l][1]]) :
              /\ y > 4 /\ q = songs[l] + y /\ Script[q] = Do("linkSong", <<Fixtures[l], h>>)
              /\ Script[q - 1] = Do("findGenre", h)
      <3>1. Script[q].do = "linkSong"
        BY <1>16
      <3> QED
        BY <1>3, <3>1
    <2>2. PICK y \in DOMAIN SeedSong(Fixtures[l]) : \E h \in ToSet(GenresOf[Fixtures[l][1]]) :
            q = songs[l] + y /\ Script[q] = Do("linkSong", <<Fixtures[l], h>>)
      BY <2>1
    <2>3. Fixtures[l] = f
      BY <1>12, <1>16, <2>2 DEF Do
    <2>4. l = i
      <3>1. DOMAIN Fixtures = 1 .. Len(Fixtures)
        BY FixturesAreSongs, LenProperties
      <3> QED
        BY <1>5, <2>3, <3>1, FixturesAreSongs
    <2>5. y \in 1 .. Len(block) /\ q = o + y
      BY <1>8, <1>9, <1>10, <2>2, <2>3, <2>4
    <2>6. block[y] = block[j] /\ block[j].do = "linkSong"
      BY <1>11, <1>13, <1>16, <2>5
    <2>7. \A a, b \in DOMAIN SeedSong(f) :
            SeedSong(f)[a].do = "linkSong" /\ SeedSong(f)[a] = SeedSong(f)[b] => a = b
      BY SongPart
    <2>8. j = y
      BY <1>9, <1>10, <1>13, <2>5, <2>6, <2>7
    <2> QED
      BY <1>13, <2>5, <2>8
  <1> QED
    BY <1>7, <1>12, <1>14, <1>15, <1>16

-----------------------------------------------------------------------------
(* The types, the foreign keys and what the runs hold.                     *)

CatalogOK ==
  /\ rows \in [Keys -> Row \cup {NULL}]
  /\ links \subseteq Songs \X Genres
  /\ rated \subseteq Tabs
  /\ users \in [SeedUsers -> {"none", "seeded", "changed", "taken"}]
  /\ \A f \in Songs : Exists(f) => Exists(f[1])
  /\ \A t \in Tabs : Exists(t) => Exists(t[2])
  /\ \A e \in links : Exists(e[1]) /\ Exists(e[2])
  /\ \A t \in rated : Exists(t)
  /\ \A t, u \in Tabs : Exists(t) /\ Exists(u) /\ t[1] = u[1] => t[1] = NULL \/ t = u

RunsOK ==
  /\ runs \in [Runs -> Run]
  /\ spoiled \subseteq Disturbances /\ renamed \subseteq FixtureKeys
  /\ writes \in 0 .. MaxWrites /\ kills \in 0 .. MaxKills

\* At most one of each kind.
OneEach(keys) == \A kind \in {Artists, Songs, Genres} : \A k, l \in keys \cap kind : k = l

HeldOK ==
  /\ held \in [Runs -> SUBSET (Artists \cup Songs \cup Genres)]
  /\ \A r \in Runs : \A k \in held[r] : Exists(k)
  /\ \A r \in Runs : OneEach(held[r])

LEMMA TypeParts == TypeOK <=> CatalogOK /\ RunsOK /\ HeldOK
  BY DEF TypeOK, CatalogOK, RunsOK, HeldOK, OneEach

\* The keys are of the tables they are about.
LEMMA StatementKeys ==
  ASSUME NEW w \in Statements
  PROVE  /\ w.do \in {"upsertGenre", "findGenre"} => w.key \in FixtureGenres
         /\ w.do \in {"upsertArtist", "findArtist"} => w.key \in FixtureArtists
         /\ w.do \in {"upsertSong", "unlinkSong", "findSong"} => w.key \in FixtureSongs
         /\ w.do = "linkSong" => w.key \in FixtureLinks
         /\ w.do = "upsertTab" => w.key \in FixtureTabs
         /\ w.do = "upsertUser" => w.key \in SeedUsers
         /\ w.do \in Deletes => w.key = NULL
         /\ w = Do(w.do, w.key)
         /\ w.do \in Deletes \cup {"upsertGenre", "findGenre", "upsertArtist", "findArtist",
              "upsertSong", "unlinkSong", "findSong", "linkSong", "upsertTab", "upsertUser"}
  BY DEF Statements, Deletes, Do

LEMMA StatementOf ==
  ASSUME RunsOK, NEW r \in Runs, Running(r)
  PROVE  /\ runs[r] \in Run /\ runs[r].at \in DOMAIN Script /\ runs[r].at \in Nat
         /\ Statement(r) \in Statements
  <1>1. runs[r] \in Run /\ runs[r].at \in 0 .. Len(Script) /\ runs[r].at > 0
    BY DEF RunsOK, Run, Running
  <1>2. runs[r].at \in DOMAIN Script /\ runs[r].at \in Nat
    BY <1>1, ScriptStatements
  <1> QED
    BY <1>1, <1>2, ScriptStatements DEF Statement

\* Parents exist.
Founded(k) == (k \in Songs => Exists(k[1])) /\ (k \in Tabs => Exists(k[2]))

LEMMA KeyKinds ==
  /\ Genres \subseteq Keys /\ Artists \subseteq Keys /\ Songs \subseteq Keys /\ Tabs \subseteq Keys
  /\ \A f \in Songs : f[1] \in Artists /\ f[2] \in SongSlugs /\ f = <<f[1], f[2]>>
  /\ \A t \in Tabs : t[2] \in Songs /\ t = <<t[1], t[2]>>
  BY DEF Keys, Songs, Tabs

\* Writing a row whose parents are there, no second tab with a fixture's identifier.
LEMMA WriteKeepsCatalog ==
  ASSUME CatalogOK, NEW k \in Keys, Founded(k), NEW row \in Row,
         k \in Tabs => Exists(k) \/ k[1] = NULL,
         rows' = [rows EXCEPT ![k] = row], UNCHANGED <<rated, users>>,
         links' \subseteq Songs \X Genres,
         \A e \in links' : e \in links \/ (Exists(e[1])' /\ Exists(e[2])')
  PROVE  /\ CatalogOK' /\ Exists(k)'
         /\ \A x \in Keys : Exists(x) => Exists(x)'
         /\ \A x \in Keys \ {k} : rows'[x] = rows[x]
  <1>1. row # NULL
    BY NullIsNoRow
  <1>2. rows' \in [Keys -> Row \cup {NULL}] /\ rows'[k] = row /\ \A x \in Keys \ {k} : rows'[x] = rows[x]
    BY DEF CatalogOK
  <1>3. Exists(k)' /\ \A x \in Keys : Exists(x) => Exists(x)'
    BY <1>1, <1>2 DEF Exists
  <1>4. \A x \in Keys \ {k} : Exists(x)' => Exists(x)
    BY <1>2 DEF Exists
  <1>5. ASSUME NEW f \in Songs, Exists(f)' PROVE Exists(f[1])'
    <2>1. f[1] \in Keys /\ f \in Keys
      BY KeyKinds
    <2> QED
      BY <1>3, <1>4, <1>5, <2>1 DEF CatalogOK, Founded
  <1>6. ASSUME NEW t \in Tabs, Exists(t)' PROVE Exists(t[2])'
    <2>1. t[2] \in Keys /\ t \in Keys
      BY KeyKinds
    <2> QED
      BY <1>3, <1>4, <1>6, <2>1 DEF CatalogOK, Founded
  <1>7. \A e \in links' : Exists(e[1])' /\ Exists(e[2])'
    <2>1. \A e \in links : e[1] \in Keys /\ e[2] \in Keys /\ Exists(e[1]) /\ Exists(e[2])
      BY KeyKinds DEF CatalogOK
    <2> QED
      BY <1>3, <2>1
  <1>8. \A t \in rated' : Exists(t)'
    BY <1>3, KeyKinds DEF CatalogOK
  <1>9. ASSUME NEW t \in Tabs, NEW u \in Tabs, Exists(t)', Exists(u)', t[1] = u[1]
        PROVE  t[1] = NULL \/ t = u
    <2>1. t \in Keys /\ u \in Keys
      BY KeyKinds
    <2>2. CASE k \in Tabs /\ k[1] = NULL /\ k \in {t, u}
      BY <1>9, <2>2
    <2>3. CASE ~(k \in Tabs /\ k[1] = NULL /\ k \in {t, u})
      <3>1. Exists(t) /\ Exists(u)
        BY <1>4, <1>9, <2>1, <2>3
      <3> QED
        BY <1>9, <3>1 DEF CatalogOK
    <2> QED
      BY <2>2, <2>3
  <1> QED
    BY <1>2, <1>3, <1>5, <1>6, <1>7, <1>8, <1>9 DEF CatalogOK

\* Removing the rows of a table that no row of another refers to, or only rows that go too;
\* nobody holds them afterwards.
LEMMA DeleteKeepsCatalog ==
  ASSUME CatalogOK, HeldOK, NEW kind, NEW children,
         \/ kind = Tabs /\ children = {}
         \/ kind = Songs /\ children = Tabs
         \/ kind = Artists /\ children = Songs
         \/ kind = Genres /\ children = {},
         ~ \E k \in children : Exists(k),
         rows' = [k \in Keys |-> IF k \in kind THEN NULL ELSE rows[k]],
         links' = {e \in links : e[1] \notin kind /\ e[2] \notin kind},
         rated' = rated \ kind, held' = [q \in Runs |-> held[q] \ kind], UNCHANGED users
  PROVE  CatalogOK' /\ HeldOK'
  <1>1. rows' \in [Keys -> Row \cup {NULL}]
    BY DEF CatalogOK
  <1>2. \A k \in Keys : Exists(k)' <=> Exists(k) /\ k \notin kind
    BY DEF Exists
  <1>3. ASSUME NEW f \in Songs, Exists(f)' PROVE Exists(f[1])'
    <2>1. f[1] \in Artists /\ f[1] \in Keys /\ f \in Keys
      BY KeyKinds
    <2>2. f \notin kind /\ f \notin children /\ Exists(f[1])
      BY <1>2, <1>3, <2>1 DEF CatalogOK
    <2>3. f[1] \notin kind
      BY <2>1, <2>2, KindsDisjoint
    <2> QED
      BY <1>2, <2>1, <2>2, <2>3
  <1>4. ASSUME NEW t \in Tabs, Exists(t)' PROVE Exists(t[2])'
    <2>1. t[2] \in Songs /\ t[2] \in Keys /\ t \in Keys
      BY KeyKinds
    <2>2. t \notin kind /\ t \notin children /\ Exists(t[2])
      BY <1>2, <1>4, <2>1 DEF CatalogOK
    <2>3. t[2] \notin kind
      BY <2>1, <2>2, KindsDisjoint
    <2> QED
      BY <1>2, <2>1, <2>2, <2>3
  <1>5. links' \subseteq Songs \X Genres /\ \A e \in links' : Exists(e[1])' /\ Exists(e[2])'
    <2>1. \A e \in links : e[1] \in Keys /\ e[2] \in Keys /\ Exists(e[1]) /\ Exists(e[2])
      BY KeyKinds DEF CatalogOK
    <2> QED
      BY <1>2, <2>1 DEF CatalogOK
  <1>6. rated' \subseteq Tabs /\ \A t \in rated' : Exists(t)'
    BY <1>2, KeyKinds DEF CatalogOK
  <1>7. \A t, u \in Tabs : Exists(t)' /\ Exists(u)' /\ t[1] = u[1] => t[1] = NULL \/ t = u
    BY <1>2, KeyKinds DEF CatalogOK
  <1>8. HeldOK'
    <2>1. held' \in [Runs -> SUBSET (Artists \cup Songs \cup Genres)]
      BY DEF HeldOK
    <2>2. \A r \in Runs : held'[r] = held[r] \ kind
      OBVIOUS
    <2>3. \A r \in Runs : \A k \in held'[r] : k \in Keys /\ Exists(k)'
      BY <1>2, <2>2, KeyKinds DEF HeldOK
    <2>4. \A r \in Runs : OneEach(held'[r])
      BY <2>2 DEF HeldOK, OneEach
    <2> QED
      BY <2>1, <2>3, <2>4 DEF HeldOK
  <1>9. CatalogOK'
    BY <1>1, <1>3, <1>4, <1>5, <1>6, <1>7 DEF CatalogOK
  <1> QED
    BY <1>8, <1>9

\* A run holds other rows, the others what they held.
LEMMA HoldingKept ==
  ASSUME HeldOK, NEW r \in Runs, NEW keys, Holding(r, keys), OneEach(keys),
         keys \subseteq Artists \cup Songs \cup Genres, \A k \in keys : Exists(k)',
         \A k \in Keys \ Tabs : Exists(k) => Exists(k)'
  PROVE  HeldOK' /\ held'[r] = keys /\ \A q \in Runs \ {r} : held'[q] = held[q]
  <1>1. /\ held' \in [Runs -> SUBSET (Artists \cup Songs \cup Genres)]
        /\ held'[r] = keys /\ \A q \in Runs \ {r} : held'[q] = held[q]
    BY DEF HeldOK, Holding
  <1>2. \A q \in Runs : \A k \in held'[q] : Exists(k)'
    BY <1>1, KeyKinds, KindsDisjoint DEF HeldOK
  <1>3. \A q \in Runs : OneEach(held'[q])
    BY <1>1 DEF HeldOK
  <1> QED
    BY <1>1, <1>2, <1>3 DEF HeldOK

LEMMA HeldKept ==
  ASSUME HeldOK, UNCHANGED held, \A k \in Keys : Exists(k) => Exists(k)'
  PROVE  HeldOK'
  BY KeyKinds DEF HeldOK

\* Run r goes on to its next statement, or ends well.
Advances(r) ==
  /\ \A q \in Runs \ {r} : runs'[q] = runs[q]
  /\ runs[r].at = Len(Script) => runs'[r] = Over("ok")
  /\ runs[r].at # Len(Script) =>
       runs'[r].at = runs[r].at + 1 /\ runs'[r].exit = runs[r].exit
  /\ UNCHANGED history

LEMMA ProceedAdvances ==
  ASSUME RunsOK, NEW r \in Runs, Running(r), Proceed(r), UNCHANGED budget
  PROVE  RunsOK' /\ Advances(r)
  <1>1. /\ runs[r].at = Len(Script) => runs' = [runs EXCEPT ![r] = Over("ok")]
        /\ runs[r].at # Len(Script) => runs' = [runs EXCEPT ![r] = [runs[r] EXCEPT !.at = @ + 1]]
        /\ UNCHANGED history
    BY DEF Proceed
  <1>2. runs[r] \in Run /\ runs[r].at \in 1 .. Len(Script) /\ Len(Script) \in Nat
    BY StatementOf, ScriptStatements
  <1>3. CASE runs[r].at = Len(Script)
    <2>1. Over("ok") \in Run
      BY <1>2 DEF Over, Run
    <2> QED
      BY <1>1, <1>3, <2>1 DEF RunsOK, Advances, budget, history
  <1>4. CASE runs[r].at # Len(Script)
    <2> DEFINE new == [runs[r] EXCEPT !.at = @ + 1]
    <2>1. new \in Run /\ new.at = runs[r].at + 1 /\ new.exit = runs[r].exit
      BY <1>2, <1>4 DEF Run
    <2>2. runs' = [runs EXCEPT ![r] = new]
      BY <1>1, <1>4
    <2> HIDE DEF new
    <2> QED
      BY <1>1, <1>4, <2>1, <2>2 DEF RunsOK, Advances, budget, history
  <1> QED
    BY <1>3, <1>4

\* A run that ends holds nothing.
LEMMA LetGo ==
  ASSUME HeldOK, NEW r \in Runs, Holding(r, {}), UNCHANGED catalog
  PROVE  HeldOK' /\ \A q \in Runs \ {r} : held'[q] = held[q]
  BY HoldingKept DEF OneEach, Exists, catalog

LEMMA FailsTyped ==
  ASSUME TypeOK, NEW r \in Runs, Fail(r), UNCHANGED budget
  PROVE  TypeOK'
  <1>1. Over("failed") \in Run
    BY ScriptStatements DEF Over, Run
  <1>2. RunsOK'
    BY <1>1, TypeParts DEF Fail, RunsOK, Disturbances, budget
  <1>3. CatalogOK'
    BY TypeParts DEF Fail, CatalogOK, catalog, Exists
  <1>4. HeldOK'
    BY TypeParts, LetGo DEF Fail
  <1> QED
    BY <1>2, <1>3, <1>4 DEF TypeOK, CatalogOK, RunsOK, HeldOK, OneEach

\* The row the script writes for a key whose parents are there.
LEMMA SeededRow ==
  ASSUME CatalogOK, NEW k \in Keys \ Tabs, Founded(k), rows' = Seeded(k),
         UNCHANGED <<links, rated, users>>
  PROVE  /\ CatalogOK' /\ rows'[k] = "seeded" /\ Exists(k)'
         /\ \A x \in Keys \ {k} : rows'[x] = rows[x]
         /\ \A x \in Keys : Exists(x) => Exists(x)'
  <1>1. "seeded" \in Row /\ rows' = [rows EXCEPT ![k] = "seeded"]
    BY DEF Row, Seeded
  <1>2. rows'[k] = "seeded"
    BY <1>1 DEF CatalogOK
  <1> QED
    BY <1>1, <1>2, WriteKeepsCatalog DEF CatalogOK

\* A fixture that was renamed away took along what belongs to it.
RenamedWhole ==
  \A f \in FixtureSongs : /\ f[1] \in renamed => f \in renamed
                          /\ f \in renamed => <<f, f>> \in renamed

\* Between the upsert of a song and its associations.
InBlock == {"unlinkSong", "findGenre", "linkSong"}

\* The statement at p is in the block of the song that was upserted at m.
Upserted(m, p) ==
  /\ m < p /\ Script[m].do = "upsertSong"
  /\ \A x \in DOMAIN Script : m < x /\ x < p => Script[x].do \in InBlock

\* Of this kind a run holds the row of key k and no other, unless k was renamed away.
HoldsOnly(r, kind, k) == k \in renamed \/ held[r] \cap kind \subseteq {k}

\* What a run holds is what it has just read or written.
AsRead(r) ==
  /\ \A m \in DOMAIN Script : m + 1 = runs[r].at =>
       /\ Script[m].do = "findArtist" => HoldsOnly(r, Artists, Script[m].key)
       /\ Script[m].do = "findGenre" => HoldsOnly(r, Genres, Script[m].key)
       /\ Script[m].do = "findSong" => HoldsOnly(r, Songs, Script[m].key)
  /\ \A m \in DOMAIN Script : Upserted(m, runs[r].at) => HoldsOnly(r, Songs, Script[m].key)

HeldInv ==
  /\ TypeOK
  /\ RenamedWhole
  /\ renamed # {} => "edit" \in spoiled
  /\ \A r \in Runs : Running(r) => AsRead(r)

\* What a statement finds its run to hold.
LEMMA HeldAsRead ==
  ASSUME RunsOK, RenamedWhole, NEW r \in Runs, Running(r), AsRead(r)
  PROVE  LET w == Statement(r)
             k == Statement(r).key
         IN  /\ w.do \in {"upsertSong", "findSong"} => k \in renamed \/ held[r] \cap Artists \subseteq {k[1]}
             /\ w.do = "upsertTab" => k \in renamed \/ held[r] \cap Songs \subseteq {k[2]}
             /\ w.do = "unlinkSong" => renamed # {} \/ held[r] \cap Songs \subseteq {k}
             /\ w.do = "linkSong" => \/ renamed # {}
                                     \/ /\ held[r] \cap Songs \subseteq {k[1]}
                                        /\ held[r] \cap Genres \subseteq {k[2]}
  <1> DEFINE w == Statement(r)
             k == Statement(r).key
             at == runs[r].at
  <1>1. /\ at \in DOMAIN Script /\ at \in Nat /\ w = Script[at] /\ w \in Statements
        /\ DOMAIN Script \subseteq Nat
    BY StatementOf, ScriptStatements DEF Statement
  <1>2. k = w.key
    OBVIOUS
  <1> HIDE DEF w, k, at
  <1>3. \A what, key : Do(what, key).do = what /\ Do(what, key).key = key
    BY DEF Do
  <1>4. ASSUME at - 1 \in DOMAIN Script
        PROVE  /\ Script[at - 1].do = "findArtist" => HoldsOnly(r, Artists, Script[at - 1].key)
               /\ Script[at - 1].do = "findGenre" => HoldsOnly(r, Genres, Script[at - 1].key)
               /\ Script[at - 1].do = "findSong" => HoldsOnly(r, Songs, Script[at - 1].key)
    <2>1. (at - 1) + 1 = at
      BY <1>1
    <2> QED
      BY <1>4, <2>1 DEF AsRead, at
  <1>5. ASSUME w.do \in {"upsertSong", "findSong"}
        PROVE  k \in renamed \/ held[r] \cap Artists \subseteq {k[1]}
    <2>1. at - 1 \in DOMAIN Script /\ Script[at - 1] = Do("findArtist", k[1])
      BY <1>1, <1>2, <1>5, ParentsAreReadJustBefore
    <2>2. k \in FixtureSongs
      BY <1>1, <1>2, <1>5, StatementKeys
    <2>3. HoldsOnly(r, Artists, k[1])
      BY <1>3, <1>4, <2>1
    <2> QED
      BY <2>2, <2>3 DEF HoldsOnly, RenamedWhole
  <1>6. ASSUME w.do = "upsertTab" PROVE k \in renamed \/ held[r] \cap Songs \subseteq {k[2]}
    <2>1. at - 1 \in DOMAIN Script /\ Script[at - 1] = Do("findSong", k[2])
      BY <1>1, <1>2, <1>6, ParentsAreReadJustBefore
    <2>2. PICK f \in FixtureSongs : k = <<f, f>>
      BY <1>1, <1>2, <1>6, StatementKeys DEF FixtureTabs
    <2>3. HoldsOnly(r, Songs, k[2])
      BY <1>3, <1>4, <2>1
    <2> QED
      BY <2>2, <2>3 DEF HoldsOnly, RenamedWhole
  <1>7. ASSUME w.do = "unlinkSong" PROVE renamed # {} \/ held[r] \cap Songs \subseteq {k}
    <2>1. at - 1 \in DOMAIN Script /\ Script[at - 1] = Do("upsertSong", k)
      BY <1>1, <1>2, <1>7, ParentsAreReadJustBefore
    <2>2. Upserted(at - 1, at)
      BY <1>1, <1>3, <2>1 DEF Upserted
    <2>3. HoldsOnly(r, Songs, k)
      BY <1>3, <2>1, <2>2 DEF AsRead, at
    <2> QED
      BY <2>3 DEF HoldsOnly
  <1>8. ASSUME w.do = "linkSong"
        PROVE  \/ renamed # {}
               \/ held[r] \cap Songs \subseteq {k[1]} /\ held[r] \cap Genres \subseteq {k[2]}
    <2>1. at - 1 \in DOMAIN Script /\ Script[at - 1] = Do("findGenre", k[2])
      BY <1>1, <1>2, <1>8, LinksFollowTheirSong
    <2>2. HoldsOnly(r, Genres, k[2])
      BY <1>3, <1>4, <2>1
    <2>3. PICK m \in DOMAIN Script :
            /\ m < at /\ Script[m] = Do("upsertSong", k[1])
            /\ \A x \in DOMAIN Script : m < x /\ x < at =>
                 Script[x].do \in {"unlinkSong", "findGenre", "linkSong"}
      BY <1>1, <1>2, <1>8, LinksFollowTheirSong
    <2>4. Upserted(m, at) /\ Script[m].key = k[1]
      BY <1>3, <2>3 DEF Upserted, InBlock
    <2>5. HoldsOnly(r, Songs, k[1])
      BY <2>4 DEF AsRead, at
    <2> QED
      BY <2>2, <2>5 DEF HoldsOnly
  <1> QED
    BY <1>5, <1>6, <1>7, <1>8 DEF w, k

\* What a statement does to the catalog and to what its run holds.
Effect(r) ==
  LET w == Statement(r)
  IN  /\ \A k \in Keys :
           /\ w \in Removes(k) => rows'[k] = NULL
           /\ w \in Writes(k) => k \in renamed \/ rows'[k] = "seeded"
           /\ w \notin Removes(k) \cup Writes(k) =>
                \/ rows'[k] = rows[k]
                \/ renamed # {} /\ rows'[k] = "seeded"
                \/ k \notin FixtureKeys /\ rows'[k] = NULL
      /\ renamed = {} =>
           /\ \A e \in links' \ links : w = Do("linkSong", e)
           /\ \A e \in links \ links' : w.do \in Deletes \/ w = Do("unlinkSong", e[1])
           /\ w.do = "linkSong" => w.key \in links'
      /\ w.do = "deleteSongGenres" => links' = {}
      /\ rated = {} \/ w.do = "deleteRatings" => rated' = {}
      /\ \A u \in SeedUsers : IF w = Do("upsertUser", u) THEN users'[u] = "seeded"
                              ELSE users'[u] = users[u]
      /\ \A q \in Runs \ {r} : held'[q] \subseteq held[q]
      /\ w.do \in {"findArtist", "findGenre"} => w.key \in held'[r]
      /\ w.do \in {"findSong", "upsertSong"} => w.key \in held'[r] \cup renamed
      /\ w.do \in InBlock => held'[r] \cap Songs = held[r] \cap Songs

LEMMA Touches ==
  ASSUME NEW w \in Statements, NEW k \in Keys
  PROVE  /\ w.do \in {"upsertGenre", "upsertArtist", "upsertSong", "upsertTab"} =>
              (w \in Writes(k) <=> k = w.key) /\ w \notin Removes(k)
         /\ w.do \notin {"upsertGenre", "upsertArtist", "upsertSong", "upsertTab"} => w \notin Writes(k)
         /\ w.do = "deleteTabs" => (w \in Removes(k) <=> k \in Tabs)
         /\ w.do = "deleteSongs" => (w \in Removes(k) <=> k \in Songs)
         /\ w.do = "deleteArtists" => (w \in Removes(k) <=> k \in Artists)
         /\ w.do = "deleteGenres" => (w \in Removes(k) <=> k \in Genres)
         /\ w.do \notin {"deleteTabs", "deleteSongs", "deleteArtists", "deleteGenres"} =>
              w \notin Removes(k)
  <1>1. w.do \in Deletes => w = Do(w.do, NULL)
    BY StatementKeys
  <1>2. \A what : Do(what, NULL).do = what
    BY DEF Do
  <1>3. \A what : w = Do(what, NULL) => w.do = what
    BY <1>2
  <1>4. /\ w.do \in {"upsertGenre", "upsertArtist", "upsertSong", "upsertTab"} => (w \in Writes(k) <=> k = w.key)
        /\ w.do \notin {"upsertGenre", "upsertArtist", "upsertSong", "upsertTab"} => w \notin Writes(k)
    BY DEF Writes
  <1>5. \A what \in Deletes : w.do = what <=> w = Do(what, NULL)
    BY <1>1, <1>3
  <1>6. CASE k \in Genres
    <2>1. k \notin Artists /\ k \notin Songs /\ k \notin Tabs
      BY <1>6, KindsDisjoint
    <2>2. w \in Removes(k) <=> w.do = "deleteGenres"
      BY <1>5, <1>6 DEF Removes, Deletes
    <2> QED
      BY <1>4, <1>6, <2>1, <2>2
  <1>7. CASE k \in Artists
    <2>1. k \notin Genres /\ k \notin Songs /\ k \notin Tabs
      BY <1>7, KindsDisjoint
    <2>2. w \in Removes(k) <=> w.do = "deleteArtists"
      BY <1>5, <1>7, <2>1 DEF Removes, Deletes
    <2> QED
      BY <1>4, <1>7, <2>1, <2>2
  <1>8. CASE k \in Songs
    <2>1. k \notin Genres /\ k \notin Artists /\ k \notin Tabs
      BY <1>8, KindsDisjoint
    <2>2. w \in Removes(k) <=> w.do = "deleteSongs"
      BY <1>5, <1>8, <2>1 DEF Removes, Deletes
    <2> QED
      BY <1>4, <1>8, <2>1, <2>2
  <1>9. CASE k \in Tabs
    <2>1. k \notin Genres /\ k \notin Artists /\ k \notin Songs
      BY <1>9, KindsDisjoint
    <2>2. w \in Removes(k) <=> w.do = "deleteTabs"
      BY <1>5, <1>9, <2>1 DEF Removes, Deletes
    <2> QED
      BY <1>4, <1>9, <2>1, <2>2
  <1> QED
    BY <1>6, <1>7, <1>8, <1>9 DEF Keys

\* A statement that succeeds.
Passes(r) == TypeOK' /\ Effect(r) /\ Advances(r)

\* A statement that cannot succeed.
Obstructed(r) ==
  LET w == Statement(r)
      k == Statement(r).key
  IN  \/ w.do = "deleteSongs" /\ \E t \in Tabs : Exists(t)
      \/ w.do = "deleteArtists" /\ \E f \in Songs : Exists(f)
      \/ w.do \in {"findArtist", "findGenre", "findSong"} /\ ~Exists(k)
      \/ w.do \in {"upsertSong", "findSong"} /\ k[1] \notin held[r]
      \/ w.do = "upsertTab" /\ k[2] \notin held[r]
      \/ w.do = "linkSong" /\ (k[1] \notin held[r] \/ k[2] \notin held[r] \/ k \in links)
      \/ w.do = "upsertUser" /\ users[k] = "taken"

Throws(r) == Fail(r) /\ Obstructed(r)

\* The common part of the steps.
Stepping(r) ==
  /\ TypeOK /\ RenamedWhole /\ r \in Runs /\ Running(r) /\ AsRead(r)
  /\ UNCHANGED budget

LEMMA SteppingFacts ==
  ASSUME NEW r, Stepping(r)
  PROVE  /\ CatalogOK /\ RunsOK /\ HeldOK /\ r \in Runs /\ Running(r) /\ UNCHANGED budget
         /\ runs[r] \in Run /\ runs[r].at \in DOMAIN Script /\ Statement(r) \in Statements
  BY TypeParts, StatementOf DEF Stepping

\* A statement that succeeds and leaves the tables in order is followed by the next.
LEMMA ProceedTyped ==
  ASSUME NEW r, Stepping(r), Proceed(r), CatalogOK', HeldOK'
  PROVE  TypeOK' /\ Advances(r)
  <1>1. RunsOK' /\ Advances(r)
    BY SteppingFacts, ProceedAdvances
  <1> QED
    BY <1>1 DEF TypeOK, CatalogOK, RunsOK, HeldOK, OneEach

LEMMA ClearEffect ==
  ASSUME NEW r, Stepping(r), Clear(r)
  PROVE  Throws(r) \/ Passes(r)
  <1> DEFINE w == Statement(r)
  <1>1. /\ CatalogOK /\ RunsOK /\ HeldOK /\ r \in Runs /\ w \in Statements
    BY SteppingFacts
  <1> HIDE DEF w
  <1>2. CASE w.do = "deleteRatings" /\ rated' = {} /\ UNCHANGED <<rows, links, users, held>> /\ Proceed(r)
    <2>1. CatalogOK' /\ HeldOK'
      BY <1>1, <1>2, HeldKept DEF CatalogOK, Exists
    <2>2. \A k \in Keys : w \notin Removes(k) /\ w \notin Writes(k)
      BY <1>1, <1>2, Touches
    <2>3. \A u \in SeedUsers : w # Do("upsertUser", u)
      BY <1>2 DEF Do
    <2>4. Effect(r)
      BY <1>2, <2>2, <2>3 DEF Effect, w, InBlock
    <2> QED
      BY <1>2, <2>1, <2>4, ProceedTyped DEF Passes
  <1>3. CASE w.do = "deleteSongGenres" /\ links' = {} /\ UNCHANGED <<rows, rated, users, held>> /\ Proceed(r)
    <2>1. CatalogOK' /\ HeldOK'
      BY <1>1, <1>3, HeldKept DEF CatalogOK, Exists
    <2>2. \A k \in Keys : w \notin Removes(k) /\ w \notin Writes(k)
      BY <1>1, <1>3, Touches
    <2>3. \A u \in SeedUsers : w # Do("upsertUser", u)
      BY <1>3 DEF Do
    <2>4. Effect(r)
      BY <1>3, <2>2, <2>3 DEF Effect, w, InBlock, Deletes
    <2> QED
      BY <1>3, <2>1, <2>4, ProceedTyped DEF Passes
  <1>4. ASSUME NEW kind, NEW children, DeleteMany(r, kind, children),
               \/ w.do = "deleteTabs" /\ kind = Tabs /\ children = {}
               \/ w.do = "deleteSongs" /\ kind = Songs /\ children = Tabs
               \/ w.do = "deleteArtists" /\ kind = Artists /\ children = Songs
               \/ w.do = "deleteGenres" /\ kind = Genres /\ children = {}
        PROVE  Throws(r) \/ Passes(r)
    <2>1. CASE \E k \in children : Exists(k)
      BY <1>4, <2>1 DEF DeleteMany, Throws, Obstructed, w
    <2>2. CASE ~ \E k \in children : Exists(k)
      <3>1. /\ rows' = [k \in Keys |-> IF k \in kind THEN NULL ELSE rows[k]]
            /\ links' = {e \in links : e[1] \notin kind /\ e[2] \notin kind}
            /\ rated' = rated \ kind /\ held' = [q \in Runs |-> held[q] \ kind]
            /\ UNCHANGED users /\ Proceed(r)
        BY <1>4, <2>2 DEF DeleteMany, Delete
      <3>2. CatalogOK' /\ HeldOK'
        BY <1>1, <1>4, <2>2, <3>1, DeleteKeepsCatalog
      <3>3. \A k \in Keys : (w \in Removes(k) <=> k \in kind) /\ w \notin Writes(k)
        BY <1>1, <1>4, Touches
      <3>4. w.do \in {"deleteTabs", "deleteSongs", "deleteArtists", "deleteGenres"}
        BY <1>4
      <3>5. \A u \in SeedUsers : w # Do("upsertUser", u)
        BY <3>4 DEF Do
      <3>6. \A k \in Keys : rows'[k] = IF k \in kind THEN NULL ELSE rows[k]
        BY <3>1
      <3>7. \A q \in Runs : held'[q] \subseteq held[q]
        BY <3>1
      <3>8. Effect(r)
        BY <3>1, <3>3, <3>4, <3>5, <3>6, <3>7 DEF Effect, w, Deletes, InBlock
      <3> QED
        BY <3>1, <3>2, <3>8, ProceedTyped DEF Passes
    <2> QED
      BY <2>1, <2>2
  <1> QED
    BY <1>2, <1>3, <1>4 DEF Clear, w

\* A genre or an artist.
LEMMA UpsertRowEffect ==
  ASSUME NEW r, Stepping(r), UpsertGenre(r) \/ UpsertArtist(r)
  PROVE  Passes(r)
  <1> DEFINE w == Statement(r)
             k == Statement(r).key
  <1>1. /\ CatalogOK /\ RunsOK /\ HeldOK /\ r \in Runs /\ w \in Statements
        /\ w.do \in {"upsertGenre", "upsertArtist"}
        /\ rows' = Seeded(k) /\ UNCHANGED <<links, rated, users, held>> /\ Proceed(r)
    BY SteppingFacts DEF UpsertGenre, UpsertArtist
  <1>2. k \in Genres \cup Artists /\ k \in Keys /\ k \notin Tabs /\ k \notin Songs
    BY <1>1, StatementKeys, FixtureKinds, KeyKinds, KindsDisjoint
  <1>3. Founded(k)
    BY <1>2 DEF Founded
  <1>4. /\ CatalogOK' /\ rows'[k] = "seeded" /\ \A x \in Keys \ {k} : rows'[x] = rows[x]
        /\ \A x \in Keys : Exists(x) => Exists(x)'
    BY <1>1, <1>2, <1>3, SeededRow
  <1>5. HeldOK'
    BY <1>1, <1>4, HeldKept
  <1>6. \A u \in SeedUsers : w # Do("upsertUser", u)
    BY <1>1 DEF Do
  <1>7. \A x \in Keys : (w \in Writes(x) <=> x = k) /\ w \notin Removes(x)
    BY <1>1, Touches
  <1>8. Effect(r)
    BY <1>1, <1>4, <1>6, <1>7 DEF Effect, InBlock
  <1> QED
    BY <1>1, <1>4, <1>5, <1>8, ProceedTyped DEF Passes

\* Another row of a kind is held.
LEMMA OneInstead ==
  ASSUME NEW keys, OneEach(keys), NEW fewer \in SUBSET keys,
         NEW kind \in {Artists, Songs, Genres}, NEW k \in kind
  PROVE  OneEach((fewer \ kind) \cup {k})
  BY KindsDisjoint DEF OneEach

LEMMA UpsertSongEffect ==
  ASSUME NEW r, Stepping(r), UpsertSong(r)
  PROVE  Throws(r) \/ Passes(r)
  <1> DEFINE w == Statement(r)
             f == Statement(r).key
  <1>1. /\ CatalogOK /\ RunsOK /\ HeldOK /\ r \in Runs /\ w \in Statements
        /\ w.do = "upsertSong"
    BY SteppingFacts DEF UpsertSong
  <1>2. f \in Songs /\ f \in Keys /\ f = <<f[1], f[2]>> /\ f[1] \in Artists /\ f[2] \in SongSlugs
    BY <1>1, StatementKeys, FixtureKinds, KeyKinds
  <1>3. CASE held[r] \cap Artists = {}
    BY <1>1, <1>2, <1>3 DEF UpsertSong, Throws, Obstructed
  <1>4. CASE held[r] \cap Artists # {}
    <2> DEFINE Keeps(song) == (held[r] \ (Artists \cup Songs)) \cup {song}
    <2>1. PICK a \in held[r] \cap Artists :
            /\ rows' = Seeded(<<a, f[2]>>) /\ Holding(r, Keeps(<<a, f[2]>>))
            /\ UNCHANGED <<links, rated, users>> /\ Proceed(r)
      BY <1>4 DEF UpsertSong
    <2>2. PICK song : song = <<a, f[2]>>
      OBVIOUS
    <2>3. song \in Songs /\ song \in Keys \ Tabs /\ song[1] = a /\ Exists(a)
      BY <1>1, <1>2, <2>1, <2>2, KeyKinds, KindsDisjoint DEF HeldOK, Songs
    <2>4. Founded(song)
      BY <2>3 DEF Founded
    <2>5. /\ CatalogOK' /\ rows'[song] = "seeded" /\ Exists(song)'
          /\ \A x \in Keys \ {song} : rows'[x] = rows[x]
          /\ \A x \in Keys : Exists(x) => Exists(x)'
      BY <1>1, <2>1, <2>2, <2>3, <2>4, SeededRow
    <2>6. Keeps(song) = ((held[r] \ Artists) \ Songs) \cup {song}
      OBVIOUS
    <2>7. OneEach(held[r]) /\ held[r] \subseteq Artists \cup Songs \cup Genres
          /\ \A k \in held[r] : k \in Keys /\ Exists(k)
      BY <1>1, KeyKinds DEF HeldOK
    <2>8. OneEach(((held[r] \ Artists) \ Songs) \cup {song})
      BY <2>3, <2>7, OneInstead
    <2>9. HeldOK' /\ held'[r] = Keeps(song) /\ \A q \in Runs \ {r} : held'[q] = held[q]
      <3>1. OneEach(Keeps(song)) /\ Keeps(song) \subseteq Artists \cup Songs \cup Genres
        BY <2>3, <2>6, <2>7, <2>8
      <3>2. \A k \in Keeps(song) : Exists(k)'
        BY <2>5, <2>7
      <3>3. Holding(r, Keeps(song))
        BY <2>1, <2>2
      <3> HIDE DEF Keeps
      <3> QED
        BY <1>1, <2>5, <3>1, <3>2, <3>3, HoldingKept
    <2>10. f \in renamed \/ song = f
      <3>1. f \in renamed \/ held[r] \cap Artists \subseteq {f[1]}
        BY <1>1, SteppingFacts, HeldAsRead DEF Stepping
      <3> QED
        BY <1>2, <2>1, <2>2, <3>1
    <2>11. \A u \in SeedUsers : w # Do("upsertUser", u)
      BY <1>1 DEF Do
    <2>12. \A x \in Keys : (w \in Writes(x) <=> x = f) /\ w \notin Removes(x)
      BY <1>1, Touches
    <2>13. Effect(r)
      BY <1>1, <2>1, <2>5, <2>9, <2>10, <2>11, <2>12 DEF Effect, InBlock
    <2> QED
      BY <2>1, <2>5, <2>9, <2>13, ProceedTyped DEF Passes
  <1> QED
    BY <1>3, <1>4

LEMMA UpsertTabEffect ==
  ASSUME NEW r, Stepping(r), UpsertTab(r)
  PROVE  Throws(r) \/ Passes(r)
  <1> DEFINE w == Statement(r)
             t == Statement(r).key
  <1>1. /\ CatalogOK /\ RunsOK /\ HeldOK /\ r \in Runs /\ w \in Statements
        /\ w.do = "upsertTab"
    BY SteppingFacts DEF UpsertTab
  <1>2. PICK f \in FixtureSongs : t = <<f, f>>
    BY <1>1, StatementKeys DEF FixtureTabs
  <1>3. CASE held[r] \cap Songs = {}
    <2>1. t[2] \notin held[r]
      BY <1>2, <1>3, FixtureKinds
    <2>2. Fail(r)
      BY <1>3 DEF UpsertTab
    <2> QED
      BY <1>1, <2>1, <2>2 DEF Throws, Obstructed
  <1>4. CASE held[r] \cap Songs # {}
    <2> DEFINE same == {f} \X Songs
    <2>1. PICK g \in held[r] \cap Songs :
            /\ rows' = [k \in Keys |-> IF k = <<f, g>> THEN "seeded"
                                     ELSE IF k \in same THEN NULL ELSE rows[k]]
            /\ rated' = (rated \ same) \cup {x \in {<<f, g>>} : rated \cap same # {}}
            /\ Holding(r, {}) /\ UNCHANGED <<links, users>> /\ Proceed(r)
      BY <1>2, <1>4 DEF UpsertTab
    <2>2. PICK tab : tab = <<f, g>>
      OBVIOUS
    <2>3. /\ same \subseteq Tabs /\ tab \in same /\ tab \in Keys /\ Exists(g)
          /\ \A x \in Tabs : x \in same <=> x[1] = f
          /\ tab[1] = f /\ tab[2] = g
      BY <1>1, <2>1, <2>2, KeyKinds DEF HeldOK, Tabs
    <2>4. /\ rows' \in [Keys -> Row \cup {NULL}]
          /\ \A k \in Keys : rows'[k] = IF k = tab THEN "seeded" ELSE IF k \in same THEN NULL ELSE rows[k]
      BY <1>1, <2>1, <2>2 DEF CatalogOK, Row
    <2>5. \A k \in Keys : Exists(k)' <=> k = tab \/ (k \notin same /\ Exists(k))
      BY <2>4, NullIsNoRow DEF Exists, Row
    <2> HIDE DEF same
    <2>6. \A k \in Keys \ Tabs : rows'[k] = rows[k] /\ (Exists(k) => Exists(k)')
      BY <2>3, <2>4, <2>5
    <2>7. \A k \in Artists \cup Songs \cup Genres : k \in Keys \ Tabs
      BY KeyKinds, KindsDisjoint
    <2>8. CatalogOK'
      <3>1. \A s \in Songs : Exists(s)' => Exists(s[1])'
        BY <1>1, <2>6, <2>7, KeyKinds DEF CatalogOK, Exists
      <3>2. ASSUME NEW x \in Tabs, Exists(x)' PROVE Exists(x[2])'
        <4>1. x \in Keys /\ x[2] \in Songs
          BY KeyKinds
        <4>2. Exists(x[2])
          BY <1>1, <2>3, <2>5, <3>2, <4>1 DEF CatalogOK
        <4> QED
          BY <2>6, <2>7, <4>1, <4>2
      <3>3. \A e \in links' : Exists(e[1])' /\ Exists(e[2])'
        <4>1. \A e \in links : /\ Exists(e[1]) /\ Exists(e[2])
                               /\ e[1] \in Keys \ Tabs /\ e[2] \in Keys \ Tabs
          BY <1>1, <2>7 DEF CatalogOK
        <4> QED
          BY <2>1, <2>6, <4>1
      <3>4. rated' \subseteq Tabs /\ \A x \in rated' : Exists(x)'
        BY <1>1, <2>1, <2>2, <2>3, <2>5, KeyKinds DEF CatalogOK
      <3>5. ASSUME NEW x \in Tabs, NEW y \in Tabs, Exists(x)', Exists(y)', x[1] = y[1]
            PROVE  x[1] = NULL \/ x = y
        <4>1. x \in Keys /\ y \in Keys
          BY KeyKinds
        <4>2. CASE x[1] = f
          BY <2>3, <2>5, <3>5, <4>1, <4>2
        <4>3. CASE x[1] # f
          BY <1>1, <2>3, <2>5, <3>5, <4>1, <4>3 DEF CatalogOK
        <4> QED
          BY <4>2, <4>3
      <3> QED
        BY <1>1, <2>1, <2>4, <3>1, <3>2, <3>3, <3>4, <3>5 DEF CatalogOK
    <2>9. HeldOK' /\ \A q \in Runs \ {r} : held'[q] = held[q]
      BY <1>1, <2>1, <2>6, HoldingKept DEF OneEach
    <2>10. t \in renamed \/ tab = t
      <3>1. t \in renamed \/ held[r] \cap Songs \subseteq {t[2]}
        BY <1>1, SteppingFacts, HeldAsRead DEF Stepping
      <3> QED
        BY <1>2, <2>1, <2>2, <3>1
    <2>11. \A k \in same : k # t => k \notin FixtureKeys
      <3> SUFFICES ASSUME NEW k \in same, k \in FixtureKeys PROVE k = t
        OBVIOUS
      <3>1. k \in Tabs /\ k[1] = f
        BY <2>3
      <3>2. k \in FixtureTabs
        BY <3>1, KindsDisjoint, FixtureKinds DEF FixtureKeys
      <3> QED
        BY <1>2, <3>1, <3>2 DEF FixtureTabs
    <2>12. \A u \in SeedUsers : w # Do("upsertUser", u)
      BY <1>1 DEF Do
    <2>13. \A x \in Keys : (w \in Writes(x) <=> x = t) /\ w \notin Removes(x)
      BY <1>1, Touches
    <2>14. rated = {} => rated' = {}
      BY <2>1
    <2>15. Effect(r)
      BY <1>1, <2>1, <2>4, <2>9, <2>10, <2>11, <2>12, <2>13, <2>14 DEF Effect, InBlock
    <2> QED
      BY <2>1, <2>8, <2>9, <2>15, ProceedTyped DEF Passes
  <1> QED
    BY <1>3, <1>4

\* A statement that reads a row, for good or in vain.
LEMMA FindEffect ==
  ASSUME NEW r, Stepping(r), FindArtist(r) \/ FindGenre(r)
  PROVE  Throws(r) \/ Passes(r)
  <1> DEFINE w == Statement(r)
             k == Statement(r).key
  <1>1. /\ CatalogOK /\ RunsOK /\ HeldOK /\ r \in Runs /\ w \in Statements
        /\ w.do \in {"findArtist", "findGenre"}
    BY SteppingFacts DEF FindArtist, FindGenre
  <1>2. PICK kind \in {Artists, Genres} :
          /\ k \in kind /\ k \in Keys /\ Find(r, k, kind)
          /\ w.do = "findGenre" => kind = Genres
    BY <1>1, StatementKeys, FixtureKinds, KeyKinds DEF FindArtist, FindGenre
  <1>3. CASE ~Exists(k)
    BY <1>1, <1>2, <1>3 DEF Find, Throws, Obstructed
  <1>4. CASE Exists(k)
    <2> DEFINE keys == (held[r] \ kind) \cup {k}
    <2>1. Holding(r, keys) /\ UNCHANGED catalog /\ Proceed(r)
      BY <1>2, <1>4 DEF Find
    <2>2. /\ OneEach(held[r]) /\ held[r] \subseteq Artists \cup Songs \cup Genres
          /\ \A x \in held[r] : Exists(x)
      BY <1>1 DEF HeldOK
    <2>3. OneEach(keys)
      BY <1>2, <2>2, OneInstead
    <2>4. keys \subseteq Artists \cup Songs \cup Genres /\ \A x \in keys : Exists(x)'
      BY <1>2, <1>4, <2>1, <2>2 DEF Exists, catalog
    <2>5. w.do = "findGenre" => keys \cap Songs = held[r] \cap Songs
      BY <1>2, KindsDisjoint
    <2>6. k \in keys
      OBVIOUS
    <2> HIDE DEF keys
    <2>7. HeldOK' /\ held'[r] = keys /\ \A q \in Runs \ {r} : held'[q] = held[q]
      BY <1>1, <2>1, <2>3, <2>4, HoldingKept DEF Exists, catalog
    <2>8. CatalogOK'
      BY <1>1, <2>1 DEF CatalogOK, Exists, catalog
    <2>9. \A u \in SeedUsers : w # Do("upsertUser", u)
      BY <1>1 DEF Do
    <2>10. \A x \in Keys : w \notin Writes(x) /\ w \notin Removes(x)
      BY <1>1, Touches
    <2>11. Effect(r)
      BY <1>1, <2>1, <2>5, <2>6, <2>7, <2>9, <2>10 DEF Effect, InBlock, catalog
    <2> QED
      BY <2>1, <2>7, <2>8, <2>11, ProceedTyped DEF Passes
  <1> QED
    BY <1>3, <1>4

LEMMA FindSongEffect ==
  ASSUME NEW r, Stepping(r), FindSong(r)
  PROVE  Throws(r) \/ Passes(r)
  <1> DEFINE w == Statement(r)
             k == Statement(r).key
             found == {f \in Songs : Exists(f) /\ f[1] \in held[r] /\ f[2] = k[2]}
  <1>1. /\ CatalogOK /\ RunsOK /\ HeldOK /\ r \in Runs /\ w \in Statements
        /\ w.do = "findSong"
    BY SteppingFacts DEF FindSong
  <1>2. k \in Songs /\ k = <<k[1], k[2]>> /\ k[1] \in Artists
    BY <1>1, StatementKeys, FixtureKinds, KeyKinds
  <1>3. CASE found = {}
    <2>1. ~Exists(k) \/ k[1] \notin held[r]
      BY <1>2, <1>3
    <2>2. Fail(r)
      BY <1>3 DEF FindSong
    <2> QED
      BY <1>1, <2>1, <2>2 DEF Throws, Obstructed
  <1>4. CASE found # {}
    <2>1. PICK f \in found : Holding(r, {f}) /\ UNCHANGED catalog /\ Proceed(r)
      BY <1>4 DEF FindSong
    <2>2. f \in Songs /\ Exists(f)' /\ OneEach({f})
      BY <2>1 DEF Exists, catalog, OneEach
    <2>3. HeldOK' /\ held'[r] = {f} /\ \A q \in Runs \ {r} : held'[q] = held[q]
      BY <1>1, <2>1, <2>2, HoldingKept DEF Exists, catalog
    <2>4. CatalogOK'
      BY <1>1, <2>1 DEF CatalogOK, Exists, catalog
    <2>5. k \in renamed \/ f = k
      <3>1. k \in renamed \/ held[r] \cap Artists \subseteq {k[1]}
        BY <1>1, SteppingFacts, HeldAsRead DEF Stepping
      <3>2. f = <<f[1], f[2]>> /\ f[1] \in Artists /\ f[1] \in held[r] /\ f[2] = k[2]
        BY <2>1, KeyKinds
      <3> QED
        BY <1>2, <3>1, <3>2
    <2>6. \A u \in SeedUsers : w # Do("upsertUser", u)
      BY <1>1 DEF Do
    <2>7. \A x \in Keys : w \notin Writes(x) /\ w \notin Removes(x)
      BY <1>1, Touches
    <2>8. Effect(r)
      BY <1>1, <2>1, <2>3, <2>5, <2>6, <2>7 DEF Effect, InBlock, catalog
    <2> QED
      BY <2>1, <2>3, <2>4, <2>8, ProceedTyped DEF Passes
  <1> QED
    BY <1>3, <1>4

LEMMA UnlinkEffect ==
  ASSUME NEW r, Stepping(r), UnlinkSong(r)
  PROVE  Passes(r)
  <1> DEFINE w == Statement(r)
             f == w.key
  <1>1. /\ CatalogOK /\ RunsOK /\ HeldOK /\ r \in Runs /\ w \in Statements
        /\ w.do = "unlinkSong" /\ links' = {e \in links : e[1] \notin held[r]}
        /\ UNCHANGED <<rows, rated, users, held>> /\ Proceed(r)
    BY SteppingFacts DEF UnlinkSong
  <1>2. CatalogOK' /\ HeldOK'
    BY <1>1, HeldKept DEF CatalogOK, Exists
  <1>3. \A k \in Keys : w \notin Writes(k) /\ w \notin Removes(k)
    BY <1>1, Touches
  <1>4. w = Do("unlinkSong", f)
    BY <1>1, StatementKeys
  <1>5. renamed = {} => \A e \in links \ links' : w = Do("unlinkSong", e[1])
    <2>1. renamed # {} \/ held[r] \cap Songs \subseteq {f}
      BY <1>1, SteppingFacts, HeldAsRead DEF Stepping
    <2>2. \A e \in links \ links' : e[1] \in held[r] \cap Songs
      BY <1>1 DEF CatalogOK
    <2> QED
      BY <1>4, <2>1, <2>2
  <1>6. \A u \in SeedUsers : w # Do("upsertUser", u)
    BY <1>1 DEF Do
  <1>7. Effect(r)
    BY <1>1, <1>3, <1>5, <1>6 DEF Effect, Deletes
  <1> QED
    BY <1>1, <1>2, <1>7, ProceedTyped DEF Passes

LEMMA LinkEffect ==
  ASSUME NEW r, Stepping(r), LinkSong(r)
  PROVE  Throws(r) \/ Passes(r)
  <1> DEFINE w == Statement(r)
             k == Statement(r).key
             new == ((held[r] \cap Songs) \X (held[r] \cap Genres)) \ links
  <1>1. /\ CatalogOK /\ RunsOK /\ HeldOK /\ r \in Runs /\ w \in Statements
        /\ w.do = "linkSong"
    BY SteppingFacts DEF LinkSong
  <1>2. k = <<k[1], k[2]>> /\ k[1] \in Songs /\ k[2] \in Genres
    BY <1>1, StatementKeys, FixtureKinds
  <1>3. CASE new = {}
    <2>1. k[1] \notin held[r] \/ k[2] \notin held[r] \/ k \in links
      BY <1>2, <1>3
    <2>2. Fail(r)
      BY <1>3 DEF LinkSong
    <2> QED
      BY <1>1, <2>1, <2>2 DEF Throws, Obstructed
  <1>4. CASE new # {}
    <2>1. PICK e \in new : /\ links' = links \cup {e} /\ Holding(r, held[r] \ Genres)
                           /\ UNCHANGED <<rows, rated, users>> /\ Proceed(r)
      BY <1>4 DEF LinkSong
    <2>2. /\ OneEach(held[r]) /\ held[r] \subseteq Artists \cup Songs \cup Genres
          /\ \A x \in held[r] : Exists(x)
      BY <1>1 DEF HeldOK
    <2>3. /\ e = <<e[1], e[2]>> /\ e \in Songs \X Genres
          /\ e[1] \in held[r] \cap Songs /\ e[2] \in held[r] \cap Genres
      BY <2>1
    <2>4. CatalogOK'
      BY <1>1, <2>1, <2>2, <2>3 DEF CatalogOK, Exists
    <2>5. HeldOK' /\ held'[r] = held[r] \ Genres /\ \A q \in Runs \ {r} : held'[q] = held[q]
      <3>1. OneEach(held[r] \ Genres) /\ \A x \in held[r] \ Genres : Exists(x)'
        BY <2>1, <2>2 DEF OneEach, Exists
      <3> QED
        BY <1>1, <2>1, <2>2, <3>1, HoldingKept DEF Exists
    <2>6. held'[r] \cap Songs = held[r] \cap Songs
      BY <2>5, KindsDisjoint
    <2>7. renamed = {} => e = k
      <3>1. \/ renamed # {}
            \/ held[r] \cap Songs \subseteq {k[1]} /\ held[r] \cap Genres \subseteq {k[2]}
        BY <1>1, SteppingFacts, HeldAsRead DEF Stepping
      <3> QED
        BY <1>2, <2>3, <3>1
    <2>8. w = Do("linkSong", k)
      BY <1>1, StatementKeys
    <2>9. \A u \in SeedUsers : w # Do("upsertUser", u)
      BY <1>1 DEF Do
    <2>10. \A x \in Keys : w \notin Writes(x) /\ w \notin Removes(x)
      BY <1>1, Touches
    <2>11. Effect(r)
      BY <1>1, <2>1, <2>5, <2>6, <2>7, <2>8, <2>9, <2>10 DEF Effect
    <2> QED
      BY <2>1, <2>4, <2>5, <2>11, ProceedTyped DEF Passes
  <1> QED
    BY <1>3, <1>4

LEMMA UserEffect ==
  ASSUME NEW r, Stepping(r), UpsertSeedUser(r)
  PROVE  Throws(r) \/ Passes(r)
  <1> DEFINE w == Statement(r)
             u == w.key
  <1>1. /\ CatalogOK /\ RunsOK /\ HeldOK /\ r \in Runs /\ w \in Statements /\ w.do = "upsertUser"
    BY SteppingFacts DEF UpsertSeedUser
  <1>2. CASE users[u] = "taken"
    BY <1>1, <1>2 DEF UpsertSeedUser, Throws, Obstructed
  <1>3. CASE users[u] # "taken"
    <2>1. /\ users' = [users EXCEPT ![u] = "seeded"] /\ Holding(r, {})
          /\ UNCHANGED <<rows, links, rated>> /\ Proceed(r)
      BY <1>3 DEF UpsertSeedUser
    <2>2. u \in SeedUsers
      BY <1>1, StatementKeys
    <2>3. CatalogOK'
      BY <1>1, <2>1, <2>2 DEF CatalogOK, Exists
    <2>4. HeldOK' /\ \A q \in Runs \ {r} : held'[q] = held[q]
      BY <1>1, <2>1, HoldingKept DEF OneEach, Exists
    <2>5. \A k \in Keys : w \notin Writes(k) /\ w \notin Removes(k)
      BY <1>1, Touches
    <2>6. w = Do("upsertUser", u) /\ \A v : w = Do("upsertUser", v) => v = u
      <3>1. w = Do("upsertUser", u)
        BY <1>1, StatementKeys
      <3>2. \A v : Do("upsertUser", v).key = v
        BY DEF Do
      <3> QED
        BY <3>1, <3>2
    <2>7. \A v \in SeedUsers : IF w = Do("upsertUser", v) THEN users'[v] = "seeded"
                               ELSE users'[v] = users[v]
      BY <1>1, <2>1, <2>2, <2>6 DEF CatalogOK
    <2>8. Effect(r)
      BY <1>1, <2>1, <2>4, <2>5, <2>7 DEF Effect, InBlock
    <2> QED
      BY <2>1, <2>3, <2>4, <2>8, ProceedTyped DEF Passes
  <1> QED
    BY <1>2, <1>3

\* A statement throws, or has its effect and is followed by the next one.
LEMMA StepEffect ==
  ASSUME HeldInv, NEW r \in Runs, Step(r)
  PROVE  TypeOK' /\ (Throws(r) \/ Passes(r))
  <1>1. Stepping(r)
    BY DEF Stepping, Step, HeldInv
  <1>2. Throws(r) \/ Passes(r)
    BY <1>1, ClearEffect, UpsertRowEffect, UpsertSongEffect, UpsertTabEffect,
       UserEffect, FindEffect, FindSongEffect, UnlinkEffect, LinkEffect DEF Step
  <1>3. Throws(r) => TypeOK'
    BY <1>1, FailsTyped DEF Stepping, Throws
  <1> QED
    BY <1>2, <1>3 DEF Passes

LEMMA StartKillTyped ==
  ASSUME TypeOK, NEW r \in Runs, Start(r) \/ Kill(r)
  PROVE  TypeOK'
  <1>1. CatalogOK /\ RunsOK /\ HeldOK
    BY TypeParts
  <1>2. CatalogOK'
    BY <1>1 DEF Start, Kill, CatalogOK, catalog, Exists
  <1>3. [at |-> 1, exit |-> "none"] \in Run /\ Over("killed") \in Run
    BY ScriptStatements DEF Over, Run
  <1>4. RunsOK'
    <2>1. CASE Start(r)
      BY <1>1, <1>3, <2>1 DEF Start, RunsOK, budget, Disturbances
    <2>2. CASE Kill(r)
      BY <1>1, <1>3, <2>2, BoundsAreNumbers DEF Kill, RunsOK, Disturbances
    <2> QED
      BY <2>1, <2>2
  <1>5. HeldOK'
    <2>1. CASE Start(r)
      BY <1>1, <2>1, HeldKept DEF Start, catalog, Exists
    <2>2. CASE Kill(r)
      BY <1>1, <2>2, LetGo DEF Kill
    <2> QED
      BY <2>1, <2>2
  <1> QED
    BY <1>2, <1>4, <1>5 DEF TypeOK, CatalogOK, RunsOK, HeldOK, OneEach

\* What a rename can exchange: two genres, two artists, two songs of an artist.
Exchangeable(k, l) ==
  \/ k \in Genres /\ l \in Genres
  \/ k \in Artists /\ l \in Artists
  \/ k \in Songs /\ l \in Songs /\ k[1] = l[1]

\* Exchanging two slugs maps each table to itself and is its own inverse, keeps who belongs
\* to whom, and leaves alone what belongs to neither.
LEMMA ExchangedKeys ==
  ASSUME NEW k, NEW l, Exchangeable(k, l)
  PROVE  LET New(x) == Exchanged(k, l, x)
         IN  /\ \A x \in Genres : New(x) \in Genres
             /\ \A x \in Artists : New(x) \in Artists
             /\ \A x \in Songs : New(x) \in Songs /\ New(x)[1] = New(x[1])
             /\ \A x \in Tabs : New(x) \in Tabs /\ New(x)[1] = x[1] /\ New(x)[2] = New(x[2])
             /\ \A x \in Keys : New(x) \in Keys /\ New(New(x)) = x
             /\ \A x \in Keys : ~Belongs(x, k) /\ ~Belongs(x, l) => New(x) = x
             /\ k \in Keys /\ l \in Keys /\ New(k) = l /\ New(l) = k
  <1> DEFINE Slug(y) == IF y = k THEN l ELSE IF y = l THEN k ELSE y
             Song(f) == IF f \in {k, l} THEN Slug(f) ELSE <<Slug(f[1]), f[2]>>
             New(x) == Exchanged(k, l, x)
  <1>1. /\ \A x \in Tabs : New(x) = <<x[1], Song(x[2])>>
        /\ \A x \in Songs : New(x) = Song(x)
        /\ \A x \in Genres \cup Artists : New(x) = Slug(x)
    BY KindsDisjoint DEF Exchanged
  <1>2. /\ \A x \in Genres : Slug(x) \in Genres
        /\ \A x \in Artists : Slug(x) \in Artists
        /\ \A x : Slug(Slug(x)) = x
        /\ Slug(k) = l /\ Slug(l) = k
    BY KindsDisjoint DEF Exchangeable
  <1>3. ASSUME NEW f \in Songs
        PROVE  /\ Song(f) \in Songs /\ Song(f)[1] = Slug(f[1]) /\ Song(Song(f)) = f
               /\ f # k /\ f # l /\ f[1] # k /\ f[1] # l => Song(f) = f
    <2>1. f[1] \in Artists /\ f[2] \in SongSlugs /\ f = <<f[1], f[2]>> /\ f \notin Artists /\ f \notin Genres
          /\ f[1] \notin Songs /\ f[1] \notin Genres
      BY KeyKinds, KindsDisjoint
    <2>2. CASE f \in {k, l}
      <3>1. k \in Songs /\ l \in Songs /\ k[1] = l[1]
        BY <2>1, <2>2 DEF Exchangeable
      <3>2. Song(f) = Slug(f) /\ Slug(f) \in {k, l} /\ Song(Slug(f)) = Slug(Slug(f))
        BY <2>2
      <3>3. Slug(f[1]) = f[1]
        BY <2>1, <3>1
      <3> QED
        BY <1>2, <2>2, <3>1, <3>2, <3>3
    <2>3. CASE f \notin {k, l}
      <3>1. Song(f) = <<Slug(f[1]), f[2]>>
        BY <2>3
      <3>2. Slug(f[1]) \in Artists
        BY <1>2, <2>1
      <3>3. <<Slug(f[1]), f[2]>> \in Songs
        BY <2>1, <3>2 DEF Songs
      <3>4. <<Slug(f[1]), f[2]>> \notin {k, l}
        <4>1. CASE k \in Songs
          <5>1. l \in Songs
            BY <4>1, KindsDisjoint DEF Exchangeable
          <5>2. Slug(f[1]) = f[1]
            BY <2>1, <4>1, <5>1
          <5> QED
            BY <2>1, <2>3, <5>2
        <4>2. CASE k \notin Songs
          <5>1. l \notin Songs
            BY <4>2, KindsDisjoint DEF Exchangeable
          <5> QED
            BY <3>3, <4>2, <5>1
        <4> QED
          BY <4>1, <4>2
      <3>5. Song(<<Slug(f[1]), f[2]>>) = <<Slug(Slug(f[1])), f[2]>>
        BY <3>4
      <3> QED
        BY <1>2, <2>1, <3>1, <3>3, <3>5
    <2> QED
      BY <2>2, <2>3
  <1>4. /\ \A x \in Genres : New(x) \in Genres
        /\ \A x \in Artists : New(x) \in Artists
        /\ \A x \in Songs : New(x) \in Songs /\ New(x)[1] = New(x[1])
    <2> HIDE DEF New, Slug, Song
    <2>1. \A x \in Songs : New(x) = Song(x) /\ x[1] \in Artists /\ New(x[1]) = Slug(x[1])
      BY <1>1, KeyKinds
    <2>2. \A x \in Songs : Song(x) \in Songs /\ Song(x)[1] = Slug(x[1])
      BY <1>3
    <2> QED
      BY <1>1, <1>2, <2>1, <2>2
  <1>5. ASSUME NEW t \in Tabs
        PROVE  /\ New(t) \in Tabs /\ New(t)[1] = t[1] /\ New(t)[2] = New(t[2])
               /\ New(New(t)) = t
    <2>1. t[2] \in Songs /\ t = <<t[1], t[2]>> /\ t[1] \in FixtureSongs \cup {NULL}
      BY DEF Tabs
    <2>2. New(t) = <<t[1], Song(t[2])>> /\ New(t[2]) = Song(t[2])
      BY <1>1, <2>1
    <2>3. Song(t[2]) \in Songs /\ Song(Song(t[2])) = t[2]
      BY <1>3, <2>1
    <2>4. New(t) \in Tabs /\ New(t)[1] = t[1] /\ New(t)[2] = Song(t[2])
      BY <2>1, <2>2, <2>3 DEF Tabs
    <2>5. New(New(t)) = <<t[1], Song(Song(t[2]))>>
      BY <1>1, <2>4
    <2> QED
      BY <2>1, <2>2, <2>3, <2>4, <2>5
  <1> HIDE DEF New
  <1>6. \A x \in Keys : New(x) \in Keys /\ New(New(x)) = x
    <2>1. \A x \in Genres \cup Artists : New(New(x)) = x
      BY <1>1, <1>2
    <2>2. \A x \in Songs : New(New(x)) = x
      <3> HIDE DEF Slug, Song
      <3>1. \A x \in Songs : Song(x) \in Songs /\ Song(Song(x)) = x
        BY <1>3
      <3> QED
        BY <1>1, <3>1
    <2> QED
      BY <1>4, <1>5, <2>1, <2>2 DEF Keys
  <1>7. ASSUME NEW x \in Keys, ~Belongs(x, k), ~Belongs(x, l) PROVE New(x) = x
    <2>1. CASE x \in Genres \cup Artists
      BY <1>1, <1>7, <2>1 DEF Belongs
    <2>2. CASE x \in Songs
      BY <1>1, <1>3, <1>7, <2>2 DEF Belongs
    <2>3. CASE x \in Tabs
      <3>1. x[2] \in Songs /\ x = <<x[1], x[2]>> /\ New(x) = <<x[1], Song(x[2])>>
        BY <1>1, <2>3, KeyKinds
      <3>2. x[2] # k /\ x[2] # l /\ x[2][1] # k /\ x[2][1] # l
        BY <1>7, <2>3 DEF Belongs
      <3> QED
        BY <1>3, <3>1, <3>2
    <2> QED
      BY <2>1, <2>2, <2>3 DEF Keys
  <1>8. k \in Keys /\ l \in Keys /\ New(k) = l /\ New(l) = k
    BY <1>1, <1>2, KeyKinds DEF Exchangeable
  <1> QED
    BY <1>4, <1>5, <1>6, <1>7, <1>8 DEF New

\* What the server's writes leave alone: the runs and, but for a rename, every fixture and
\* what is held; it never counts as a run's fault, and without an insertion or a rename of
\* a fixture there are no more songs, tabs and associations than fixtures had.
ServerKeeps ==
  /\ runs' = runs /\ spoiled \subseteq spoiled' /\ spoiled' \cap {"edit", "insert"} # {}
  /\ spoiled' \subseteq spoiled \cup {"edit", "insert"}
  /\ renamed \subseteq renamed' /\ (renamed' # renamed => "edit" \in spoiled')
  /\ RenamedWhole => RenamedWhole'
  /\ \A k \in FixtureKeys \ renamed' :
       /\ Exists(k) => Exists(k)'
       /\ \A r \in Runs : k \in held[r] => k \in held'[r]
       /\ \A r \in Runs : \A kind \in {Artists, Songs, Genres} :
            held[r] \cap kind \subseteq {k} => held'[r] \cap kind \subseteq {k}
  /\ renamed' = {} /\ "insert" \notin spoiled' =>
       /\ \A kind \in {Songs, Tabs} : (\A k \in kind : Exists(k) => k \in FixtureKeys) =>
            \A k \in kind : Exists(k)' => Exists(k)
       /\ links \subseteq FixtureLinks => links' \subseteq links

\* A rename.
LEMMA RenameEffect ==
  ASSUME TypeOK, NEW k, NEW l, Exchangeable(k, l), ServerRename(k, l)
  PROVE  CatalogOK' /\ RunsOK' /\ HeldOK' /\ ServerKeeps
  <1> DEFINE New(x) == Exchanged(k, l, x)
             taken == {x \in FixtureKeys : Belongs(x, k)}
  <1>1. CatalogOK /\ RunsOK /\ HeldOK
    BY TypeParts
  <1>2. /\ Exists(k) /\ ~Exists(l)
        /\ rows' = [x \in Keys |-> IF x = l THEN "changed" ELSE rows[New(x)]]
        /\ links' = {<<New(e[1]), New(e[2])>> : e \in links}
        /\ rated' = {New(t) : t \in rated}
        /\ held' = [r \in Runs |-> {New(x) : x \in held[r]}]
        /\ renamed' = renamed \cup taken
        /\ UNCHANGED users /\ Server("edit")
    BY DEF ServerRename
  <1>3. /\ \A x \in Genres : New(x) \in Genres
        /\ \A x \in Artists : New(x) \in Artists
        /\ \A x \in Songs : New(x) \in Songs /\ New(x)[1] = New(x[1])
        /\ \A x \in Tabs : New(x) \in Tabs /\ New(x)[1] = x[1] /\ New(x)[2] = New(x[2])
        /\ \A x \in Keys : New(x) \in Keys /\ New(New(x)) = x
        /\ \A x \in Keys : ~Belongs(x, k) /\ ~Belongs(x, l) => New(x) = x
        /\ k \in Keys /\ l \in Keys /\ New(k) = l /\ New(l) = k
    BY ExchangedKeys
  <1> HIDE DEF New, taken
  <1>4. RunsOK' /\ runs' = runs /\ spoiled' = spoiled \cup {"edit"}
    BY <1>1, <1>2, BoundsAreNumbers DEF Server, RunsOK, Disturbances, taken
  <1>5. rows' \in [Keys -> Row \cup {NULL}]
    BY <1>1, <1>2, <1>3 DEF CatalogOK, Row
  <1>6. \A x \in Keys : Exists(x)' <=> Exists(New(x))
    <2>1. Exists(l)' /\ Exists(New(l))
      BY <1>2, <1>3, NullIsNoRow DEF Exists, Row
    <2>2. \A x \in Keys \ {l} : Exists(x)' <=> Exists(New(x))
      BY <1>2 DEF Exists
    <2> QED
      BY <2>1, <2>2
  \* What exists and does not belong to the renamed row stays where it is.
  <1>7. \A x \in Keys : Exists(x) /\ ~Belongs(x, k) => New(x) = x
    <2> SUFFICES ASSUME NEW x \in Keys, Exists(x), Belongs(x, l) PROVE FALSE
      BY <1>3
    <2>1. CASE x = l
      BY <1>2, <2>1
    <2>2. CASE x \in Songs /\ x[1] = l
      BY <1>1, <1>2, <2>2 DEF CatalogOK
    <2>3. CASE x \in Tabs /\ l \in {x[2], x[2][1]}
      <3>1. x[2] \in Songs /\ Exists(x[2])
        BY <1>1, <2>3, KeyKinds DEF CatalogOK
      <3>2. Exists(x[2][1])
        BY <1>1, <3>1 DEF CatalogOK
      <3> QED
        BY <1>2, <2>3, <3>1, <3>2
    <2> QED
      BY <2>1, <2>2, <2>3 DEF Belongs
  <1>8. CatalogOK'
    <2>1. ASSUME NEW f \in Songs, Exists(f)' PROVE Exists(f[1])'
      <3>1. f \in Keys /\ f[1] \in Keys
        BY KeyKinds
      <3>2. Exists(New(f)[1])
        BY <1>1, <1>3, <1>6, <2>1, <3>1 DEF CatalogOK
      <3> QED
        BY <1>3, <1>6, <3>1, <3>2
    <2>2. ASSUME NEW t \in Tabs, Exists(t)' PROVE Exists(t[2])'
      <3>1. t \in Keys /\ t[2] \in Keys
        BY KeyKinds
      <3>2. Exists(New(t)[2])
        BY <1>1, <1>3, <1>6, <2>2, <3>1 DEF CatalogOK
      <3> QED
        BY <1>3, <1>6, <3>1, <3>2
    <2>3. ASSUME NEW e \in links'
          PROVE  e \in Songs \X Genres /\ Exists(e[1])' /\ Exists(e[2])'
      <3>1. PICK d \in links : e = <<New(d[1]), New(d[2])>>
        BY <1>2
      <3>2. d[1] \in Songs /\ d[2] \in Genres /\ Exists(d[1]) /\ Exists(d[2])
        BY <1>1 DEF CatalogOK
      <3>3. d[1] \in Keys /\ d[2] \in Keys
        BY <3>2, KeyKinds
      <3>4. e[1] \in Songs /\ e[2] \in Genres /\ New(e[1]) = d[1] /\ New(e[2]) = d[2]
            /\ e[1] \in Keys /\ e[2] \in Keys
        BY <1>3, <3>1, <3>2, <3>3
      <3> QED
        BY <1>6, <3>1, <3>2, <3>4
    <2>4. ASSUME NEW t \in rated' PROVE t \in Tabs /\ Exists(t)'
      <3>1. PICK u \in rated : t = New(u)
        BY <1>2
      <3>2. u \in Tabs /\ u \in Keys /\ Exists(u)
        BY <1>1, KeyKinds DEF CatalogOK
      <3> QED
        BY <1>3, <1>6, <3>1, <3>2
    <2>5. ASSUME NEW t \in Tabs, NEW u \in Tabs, Exists(t)', Exists(u)', t[1] = u[1]
          PROVE  t[1] = NULL \/ t = u
      <3>1. t \in Keys /\ u \in Keys
        BY KeyKinds
      <3>2. Exists(New(t)) /\ Exists(New(u)) /\ New(t)[1] = t[1] /\ New(u)[1] = u[1]
            /\ New(t) \in Tabs /\ New(u) \in Tabs
        BY <1>3, <1>6, <2>5, <3>1
      <3>3. t[1] = NULL \/ New(t) = New(u)
        BY <1>1, <2>5, <3>2 DEF CatalogOK
      <3>4. New(New(t)) = t /\ New(New(u)) = u
        BY <1>3, <3>1
      <3> QED
        BY <3>3, <3>4
    <2>6. links' \subseteq Songs \X Genres /\ rated' \subseteq Tabs
      BY <2>3, <2>4
    <2> QED
      BY <1>1, <1>2, <1>5, <2>1, <2>2, <2>3, <2>4, <2>5, <2>6 DEF CatalogOK
  \* What a run holds afterwards is what it held, by its new key.
  <1>9. ASSUME NEW r \in Runs, NEW x \in held'[r]
        PROVE  /\ New(x) \in held[r] /\ x \in Artists \cup Songs \cup Genres /\ Exists(x)'
               /\ \A kind \in {Artists, Songs, Genres} : x \in kind => New(x) \in kind
               /\ New(New(x)) = x
    <2>1. PICK y \in held[r] : x = New(y)
      BY <1>2
    <2>2. y \in Artists \cup Songs \cup Genres /\ y \in Keys /\ Exists(y)
      BY <1>1, KeyKinds DEF HeldOK
    <2>3. New(x) = y /\ x \in Keys /\ x \in Artists \cup Songs \cup Genres
      BY <1>3, <2>1, <2>2
    <2> QED
      BY <1>3, <1>6, <2>1, <2>2, <2>3
  <1>10. HeldOK'
    <2>1. ASSUME NEW r \in Runs PROVE held'[r] \in SUBSET (Artists \cup Songs \cup Genres)
      BY <1>9
    <2>2. held' \in [Runs -> SUBSET (Artists \cup Songs \cup Genres)]
      BY <1>2, <2>1
    <2>3. ASSUME NEW r \in Runs, NEW kind \in {Artists, Songs, Genres},
                 NEW x \in held'[r] \cap kind, NEW y \in held'[r] \cap kind
          PROVE  x = y
      <3>1. New(x) \in held[r] \cap kind /\ New(y) \in held[r] \cap kind
            /\ New(New(x)) = x /\ New(New(y)) = y
        BY <1>9
      <3>2. New(x) = New(y)
        BY <1>1, <3>1 DEF HeldOK, OneEach
      <3> QED
        BY <3>1, <3>2
    <2> QED
      BY <1>9, <2>2, <2>3 DEF HeldOK, OneEach
  <1>11. ASSUME RenamedWhole PROVE RenamedWhole'
    <2> SUFFICES ASSUME NEW f \in FixtureSongs
                 PROVE  /\ f[1] \in renamed' => f \in renamed'
                        /\ f \in renamed' => <<f, f>> \in renamed'
      BY DEF RenamedWhole
    <2>1. /\ f \in Songs /\ f[1] \in Artists /\ <<f, f>> \in Tabs
          /\ f \in FixtureKeys /\ <<f, f>> \in FixtureKeys
      BY FixtureKinds, KeyKinds DEF FixtureKeys, FixtureTabs
    <2>2. f[1] \notin Songs /\ f[1] \notin Tabs /\ f \notin Tabs
      BY <2>1, KindsDisjoint
    <2>3. f[1] \in taken => f \in taken
      BY <2>1, <2>2 DEF taken, Belongs
    <2>4. f \in taken => <<f, f>> \in taken
      BY <2>1, <2>2 DEF taken, Belongs
    <2> QED
      BY <1>2, <1>11, <2>3, <2>4 DEF RenamedWhole
  <1>12. \A x \in FixtureKeys : x \in Keys /\ (Belongs(x, k) => x \in renamed')
    BY <1>2, FixtureKinds DEF taken, FixtureKeys, Keys
  <1>13. ASSUME NEW x \in FixtureKeys \ renamed'
         PROVE  /\ Exists(x) => Exists(x)'
                /\ \A r \in Runs : x \in held[r] => x \in held'[r]
                /\ \A r \in Runs : \A kind \in {Artists, Songs, Genres} :
                     held[r] \cap kind \subseteq {x} => held'[r] \cap kind \subseteq {x}
    <2>1. Exists(x) => New(x) = x
      BY <1>7, <1>12
    <2>2. Exists(x) => Exists(x)'
      BY <1>6, <1>12, <2>1
    <2>3. ASSUME NEW r \in Runs, x \in held[r] PROVE x \in held'[r]
      <3>1. New(x) = x
        BY <1>1, <2>1, <2>3 DEF HeldOK
      <3> QED
        BY <1>2, <2>3, <3>1
    <2>4. ASSUME NEW r \in Runs, NEW kind \in {Artists, Songs, Genres},
                 held[r] \cap kind \subseteq {x}, NEW y \in held'[r] \cap kind
          PROVE  y = x
      <3>1. New(y) \in held[r] \cap kind /\ New(New(y)) = y
        BY <1>9
      <3>2. New(y) = x /\ Exists(x)
        BY <1>1, <2>4, <3>1 DEF HeldOK
      <3> QED
        BY <2>1, <3>1, <3>2
    <2> QED
      BY <2>2, <2>3, <2>4
  <1>14. ASSUME renamed' = {}
         PROVE  /\ \A kind \in {Songs, Tabs} : (\A x \in kind : Exists(x) => x \in FixtureKeys) =>
                     \A x \in kind : Exists(x)' => Exists(x)
                /\ links \subseteq FixtureLinks => links' \subseteq links
    <2>1. \A x \in FixtureKeys : Exists(x) => New(x) = x
      BY <1>7, <1>12, <1>14
    <2>2. ASSUME NEW kind \in {Songs, Tabs}, \A x \in kind : Exists(x) => x \in FixtureKeys,
                 NEW x \in kind, Exists(x)'
          PROVE  Exists(x)
      <3>1. x \in Keys /\ New(x) \in kind /\ New(New(x)) = x
        BY <1>3, KeyKinds
      <3>2. Exists(New(x)) /\ New(New(x)) = New(x)
        BY <1>6, <2>1, <2>2, <3>1
      <3> QED
        BY <3>1, <3>2
    <2>3. ASSUME links \subseteq FixtureLinks, NEW e \in links' PROVE e \in links
      <3>1. PICK d \in links : e = <<New(d[1]), New(d[2])>>
        BY <1>2
      <3>2. d = <<d[1], d[2]>> /\ d[1] \in FixtureKeys /\ d[2] \in FixtureKeys
            /\ Exists(d[1]) /\ Exists(d[2])
        BY <1>1, <2>3, FixtureKinds DEF CatalogOK, FixtureKeys
      <3> QED
        BY <2>1, <3>1, <3>2
    <2> QED
      BY <2>2, <2>3
  <1>15. ServerKeeps
    BY <1>2, <1>4, <1>11, <1>13, <1>14 DEF ServerKeeps
  <1> QED
    BY <1>4, <1>8, <1>10, <1>15


\* The writes that rename nothing.
LEMMA PlainWriteKeeps ==
  ASSUME TypeOK, NEW kind \in {"edit", "insert"}, Server(kind), UNCHANGED <<held, renamed>>,
         CatalogOK', \A k \in Keys : Exists(k) => Exists(k)',
         kind = "edit" => /\ links' \subseteq links
                          /\ \A k \in Songs \cup Tabs : Exists(k)' => Exists(k)
  PROVE  TypeOK' /\ ServerKeeps
  <1>1. CatalogOK /\ RunsOK /\ HeldOK
    BY TypeParts
  <1>2. RunsOK' /\ runs' = runs /\ spoiled' = spoiled \cup {kind}
    BY <1>1, BoundsAreNumbers DEF Server, RunsOK, Disturbances
  <1>3. HeldOK'
    BY <1>1, HeldKept
  <1>4. TypeOK'
    BY <1>2, <1>3 DEF TypeOK, CatalogOK, RunsOK, HeldOK, OneEach
  <1>5. RenamedWhole => RenamedWhole'
    BY DEF RenamedWhole
  <1>6. \A k \in FixtureKeys : k \in Keys
    BY FixtureKinds, KeyKinds DEF FixtureKeys
  <1>7. \A k \in FixtureKeys \ renamed' :
          /\ Exists(k) => Exists(k)'
          /\ \A r \in Runs : k \in held[r] => k \in held'[r]
          /\ \A r \in Runs : \A table \in {Artists, Songs, Genres} :
               held[r] \cap table \subseteq {k} => held'[r] \cap table \subseteq {k}
    BY <1>6
  <1>8. renamed' = {} /\ "insert" \notin spoiled' =>
          /\ \A table \in {Songs, Tabs} : (\A k \in table : Exists(k) => k \in FixtureKeys) =>
               \A k \in table : Exists(k)' => Exists(k)
          /\ links \subseteq FixtureLinks => links' \subseteq links
    BY <1>2
  <1> QED
    BY <1>2, <1>4, <1>5, <1>7, <1>8 DEF ServerKeeps

LEMMA RenameKeeps ==
  ASSUME TypeOK, NEW k, NEW l, Exchangeable(k, l), ServerRename(k, l)
  PROVE  TypeOK' /\ ServerKeeps
  BY RenameEffect DEF TypeOK, CatalogOK, RunsOK, HeldOK, OneEach

LEMMA ServerEffect ==
  ASSUME TypeOK, ServerWrite
  PROVE  TypeOK' /\ ServerKeeps
  <1>1. CatalogOK /\ RunsOK /\ HeldOK
    BY TypeParts
  <1>2. "changed" \in Row /\ "deleted" \in Row
    BY DEF Row
  <1>3. ASSUME NEW k \in Keys, Founded(k), Insert(k), k \in Tabs => k[1] = NULL,
               links' \subseteq Songs \X Genres,
               \A e \in links' : e \in links \/ (Exists(e[1])' /\ Exists(e[2])'),
               UNCHANGED <<rated, users>>
        PROVE  /\ CatalogOK' /\ \A x \in Keys : Exists(x) => Exists(x)'
               /\ \A x \in Keys \ {k} : rows'[x] = rows[x]
    BY <1>1, <1>2, <1>3, WriteKeepsCatalog DEF Insert
  <1>4. ASSUME NEW k \in Genres \cup Artists, Insert(k), Server("edit"),
               UNCHANGED <<links, rated, users, held, renamed>>
        PROVE  TypeOK' /\ ServerKeeps
    <2>1. k \in Keys /\ Founded(k) /\ k \notin Songs \cup Tabs
      BY <1>4, KeyKinds, KindsDisjoint DEF Founded
    <2>2. /\ CatalogOK' /\ \A x \in Keys : Exists(x) => Exists(x)'
          /\ \A x \in Keys \ {k} : rows'[x] = rows[x]
      BY <1>1, <1>3, <1>4, <2>1 DEF CatalogOK
    <2>3. \A x \in Songs \cup Tabs : Exists(x)' => Exists(x)
      BY <2>1, <2>2, KeyKinds DEF Exists
    <2> QED
      BY <1>4, <2>2, <2>3, PlainWriteKeeps
  <1>5. ASSUME NEW f \in Songs, ServerCreateSong(f) PROVE TypeOK' /\ ServerKeeps
    <2>1. f \in Keys /\ Founded(f) /\ f \notin Tabs
      BY <1>5, KeyKinds, KindsDisjoint DEF Founded, ServerCreateSong
    <2>2. PICK gs \in SUBSET {g \in Genres : Exists(g)} : links' = links \cup ({f} \X gs)
      BY <1>5 DEF ServerCreateSong
    <2>3. Insert(f) /\ UNCHANGED <<rated, users, held, renamed>> /\ Server("insert")
      BY <1>5 DEF ServerCreateSong
    <2>4. Exists(f)' /\ \A x \in Keys : Exists(x) => Exists(x)'
      BY <1>1, <1>2, <2>1, <2>3, NullIsNoRow DEF Insert, CatalogOK, Exists
    <2>5. /\ links' \subseteq Songs \X Genres
          /\ \A e \in links' : e \in links \/ (Exists(e[1])' /\ Exists(e[2])')
      BY <1>1, <2>2, <2>4, KeyKinds DEF CatalogOK
    <2>6. CatalogOK'
      BY <1>3, <2>1, <2>3, <2>5
    <2> QED
      BY <2>3, <2>4, <2>6, PlainWriteKeeps
  <1>6. ASSUME NEW f \in Songs, ServerCreateTab(f) PROVE TypeOK' /\ ServerKeeps
    <2> DEFINE t == <<NULL, f>>
    <2>1. t \in Tabs /\ t[1] = NULL /\ t[2] = f
      BY DEF Tabs
    <2>2. t \in Keys /\ Founded(t)
      BY <1>6, <2>1, KeyKinds, KindsDisjoint DEF Founded, ServerCreateTab
    <2>3. Insert(t) /\ UNCHANGED <<links, rated, users, held, renamed>> /\ Server("insert")
      BY <1>6 DEF ServerCreateTab
    <2> HIDE DEF t
    <2>4. CatalogOK' /\ \A x \in Keys : Exists(x) => Exists(x)'
      BY <1>1, <1>3, <2>1, <2>2, <2>3 DEF CatalogOK
    <2> QED
      BY <2>3, <2>4, PlainWriteKeeps
  <1>7. ASSUME NEW f \in Songs, ServerReplaceGenres(f) PROVE TypeOK' /\ ServerKeeps
    <2>1. PICK gs \in SUBSET {g \in Genres : Exists(g)} :
            /\ links' = {e \in links : e[1] # f} \cup ({f} \X gs)
            /\ Server(IF links' \subseteq links THEN "edit" ELSE "insert")
      BY <1>7 DEF ServerReplaceGenres
    <2>2. Exists(f) /\ UNCHANGED <<rows, rated, users, held, renamed>>
      BY <1>7 DEF ServerReplaceGenres
    <2>3. CatalogOK'
      BY <1>1, <2>1, <2>2 DEF CatalogOK, Exists
    <2>4. PICK kind \in {"edit", "insert"} : Server(kind) /\ (kind = "edit" => links' \subseteq links)
      BY <2>1
    <2>5. \A k : Exists(k)' <=> Exists(k)
      BY <2>2 DEF Exists
    <2> QED
      BY <2>2, <2>3, <2>4, <2>5, PlainWriteKeeps
  <1>8. ASSUME NEW k \in Keys, ServerWriteRow(k) PROVE TypeOK' /\ ServerKeeps
    <2>1. Exists(k) /\ UNCHANGED <<links, rated, users, held, renamed>> /\ Server("edit")
      BY <1>8 DEF ServerWriteRow
    <2>2. PICK state \in {"changed", "deleted"} : rows' = [rows EXCEPT ![k] = state]
      BY <1>8 DEF ServerWriteRow
    <2>3. Founded(k)
      BY <1>1, <2>1 DEF Founded, CatalogOK
    <2>4. /\ CatalogOK' /\ \A x \in Keys : Exists(x) => Exists(x)'
          /\ \A x \in Keys \ {k} : rows'[x] = rows[x]
      BY <1>1, <1>2, <2>1, <2>2, <2>3, WriteKeepsCatalog DEF CatalogOK
    <2>5. \A x \in Keys : Exists(x)' => Exists(x)
      BY <2>1, <2>4 DEF Exists
    <2> QED
      BY <2>1, <2>4, <2>5, KeyKinds, PlainWriteKeeps
  <1>9. ASSUME UNCHANGED <<rows, links, held, renamed>>, Server("edit"),
               rated' \subseteq Tabs, \A t \in rated' : Exists(t),
               users' \in [SeedUsers -> {"none", "seeded", "changed", "taken"}]
        PROVE  TypeOK' /\ ServerKeeps
    <2>1. \A k : Exists(k)' <=> Exists(k)
      BY <1>9 DEF Exists
    <2>2. CatalogOK'
      BY <1>1, <1>9, <2>1 DEF CatalogOK
    <2> QED
      BY <1>9, <2>1, <2>2, PlainWriteKeeps
  <1>10. ASSUME NEW t \in Tabs, ServerRate(t) PROVE TypeOK' /\ ServerKeeps
    BY <1>1, <1>9, <1>10 DEF ServerRate, CatalogOK
  <1>11. ASSUME NEW u \in SeedUsers, ServerWriteUser(u) PROVE TypeOK' /\ ServerKeeps
    <2>1. users' \in [SeedUsers -> {"none", "seeded", "changed", "taken"}]
      BY <1>1, <1>11 DEF ServerWriteUser, CatalogOK
    <2> QED
      BY <1>1, <1>9, <1>11, <2>1 DEF ServerWriteUser, CatalogOK
  <1>12. ASSUME NEW g \in Genres, NEW h \in Genres, ServerRename(g, h)
         PROVE  TypeOK' /\ ServerKeeps
    BY <1>12, RenameKeeps DEF Exchangeable
  <1>13. ASSUME NEW a \in Artists, NEW b \in Artists, ServerRename(a, b)
         PROVE  TypeOK' /\ ServerKeeps
    BY <1>13, RenameKeeps DEF Exchangeable
  <1>14. ASSUME NEW f \in Songs, NEW s \in SongSlugs, ServerRename(f, <<f[1], s>>)
         PROVE  TypeOK' /\ ServerKeeps
    <2>1. <<f[1], s>> \in Songs /\ <<f[1], s>>[1] = f[1]
      BY KeyKinds DEF Songs
    <2> QED
      BY <1>14, <2>1, RenameKeeps DEF Exchangeable
  <1>15. ASSUME NEW g \in Genres, ServerCreateGenre(g) PROVE TypeOK' /\ ServerKeeps
    BY <1>4, <1>15 DEF ServerCreateGenre
  <1>16. ASSUME NEW a \in Artists, ServerCreateArtist(a) PROVE TypeOK' /\ ServerKeeps
    BY <1>4, <1>16 DEF ServerCreateArtist
  <1> QED
    BY <1>5, <1>6, <1>7, <1>8, <1>10, <1>11, <1>12, <1>13, <1>14, <1>15, <1>16 DEF ServerWrite

LEMMA TypeInit == Init => TypeOK
  <1> SUFFICES ASSUME Init PROVE TypeOK
    OBVIOUS
  <1>1. Over("none") \in Run
    BY ScriptStatements DEF Over, Run
  <1>2. RunsOK
    BY <1>1, BoundsAreNumbers DEF Init, RunsOK
  <1>3. CatalogOK
    BY KeyKinds DEF Init, CatalogOK, Exists
  <1>4. HeldOK
    BY DEF Init, HeldOK, OneEach
  <1> QED
    BY <1>2, <1>3, <1>4, TypeParts

\* A step that leaves the history alone, and every other run with no more than it held,
\* leaves what these hold as they read it.
LEMMA AsReadKept ==
  ASSUME NEW q \in Runs, AsRead(q), runs'[q] = runs[q], renamed \subseteq renamed',
         held'[q] \subseteq held[q]
  PROVE  AsRead(q)'
  <1>1. \A kind, k : HoldsOnly(q, kind, k) => HoldsOnly(q, kind, k)'
    BY DEF HoldsOnly
  <1> QED
    BY <1>1 DEF AsRead, Upserted

\* A run that has passed a statement holds what that read.
LEMMA PassingReads ==
  ASSUME TypeOK, NEW r \in Runs, Running(r), AsRead(r), Passes(r)
  PROVE  Running(r)' => AsRead(r)'
  <1> DEFINE w == Statement(r)
             at == runs[r].at
  <1>1. /\ at \in DOMAIN Script /\ at \in Nat /\ w = Script[at] /\ w \in Statements
        /\ DOMAIN Script \subseteq Nat
    BY TypeParts, StatementOf, ScriptStatements DEF Statement
  <1>2. TypeOK' /\ Effect(r) /\ Advances(r) /\ renamed' = renamed
    BY DEF Passes, Advances, history
  <1> SUFFICES ASSUME Running(r)' PROVE AsRead(r)'
    OBVIOUS
  <1>3. runs'[r].at = at + 1
    BY <1>1, <1>2 DEF Advances, Running, Over
  <1>4. OneEach(held'[r])
    BY <1>2 DEF TypeOK, OneEach
  <1>5. /\ w.do \in {"findArtist", "findGenre"} => w.key \in held'[r]
        /\ w.do \in {"findSong", "upsertSong"} => w.key \in held'[r] \cup renamed'
        /\ w.do \in InBlock => held'[r] \cap Songs = held[r] \cap Songs
    BY <1>2 DEF Effect, w
  <1> HIDE DEF w, at
  <1>6. /\ w.do = "findGenre" => w.key \in Genres
        /\ w.do = "findArtist" => w.key \in Artists
        /\ w.do \in {"findSong", "upsertSong"} => w.key \in Songs
    BY <1>1, StatementKeys, FixtureKinds
  <1> DEFINE Only(kind, k) == k \in renamed' \/ held'[r] \cap kind \subseteq {k}
  <1>7. \A kind \in {Artists, Songs, Genres} : \A k \in held'[r] \cap kind : Only(kind, k)
    BY <1>4 DEF OneEach
  <1>8. /\ w.do = "findArtist" => Only(Artists, w.key)
        /\ w.do = "findGenre" => Only(Genres, w.key)
        /\ w.do \in {"findSong", "upsertSong"} => Only(Songs, w.key)
    <2>1. w.do = "findArtist" => w.key \in held'[r] \cap Artists
      BY <1>5, <1>6
    <2>2. w.do = "findGenre" => w.key \in held'[r] \cap Genres
      BY <1>5, <1>6
    <2>3. w.do \in {"findSong", "upsertSong"} => w.key \in (held'[r] \cap Songs) \cup renamed'
      BY <1>5, <1>6
    <2> QED
      BY <1>7, <2>1, <2>2, <2>3
  <1>9. ASSUME NEW m \in DOMAIN Script, m + 1 = runs'[r].at
        PROVE  /\ Script[m].do = "findArtist" => Only(Artists, Script[m].key)
               /\ Script[m].do = "findGenre" => Only(Genres, Script[m].key)
               /\ Script[m].do = "findSong" => Only(Songs, Script[m].key)
    <2>1. Script[m] = w
      BY <1>1, <1>3, <1>9
    <2> QED
      BY <1>8, <2>1
  <1>10. ASSUME NEW m \in DOMAIN Script, Upserted(m, runs'[r].at)
         PROVE  Only(Songs, Script[m].key)
    <2>1. CASE m = at
      <3>1. Script[m] = w /\ w.do = "upsertSong"
        BY <1>1, <1>10, <2>1 DEF Upserted
      <3> QED
        BY <1>8, <3>1
    <2>2. CASE m # at
      <3>1. m < at /\ at < runs'[r].at /\ \A x \in DOMAIN Script : x < at => x < runs'[r].at
        BY <1>1, <1>3, <1>10, <2>2 DEF Upserted
      <3>2. Upserted(m, at) /\ w.do \in InBlock
        BY <1>1, <1>10, <3>1 DEF Upserted
      <3>3. HoldsOnly(r, Songs, Script[m].key)
        BY <3>2 DEF AsRead, at
      <3> QED
        BY <1>2, <1>5, <3>2, <3>3 DEF HoldsOnly
    <2> QED
      BY <2>1, <2>2
  <1> QED
    BY <1>9, <1>10 DEF AsRead, Upserted, HoldsOnly

LEMMA StatementsHaveKeys ==
  ASSUME NEW w \in Statements
  PROVE  /\ w.do \in {"upsertSong", "findArtist", "findGenre", "findSong"} => w.key \in FixtureKeys
         /\ \A k : w \in Writes(k) => k \in FixtureKeys
  <1>1. \A k : w \in Writes(k) =>
          k = w.key /\ w.do \in {"upsertGenre", "upsertArtist", "upsertSong", "upsertTab"}
    BY DEF Writes
  <1> QED
    BY <1>1, StatementKeys DEF FixtureKeys

LEMMA HeldInvStep ==
  ASSUME HeldInv, [Next]_vars
  PROVE  HeldInv'
  <1>1. TypeOK /\ RunsOK /\ HeldOK /\ RenamedWhole
    BY TypeParts DEF HeldInv
  <1>2. ASSUME NEW r \in Runs, Start(r) PROVE HeldInv'
    <2>1. TypeOK' /\ UNCHANGED held
      BY <1>1, <1>2, StartKillTyped DEF Start
    <2>2. /\ ~Running(r) /\ runs'[r].at = 1 /\ \A q \in Runs \ {r} : runs'[q] = runs[q]
      BY <1>1, <1>2 DEF Start, RunsOK
    <2>3. AsRead(r)'
      <3>1. \A m \in DOMAIN Script : m \in Nat /\ m > 0
        BY ScriptStatements
      <3>2. \A m \in DOMAIN Script : m + 1 # runs'[r].at /\ ~(m < runs'[r].at)
        BY <2>2, <3>1
      <3> QED
        BY <3>2 DEF AsRead, Upserted
    <2>4. ASSUME NEW q \in Runs \ {r}, Running(q)' PROVE AsRead(q)'
      <3>1. Running(q)
        BY <2>2, <2>4 DEF Running
      <3>2. renamed' = renamed
        BY <1>2, <3>1 DEF Start, Quiet
      <3> QED
        BY <2>1, <2>2, <3>1, <3>2, AsReadKept DEF HeldInv
    <2>5. RenamedWhole' /\ (renamed' # {} => "edit" \in spoiled')
      BY <1>2 DEF Start, HeldInv, RenamedWhole
    <2> QED
      BY <2>1, <2>3, <2>4, <2>5 DEF HeldInv
  \* A run that ends.
  <1>3. ASSUME NEW r \in Runs, NEW exit, runs' = [runs EXCEPT ![r] = Over(exit)], TypeOK',
               spoiled \subseteq spoiled', UNCHANGED renamed, Holding(r, {})
        PROVE  HeldInv'
    <2>1. ~Running(r)' /\ \A q \in Runs \ {r} : runs'[q] = runs[q] /\ held'[q] = held[q]
      BY <1>1, <1>3 DEF RunsOK, Running, Over, Holding, HeldOK
    <2>2. \A q \in Runs : Running(q)' => AsRead(q)'
      <3> SUFFICES ASSUME NEW q \in Runs, Running(q)' PROVE AsRead(q)'
        OBVIOUS
      <3>1. q # r /\ Running(q)
        BY <2>1 DEF Running
      <3> QED
        BY <1>3, <2>1, <3>1, AsReadKept DEF HeldInv
    <2> QED
      BY <1>3, <2>2 DEF HeldInv, RenamedWhole
  <1>4. ASSUME NEW r \in Runs, Kill(r) PROVE HeldInv'
    BY <1>1, <1>3, <1>4, StartKillTyped DEF Kill
  <1>5. ASSUME NEW r \in Runs, Step(r) PROVE HeldInv'
    <2>1. TypeOK' /\ (Throws(r) \/ Passes(r)) /\ Running(r)
      BY <1>5, StepEffect DEF Step
    <2>2. CASE Throws(r)
      BY <1>3, <2>1, <2>2 DEF Throws, Fail
    <2>3. CASE Passes(r)
      <3>1. Effect(r) /\ Advances(r)
        BY <2>3 DEF Passes
      <3>2. \A q \in Runs \ {r} : runs'[q] = runs[q] /\ held'[q] \subseteq held[q]
        BY <3>1 DEF Effect, Advances
      <3>3. renamed' = renamed /\ spoiled' = spoiled
        BY <3>1 DEF Advances, history
      <3>4. ASSUME NEW q \in Runs, Running(q)' PROVE AsRead(q)'
        <4>1. CASE q = r
          BY <1>1, <2>1, <2>3, <3>4, <4>1, PassingReads DEF HeldInv
        <4>2. CASE q # r
          <5>1. Running(q)
            BY <3>2, <3>4, <4>2 DEF Running
          <5> QED
            BY <3>2, <3>3, <4>2, <5>1, AsReadKept DEF HeldInv
        <4> QED
          BY <4>1, <4>2
      <3> QED
        BY <2>1, <3>3, <3>4 DEF HeldInv, RenamedWhole
    <2> QED
      BY <2>1, <2>2, <2>3
  <1>6. ASSUME ServerWrite PROVE HeldInv'
    <2>1. TypeOK' /\ ServerKeeps
      BY <1>1, <1>6, ServerEffect
    <2>2. /\ runs' = runs /\ RenamedWhole' /\ spoiled \subseteq spoiled' /\ renamed \subseteq renamed'
          /\ renamed' # renamed => "edit" \in spoiled'
      BY <1>1, <2>1 DEF ServerKeeps
    <2>3. ASSUME NEW q \in Runs, NEW kind \in {Artists, Songs, Genres}, NEW k \in FixtureKeys,
                 k \in renamed \/ held[q] \cap kind \subseteq {k}
          PROVE  k \in renamed' \/ held'[q] \cap kind \subseteq {k}
      BY <2>1, <2>3 DEF ServerKeeps
    <2>4. ASSUME NEW q \in Runs, Running(q)' PROVE AsRead(q)'
      <3>1. AsRead(q)
        BY <2>2, <2>4 DEF HeldInv, Running
      <3>2. \A m \in DOMAIN Script :
              Script[m].do \in {"upsertSong", "findArtist", "findGenre", "findSong"} =>
                Script[m].key \in FixtureKeys
        BY ScriptStatements, StatementsHaveKeys
      <3>3. \A m \in DOMAIN Script : m + 1 = runs'[q].at =>
              /\ Script[m].do = "findArtist" => HoldsOnly(q, Artists, Script[m].key)'
              /\ Script[m].do = "findGenre" => HoldsOnly(q, Genres, Script[m].key)'
              /\ Script[m].do = "findSong" => HoldsOnly(q, Songs, Script[m].key)'
        BY <2>2, <2>3, <3>1, <3>2 DEF AsRead, HoldsOnly
      <3>4. \A m \in DOMAIN Script : Upserted(m, runs'[q].at) =>
              HoldsOnly(q, Songs, Script[m].key)'
        BY <2>2, <2>3, <3>1, <3>2 DEF AsRead, HoldsOnly, Upserted
      <3> QED
        BY <3>3, <3>4 DEF AsRead, Upserted
    <2> QED
      BY <2>1, <2>2, <2>4 DEF HeldInv
  <1>7. ASSUME UNCHANGED vars PROVE HeldInv'
    BY <1>7 DEF HeldInv, TypeOK, RenamedWhole, AsRead, HoldsOnly, Upserted, Running, Exists,
                vars, catalog, history, budget
  <1> QED
    BY <1>2, <1>4, <1>5, <1>6, <1>7 DEF Next

LEMMA HeldInvInit == Init => HeldInv
  <1> SUFFICES ASSUME Init PROVE HeldInv
    OBVIOUS
  <1>1. renamed = {} /\ \A r \in Runs : ~Running(r)
    BY DEF Init, Running, Over
  <1> QED
    BY <1>1, TypeInit DEF HeldInv, RenamedWhole

LEMMA HeldInvHolds == Spec => []HeldInv
  BY HeldInvInit, HeldInvStep, PTL DEF Spec

\* Whoever writes, the tables, the runs and the history hold values of their types, no row,
\* association or rating lacks the row it refers to, a fixture's identifier is one tab's, and
\* a run holds one row of a kind: renames of what it holds included.
THEOREM TypesHold == Spec => []TypeOK
<1>1. HeldInv => TypeOK
  BY DEF HeldInv
<1> QED
  BY <1>1, HeldInvHolds, PTL

-----------------------------------------------------------------------------
(* What the runs at work have yet to do.                                   *)

\* A run has a statement of S before it.
ToCome(S) ==
  \E r \in Runs : \E p \in DOMAIN Script :
    Running(r) /\ runs[r].at <= p /\ Script[p] \in S

\* A run is at work, or the last ended well.
Begun == \E r \in Runs : Running(r) \/ runs[r].exit = "ok"

LEMMA StepKeepsToCome ==
  ASSUME RunsOK, NEW r \in Runs, Running(r), Advances(r), NEW S
  PROVE  /\ ToCome(S) => ToCome(S)' \/ Statement(r) \in S
         /\ \A p \in DOMAIN Script : runs[r].at < p /\ Script[p] \in S => ToCome(S)'
         /\ Begun'
  <1>1. runs[r].at \in DOMAIN Script /\ DOMAIN Script = 1 .. Len(Script) /\ Len(Script) \in Nat
    BY StatementOf, ScriptStatements
  <1>2. ASSUME NEW p \in DOMAIN Script, runs[r].at < p, Script[p] \in S PROVE ToCome(S)'
    <2>1. runs[r].at # Len(Script)
      BY <1>1, <1>2
    <2>2. runs'[r].at = runs[r].at + 1
      BY <2>1 DEF Advances
    <2>3. runs'[r].at > 0 /\ runs'[r].at <= p
      BY <1>1, <1>2, <2>2
    <2> QED
      BY <1>2, <2>3 DEF ToCome, Running
  <1>3. ASSUME ToCome(S), Statement(r) \notin S PROVE ToCome(S)'
    <2>1. PICK q \in Runs : \E p \in DOMAIN Script :
            Running(q) /\ runs[q].at <= p /\ Script[p] \in S
      BY <1>3 DEF ToCome
    <2>2. PICK p \in DOMAIN Script : Running(q) /\ runs[q].at <= p /\ Script[p] \in S
      BY <2>1
    <2>3. CASE q = r
      <3>1. runs[r].at # p
        BY <1>3, <2>2, <2>3 DEF Statement
      <3>2. runs[r].at < p
        BY <1>1, <2>2, <2>3, <3>1
      <3> QED
        BY <1>2, <2>2, <3>2
    <2>4. CASE q # r
      BY <2>2, <2>4 DEF Advances, ToCome, Running
    <2> QED
      BY <2>3, <2>4
  <1>4. Begun'
    <2>1. CASE runs[r].at = Len(Script)
      BY <2>1 DEF Advances, Begun, Over
    <2>2. CASE runs[r].at # Len(Script)
      <3>1. runs'[r].at = runs[r].at + 1
        BY <2>2 DEF Advances
      <3>2. runs'[r].at > 0
        BY <1>1, <3>1
      <3> QED
        BY <3>2 DEF Begun, Running
    <2> QED
      BY <2>1, <2>2
  <1> QED
    BY <1>2, <1>3, <1>4

\* A run that starts has the whole script before it.
LEMMA StartKeepsToCome ==
  ASSUME RunsOK, NEW r \in Runs, Start(r), NEW S
  PROVE  /\ ToCome(S) => ToCome(S)'
         /\ \A p \in DOMAIN Script : Script[p] \in S => ToCome(S)'
  <1>1. runs'[r].at = 1 /\ \A q \in Runs \ {r} : runs'[q] = runs[q]
    BY DEF Start, RunsOK, Over
  <1>2. DOMAIN Script = 1 .. Len(Script) /\ Len(Script) \in Nat
    BY ScriptStatements
  <1>3. \A p \in DOMAIN Script : Script[p] \in S => ToCome(S)'
    BY <1>1, <1>2 DEF ToCome, Running
  <1>4. ToCome(S) => ToCome(S)'
    BY <1>3 DEF ToCome
  <1> QED
    BY <1>3, <1>4

\* As long as none failed, every fixture that no rename took away is there or is still to be
\* written.
FixturesToCome ==
  "fault" \notin spoiled /\ Begun =>
    \A k \in FixtureKeys \ renamed : Exists(k) \/ ToCome(Writes(k))

FixtureInv == HeldInv /\ FixturesToCome

LEMMA FixtureInvStep ==
  ASSUME FixtureInv, [Next]_vars
  PROVE  FixtureInv'
  <1>1. TypeOK /\ RunsOK /\ HeldInv /\ FixturesToCome
    BY TypeParts DEF FixtureInv, HeldInv
  <1>2. FixtureKeys \subseteq Keys
    BY FixtureKinds DEF FixtureKeys, Keys
  <1>3. ASSUME NEW r \in Runs, Start(r) PROVE FixturesToCome'
    <2> SUFFICES ASSUME NEW k \in FixtureKeys PROVE ToCome(Writes(k))'
      BY DEF FixturesToCome
    <2>1. PICK p \in DOMAIN Script : Script[p] \in Writes(k)
      BY ScriptWrites
    <2> QED
      BY <1>1, <1>3, <2>1, StartKeepsToCome
  <1>4. ASSUME NEW r \in Runs, Kill(r) PROVE FixturesToCome'
    BY <1>4 DEF Kill, FixturesToCome
  <1>5. ASSUME NEW r \in Runs, Step(r) PROVE FixturesToCome'
    <2>1. Throws(r) \/ Passes(r)
      BY <1>1, <1>5, StepEffect
    <2>2. CASE Throws(r)
      BY <2>2 DEF Throws, Fail, FixturesToCome
    <2>3. CASE Passes(r)
      <3>1. Effect(r) /\ Advances(r)
        BY <2>3 DEF Passes
      <3>2. Running(r) /\ Begun /\ spoiled' = spoiled /\ renamed' = renamed
        BY <1>5, <3>1 DEF Step, Begun, Advances, history
      <3>3. ASSUME "fault" \notin spoiled, NEW k \in FixtureKeys \ renamed
            PROVE  Exists(k)' \/ ToCome(Writes(k))'
        <4>1. Exists(k) \/ ToCome(Writes(k))
          BY <1>1, <3>2, <3>3 DEF FixturesToCome
        <4>2. CASE ToCome(Writes(k)) /\ Statement(r) \notin Writes(k)
          BY <1>1, <3>1, <3>2, <4>2, StepKeepsToCome
        <4>3. CASE Statement(r) \in Writes(k)
          <5>1. rows'[k] = "seeded"
            BY <1>2, <3>1, <4>3 DEF Effect
          <5> QED
            BY <5>1, NullIsNoRow DEF Exists, Row
        <4>4. CASE Statement(r) \in Removes(k)
          <5>1. PICK p \in DOMAIN Script : Script[p] \in Writes(k)
            BY ScriptWrites
          <5>2. Statement(r).do \in Deletes
            BY <4>4 DEF Removes, Do, Deletes
          <5>3. Script[p].do \notin Deletes
            BY <5>1 DEF Writes, Deletes
          <5>4. runs[r].at \in DOMAIN Script /\ Statement(r) = Script[runs[r].at]
            BY <1>1, <3>2, StatementOf DEF Statement
          <5>5. runs[r].at < p
            BY <5>2, <5>3, <5>4, ScriptStatements
          <5> QED
            BY <1>1, <3>1, <3>2, <5>1, <5>5, StepKeepsToCome
        <4>5. CASE Exists(k) /\ Statement(r) \notin Writes(k) \cup Removes(k)
          <5>1. rows'[k] = rows[k] \/ rows'[k] = "seeded"
            BY <1>2, <3>1, <4>5 DEF Effect
          <5> QED
            BY <4>5, <5>1, NullIsNoRow DEF Exists, Row
        <4> QED
          BY <4>1, <4>2, <4>3, <4>4, <4>5
      <3> QED
        BY <3>2, <3>3 DEF FixturesToCome
    <2> QED
      BY <2>1, <2>2, <2>3
  <1>6. ASSUME ServerWrite PROVE FixturesToCome'
    <2>1. ServerKeeps
      BY <1>1, <1>6, ServerEffect
    <2>2. \A S : ToCome(S) => ToCome(S)'
      BY <2>1 DEF ServerKeeps, ToCome, Running
    <2>3. Begun' => Begun
      BY <2>1 DEF ServerKeeps, Begun, Running
    <2> QED
      BY <1>1, <2>1, <2>2, <2>3 DEF FixturesToCome, ServerKeeps
  <1>7. ASSUME UNCHANGED vars PROVE FixturesToCome'
    BY <1>1, <1>7 DEF FixturesToCome, Begun, ToCome, Running, Exists, vars, catalog, history
  <1> QED
    BY <1>1, <1>3, <1>4, <1>5, <1>6, <1>7, HeldInvStep DEF Next, FixtureInv

LEMMA FixtureInvHolds == Spec => []FixtureInv
<1>1. Init => FixtureInv
  <2> SUFFICES ASSUME Init PROVE ~Begun
    BY HeldInvInit DEF FixtureInv, FixturesToCome
  <2> QED
    BY DEF Init, Begun, Running, Over
<1> QED
  BY <1>1, FixtureInvStep, PTL DEF Spec

\* When the runs are over, none failed, and one reports success, every fixture has its row,
\* a soft-deleted one included, unless a rename of the server took it or what it belongs to
\* away since the first of them began: whatever the catalog held before, whatever else the
\* server wrote meanwhile, and however many runs overlapped, each deleting what another had
\* written.
THEOREM SuccessMeansFixtures == Spec => []FixturesThere
<1>1. FixtureInv => FixturesThere
  <2> SUFFICES ASSUME FixtureInv, Succeeded, NEW k \in FixtureKeys \ renamed PROVE Exists(k)
    BY DEF FixturesThere
  <2>1. Begun /\ "fault" \notin spoiled
    BY DEF Succeeded, Begun
  <2>2. ~ToCome(Writes(k))
    BY DEF Succeeded, Quiet, ToCome
  <2> QED
    BY <2>1, <2>2 DEF FixtureInv, FixturesToCome
<1> QED
  BY <1>1, FixtureInvHolds, PTL

\* A row that is no fixture or not as the script writes it.
Wrong(k) == Exists(k) /\ ~(k \in FixtureKeys /\ rows[k] = "seeded")

\* As long as nobody else wrote and no run failed, what differs from the fixtures is what a
\* run has yet to remove or to write.
RestToCome ==
  spoiled \subseteq {"overlap"} /\ Begun =>
    /\ \A k \in Keys : Wrong(k) => ToCome(Removes(k))
    /\ \A e \in FixtureLinks : e \in links \/ ToCome({Do("linkSong", e)})
    /\ links \subseteq FixtureLinks \/ ToCome({Do("deleteSongGenres", NULL)})
    /\ rated = {} \/ ToCome({Do("deleteRatings", NULL)})
    /\ \A u \in SeedUsers : users[u] = "seeded" \/ ToCome({Do("upsertUser", u)})

ExactInv == FixtureInv /\ RestToCome

\* The deletion of a key's table is in the script.
LEMMA RemovesInScript ==
  /\ \A k \in Keys : \E p \in DOMAIN Script : Script[p] \in Removes(k)
  /\ \E p \in DOMAIN Script : Script[p] = Do("deleteSongGenres", NULL)
  /\ \E p \in DOMAIN Script : Script[p] = Do("deleteRatings", NULL)
  <1>1. \A p \in 1 .. 6 : p \in DOMAIN Script /\ Script[p] = ClearSeededCatalog[p]
    BY ScriptStatements
  <1>2. /\ ClearSeededCatalog[1] = Do("deleteRatings", NULL)
        /\ ClearSeededCatalog[2] = Do("deleteTabs", NULL)
        /\ ClearSeededCatalog[3] = Do("deleteSongGenres", NULL)
        /\ ClearSeededCatalog[4] = Do("deleteSongs", NULL)
        /\ ClearSeededCatalog[5] = Do("deleteArtists", NULL)
        /\ ClearSeededCatalog[6] = Do("deleteGenres", NULL)
    BY DEF ClearSeededCatalog
  <1>3. \A i \in {1, 2, 3, 4, 5, 6} : i \in DOMAIN Script /\ Script[i] = ClearSeededCatalog[i]
    BY <1>1
  <1>4. ASSUME NEW k \in Keys PROVE \E p \in DOMAIN Script : Script[p] \in Removes(k)
    <2>1. PICK i \in {2, 4, 5, 6} : ClearSeededCatalog[i] \in Removes(k)
      BY <1>2 DEF Removes
    <2> QED
      BY <1>3, <2>1
  <1> QED
    BY <1>2, <1>3, <1>4

LEMMA ExactInvStep ==
  ASSUME ExactInv, [Next]_vars
  PROVE  ExactInv'
  <1>1. TypeOK /\ CatalogOK /\ RunsOK /\ RestToCome /\ FixtureInv /\ HeldInv
    BY TypeParts DEF ExactInv, FixtureInv, HeldInv
  <1>2. FixtureInv'
    BY <1>1, FixtureInvStep
  <1>3. FixtureKeys \subseteq Keys
    BY FixtureKinds DEF FixtureKeys, Keys
  <1>4. ASSUME NEW r \in Runs, Start(r) PROVE RestToCome'
    <2>1. \A S : (\E p \in DOMAIN Script : Script[p] \in S) => ToCome(S)'
      BY <1>1, <1>4, StartKeepsToCome
    <2>2. \A k \in Keys : ToCome(Removes(k))'
      BY <2>1, RemovesInScript
    <2>3. \A e \in FixtureLinks : ToCome({Do("linkSong", e)})'
      BY <2>1, ScriptWrites
    <2>4. ToCome({Do("deleteSongGenres", NULL)})' /\ ToCome({Do("deleteRatings", NULL)})'
      BY <2>1, RemovesInScript
    <2>5. \A u \in SeedUsers : ToCome({Do("upsertUser", u)})'
      BY <2>1, ScriptWrites
    <2> QED
      BY <2>2, <2>3, <2>4, <2>5 DEF RestToCome
  <1>5. ASSUME NEW r \in Runs, Kill(r) PROVE RestToCome'
    BY <1>5 DEF Kill, RestToCome
  <1>6. ASSUME ServerWrite PROVE RestToCome'
    <2>1. spoiled' \cap {"edit", "insert"} # {}
      BY <1>1, <1>6, ServerEffect DEF ServerKeeps
    <2> QED
      BY <2>1 DEF RestToCome
  <1>7. ASSUME UNCHANGED vars PROVE RestToCome'
    BY <1>1, <1>7 DEF RestToCome, Wrong, Begun, ToCome, Running, Exists, vars, catalog, history
  <1>8. ASSUME NEW r \in Runs, Step(r) PROVE RestToCome'
    <2>1. Running(r) /\ (Fail(r) \/ Passes(r))
      BY <1>1, <1>8, StepEffect DEF Step, Throws
    <2>2. CASE Fail(r)
      <3>1. "fault" \in spoiled'
        BY <2>2 DEF Fail
      <3> QED
        BY <3>1 DEF RestToCome
    <2>3. CASE Passes(r)
      <3> DEFINE w == Statement(r)
      <3>1. Advances(r)
        BY <2>3 DEF Passes
      <3>2. Begun /\ spoiled' = spoiled
        BY <2>1, <3>1 DEF Begun, Advances, history
      <3> SUFFICES ASSUME spoiled \subseteq {"overlap"}
                   PROVE  /\ \A k \in Keys : Wrong(k)' => ToCome(Removes(k))'
                          /\ \A e \in FixtureLinks : e \in links' \/ ToCome({Do("linkSong", e)})'
                          /\ links' \subseteq FixtureLinks \/ ToCome({Do("deleteSongGenres", NULL)})'
                          /\ rated' = {} \/ ToCome({Do("deleteRatings", NULL)})'
                          /\ \A u \in SeedUsers : users'[u] = "seeded" \/ ToCome({Do("upsertUser", u)})'
        BY <3>2 DEF RestToCome
      <3>3. /\ \A k \in Keys : Wrong(k) => ToCome(Removes(k))
            /\ \A e \in FixtureLinks : e \in links \/ ToCome({Do("linkSong", e)})
            /\ links \subseteq FixtureLinks \/ ToCome({Do("deleteSongGenres", NULL)})
            /\ rated = {} \/ ToCome({Do("deleteRatings", NULL)})
            /\ \A u \in SeedUsers : users[u] = "seeded" \/ ToCome({Do("upsertUser", u)})
        BY <1>1, <3>2 DEF RestToCome
      <3>4. /\ \A S : ToCome(S) => ToCome(S)' \/ w \in S
            /\ \A S : \A p \in DOMAIN Script : runs[r].at < p /\ Script[p] \in S => ToCome(S)'
        BY <1>1, <2>1, <3>1, StepKeepsToCome
      <3>5. /\ w \in Statements /\ runs[r].at \in DOMAIN Script /\ w = Script[runs[r].at]
        BY <1>1, <2>1, StatementOf DEF Statement
      <3>6. Effect(r) /\ renamed = {}
        BY <1>1, <2>3 DEF Passes, HeldInv
      <3> HIDE DEF w
      <3>7. ASSUME NEW k \in Keys, Wrong(k)' PROVE ToCome(Removes(k))'
        <4>1. CASE w \in Removes(k)
          <5>1. rows'[k] = NULL
            BY <3>6, <4>1 DEF Effect, w
          <5> QED
            BY <3>7, <5>1 DEF Wrong, Exists
        <4>2. CASE w \in Writes(k)
          <5>1. rows'[k] = "seeded"
            BY <3>6, <4>2 DEF Effect, w
          <5>2. k \in FixtureKeys
            BY <3>5, <4>2, StatementsHaveKeys
          <5> QED
            BY <3>7, <5>1, <5>2 DEF Wrong
        <4>3. CASE w \notin Removes(k) \cup Writes(k)
          <5>1. rows'[k] = rows[k]
            BY <3>6, <3>7, <4>3 DEF Effect, w, Wrong, Exists
          <5>2. Wrong(k)
            BY <3>7, <5>1 DEF Wrong, Exists
          <5> QED
            BY <3>3, <3>4, <4>3, <5>2
        <4> QED
          BY <4>1, <4>2, <4>3
      <3>8. ASSUME NEW e \in FixtureLinks, e \notin links' PROVE ToCome({Do("linkSong", e)})'
        <4>1. w # Do("linkSong", e)
          BY <3>6, <3>8 DEF Effect, Do, w
        <4>2. CASE e \notin links
          BY <3>3, <3>4, <4>1, <4>2
        <4>3. CASE e \in links
          <5>1. w.do \in Deletes \/ w = Do("unlinkSong", e[1])
            BY <3>6, <3>8, <4>3 DEF Effect, w
          <5>2. PICK p \in DOMAIN Script : runs[r].at < p /\ Script[p] = Do("linkSong", e)
            <6>1. CASE w.do \in Deletes
              <7>1. PICK p \in DOMAIN Script : Script[p] = Do("linkSong", e)
                BY ScriptWrites
              <7>2. Script[p].do \notin Deletes
                BY <7>1 DEF Do, Deletes
              <7> QED
                BY <3>5, <6>1, <7>1, <7>2, ScriptStatements
            <6>2. CASE w = Do("unlinkSong", e[1])
              BY <3>5, <6>2, ScriptWrites
            <6> QED
              BY <5>1, <6>1, <6>2
          <5> QED
            BY <3>4, <5>2
        <4> QED
          BY <4>2, <4>3
      <3>9. links' \subseteq FixtureLinks \/ ToCome({Do("deleteSongGenres", NULL)})'
        <4>1. CASE w = Do("deleteSongGenres", NULL)
          BY <3>6, <4>1 DEF Effect, Do, w
        <4>2. CASE w # Do("deleteSongGenres", NULL)
          <5>1. \A e \in links' \ links : e \in FixtureLinks
            <6> SUFFICES ASSUME NEW e \in links' \ links PROVE e \in FixtureLinks
              OBVIOUS
            <6>1. w = Do("linkSong", e)
              BY <3>6 DEF Effect, w
            <6>2. w.do = "linkSong" /\ w.key = e
              BY <6>1 DEF Do
            <6> QED
              BY <3>5, <6>2, StatementKeys
          <5> QED
            BY <3>3, <3>4, <4>2, <5>1
        <4> QED
          BY <4>1, <4>2
      <3>10. rated' = {} \/ ToCome({Do("deleteRatings", NULL)})'
        <4>1. CASE w = Do("deleteRatings", NULL)
          BY <3>6, <4>1 DEF Effect, Do, w
        <4>2. CASE w # Do("deleteRatings", NULL)
          BY <3>3, <3>4, <3>6, <4>2 DEF Effect
        <4> QED
          BY <4>1, <4>2
      <3>11. ASSUME NEW u \in SeedUsers PROVE users'[u] = "seeded" \/ ToCome({Do("upsertUser", u)})'
        <4>1. CASE w = Do("upsertUser", u)
          BY <3>6, <4>1 DEF Effect, w
        <4>2. CASE w # Do("upsertUser", u)
          <5>1. users'[u] = users[u]
            BY <3>6, <4>2 DEF Effect, w
          <5> QED
            BY <3>3, <3>4, <4>2, <5>1
        <4> QED
          BY <4>1, <4>2
      <3> QED
        BY <3>7, <3>8, <3>9, <3>10, <3>11
    <2> QED
      BY <2>1, <2>2, <2>3
  <1> QED
    BY <1>2, <1>4, <1>5, <1>6, <1>7, <1>8 DEF ExactInv, Next

LEMMA ExactInvHolds == Spec => []ExactInv
<1>1. Init => ExactInv
  <2> SUFFICES ASSUME Init PROVE ~Begun
    BY HeldInvInit DEF ExactInv, FixtureInv, FixturesToCome, RestToCome
  <2> QED
    BY DEF Init, Begun, Running, Over
<1> QED
  BY <1>1, ExactInvStep, PTL DEF Spec

\* If moreover nobody else wrote since the first of the runs began, the catalog is the
\* fixtures as seeded and nothing else, also when runs overlapped.
THEOREM SuccessMeansOnlyFixtures == Spec => []ExactlyFixtures
<1>1. ExactInv => ExactlyFixtures
  <2> SUFFICES ASSUME ExactInv, Succeeded, spoiled \subseteq {"overlap"}
               PROVE  /\ \A k \in Keys : Exists(k) <=> k \in FixtureKeys
                      /\ \A k \in FixtureKeys : rows[k] = "seeded"
                      /\ links = FixtureLinks
                      /\ rated = {}
                      /\ \A u \in SeedUsers : users[u] = "seeded"
    BY DEF ExactlyFixtures
  <2>1. Begun /\ "fault" \notin spoiled
    BY DEF Succeeded, Begun
  <2>2. \A S : ~ToCome(S)
    BY DEF Succeeded, Quiet, ToCome
  <2>3. \A k \in FixtureKeys : Exists(k) /\ k \in Keys
    <3>1. renamed = {}
      BY DEF ExactInv, FixtureInv, HeldInv
    <3> QED
      BY <2>1, <2>2, <3>1, FixtureKinds DEF ExactInv, FixtureInv, FixturesToCome, FixtureKeys, Keys
  <2>4. \A k \in Keys : ~Wrong(k)
    BY <2>1, <2>2 DEF ExactInv, RestToCome
  <2>5. /\ \A e \in FixtureLinks : e \in links
        /\ links \subseteq FixtureLinks /\ rated = {}
        /\ \A u \in SeedUsers : users[u] = "seeded"
    BY <2>1, <2>2 DEF ExactInv, RestToCome
  <2> QED
    BY <2>3, <2>4, <2>5 DEF Wrong
<1> QED
  BY <1>1, ExactInvHolds, PTL

-----------------------------------------------------------------------------
(* A run by itself, while the server inserts and renames nothing of the   *)
(* fixtures.                                                               *)

\* Run r has executed a statement of S.
Done(r, S) == \E m \in DOMAIN Script : m < runs[r].at /\ Script[m] \in S

\* What the run has written is there; once it has deleted, only what it has written is;
\* and what it holds is what it has just read or written.
Own(r) ==
  /\ \A k \in Keys : Done(r, Writes(k)) => Exists(k)
  /\ runs[r].at > 2 => \A t \in Tabs : Exists(t) => Done(r, Writes(t))
  /\ runs[r].at > 4 => \A f \in Songs : Exists(f) => Done(r, Writes(f))
  /\ runs[r].at > 3 => \A e \in links : Done(r, {Do("linkSong", e)})
  /\ \A m \in DOMAIN Script :
       m + 1 = runs[r].at /\ Script[m].do \in {"findArtist", "findGenre", "findSong"} =>
         Script[m].key \in held[r]
  /\ \A m \in DOMAIN Script : Upserted(m, runs[r].at) => Script[m].key \in held[r]

Undisturbed == spoiled \cap {"overlap", "insert"} = {} /\ renamed = {}

OwnInv ==
  /\ HeldInv
  /\ \A r \in Runs : Running(r) => runs[r].exit = "none"
  /\ "overlap" \notin spoiled => \A r, q \in Runs : Running(r) /\ Running(q) => r = q
  /\ Undisturbed => \A r \in Runs : Running(r) => Own(r)

\* A run writes and links only fixtures.
LEMMA DoneFixtures ==
  ASSUME NEW r
  PROVE  /\ \A k : Done(r, Writes(k)) => k \in FixtureKeys
         /\ \A e : Done(r, {Do("linkSong", e)}) => e \in FixtureLinks
  <1>1. \A k : Done(r, Writes(k)) => k \in FixtureKeys
    BY ScriptStatements, StatementsHaveKeys DEF Done
  <1>2. ASSUME NEW e, Done(r, {Do("linkSong", e)}) PROVE e \in FixtureLinks
    <2>1. PICK m \in DOMAIN Script : Script[m] = Do("linkSong", e)
      BY <1>2 DEF Done
    <2>2. Script[m].do = "linkSong" /\ Script[m].key = e
      BY <2>1 DEF Do
    <2> QED
      BY <2>2, ScriptStatements, StatementKeys
  <1> QED
    BY <1>1, <1>2

LEMMA ServerKeepsOwn ==
  ASSUME ServerKeeps, Undisturbed', NEW r \in Runs, Own(r)
  PROVE  Own(r)'
  <1>1. /\ runs' = runs /\ renamed' = {} /\ "insert" \notin spoiled'
        /\ \A k \in FixtureKeys : Exists(k) => Exists(k)'
        /\ \A k \in FixtureKeys : k \in held[r] => k \in held'[r]
    BY DEF ServerKeeps, Undisturbed
  <1>2. \A S : Done(r, S)' <=> Done(r, S)
    BY <1>1 DEF Done
  <1>3. \A kind \in {Songs, Tabs} : (\A k \in kind : Exists(k) => Done(r, Writes(k))) =>
          \A k \in kind : Exists(k)' => Done(r, Writes(k))
    BY <1>1, DoneFixtures DEF ServerKeeps
  <1>4. (\A e \in links : Done(r, {Do("linkSong", e)})) => links' \subseteq links
    BY <1>1, DoneFixtures DEF ServerKeeps
  <1>5. \A m \in DOMAIN Script :
          Script[m].do \in {"upsertSong", "findArtist", "findGenre", "findSong"} =>
            Script[m].key \in FixtureKeys
    BY ScriptStatements, StatementsHaveKeys
  <1>6. \A k \in Keys : Done(r, Writes(k))' => Exists(k)'
    BY <1>1, <1>2, DoneFixtures DEF Own
  <1>7. /\ runs'[r].at > 2 => \A t \in Tabs : Exists(t)' => Done(r, Writes(t))'
        /\ runs'[r].at > 4 => \A f \in Songs : Exists(f)' => Done(r, Writes(f))'
        /\ runs'[r].at > 3 => \A e \in links' : Done(r, {Do("linkSong", e)})'
    <2>1. runs'[r].at > 2 => \A t \in Tabs : Exists(t)' => Done(r, Writes(t))
      BY <1>1, <1>3 DEF Own
    <2>2. runs'[r].at > 4 => \A f \in Songs : Exists(f)' => Done(r, Writes(f))
      BY <1>1, <1>3 DEF Own
    <2>3. runs'[r].at > 3 => \A e \in links' : Done(r, {Do("linkSong", e)})
      BY <1>1, <1>4 DEF Own
    <2> QED
      BY <1>2, <2>1, <2>2, <2>3
  <1>8. \A m \in DOMAIN Script :
          m + 1 = runs'[r].at /\ Script[m].do \in {"findArtist", "findGenre", "findSong"} =>
            Script[m].key \in held'[r]
    BY <1>1, <1>5 DEF Own
  <1>9. \A m \in DOMAIN Script : Upserted(m, runs'[r].at) => Script[m].key \in held'[r]
    BY <1>1, <1>5 DEF Own, Upserted
  <1> QED
    BY <1>6, <1>7, <1>8, <1>9 DEF Own, Upserted

LEMMA StepKeepsOwn ==
  ASSUME TypeOK, renamed = {}, NEW r \in Runs, Running(r), Own(r), Passes(r), Running(r)'
  PROVE  Own(r)'
  <1> DEFINE w == Statement(r)
             at == runs[r].at
  <1>1. RunsOK
    BY TypeParts
  <1>2. Advances(r)
    BY DEF Passes
  <1>3. /\ at \in DOMAIN Script /\ at \in Nat /\ w = Script[at] /\ w \in Statements
        /\ DOMAIN Script \subseteq Nat
    BY <1>1, StatementOf, ScriptStatements DEF Statement
  <1>4. at # Len(Script) /\ runs'[r].at = at + 1
    BY <1>2 DEF Advances, Over, Running
  <1>5. Effect(r)
    BY DEF Passes
  <1> HIDE DEF w, at
  <1>6. \A S : Done(r, S) => Done(r, S)'
    BY <1>3, <1>4 DEF Done, at
  <1>7. \A S : w \in S => Done(r, S)'
    BY <1>3, <1>4 DEF Done
  <1>8. \A S : Done(r, S)' => Done(r, S) \/ w \in S
    <2> SUFFICES ASSUME NEW S, NEW m \in DOMAIN Script, m < runs'[r].at, Script[m] \in S,
                        ~(w \in S)
                 PROVE  Done(r, S)
      BY DEF Done
    <2>1. m # at
      BY <1>3
    <2>2. m < at
      BY <1>3, <1>4, <2>1
    <2> QED
      BY <2>2 DEF Done, at
  <1>9. \A k \in Keys :
          /\ w \in Writes(k) => Exists(k)'
          /\ w \in Removes(k) => ~Exists(k)' /\ w.do \in Deletes
          /\ w \notin Writes(k) \cup Removes(k) =>
               rows'[k] = rows[k] \/ (k \notin FixtureKeys /\ ~Exists(k)')
    <2>1. \A k \in Keys :
            /\ w \in Writes(k) => rows'[k] = "seeded"
            /\ w \in Removes(k) => rows'[k] = NULL
            /\ w \notin Writes(k) \cup Removes(k) =>
                 rows'[k] = rows[k] \/ (k \notin FixtureKeys /\ rows'[k] = NULL)
      BY <1>5 DEF Effect, w
    <2>2. \A k : w \in Removes(k) => w.do \in Deletes
      BY DEF Removes, Do, Deletes
    <2> QED
      BY <2>1, <2>2, NullIsNoRow DEF Exists, Row
  <1>10. \A k \in Keys : Done(r, Writes(k))' => Exists(k)'
    <2> SUFFICES ASSUME NEW k \in Keys, Done(r, Writes(k))' PROVE Exists(k)'
      OBVIOUS
    <2>1. CASE w \in Writes(k)
      BY <1>9, <2>1
    <2>2. CASE w \notin Writes(k)
      <3>1. Done(r, Writes(k)) /\ Exists(k)
        BY <1>8, <2>2 DEF Own
      <3>2. PICK m \in DOMAIN Script : m < at /\ Script[m] \in Writes(k)
        BY <3>1 DEF Done, at
      <3>3. Script[m].do \notin Deletes
        BY <3>2 DEF Writes, Deletes
      <3>4. w.do \notin Deletes
        BY <1>3, <3>2, <3>3, ScriptStatements
      <3>5. rows'[k] = rows[k]
        BY <1>9, <2>2, <3>1, <3>4, DoneFixtures
      <3> QED
        BY <3>1, <3>5 DEF Exists
    <2> QED
      BY <2>1, <2>2
  <1>11. ASSUME NEW k \in Keys, Exists(k)' PROVE w \in Writes(k) \/ (Exists(k) /\ w \notin Removes(k))
    BY <1>9, <1>11 DEF Exists
  <1>12. /\ Script[2] = Do("deleteTabs", NULL) /\ Script[3] = Do("deleteSongGenres", NULL)
         /\ Script[4] = Do("deleteSongs", NULL)
    <2>1. Script[2] = ClearSeededCatalog[2] /\ Script[3] = ClearSeededCatalog[3]
          /\ Script[4] = ClearSeededCatalog[4]
      BY ScriptStatements
    <2> QED
      BY <2>1 DEF ClearSeededCatalog
  <1>13. ASSUME runs'[r].at > 2, NEW t \in Tabs, Exists(t)' PROVE Done(r, Writes(t))'
    <2>1. t \in Keys
      BY KeyKinds
    <2>2. CASE w \in Writes(t)
      BY <1>7, <2>2
    <2>3. CASE Exists(t) /\ w \notin Removes(t)
      <3>1. CASE at = 2
        <4>1. w.do = "deleteTabs"
          BY <1>3, <1>12, <3>1 DEF Do
        <4> QED
          BY <1>3, <2>1, <2>3, <4>1, Touches
      <3>2. CASE at # 2
        <4>1. at > 2
          BY <1>3, <1>4, <1>13, <3>2
        <4> QED
          BY <1>6, <2>3, <4>1 DEF Own, at
      <3> QED
        BY <3>1, <3>2
    <2> QED
      BY <1>11, <1>13, <2>1, <2>2, <2>3
  <1>14. ASSUME runs'[r].at > 4, NEW f \in Songs, Exists(f)' PROVE Done(r, Writes(f))'
    <2>1. f \in Keys
      BY KeyKinds
    <2>2. CASE w \in Writes(f)
      BY <1>7, <2>2
    <2>3. CASE Exists(f) /\ w \notin Removes(f)
      <3>1. CASE at = 4
        <4>1. w.do = "deleteSongs"
          BY <1>3, <1>12, <3>1 DEF Do
        <4> QED
          BY <1>3, <2>1, <2>3, <4>1, Touches
      <3>2. CASE at # 4
        <4>1. at > 4
          BY <1>3, <1>4, <1>14, <3>2
        <4> QED
          BY <1>6, <2>3, <4>1 DEF Own, at
      <3> QED
        BY <3>1, <3>2
    <2> QED
      BY <1>11, <1>14, <2>1, <2>2, <2>3
  <1>15. ASSUME runs'[r].at > 3, NEW e \in links' PROVE Done(r, {Do("linkSong", e)})'
    <2>1. CASE e \notin links
      <3>1. w = Do("linkSong", e)
        BY <1>5, <1>15, <2>1 DEF Effect, w
      <3> QED
        BY <1>7, <3>1
    <2>2. CASE e \in links
      <3>1. at # 3
        <4> SUFFICES ASSUME at = 3 PROVE FALSE
          OBVIOUS
        <4>1. w.do = "deleteSongGenres"
          BY <1>3, <1>12 DEF Do
        <4> QED
          BY <1>5, <1>15, <4>1 DEF Effect, w
      <3>2. at > 3
        BY <1>3, <1>4, <1>15, <3>1
      <3> QED
        BY <1>6, <2>2, <3>2 DEF Own, at
    <2> QED
      BY <2>1, <2>2
  <1>16. /\ w.do \in {"findArtist", "findGenre", "findSong", "upsertSong"} => w.key \in held'[r]
         /\ w.do \in InBlock => held'[r] \cap Songs = held[r] \cap Songs
    BY <1>5 DEF Effect, w
  <1>17. ASSUME NEW m \in DOMAIN Script, m + 1 = runs'[r].at,
                Script[m].do \in {"findArtist", "findGenre", "findSong"}
         PROVE  Script[m].key \in held'[r]
    <2>1. Script[m] = w
      BY <1>3, <1>4, <1>17
    <2> QED
      BY <1>16, <1>17, <2>1
  <1>18. ASSUME NEW m \in DOMAIN Script, Upserted(m, runs'[r].at)
         PROVE  Script[m].key \in held'[r]
    <2>1. CASE m = at
      <3>1. Script[m] = w /\ w.do = "upsertSong"
        BY <1>3, <1>18, <2>1 DEF Upserted
      <3> QED
        BY <1>16, <3>1
    <2>2. CASE m # at
      <3>1. m < at /\ at < runs'[r].at /\ \A x \in DOMAIN Script : x < at => x < runs'[r].at
        BY <1>3, <1>4, <1>18, <2>2 DEF Upserted
      <3>2. Upserted(m, at) /\ w.do \in InBlock /\ Script[m].do = "upsertSong"
        BY <1>3, <1>18, <3>1 DEF Upserted
      <3>3. Script[m].key \in held[r]
        BY <3>2 DEF Own, at
      <3>4. Script[m].key \in Songs
        BY <3>2, ScriptStatements, StatementKeys, FixtureKinds
      <3> QED
        BY <1>16, <3>2, <3>3, <3>4
    <2> QED
      BY <2>1, <2>2
  <1> QED
    BY <1>10, <1>13, <1>14, <1>15, <1>17, <1>18 DEF Own, Upserted

LEMMA OwnInvStep ==
  ASSUME OwnInv, [Next]_vars
  PROVE  OwnInv'
  <1>1. HeldInv /\ TypeOK /\ RunsOK /\ HeldInv'
    BY TypeParts, HeldInvStep DEF OwnInv, HeldInv
  <1>2. ASSUME NEW q \in Runs, Start(q) PROVE OwnInv'
    <2>2. /\ ~Running(q) /\ \A r \in Runs \ {q} : runs'[r] = runs[r]
          /\ runs'[q].at = 1 /\ runs'[q].exit = "none"
      BY <1>1, <1>2 DEF Start, RunsOK, Over
    <2>3. \A r \in Runs : Running(r)' => runs'[r].exit = "none"
      BY <2>2 DEF OwnInv, Running
    <2>4. CASE ~Quiet
      <3>1. "overlap" \in spoiled'
        BY <1>2, <2>4 DEF Start
      <3> QED
        BY <1>1, <2>3, <3>1 DEF OwnInv, Undisturbed
    <2>5. CASE Quiet
      <3>1. \A r \in Runs : Running(r)' => r = q
        BY <2>2, <2>5 DEF Quiet, Running
      <3>2. Own(q)'
        <4>1. \A m \in DOMAIN Script : m \in Nat \ {0}
          BY ScriptStatements
        <4>2. \A m \in DOMAIN Script : ~(m < runs'[q].at) /\ m + 1 # runs'[q].at
          BY <2>2, <4>1
        <4> QED
          BY <2>2, <4>2 DEF Own, Done, Upserted
      <3> QED
        BY <1>1, <2>3, <3>1, <3>2 DEF OwnInv
    <2> QED
      BY <2>4, <2>5
  \* A run that ends leaves none at work, if it was alone.
  <1>3. ASSUME NEW q \in Runs, Running(q), ~Running(q)', spoiled \subseteq spoiled',
               \A r \in Runs \ {q} : runs'[r] = runs[r]
        PROVE  OwnInv'
    <2>1. \A r \in Runs : Running(r)' => r # q /\ Running(r) /\ runs'[r] = runs[r]
      BY <1>3 DEF Running
    <2>2. \A r \in Runs : Running(r)' => runs'[r].exit = "none"
      BY <2>1 DEF OwnInv
    <2>3. "overlap" \notin spoiled' => \A r \in Runs : ~Running(r)'
      BY <1>3, <2>1 DEF OwnInv
    <2> QED
      BY <1>1, <2>2, <2>3 DEF OwnInv, Undisturbed
  <1>4. ASSUME NEW q \in Runs, Kill(q) PROVE OwnInv'
    <2>1. /\ Running(q) /\ spoiled \subseteq spoiled' /\ \A r \in Runs \ {q} : runs'[r] = runs[r]
          /\ runs'[q].at = 0
      BY <1>1, <1>4 DEF Kill, RunsOK, Over
    <2> QED
      BY <1>3, <2>1 DEF Running
  <1>5. ASSUME NEW q \in Runs, Step(q) PROVE OwnInv'
    <2>1. (Fail(q) \/ Passes(q)) /\ Running(q)
      BY <1>1, <1>5, StepEffect DEF Throws, Step
    <2>2. CASE Fail(q)
      <3>1. /\ spoiled \subseteq spoiled' /\ \A r \in Runs \ {q} : runs'[r] = runs[r]
            /\ runs'[q].at = 0
        BY <1>1, <2>2 DEF Fail, RunsOK, Over
      <3> QED
        BY <1>3, <2>1, <3>1 DEF Running
    <2>3. CASE Passes(q)
      <3>1. Advances(q)
        BY <2>3 DEF Passes
      <3>2. UNCHANGED history /\ \A r \in Runs \ {q} : runs'[r] = runs[r]
        BY <3>1 DEF Advances
      <3>3. CASE ~Running(q)'
        BY <1>3, <2>1, <3>2, <3>3 DEF history
      <3>4. CASE Running(q)'
        <4>1. runs'[q].exit = "none"
          BY <2>1, <3>1, <3>4 DEF Advances, Over, Running, OwnInv
        <4>2. \A r \in Runs : Running(r)' => runs'[r].exit = "none"
          BY <3>2, <4>1 DEF OwnInv, Running
        <4>3. \A r \in Runs : Running(r)' => Running(r)
          BY <2>1, <3>2 DEF Running
        <4>4. "overlap" \notin spoiled' => \A r \in Runs : Running(r)' => r = q
          BY <2>1, <3>2, <4>3 DEF OwnInv, history
        <4>5. Undisturbed' => Own(q)'
          BY <1>1, <2>1, <2>3, <3>2, <3>4, StepKeepsOwn DEF OwnInv, Undisturbed, history
        <4> QED
          BY <1>1, <4>2, <4>4, <4>5 DEF OwnInv, Undisturbed
      <3> QED
        BY <3>3, <3>4
    <2> QED
      BY <2>1, <2>2, <2>3
  <1>6. ASSUME ServerWrite PROVE OwnInv'
    <2>1. ServerKeeps
      BY <1>1, <1>6, ServerEffect
    <2>2. runs' = runs /\ spoiled \subseteq spoiled' /\ renamed \subseteq renamed'
      BY <2>1 DEF ServerKeeps
    <2>3. Undisturbed' => \A r \in Runs : Running(r)' => Own(r)'
      <3> SUFFICES ASSUME Undisturbed', NEW r \in Runs, Running(r)' PROVE Own(r)'
        OBVIOUS
      <3>1. Undisturbed /\ Running(r)
        BY <2>2 DEF Undisturbed, Running
      <3> QED
        BY <2>1, <3>1, ServerKeepsOwn DEF OwnInv
    <2> QED
      BY <1>1, <2>2, <2>3 DEF OwnInv, Running
  <1>7. ASSUME UNCHANGED vars PROVE OwnInv'
    <2>1. \A r \in Runs : Own(r) => Own(r)'
      BY <1>7 DEF Own, Done, Upserted, Exists, vars, catalog
    <2> QED
      BY <1>1, <1>7, <2>1 DEF OwnInv, Undisturbed, Running, vars, history
  <1> QED
    BY <1>2, <1>4, <1>5, <1>6, <1>7 DEF Next

LEMMA OwnInvHolds == Spec => []OwnInv
<1>1. Init => OwnInv
  <2> SUFFICES ASSUME Init PROVE OwnInv
    OBVIOUS
  <2>1. \A r \in Runs : ~Running(r)
    BY DEF Init, Running, Over
  <2> QED
    BY <2>1, HeldInvInit DEF OwnInv
<1> QED
  BY <1>1, OwnInvStep, PTL DEF Spec

\* Nothing stands in the way of a run by itself, but for an address that is taken.
LEMMA OwnRunIsUnobstructed ==
  ASSUME TypeOK, NEW r \in Runs, Running(r), Own(r), Obstructed(r)
  PROVE  Statement(r).do = "upsertUser"
  <1> DEFINE w == Statement(r)
             k == Statement(r).key
             at == runs[r].at
  <1>1. /\ at \in DOMAIN Script /\ at \in Nat /\ w = Script[at] /\ w \in Statements
        /\ DOMAIN Script \subseteq Nat
    BY TypeParts, StatementOf, ScriptStatements DEF Statement
  <1> HIDE DEF w, k, at
  <1>2. k = w.key
    BY DEF k, w
  <1>3. \A p \in 1 .. 6 : p \in DOMAIN Script /\ Script[p] = ClearSeededCatalog[p]
    BY ScriptStatements
  <1>4. ASSUME w.do \in Deletes, NEW x PROVE ~Done(r, Writes(x))
    <2> SUFFICES ASSUME NEW m \in DOMAIN Script, m < at, Script[m] \in Writes(x) PROVE FALSE
      BY DEF Done, at
    <2>1. Script[m].do \notin Deletes
      BY DEF Writes, Deletes
    <2>2. m <= 6
      BY <1>1, <1>4, ScriptStatements
    <2> QED
      BY <2>1, <2>2, ScriptStatements
  <1>5. ASSUME w.do \in {"deleteSongs", "deleteArtists"}
        PROVE  (w.do = "deleteSongs" /\ at = 4) \/ (w.do = "deleteArtists" /\ at = 5)
    <2>1. w.do \in Deletes
      BY <1>5 DEF Deletes
    <2>2. at \in 1 .. 6
      BY <1>1, <2>1, ScriptStatements
    <2>3. w = ClearSeededCatalog[at]
      BY <1>1, <1>3, <2>2
    <2>4. at = 1 \/ at = 2 \/ at = 3 \/ at = 4 \/ at = 5 \/ at = 6
      BY <2>2
    <2> QED
      BY <1>5, <2>3, <2>4 DEF ClearSeededCatalog, Do
  <1>6. ASSUME w.do = "deleteSongs" PROVE \A t \in Tabs : ~Exists(t)
    <2>1. at > 2 /\ w.do \in Deletes
      BY <1>5, <1>6 DEF Deletes
    <2> QED
      BY <1>4, <2>1 DEF Own, at
  <1>7. ASSUME w.do = "deleteArtists" PROVE \A f \in Songs : ~Exists(f)
    <2>1. at > 4 /\ w.do \in Deletes
      BY <1>5, <1>7 DEF Deletes
    <2> QED
      BY <1>4, <2>1 DEF Own, at
  <1>8. ASSUME w.do \in {"findArtist", "findGenre", "findSong"} PROVE Exists(k)
    <2>1. PICK m \in DOMAIN Script : m < at /\ Script[m] \in Writes(k)
      BY <1>1, <1>2, <1>8, ReadsFollowWrites
    <2>2. k \in Keys
      BY <1>1, <1>2, <1>8, StatementKeys, FixtureKinds, KeyKinds
    <2> QED
      BY <2>1, <2>2 DEF Own, Done, at
  <1>9. ASSUME NEW m \in DOMAIN Script, m = at - 1,
               Script[m].do \in {"findArtist", "findGenre", "findSong"}
        PROVE  Script[m].key \in held[r]
    <2>1. m + 1 = at
      BY <1>1, <1>9
    <2> QED
      BY <1>9, <2>1 DEF Own, at
  <1>10. \A what, key : Do(what, key).do = what /\ Do(what, key).key = key
    BY DEF Do
  <1>11. ASSUME w.do \in {"upsertSong", "findSong"} PROVE k[1] \in held[r]
    <2>1. at - 1 \in DOMAIN Script /\ Script[at - 1] = Do("findArtist", k[1])
      BY <1>1, <1>2, <1>11, ParentsAreReadJustBefore
    <2> QED
      BY <1>9, <1>10, <2>1
  <1>12. ASSUME w.do = "upsertTab" PROVE k[2] \in held[r]
    <2>1. at - 1 \in DOMAIN Script /\ Script[at - 1] = Do("findSong", k[2])
      BY <1>1, <1>2, <1>12, ParentsAreReadJustBefore
    <2> QED
      BY <1>9, <1>10, <2>1
  <1>13. ASSUME w.do = "linkSong"
         PROVE  k[1] \in held[r] /\ k[2] \in held[r] /\ k \notin links
    <2>1. at - 1 \in DOMAIN Script /\ Script[at - 1] = Do("findGenre", k[2])
      BY <1>1, <1>2, <1>13, LinksFollowTheirSong
    <2>2. k[2] \in held[r]
      BY <1>9, <1>10, <2>1
    <2>3. PICK m \in DOMAIN Script :
            /\ m < at /\ Script[m] = Do("upsertSong", k[1])
            /\ \A x \in DOMAIN Script : m < x /\ x < at =>
                 Script[x].do \in {"unlinkSong", "findGenre", "linkSong"}
      BY <1>1, <1>2, <1>13, LinksFollowTheirSong
    <2>4. Upserted(m, at) /\ Script[m].key = k[1]
      BY <1>10, <2>3 DEF Upserted, InBlock
    <2>5. k[1] \in held[r]
      BY <2>4 DEF Own, at
    <2>6. ASSUME k \in links PROVE FALSE
      <3>1. w.do \notin Deletes
        BY <1>13 DEF Deletes
      <3>2. at > 3
        BY <1>1, <3>1, ScriptStatements
      <3>3. Done(r, {Do("linkSong", k)})
        BY <2>6, <3>2 DEF Own, at
      <3>4. PICK q \in DOMAIN Script : q < at /\ Script[q] = Do("linkSong", k)
        BY <3>3 DEF Done, at
      <3>5. w = Do("linkSong", k)
        BY <1>1, <1>2, <1>13, StatementKeys
      <3>6. q = at
        BY <1>1, <1>13, <3>4, <3>5, LinksFollowTheirSong
      <3> QED
        BY <1>1, <3>4, <3>6
    <2> QED
      BY <2>2, <2>5, <2>6
  <1> QED
    BY <1>6, <1>7, <1>8, <1>11, <1>12, <1>13 DEF Obstructed, w, k

\* A run by itself never fails because of what earlier runs, killed anywhere, have left, nor
\* because of rows the server edits without a new slug, deletes softly or rates meanwhile, nor
\* of slugs that others take or give up: only another run, an insertion of the server, a
\* rename of a fixture or of what it belongs to, or an address that is taken stops it.
THEOREM RunsFailOnlyByInterference == Spec => FailsOnlyByInterference
<1>1. OwnInv /\ [Next]_vars =>
        [\A r \in Runs : Running(r) /\ runs'[r].exit = "failed" =>
           \/ spoiled \cap {"overlap", "insert"} # {}
           \/ renamed # {}
           \/ Statement(r).do = "upsertUser"]_vars
  <2> SUFFICES ASSUME OwnInv, Next, NEW r \in Runs, Running(r), runs'[r].exit = "failed",
                      Undisturbed
               PROVE  Statement(r).do = "upsertUser"
    BY DEF Undisturbed
  <2>1. HeldInv /\ TypeOK /\ RunsOK /\ Own(r) /\ runs[r].exit = "none"
    BY TypeParts DEF OwnInv, HeldInv
  <2>2. ASSUME NEW q \in Runs, Start(q) \/ Kill(q) PROVE FALSE
    <3>1. q # r => runs'[r] = runs[r]
      BY <2>1, <2>2 DEF Start, Kill, RunsOK
    <3>2. runs'[q].exit \in {"none", "killed"}
      BY <2>1, <2>2 DEF Start, Kill, RunsOK, Over
    <3> QED
      BY <2>1, <3>1, <3>2
  <2>3. ASSUME ServerWrite PROVE FALSE
    BY <2>1, <2>3, ServerEffect DEF ServerKeeps
  <2>4. ASSUME NEW q \in Runs, Step(q) PROVE Statement(r).do = "upsertUser"
    <3>1. Throws(q) \/ Passes(q)
      BY <2>1, <2>4, StepEffect
    <3>2. CASE Throws(q)
      <4>1. q # r => runs'[r] = runs[r]
        BY <2>1, <3>2 DEF Throws, Fail, RunsOK
      <4>2. q = r
        BY <2>1, <4>1
      <4> QED
        BY <2>1, <3>2, <4>2, OwnRunIsUnobstructed DEF Throws
    <3>3. CASE Passes(q)
      <4>1. Advances(q)
        BY <3>3 DEF Passes
      <4>2. q # r => runs'[r] = runs[r]
        BY <4>1 DEF Advances
      <4>3. q = r => runs'[r].exit \in {"ok", "none"}
        BY <2>1, <4>1 DEF Advances, Over
      <4> QED
        BY <2>1, <4>2, <4>3
    <3> QED
      BY <3>1, <3>2, <3>3
  <2> QED
    BY <2>2, <2>3, <2>4 DEF Next
<1> QED
  BY <1>1, OwnInvHolds, PTL DEF Spec, FailsOnlyByInterference
=============================================================================
