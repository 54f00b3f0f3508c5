---------------------------- MODULE CatalogProofs ----------------------------
(* Proofs about the catalog, for any identifiers, slugs and number of          *)
(* requests.  The invariant says what each request carries for the statement   *)
(* it awaits, and that rows about to be created are nobody else's.             *)
EXTENDS Catalog, TLAPS

\* q creates a row when its statement is executed.
Creating(q) == q.op = "create" \/ (q.op = "import" /\ q.pc \in {"insert", "createSong"})

\* What a request carries, by its operation and its next statement.
WellFormed(q) ==
  /\ q.pc = "idle" <=> q.op = "none"
  /\ q.op \in {"create", "update", "delete"} => q.id \in Ids
  /\ q.op = "create" =>
       /\ q.pc \in {"slug", "genres", "insert"} /\ q.slug \in Slugs
       /\ q.id \in Songs => q.artist \in Artists /\ Exists(q.artist)
  /\ q.op = "update" =>
       /\ q.pc \in {"slug", "genres", "replaceDelete", "replaceInsert", "write"}
       /\ Exists(q.id)
  /\ q.op = "delete" => q.pc \in {"count", "softDelete"} /\ Exists(q.id)
  /\ q.op = "import" =>
       \/ q.pc = "insert" /\ q.id \in Artists /\ q.slug \in Slugs
       \/ q.pc \in ImportPcs
  /\ q.pc \in ImportPcs => q.op = "import" /\ q.artist \in Artists /\ Exists(q.artist)
  /\ q.pc = "slug" => q.slug \in Slugs
  /\ q.pc \in {"genres", "replaceDelete", "replaceInsert"} =>
       q.id \in Songs /\ q.genres \in GenreLists
  /\ q.genres # UNDEF => q.id \in Songs \/ q.pc = "findSong"
  /\ q.pc \in {"findSong", "createSong"} => q.slug \in Slugs
  /\ q.pc \in {"createSong", "restoreSong", "reuseSong"} => q.id \in Songs
  /\ q.pc \in {"restoreSong", "reuseSong"} => Exists(q.id) /\ rows[q.id].artist = q.artist

\* The row of a creation is neither there nor any other request's.
Fresh(r) ==
  Creating(reqs[r]) =>
    ~Exists(reqs[r].id) /\ \A p \in Requests \ {r} : reqs[p].id # reqs[r].id

LinksOfRows == \A e \in songGenres : Exists(e[1])

IInv ==
  /\ TypeOK
  /\ \A r \in Requests : WellFormed(reqs[r]) /\ Fresh(r)
  /\ LinksOfRows

-----------------------------------------------------------------------------
(* What any step of request r does.                                        *)

\* Another request is left as it is, but for what a replacement it waits with has seen.
SameCall(p) ==
  /\ reqs'[p].pc = reqs[p].pc /\ reqs'[p].op = reqs[p].op /\ reqs'[p].id = reqs[p].id
  /\ reqs'[p].artist = reqs[p].artist /\ reqs'[p].slug = reqs[p].slug
  /\ reqs'[p].genres = reqs[p].genres /\ reqs'[p].resp = reqs[p].resp

OthersWait(r) ==
  reqs' \in [Requests -> Request] /\ \A p \in Requests \ {r} : SameCall(p)

\* Rows stay, and songs with their artists.
RowsStay ==
  /\ rows' \in [Ids -> Row \cup {NULL}]
  /\ \A i \in Ids : Exists(i) => rows'[i] # NULL /\ rows'[i].artist = rows[i].artist

\* The only row that may appear is the one r creates.
NewRowOf(r) ==
  \A i \in Ids : ~Exists(i) /\ rows'[i] # NULL =>
    /\ i = reqs[r].id /\ Creating(reqs[r])
    /\ i \in Songs => rows'[i].artist \in Artists /\ Exists(rows'[i].artist)

\* The row r is about now is not one that another creates.
IdIsNoOthers(r) == \A p \in Requests \ {r} : Creating(reqs[p]) => reqs'[r].id # reqs[p].id

LinksStay ==
  songGenres' \subseteq Songs \X Genres /\ \A e \in songGenres' : rows'[e[1]] # NULL

LEMMA Kept ==
  ASSUME IInv, NEW r \in Requests, OthersWait(r), RowsStay, NewRowOf(r), IdIsNoOthers(r),
         LinksStay, published' \subseteq Songs, overtaken' \subseteq Requests \X Claims,
         WellFormed(reqs[r])', Fresh(r)'
  PROVE  IInv'
  <1>1. TypeOK'
    BY DEF IInv, TypeOK, OthersWait, RowsStay, NewRowOf, LinksStay, Exists, Ids
  <1>2. ASSUME NEW p \in Requests, p # r PROVE WellFormed(reqs[p])'
    <2>1. WellFormed(reqs[p]) /\ SameCall(p)
      BY <1>2 DEF IInv, OthersWait
    <2> QED
      BY <2>1 DEF RowsStay, SameCall, WellFormed, Exists, Ids
  <1>3. ASSUME NEW p \in Requests, p # r PROVE Fresh(p)'
    <2> SUFFICES ASSUME Creating(reqs[p])'
                 PROVE  ~Exists(reqs[p].id)' /\ \A x \in Requests \ {p} : reqs'[x].id # reqs'[p].id
      BY DEF Fresh
    <2>1. SameCall(p) /\ Creating(reqs[p]) /\ Fresh(p) /\ WellFormed(reqs[p])
      BY <1>3 DEF IInv, OthersWait, SameCall, Creating
    <2>2. reqs[p].id \in Ids
      BY <2>1 DEF Creating, WellFormed, ImportPcs, Ids
    <2>3. ~Exists(reqs[p].id) /\ reqs[r].id # reqs[p].id
      BY <1>3, <2>1 DEF Fresh
    <2>4. ~Exists(reqs[p].id)'
      BY <2>1, <2>2, <2>3 DEF NewRowOf, SameCall, Exists
    <2>5. ASSUME NEW x \in Requests, x # p PROVE reqs'[x].id # reqs'[p].id
      <3>1. CASE x = r
        BY <1>3, <2>1, <3>1 DEF IdIsNoOthers, SameCall
      <3>2. CASE x # r
        BY <2>1, <2>5, <3>2 DEF Fresh, OthersWait, SameCall
      <3> QED
        BY <3>1, <3>2
    <2> QED
      BY <2>4, <2>5
  <1> QED
    BY <1>1, <1>2, <1>3 DEF IInv, LinksStay, LinksOfRows, Exists

-----------------------------------------------------------------------------
(* Steps that only change the request: checks, and the ends of handlers.   *)

LEMMA IdleRequest ==
  ASSUME NEW code \in {"none", "ok", "404", "409", "422", "500"}
  PROVE  Idle(code) \in Request /\ WellFormed(Idle(code)) /\ ~Creating(Idle(code))
         /\ WellFormed(Idle(code))'
  <1>1. Idle(code) \in Request
    BY DEF Idle, Request, GenreLists
  <1>2. WellFormed(Idle(code)) /\ WellFormed(Idle(code))'
    BY DEF Idle, WellFormed, ImportPcs
  <1>3. ~Creating(Idle(code))
    BY DEF Idle, Creating
  <1> QED
    BY <1>1, <1>2, <1>3

\* The rest of a step that changes no row.
LEMMA Waits ==
  ASSUME IInv, NEW r \in Requests, UNCHANGED db, NEW call \in Request, Await(r, call),
         WellFormed(call), overtaken' \subseteq Requests \X Claims,
         Creating(call) =>
           ~Exists(call.id) /\ \A p \in Requests \ {r} : reqs[p].id # call.id,
         \A p \in Requests \ {r} : Creating(reqs[p]) => call.id # reqs[p].id
  PROVE  IInv' /\ reqs'[r] = call
  <1>1. reqs \in [Requests -> Request]
    BY DEF IInv, TypeOK
  <1>2. reqs'[r] = call /\ \A p \in Requests \ {r} : reqs'[p] = reqs[p]
    BY <1>1 DEF Await
  <1>3. OthersWait(r)
    BY <1>1, <1>2 DEF OthersWait, SameCall, Await
  <1>4. RowsStay /\ NewRowOf(r)
    BY DEF db, RowsStay, NewRowOf, Exists, IInv, TypeOK
  <1>5. LinksStay /\ published' \subseteq Songs
    BY DEF db, LinksStay, LinksOfRows, Exists, IInv, TypeOK
  <1>6. WellFormed(reqs[r])'
    BY <1>2 DEF db, WellFormed, Exists
  <1>7. Fresh(r)'
    BY <1>2 DEF db, Fresh, Exists, Creating
  <1>8. IdIsNoOthers(r)
    BY <1>2 DEF IdIsNoOthers
  <1> QED
    BY <1>2, <1>3, <1>4, <1>5, <1>6, <1>7, <1>8, Kept

\* A request that creates nothing and is about a row there is, or about none.
LEMMA NotOthers ==
  ASSUME IInv, NEW r \in Requests, NEW i, i = NULL \/ i = reqs[r].id \/ (i \in Ids /\ Exists(i))
  PROVE  \A p \in Requests \ {r} : Creating(reqs[p]) => i # reqs[p].id
  <1> SUFFICES ASSUME NEW p \in Requests, p # r, Creating(reqs[p]) PROVE i # reqs[p].id
    OBVIOUS
  <1>1. reqs[p].id \in Ids
    BY DEF IInv, WellFormed, Creating, ImportPcs, Ids
  <1>2. ~Exists(reqs[p].id) /\ reqs[r].id # reqs[p].id
    BY DEF IInv, Fresh
  <1> QED
    BY <1>1, <1>2, NullIsNothing

LEMMA Answers ==
  ASSUME IInv, NEW r \in Requests, UNCHANGED db, overtaken' \subseteq Requests \X Claims,
         NEW code \in {"none", "ok", "404", "409", "422", "500"}, Answer(r, code)
  PROVE  IInv' /\ reqs'[r] = Idle(code)
  <1>1. Await(r, Idle(code))
    BY DEF Answer, Await
  <1>2. Idle(code).id = NULL
    BY DEF Idle
  <1> QED
    BY <1>1, <1>2, IdleRequest, Waits, NotOthers

\* The same operation on the same row goes on.
LEMMA GoesOn ==
  ASSUME IInv, NEW r \in Requests, UNCHANGED db, NEW call \in Request, Await(r, call),
         WellFormed(call), overtaken' \subseteq Requests \X Claims,
         call.op = reqs[r].op, call.id = reqs[r].id, Creating(call) => Creating(reqs[r])
  PROVE  IInv' /\ reqs'[r] = call
  <1>1. Creating(call) =>
          ~Exists(call.id) /\ \A p \in Requests \ {r} : reqs[p].id # call.id
    BY DEF IInv, Fresh
  <1>2. \A p \in Requests \ {r} : Creating(reqs[p]) => call.id # reqs[p].id
    BY NotOthers
  <1> QED
    BY <1>1, <1>2, Waits

-----------------------------------------------------------------------------
(* What the requests found out, claim by claim.                            *)

ArtistHolds(q) ==
  (q.op = "create" /\ q.id \in Songs) \/ q.pc \in ImportPcs \ {"restoreArtist"} => Live(q.artist)

GenresHold(q) ==
  q.pc \in {"insert", "replaceDelete", "replaceInsert", "findSong", "createSong"}
    => GenresLive(q.genres)

SlugHolds(q) ==
  q.slug # UNDEF /\ q.pc \in {"genres", "insert", "replaceDelete", "replaceInsert", "write",
                              "createSong"}
    => SlugFree(q.id, q.artist, q.slug)

UnusedHolds(q) == q.pc = "softDelete" => ~InUse(q.id)

SongHolds(q) == q.pc = "reuseSong" => Live(q.id)

SeenHolds(q) == q.pc = "replaceInsert" => GenresOf(q.id) \subseteq q.seen

LEMMA StandsIs ==
  ASSUME NEW r \in Requests
  PROVE  /\ Stands(r, "artist") <=> ArtistHolds(reqs[r])
         /\ Stands(r, "genres") <=> GenresHold(reqs[r])
         /\ Stands(r, "slug") <=> SlugHolds(reqs[r])
         /\ Stands(r, "unused") <=> UnusedHolds(reqs[r])
         /\ Stands(r, "song") <=> SongHolds(reqs[r])
         /\ Stands(r, "seen") <=> SeenHolds(reqs[r])
  BY DEF Stands, ArtistHolds, GenresHold, SlugHolds, UnusedHolds, SongHolds, SeenHolds

\* What q found out is still so in call.
Carries(q, call) ==
  /\ ArtistHolds(q) => ArtistHolds(call)
  /\ GenresHold(q) => GenresHold(call)
  /\ SlugHolds(q) => SlugHolds(call)
  /\ UnusedHolds(q) => UnusedHolds(call)
  /\ SongHolds(q) => SongHolds(call)
  /\ SeenHolds(q) => SeenHolds(call)

\* The step of a request falsifies none of its own claims.
OwnStep(r) ==
  /\ ArtistHolds(reqs[r]) => ArtistHolds(reqs[r])'
  /\ GenresHold(reqs[r]) => GenresHold(reqs[r])'
  /\ SlugHolds(reqs[r]) => SlugHolds(reqs[r])'
  /\ UnusedHolds(reqs[r]) => UnusedHolds(reqs[r])'
  /\ SongHolds(reqs[r]) => SongHolds(reqs[r])'
  /\ SeenHolds(reqs[r]) => SeenHolds(reqs[r])'

LEMMA OwnStands ==
  ASSUME NEW r \in Requests, OwnStep(r), NEW c \in Claims, Stands(r, c)
  PROVE  Stands(r, c)'
  <1>1. /\ Stands(r, "artist")' <=> ArtistHolds(reqs[r])'
        /\ Stands(r, "genres")' <=> GenresHold(reqs[r])'
        /\ Stands(r, "slug")' <=> SlugHolds(reqs[r])'
        /\ Stands(r, "unused")' <=> UnusedHolds(reqs[r])'
        /\ Stands(r, "song")' <=> SongHolds(reqs[r])'
        /\ Stands(r, "seen")' <=> SeenHolds(reqs[r])'
    BY DEF Stands, ArtistHolds, GenresHold, SlugHolds, UnusedHolds, SongHolds, SeenHolds
  <1> QED
    BY <1>1, StandsIs DEF OwnStep, Claims

LEMMA OwnWaits ==
  ASSUME NEW r \in Requests, UNCHANGED db, NEW call, reqs'[r] = call, Carries(reqs[r], call)
  PROVE  OwnStep(r)
  <1>1. \A i : (Exists(i))' = Exists(i) /\ (Live(i))' = Live(i)
    BY DEF db, Exists, Live
  <1>2. (ArtistHolds(reqs[r]))' = ArtistHolds(call)
    BY DEF ArtistHolds, Live, Exists, db
  <1>3. (GenresHold(reqs[r]))' = GenresHold(call)
    BY DEF GenresHold, GenresLive, Live, Exists, db
  <1>4. (SlugHolds(reqs[r]))' = SlugHolds(call)
    BY DEF SlugHolds, SlugFree, Namespace, Exists, db
  <1>5. (UnusedHolds(reqs[r]))' = UnusedHolds(call)
    BY DEF UnusedHolds, InUse, Live, Exists, db
  <1>6. (SongHolds(reqs[r]))' = SongHolds(call)
    BY DEF SongHolds, Live, Exists, db
  <1>7. (SeenHolds(reqs[r]))' = SeenHolds(call)
    BY DEF SeenHolds, GenresOf, db
  <1> QED
    BY <1>2, <1>3, <1>4, <1>5, <1>6, <1>7 DEF Carries, OwnStep

LEMMA IdleHolds ==
  ASSUME NEW q, q.pc = "idle", q.op = "none"
  PROVE  /\ ArtistHolds(q) /\ GenresHold(q) /\ SlugHolds(q)
         /\ UnusedHolds(q) /\ SongHolds(q) /\ SeenHolds(q)
         /\ ArtistHolds(q)' /\ GenresHold(q)' /\ SlugHolds(q)'
         /\ UnusedHolds(q)' /\ SongHolds(q)' /\ SeenHolds(q)'
  BY DEF ArtistHolds, GenresHold, SlugHolds, UnusedHolds, SongHolds, SeenHolds, ImportPcs

\* A request that ends relies on nothing.
LEMMA OwnEnds ==
  ASSUME NEW r \in Requests, NEW code, reqs'[r] = Idle(code)
  PROVE  OwnStep(r)
  <1>1. reqs'[r].pc = "idle" /\ reqs'[r].op = "none"
    BY DEF Idle
  <1> QED
    BY <1>1 DEF OwnStep, ArtistHolds, GenresHold, SlugHolds, UnusedHolds, SongHolds, SeenHolds,
                ImportPcs

\* The effect of an answer without a write.
LEMMA Refused ==
  ASSUME IInv, NEW r \in Requests, UNCHANGED db, overtaken' \subseteq Requests \X Claims,
         NEW code \in {"none", "ok", "404", "409", "422", "500"}, Answer(r, code)
  PROVE  IInv' /\ OwnStep(r)
  BY Answers, OwnEnds

-----------------------------------------------------------------------------
(* The checks.                                                             *)

LEMMA SlugChecked ==
  ASSUME IInv, NEW r \in Requests, UNCHANGED db, overtaken' \subseteq Requests \X Claims,
         NEW q \in Request, q.pc = "slug", WellFormed(q), Carries(reqs[r], q), CheckSlug(r, q),
         Creating(q) => ~Exists(q.id) /\ \A p \in Requests \ {r} : reqs[p].id # q.id,
         \A p \in Requests \ {r} : Creating(reqs[p]) => q.id # reqs[p].id
  PROVE  IInv' /\ OwnStep(r)
  <1> DEFINE call == [q EXCEPT !.pc = AfterSlug(q)]
  <1>1. CASE ~SlugFree(q.id, q.artist, q.slug)
    BY <1>1, Refused DEF CheckSlug
  <1>2. CASE SlugFree(q.id, q.artist, q.slug)
    <2>1. AfterSlug(q) \in {"genres", "insert", "write"}
      BY DEF AfterSlug
    <2>2. /\ call \in Request /\ call.pc = AfterSlug(q) /\ call.op = q.op /\ call.id = q.id
          /\ call.artist = q.artist /\ call.slug = q.slug /\ call.genres = q.genres
      BY <2>1 DEF Request
    <2> HIDE DEF call
    <2>3. q.op \in {"create", "update"}
      BY DEF WellFormed, Request, ImportPcs
    <2>4. WellFormed(call)
      BY <2>1, <2>2, <2>3 DEF WellFormed, AfterSlug, ImportPcs, Request
    <2>5. Creating(call) <=> Creating(q)
      BY <2>2, <2>3 DEF Creating
    <2>6. Await(r, call)
      BY <1>2 DEF CheckSlug, call
    <2>7. IInv' /\ reqs'[r] = call
      BY <2>2, <2>4, <2>5, <2>6, Waits
    <2>8. Carries(q, call)
      <3>1. ArtistHolds(q) => ArtistHolds(call)
        BY <2>1, <2>2 DEF ArtistHolds, ImportPcs
      <3>2. GenresHold(call)
        BY <2>1, <2>2 DEF GenresHold, GenresLive, AfterSlug
      <3>3. SlugHolds(call)
        BY <1>2, <2>2 DEF SlugHolds
      <3>4. UnusedHolds(call) /\ SongHolds(call) /\ SeenHolds(call)
        BY <2>1, <2>2 DEF UnusedHolds, SongHolds, SeenHolds
      <3> QED
        BY <3>1, <3>2, <3>3, <3>4 DEF Carries
    <2> QED
      BY <2>7, <2>8, OwnWaits DEF Carries
  <1> QED
    BY <1>1, <1>2

LEMMA Identifiers ==
  /\ NULL \notin Artists /\ NULL \notin Genres /\ NULL \notin Songs
  /\ Artists \subseteq Ids /\ Genres \subseteq Ids /\ Songs \subseteq Ids
  /\ \A i \in Artists : i \notin Songs /\ i \notin Genres
  /\ \A i \in Genres : i \notin Songs
  BY NullIsNothing, KindsDisjoint DEF Ids

LEMMA UnusedIsNew ==
  ASSUME IInv, NEW r \in Requests, NEW kind, kind \subseteq Ids, NEW i \in Unused(kind)
  PROVE  /\ i \in kind /\ ~Exists(i)
         /\ \A p \in Requests : reqs[p].id # i
  BY DEF Unused

\* A creation of an artist or a genre.
LEMMA Creates ==
  ASSUME IInv, NEW r \in Requests, Ready(r), UNCHANGED db,
         overtaken' \subseteq Requests \X Claims,
         NEW kind \in {Artists, Genres}, NEW i \in Unused(kind), NEW slug \in Slugs,
         CheckSlug(r, [Call("create", "slug", i, NULL) EXCEPT !.slug = slug])
  PROVE  IInv' /\ OwnStep(r)
  <1> DEFINE q == [Call("create", "slug", i, NULL) EXCEPT !.slug = slug]
  <1>1. i \in Ids /\ i \notin Songs /\ ~Exists(i) /\ \A p \in Requests : reqs[p].id # i
    BY UnusedIsNew, Identifiers
  <1>2. /\ q.pc = "slug" /\ q.op = "create" /\ q.id = i /\ q.artist = NULL /\ q.slug = slug
        /\ q.genres = UNDEF
    BY DEF Call
  <1>3. q \in Request
    BY <1>1 DEF Call, Request, GenreLists
  <1> HIDE DEF q
  <1>4. WellFormed(q)
    BY <1>1, <1>2 DEF WellFormed, ImportPcs
  <1>5. Carries(reqs[r], q)
    BY <1>1, <1>2 DEF Carries, ArtistHolds, GenresHold, SlugHolds, UnusedHolds, SongHolds,
                      SeenHolds, ImportPcs
  <1>6. CheckSlug(r, q)
    BY DEF q
  <1> QED
    BY <1>1, <1>2, <1>3, <1>4, <1>5, <1>6, SlugChecked

\* A call that names a slug and genres, field by field.
With(call, slug, genres) == [call EXCEPT !.slug = slug, !.genres = genres]

LEMMA CallWith ==
  ASSUME NEW op, NEW pc, NEW i, NEW a, NEW slug, NEW genres
  PROVE  With(Call(op, pc, i, a), slug, genres) =
           [pc |-> pc, op |-> op, id |-> i, artist |-> a, slug |-> slug, genres |-> genres,
            seen |-> {}, resp |-> "none"]
  <1> DEFINE c == Call(op, pc, i, a)
             d == [c EXCEPT !.slug = slug]
             e == [d EXCEPT !.genres = genres]
  <1>1. c = [pc |-> pc, op |-> op, id |-> i, artist |-> a, slug |-> UNDEF, genres |-> UNDEF,
             seen |-> {}, resp |-> "none"]
    BY DEF Call
  <1> HIDE DEF c
  <1>2. d = [pc |-> pc, op |-> op, id |-> i, artist |-> a, slug |-> slug, genres |-> UNDEF,
             seen |-> {}, resp |-> "none"]
    BY <1>1
  <1> HIDE DEF d
  <1>3. e = [pc |-> pc, op |-> op, id |-> i, artist |-> a, slug |-> slug, genres |-> genres,
             seen |-> {}, resp |-> "none"]
    BY <1>2
  <1> QED
    BY <1>3 DEF c, d, e, With

LEMMA CreatesSong ==
  ASSUME IInv, NEW r \in Requests, CreateSong(r), overtaken' \subseteq Requests \X Claims
  PROVE  IInv' /\ OwnStep(r)
  <1>1. UNCHANGED db
    BY DEF CreateSong
  <1>2. PICK s \in Unused(Songs), a \in Artists, slug \in Slugs,
             genres \in (GenreLists \ {{}}) \cup {UNDEF} :
          IF Live(a)
            THEN Await(r, [Call("create", "slug", s, a) EXCEPT !.slug = slug, !.genres = genres])
            ELSE Answer(r, "422")
    BY DEF CreateSong
  <1>3. CASE ~Live(a)
    BY <1>1, <1>2, <1>3, Refused
  <1>4. CASE Live(a)
    <2> DEFINE call == [Call("create", "slug", s, a) EXCEPT !.slug = slug, !.genres = genres]
    <2>1. s \in Songs /\ s \in Ids /\ ~Exists(s) /\ \A p \in Requests : reqs[p].id # s
      BY UnusedIsNew, Identifiers
    <2>2. call = [pc |-> "slug", op |-> "create", id |-> s, artist |-> a, slug |-> slug,
                  genres |-> genres, seen |-> {}, resp |-> "none"]
      <3>1. call = With(Call("create", "slug", s, a), slug, genres)
        BY DEF With
      <3> HIDE DEF call
      <3> QED
        BY <3>1, CallWith
    <2>3. call \in Request
      BY <2>1, <2>2 DEF Request, GenreLists
    <2>4. /\ call.pc = "slug" /\ call.op = "create" /\ call.id = s /\ call.artist = a
          /\ call.slug = slug /\ call.genres = genres
      BY <2>2
    <2>5. Await(r, call)
      BY <1>2, <1>4
    <2> HIDE DEF call
    <2>6. WellFormed(call)
      BY <1>4, <2>1, <2>4 DEF WellFormed, ImportPcs, Live
    <2>7. Carries(reqs[r], call)
      BY <1>4, <2>4 DEF Carries, ArtistHolds, GenresHold, SlugHolds, UnusedHolds, SongHolds,
                        SeenHolds, ImportPcs
    <2>8. IInv' /\ reqs'[r] = call
      BY <1>1, <2>1, <2>3, <2>4, <2>5, <2>6, Waits
    <2> QED
      BY <1>1, <2>7, <2>8, OwnWaits
  <1> QED
    BY <1>3, <1>4

LEMMA FindsToUpdate ==
  ASSUME IInv, NEW r \in Requests, NEW i \in Ids, NEW slug \in Slugs \cup {UNDEF},
         NEW genres \in GenreLists \cup {UNDEF}, genres # UNDEF => i \in Songs,
         FindToUpdate(r, i, slug, genres), overtaken' \subseteq Requests \X Claims
  PROVE  IInv' /\ OwnStep(r)
  <1>1. UNCHANGED db
    BY DEF FindToUpdate
  <1>2. CASE ~Exists(i)
    BY <1>1, <1>2, Refused DEF FindToUpdate
  <1>3. CASE Exists(i)
    <2> DEFINE q == [Call("update", "slug", i, rows[i].artist) EXCEPT
                       !.slug = slug, !.genres = genres]
               call == IF slug = UNDEF THEN [q EXCEPT !.pc = AfterSlug(q)] ELSE q
    <2>1. rows[i].artist \in Artists \cup {NULL}
      BY <1>3 DEF IInv, TypeOK, Row, Exists
    <2>2. q = [pc |-> "slug", op |-> "update", id |-> i, artist |-> rows[i].artist, slug |-> slug,
               genres |-> genres, seen |-> {}, resp |-> "none"]
      <3>1. q = With(Call("update", "slug", i, rows[i].artist), slug, genres)
        BY DEF With
      <3>2. PICK a : a = rows[i].artist
        OBVIOUS
      <3>3. With(Call("update", "slug", i, a), slug, genres) =
              [pc |-> "slug", op |-> "update", id |-> i, artist |-> a, slug |-> slug,
               genres |-> genres, seen |-> {}, resp |-> "none"]
        BY CallWith
      <3> HIDE DEF q
      <3> QED
        BY <3>1, <3>2, <3>3
    <2>3. AfterSlug(q) = IF genres # UNDEF THEN "genres" ELSE "write"
      BY <2>2 DEF AfterSlug
    <2>4. call = [pc |-> IF slug # UNDEF THEN "slug" ELSE IF genres # UNDEF THEN "genres" ELSE "write",
                  op |-> "update", id |-> i, artist |-> rows[i].artist, slug |-> slug,
                  genres |-> genres, seen |-> {}, resp |-> "none"]
      BY <2>2, <2>3
    <2>5. Await(r, call)
      BY <1>3 DEF FindToUpdate
    <2> HIDE DEF q, call
    <2>6. call \in Request
      BY <2>1, <2>4 DEF Request, GenreLists
    <2>7. WellFormed(call)
      BY <1>3, <2>4, UndefIsNothing DEF WellFormed, ImportPcs
    <2>8. Carries(reqs[r], call)
      BY <2>4 DEF Carries, ArtistHolds, GenresHold, SlugHolds, UnusedHolds, SongHolds,
                  SeenHolds, ImportPcs
    <2>9. ~Creating(call)
      BY <2>4 DEF Creating
    <2>10. \A p \in Requests \ {r} : Creating(reqs[p]) => call.id # reqs[p].id
      BY <1>3, <2>4, NotOthers
    <2>11. IInv' /\ reqs'[r] = call
      BY <1>1, <2>5, <2>6, <2>7, <2>9, <2>10, Waits
    <2> QED
      BY <1>1, <2>8, <2>11, OwnWaits
  <1> QED
    BY <1>2, <1>3

LEMMA FindsToDelete ==
  ASSUME IInv, NEW r \in Requests, NEW i \in Ids, FindToDelete(r, i),
         overtaken' \subseteq Requests \X Claims
  PROVE  IInv' /\ OwnStep(r)
  <1>1. UNCHANGED db
    BY DEF FindToDelete
  <1>2. CASE ~Exists(i)
    BY <1>1, <1>2, Refused DEF FindToDelete
  <1>3. CASE Exists(i)
    <2> DEFINE call == Call("delete", "count", i, NULL)
    <2>1. call = [pc |-> "count", op |-> "delete", id |-> i, artist |-> NULL, slug |-> UNDEF,
                  genres |-> UNDEF, seen |-> {}, resp |-> "none"]
      BY DEF Call
    <2>2. Await(r, call)
      BY <1>3 DEF FindToDelete
    <2> HIDE DEF call
    <2>3. call \in Request
      BY <2>1 DEF Request, GenreLists
    <2>4. WellFormed(call) /\ ~Creating(call)
      BY <1>3, <2>1 DEF WellFormed, ImportPcs, Creating
    <2>5. Carries(reqs[r], call)
      BY <2>1 DEF Carries, ArtistHolds, GenresHold, SlugHolds, UnusedHolds, SongHolds,
                  SeenHolds, ImportPcs
    <2>6. \A p \in Requests \ {r} : Creating(reqs[p]) => call.id # reqs[p].id
      BY <1>3, <2>1, NotOthers
    <2>7. IInv' /\ reqs'[r] = call
      BY <1>1, <2>2, <2>3, <2>4, <2>6, Waits
    <2> QED
      BY <1>1, <2>5, <2>7, OwnWaits
  <1> QED
    BY <1>2, <1>3

\* The lookups between a find and its write.
LEMMA Checks ==
  ASSUME IInv, NEW r \in Requests, Check(r), overtaken' \subseteq Requests \X Claims
  PROVE  IInv' /\ OwnStep(r)
  <1> DEFINE q == reqs[r]
  <1>1. q \in Request /\ WellFormed(q) /\ Fresh(r)
    BY DEF IInv, TypeOK
  <1>2. CASE FindBySlug(r)
    <2>1. q.pc = "slug" /\ CheckSlug(r, q) /\ UNCHANGED db
      BY <1>2 DEF FindBySlug
    <2>2. Carries(q, q)
      BY DEF Carries
    <2>3. \A p \in Requests \ {r} : Creating(reqs[p]) => q.id # reqs[p].id
      BY NotOthers
    <2> QED
      BY <1>1, <2>1, <2>2, <2>3, SlugChecked DEF Fresh
  <1>3. CASE FindGenres(r)
    <2> DEFINE call == [q EXCEPT !.pc = IF q.op = "create" THEN "insert" ELSE "replaceDelete"]
    <2>1. q.pc = "genres" /\ UNCHANGED db
      BY <1>3 DEF FindGenres
    <2>2. CASE ~GenresLive(q.genres)
      BY <1>3, <2>1, <2>2, Refused DEF FindGenres
    <2>3. CASE GenresLive(q.genres)
      <3>1. Await(r, call)
        BY <1>3, <2>3 DEF FindGenres
      <3>2. /\ call \in Request
            /\ call.pc = IF q.op = "create" THEN "insert" ELSE "replaceDelete"
            /\ call.op = q.op /\ call.id = q.id /\ call.artist = q.artist
            /\ call.slug = q.slug /\ call.genres = q.genres
        BY <1>1 DEF Request
      <3> HIDE DEF call
      <3>3. WellFormed(call) /\ (Creating(call) => Creating(q))
        BY <1>1, <2>1, <3>2 DEF WellFormed, ImportPcs, Creating, Request
      <3>4. Carries(q, call)
        <4>1. ArtistHolds(q) => ArtistHolds(call)
          BY <3>2 DEF ArtistHolds, ImportPcs
        <4>2. GenresHold(call)
          BY <2>3, <3>2 DEF GenresHold
        <4>3. SlugHolds(q) => SlugHolds(call)
          BY <2>1, <3>2 DEF SlugHolds
        <4>4. UnusedHolds(call) /\ SongHolds(call) /\ SeenHolds(call)
          BY <3>2 DEF UnusedHolds, SongHolds, SeenHolds
        <4> QED
          BY <4>1, <4>2, <4>3, <4>4 DEF Carries
      <3>5. IInv' /\ reqs'[r] = call
        BY <2>1, <3>1, <3>2, <3>3, GoesOn
      <3> QED
        BY <2>1, <3>4, <3>5, OwnWaits
    <2> QED
      BY <2>2, <2>3
  <1>4. CASE CountUses(r)
    <2> DEFINE call == [q EXCEPT !.pc = "softDelete"]
    <2>1. q.pc = "count" /\ UNCHANGED db
      BY <1>4 DEF CountUses
    <2>2. CASE InUse(q.id)
      BY <1>4, <2>1, <2>2, Refused DEF CountUses
    <2>3. CASE ~InUse(q.id)
      <3>1. Await(r, call)
        BY <1>4, <2>3 DEF CountUses
      <3>2. /\ call \in Request /\ call.pc = "softDelete" /\ call.op = q.op /\ call.id = q.id
            /\ call.artist = q.artist /\ call.slug = q.slug /\ call.genres = q.genres
        BY <1>1 DEF Request
      <3> HIDE DEF call
      <3>3. q.op = "delete"
        BY <1>1, <2>1 DEF WellFormed, ImportPcs, Request
      <3>4. WellFormed(call) /\ ~Creating(call)
        BY <1>1, <2>1, <3>2, <3>3 DEF WellFormed, ImportPcs, Creating
      <3>5. Carries(q, call)
        BY <2>3, <3>2, <3>3 DEF Carries, ArtistHolds, GenresHold, SlugHolds, UnusedHolds,
                                SongHolds, SeenHolds, ImportPcs
      <3>6. IInv' /\ reqs'[r] = call
        BY <2>1, <3>1, <3>2, <3>4, GoesOn
      <3> QED
        BY <2>1, <3>5, <3>6, OwnWaits
    <2> QED
      BY <2>2, <2>3
  <1> QED
    BY <1>2, <1>3, <1>4 DEF Check

-----------------------------------------------------------------------------
(* The writes.                                                             *)

\* The rest of a step that writes.
LEMMA Writes ==
  ASSUME IInv, NEW r \in Requests, RowsStay, NewRowOf(r), LinksStay, published' \subseteq Songs,
         overtaken' \subseteq Requests \X Claims, NEW call \in Request, Await(r, call),
         WellFormed(call)', ~Creating(call), call.id = NULL \/ call.id = reqs[r].id
  PROVE  IInv' /\ reqs'[r] = call
  <1>1. reqs \in [Requests -> Request]
    BY DEF IInv, TypeOK
  <1>2. reqs'[r] = call /\ \A p \in Requests \ {r} : reqs'[p] = reqs[p]
    BY <1>1 DEF Await
  <1>3. OthersWait(r)
    BY <1>1, <1>2 DEF OthersWait, SameCall, Await
  <1>4. WellFormed(reqs[r])'
    BY <1>2 DEF WellFormed, Exists
  <1>5. Fresh(r)'
    BY <1>2 DEF Fresh, Creating
  <1>6. \A p \in Requests \ {r} : Creating(reqs[p]) => call.id # reqs[p].id
    BY NotOthers
  <1>7. IdIsNoOthers(r)
    BY <1>2, <1>6 DEF IdIsNoOthers
  <1> QED
    BY <1>2, <1>3, <1>4, <1>5, <1>7, Kept

\* A write ends the request.
LEMMA WritesLast ==
  ASSUME IInv, NEW r \in Requests, RowsStay, NewRowOf(r), LinksStay, published' \subseteq Songs,
         overtaken' \subseteq Requests \X Claims,
         NEW code \in {"none", "ok", "404", "409", "422", "500"}, Answer(r, code)
  PROVE  IInv' /\ OwnStep(r)
  <1> DEFINE call == Idle(code)
  <1>1. Await(r, call) /\ call.id = NULL
    BY DEF Answer, Await, Idle
  <1>2. call \in Request /\ ~Creating(call) /\ WellFormed(call)'
    BY IdleRequest
  <1> HIDE DEF call
  <1>3. IInv' /\ reqs'[r] = call
    BY <1>1, <1>2, Writes
  <1> QED
    BY <1>3, OwnEnds DEF call

\* Rows are rewritten, with the artist they have.
LEMMA RowWritten ==
  ASSUME IInv, NEW r \in Requests, NEW i \in Ids, Exists(i), NEW row \in Row,
         row.artist = rows[i].artist, rows' = [rows EXCEPT ![i] = row]
  PROVE  /\ RowsStay /\ NewRowOf(r) /\ rows'[i] = row
         /\ \A j \in Ids \ {i} : rows'[j] = rows[j]
  <1>1. rows \in [Ids -> Row \cup {NULL}]
    BY DEF IInv, TypeOK
  <1>2. rows'[i] = row /\ \A j \in Ids \ {i} : rows'[j] = rows[j]
    BY <1>1
  <1>3. rows' \in [Ids -> Row \cup {NULL}]
    BY <1>1
  <1>4. row # NULL
    BY NullIsNothing
  <1> QED
    BY <1>2, <1>3, <1>4 DEF RowsStay, NewRowOf, Exists

LEMMA RowMarked ==
  ASSUME IInv, NEW i \in Ids, Exists(i), NEW mark \in BOOLEAN
  PROVE  /\ [rows[i] EXCEPT !.deleted = mark] \in Row
         /\ [rows[i] EXCEPT !.deleted = mark].artist = rows[i].artist
         /\ [rows[i] EXCEPT !.deleted = mark].deleted = mark
  <1>1. rows[i] \in Row
    BY DEF IInv, TypeOK, Exists
  <1> QED
    BY <1>1 DEF Row

\* The row of a creation, with the associations that come with it.
LEMMA RowMade ==
  ASSUME IInv, NEW r \in Requests, Creating(reqs[r]), reqs[r].pc \in {"insert", "createSong"},
         rows' = [rows EXCEPT ![reqs[r].id] = NewRow(reqs[r])],
         Associate(reqs[r].id, reqs[r].genres)
  PROVE  /\ RowsStay /\ NewRowOf(r) /\ LinksStay
         /\ reqs[r].id \in Ids /\ rows'[reqs[r].id] = NewRow(reqs[r])
         /\ NewRow(reqs[r]) \in Row
         /\ \A j \in Ids \ {reqs[r].id} : rows'[j] = rows[j]
  <1> DEFINE q == reqs[r]
             row == NewRow(q)
  <1>1. q \in Request /\ WellFormed(q) /\ Fresh(r) /\ rows \in [Ids -> Row \cup {NULL}]
    BY DEF IInv, TypeOK
  <1>2. q.id \in Ids /\ ~Exists(q.id)
    BY <1>1, Identifiers DEF Creating, WellFormed, Fresh, ImportPcs
  <1>3. q.slug \in Slugs /\ q.artist \in Artists \cup {NULL}
    BY <1>1 DEF Creating, WellFormed, Request, ImportPcs
  <1>4. row \in Row /\ row.artist = q.artist
    BY <1>3 DEF NewRow, Row
  <1>5. q.id \in Songs => q.artist \in Artists /\ Exists(q.artist)
    BY <1>1, Identifiers DEF Creating, WellFormed, ImportPcs
  <1> HIDE DEF row
  <1>6. rows'[q.id] = row /\ \A j \in Ids \ {q.id} : rows'[j] = rows[j]
    BY <1>1, <1>2 DEF row
  <1>7. rows' \in [Ids -> Row \cup {NULL}]
    BY <1>1, <1>4 DEF row
  <1>8. row # NULL
    BY <1>4, NullIsNothing
  <1>9. RowsStay
    BY <1>2, <1>6, <1>7 DEF RowsStay, Exists
  <1>10. NewRowOf(r)
    BY <1>4, <1>5, <1>6 DEF NewRowOf, Exists
  <1>11. LinksStay
    <2> DEFINE genres == IF q.genres = UNDEF THEN {} ELSE q.genres
    <2>1. songGenres \subseteq Songs \X Genres /\ \A e \in songGenres : Exists(e[1])
      BY DEF IInv, TypeOK, LinksOfRows
    <2>2. songGenres' = songGenres \cup ({q.id} \X genres)
      BY DEF Associate
    <2>3. genres \subseteq Genres /\ (genres # {} => q.id \in Songs)
      BY <1>1 DEF WellFormed, Request, GenreLists
    <2> HIDE DEF genres
    <2>4. songGenres' \subseteq Songs \X Genres
      BY <2>1, <2>2, <2>3
    <2>5. ASSUME NEW e \in songGenres' PROVE rows'[e[1]] # NULL
      <3>1. CASE e \in songGenres
        BY <1>9, <2>1, <3>1, Identifiers DEF RowsStay, Exists
      <3>2. CASE e[1] = q.id
        BY <1>6, <1>8, <3>2
      <3> QED
        BY <2>2, <3>1, <3>2
    <2> QED
      BY <2>4, <2>5 DEF LinksStay
  <1> QED
    BY <1>2, <1>4, <1>6, <1>9, <1>10, <1>11 DEF row

LEMMA Inserts ==
  ASSUME IInv, NEW r \in Requests, Insert(r), overtaken' \subseteq Requests \X Claims
  PROVE  IInv' /\ OwnStep(r)
  <1> DEFINE q == reqs[r]
  <1>1. q.pc = "insert" /\ published' \subseteq Songs
    BY DEF Insert, IInv, TypeOK
  <1>2. CASE ~SlugFree(q.id, q.artist, q.slug)
    BY <1>2, Refused DEF Insert, db
  <1>3. CASE SlugFree(q.id, q.artist, q.slug)
    <2>1. Creating(q) /\ (q.op = "import" => q.id \in Artists)
      BY <1>1 DEF IInv, TypeOK, WellFormed, Creating, Request, ImportPcs
    <2>2. rows' = [rows EXCEPT ![q.id] = NewRow(q)] /\ Associate(q.id, q.genres)
      BY <1>3 DEF Insert
    <2>3. RowsStay /\ NewRowOf(r) /\ LinksStay /\ rows'[q.id] = NewRow(q) /\ NewRow(q) \in Row
      BY <1>1, <2>1, <2>2, RowMade
    <2>4. CASE q.op # "import"
      BY <1>1, <1>3, <2>3, <2>4, WritesLast DEF Insert
    <2>5. CASE q.op = "import"
      <3>1. PICK a : a = q.id
        OBVIOUS
      <3> DEFINE call == Call("import", "songs", NULL, a)
      <3>2. call = [pc |-> "songs", op |-> "import", id |-> NULL, artist |-> a, slug |-> UNDEF,
                    genres |-> UNDEF, seen |-> {}, resp |-> "none"]
        BY DEF Call
      <3>3. Await(r, call)
        BY <1>3, <2>5, <3>1 DEF Insert
      <3> HIDE DEF call
      <3>4. call \in Request /\ ~Creating(call)
        BY <2>1, <2>5, <3>1, <3>2 DEF Request, GenreLists, ImportPcs, Creating
      <3>5. NewRow(q).deleted = FALSE
        BY DEF NewRow
      <3>6. rows'[a] # NULL /\ rows'[a].deleted = FALSE
        BY <2>3, <3>1, <3>5, NullIsNothing
      <3>7. WellFormed(call)'
        BY <2>1, <2>5, <3>1, <3>2, <3>6 DEF WellFormed, ImportPcs, Exists
      <3>8. IInv' /\ reqs'[r] = call
        BY <1>1, <2>3, <3>2, <3>3, <3>4, <3>7, Writes
      <3>9. OwnStep(r)
        BY <3>2, <3>6, <3>8 DEF OwnStep, ArtistHolds, GenresHold, SlugHolds, UnusedHolds,
                                SongHolds, SeenHolds, ImportPcs, Live, Exists
      <3> QED
        BY <3>8, <3>9
    <2> QED
      BY <2>4, <2>5
  <1> QED
    BY <1>2, <1>3

\* An UPDATE of a row, a deletion among them, or its refusal.
LEMMA Rewrites ==
  ASSUME IInv, NEW r \in Requests, Update(r) \/ SoftDelete(r),
         overtaken' \subseteq Requests \X Claims
  PROVE  IInv' /\ OwnStep(r)
  <1> DEFINE q == reqs[r]
  <1>1. q \in Request /\ WellFormed(q) /\ q.op \in {"update", "delete"} /\ q.id \in Ids
    BY DEF IInv, TypeOK, Update, SoftDelete, WellFormed, Request, ImportPcs
  <1>2. Exists(q.id) /\ UNCHANGED <<songGenres, published>>
    BY <1>1 DEF WellFormed, Update, SoftDelete
  <1>3. CASE rows' = rows
    <2>1. PICK code \in {"ok", "500"} : Answer(r, code)
      BY DEF Update, SoftDelete
    <2> QED
      BY <1>2, <1>3, <2>1, Refused DEF db
  <1>4. CASE rows' # rows
    <2>1. rows[q.id] \in Row
      BY <1>1, <1>2 DEF IInv, TypeOK, Exists
    <2>2. PICK row \in Row : row.artist = rows[q.id].artist /\ rows' = [rows EXCEPT ![q.id] = row]
      <3>1. CASE Update(r)
        <4> DEFINE slug == IF q.slug = UNDEF THEN rows[q.id].slug ELSE q.slug
        <4>1. rows' = [rows EXCEPT ![q.id] = [rows[q.id] EXCEPT !.slug = slug]]
          BY <1>4, <3>1 DEF Update
        <4>2. slug \in Slugs
          BY <1>1, <2>1 DEF Request, Row
        <4> HIDE DEF slug
        <4>3. /\ [rows[q.id] EXCEPT !.slug = slug] \in Row
              /\ [rows[q.id] EXCEPT !.slug = slug].artist = rows[q.id].artist
          BY <2>1, <4>2 DEF Row
        <4> QED
          BY <4>1, <4>3
      <3>2. CASE SoftDelete(r)
        <4>1. rows' = [rows EXCEPT ![q.id] = [rows[q.id] EXCEPT !.deleted = TRUE]]
          BY <1>4, <3>2 DEF SoftDelete
        <4> QED
          BY <1>1, <1>2, <4>1, RowMarked
      <3> QED
        BY <3>1, <3>2
    <2>3. RowsStay /\ NewRowOf(r)
      BY <1>1, <1>2, <2>2, RowWritten
    <2>4. LinksStay /\ published' \subseteq Songs
      BY <1>2, <2>3, Identifiers DEF LinksStay, RowsStay, IInv, TypeOK, LinksOfRows, Exists
    <2>5. Answer(r, "ok")
      BY <1>4 DEF Update, SoftDelete
    <2> QED
      BY <2>3, <2>4, <2>5, WritesLast
  <1> QED
    BY <1>3, <1>4

\* The two statements of replaceForSong.
LEMMA Replacements ==
  ASSUME IInv, NEW r \in Requests, ReplaceDelete(r) \/ ReplaceInsert(r),
         overtaken' \subseteq Requests \X Claims
  PROVE  IInv' /\ OwnStep(r)
  <1> DEFINE q == reqs[r]
  <1>1. /\ q \in Request /\ WellFormed(q) /\ q.op \in {"create", "update"} /\ q.id \in Songs
        /\ reqs \in [Requests -> Request] /\ q.pc \in {"replaceDelete", "replaceInsert"}
    BY DEF IInv, TypeOK, ReplaceDelete, ReplaceInsert, WellFormed, Request, ImportPcs
  <1>2. q.op = "update" /\ q.genres \in GenreLists /\ Exists(q.id)
    BY <1>1 DEF WellFormed
  <1>3. CASE ReplaceDelete(r)
    <2>1. PICK seen \in GenreLists : seen = GenresOf(q.id)
      BY DEF GenresOf, GenreLists
    <2>2. q.pc = "replaceDelete" /\ UNCHANGED db
      BY <1>3 DEF ReplaceDelete
    <2> DEFINE marked == [q EXCEPT !.pc = "replaceInsert"]
               call == [marked EXCEPT !.seen = seen]
    <2>3. Await(r, call)
      BY <1>3, <2>1 DEF ReplaceDelete
    <2>4. /\ marked \in Request /\ marked.pc = "replaceInsert" /\ marked.op = q.op
          /\ marked.id = q.id /\ marked.artist = q.artist /\ marked.slug = q.slug
          /\ marked.genres = q.genres
      BY <1>1 DEF Request
    <2> HIDE DEF marked
    <2>5. /\ call \in Request /\ call.pc = "replaceInsert" /\ call.op = q.op
          /\ call.id = q.id /\ call.artist = q.artist /\ call.slug = q.slug
          /\ call.genres = q.genres /\ call.seen = seen
      BY <2>4 DEF Request
    <2> HIDE DEF call
    <2>6. WellFormed(call) /\ (Creating(call) => Creating(q))
      BY <1>1, <1>2, <2>5 DEF WellFormed, Creating, ImportPcs
    <2>7. Carries(q, call)
      BY <1>1, <1>2, <2>1, <2>2, <2>5
         DEF Carries, ArtistHolds, GenresHold, SlugHolds, UnusedHolds, SongHolds, SeenHolds,
             ImportPcs
    <2>8. IInv' /\ reqs'[r] = call
      BY <2>2, <2>3, <2>5, <2>6, GoesOn
    <2> QED
      BY <2>2, <2>7, <2>8, OwnWaits
  <1>4. CASE ReplaceInsert(r)
    <2> DEFINE kept == GenresOf(q.id) \ q.seen
               call == [q EXCEPT !.pc = "write", !.seen = {}]
               Rival(p) == reqs[p].pc = "replaceInsert" /\ reqs[p].id = q.id
    <2>1. UNCHANGED <<rows, published>>
      BY <1>4 DEF ReplaceInsert
    <2>2. CASE kept \cap q.genres # {}
      BY <1>4, <2>1, <2>2, Refused DEF ReplaceInsert, db
    <2>3. CASE kept \cap q.genres = {}
      <3>1. songGenres' = {e \in songGenres : e[1] # q.id} \cup ({q.id} \X (kept \cup q.genres))
        BY <1>4, <2>3 DEF ReplaceInsert
      <3>2. reqs' = [p \in Requests |->
                       IF p = r THEN call
                       ELSE IF Rival(p) THEN [reqs[p] EXCEPT !.seen = @ \ q.seen] ELSE reqs[p]]
        BY <1>4, <2>3 DEF ReplaceInsert
      <3>3. /\ call \in Request /\ call.pc = "write" /\ call.op = q.op /\ call.id = q.id
            /\ call.artist = q.artist /\ call.slug = q.slug /\ call.genres = q.genres
        BY <1>1 DEF Request, GenreLists
      <3>4. reqs'[r] = call
        BY <3>2
      <3>5. ASSUME NEW p \in Requests, p # r PROVE reqs'[p] \in Request /\ SameCall(p)
        <4>1. reqs[p] \in Request
          BY <1>1
        <4>2. CASE Rival(p)
          <5>1. reqs'[p] = [reqs[p] EXCEPT !.seen = @ \ q.seen]
            BY <3>2, <3>5, <4>2
          <5>2. reqs[p].seen \ q.seen \in GenreLists
            BY <4>1 DEF Request, GenreLists
          <5> QED
            BY <4>1, <5>1, <5>2 DEF Request, SameCall
        <4>3. CASE ~Rival(p)
          BY <3>2, <3>5, <4>1, <4>3 DEF SameCall
        <4> QED
          BY <4>2, <4>3
      <3>6. OthersWait(r)
        <4>1. reqs' = [p \in Requests |-> reqs'[p]]
          BY <3>2
        <4>2. \A p \in Requests : reqs'[p] \in Request
          BY <3>3, <3>4, <3>5
        <4>3. reqs' \in [Requests -> Request]
          BY <4>1, <4>2
        <4> QED
          BY <3>5, <4>3 DEF OthersWait
      <3>7. RowsStay /\ NewRowOf(r)
        BY <2>1 DEF RowsStay, NewRowOf, Exists, IInv, TypeOK
      <3>8. LinksStay
        <4>1. kept \cup q.genres \subseteq Genres
          BY <1>2 DEF GenresOf, GenreLists
        <4> HIDE DEF kept
        <4>2. songGenres \subseteq Songs \X Genres /\ \A e \in songGenres : Exists(e[1])
          BY DEF IInv, TypeOK, LinksOfRows
        <4>3. songGenres' \subseteq Songs \X Genres
          BY <1>1, <3>1, <4>1, <4>2
        <4>4. \A e \in songGenres' : e \in songGenres \/ e[1] = q.id
          BY <3>1
        <4> QED
          BY <1>2, <2>1, <4>2, <4>3, <4>4 DEF LinksStay, Exists
      <3> HIDE DEF call
      <3>9. WellFormed(reqs[r])'
        BY <1>1, <1>2, <2>1, <3>3, <3>4 DEF WellFormed, ImportPcs, Exists
      <3>10. Fresh(r)'
        BY <1>2, <3>3, <3>4 DEF Fresh, Creating
      <3>11. IdIsNoOthers(r)
        BY <3>3, <3>4, NotOthers DEF IdIsNoOthers
      <3>12. published' \subseteq Songs
        BY <2>1 DEF IInv, TypeOK
      <3>13. IInv'
        BY <3>6, <3>7, <3>8, <3>9, <3>10, <3>11, <3>12, Kept
      <3>14. SlugHolds(q) => SlugHolds(reqs[r])'
        BY <1>4, <2>1, <3>3, <3>4 DEF SlugHolds, SlugFree, Namespace, Exists, ReplaceInsert
      <3>15. OwnStep(r)
        BY <1>2, <3>3, <3>4, <3>14 DEF OwnStep, ArtistHolds, GenresHold, UnusedHolds, SongHolds,
                                       SeenHolds, ImportPcs
      <3> QED
        BY <3>13, <3>15
    <2> QED
      BY <2>2, <2>3
  <1> QED
    BY <1>3, <1>4

LEMMA AllWrites ==
  ASSUME IInv, NEW r \in Requests, Write(r), overtaken' \subseteq Requests \X Claims
  PROVE  IInv' /\ OwnStep(r)
  BY Inserts, Replacements, Rewrites DEF Write

-----------------------------------------------------------------------------
(* Imports.                                                                *)

LEMMA Resolves ==
  ASSUME IInv, NEW r \in Requests, UNCHANGED db, overtaken' \subseteq Requests \X Claims,
         NEW a \in Artists, Exists(a), Resolve(r, a)
  PROVE  IInv' /\ OwnStep(r)
  <1>1. PICK pc : pc = IF Live(a) THEN "songs" ELSE "restoreArtist"
    OBVIOUS
  <1> DEFINE call == Call("import", pc, NULL, a)
  <1>2. call = [pc |-> pc, op |-> "import", id |-> NULL, artist |-> a, slug |-> UNDEF,
                genres |-> UNDEF, seen |-> {}, resp |-> "none"]
    BY DEF Call
  <1>3. Await(r, call)
    BY <1>1 DEF Resolve
  <1> HIDE DEF call
  <1>4. call \in Request /\ ~Creating(call)
    BY <1>1, <1>2 DEF Request, GenreLists, ImportPcs, Creating
  <1>5. WellFormed(call)
    BY <1>1, <1>2 DEF WellFormed, ImportPcs
  <1>6. Carries(reqs[r], call)
    BY <1>1, <1>2 DEF Carries, ArtistHolds, GenresHold, SlugHolds, UnusedHolds, SongHolds,
                      SeenHolds, ImportPcs
  <1>7. \A p \in Requests \ {r} : Creating(reqs[p]) => call.id # reqs[p].id
    BY <1>2, NotOthers
  <1>8. IInv' /\ reqs'[r] = call
    BY <1>3, <1>4, <1>5, <1>7, Waits
  <1> QED
    BY <1>6, <1>8, OwnWaits

LEMMA Resolutions ==
  ASSUME IInv, NEW r \in Requests, ResolveById(r) \/ ResolveBySlug(r),
         overtaken' \subseteq Requests \X Claims
  PROVE  IInv' /\ OwnStep(r)
  <1>1. UNCHANGED db
    BY DEF ResolveById, ResolveBySlug
  <1>2. CASE ResolveById(r)
    <2>1. PICK a \in Artists : IF Exists(a) THEN Resolve(r, a) ELSE Answer(r, "422")
      BY <1>2 DEF ResolveById
    <2> QED
      BY <1>1, <2>1, Resolves, Refused
  <1>3. CASE ResolveBySlug(r)
    <2>1. PICK slug \in Slugs :
            \/ \E a \in Artists : Exists(a) /\ rows[a].slug = slug /\ Resolve(r, a)
            \/ \E a \in Unused(Artists) :
                 /\ SlugFree(a, NULL, slug)
                 /\ Await(r, [Call("import", "insert", a, NULL) EXCEPT !.slug = slug])
      BY <1>3 DEF ResolveBySlug
    <2>2. CASE \E a \in Artists : Exists(a) /\ Resolve(r, a)
      BY <1>1, <2>2, Resolves
    <2>3. ASSUME NEW a \in Unused(Artists), SlugFree(a, NULL, slug),
                 Await(r, [Call("import", "insert", a, NULL) EXCEPT !.slug = slug])
          PROVE  IInv' /\ OwnStep(r)
      <3> DEFINE call == [Call("import", "insert", a, NULL) EXCEPT !.slug = slug]
      <3>1. a \in Artists /\ a \in Ids /\ ~Exists(a) /\ \A p \in Requests : reqs[p].id # a
        BY UnusedIsNew, Identifiers
      <3>2. /\ call.pc = "insert" /\ call.op = "import" /\ call.id = a /\ call.artist = NULL
            /\ call.slug = slug /\ call.genres = UNDEF
        BY DEF Call
      <3>3. call \in Request
        BY <3>1 DEF Call, Request, GenreLists
      <3>4. Await(r, call)
        BY <2>3
      <3> HIDE DEF call
      <3>5. WellFormed(call)
        BY <3>1, <3>2 DEF WellFormed, ImportPcs
      <3>6. Carries(reqs[r], call)
        BY <2>3, <3>2 DEF Carries, ArtistHolds, GenresHold, GenresLive, SlugHolds, UnusedHolds,
                          SongHolds, SeenHolds, ImportPcs
      <3>7. IInv' /\ reqs'[r] = call
        BY <1>1, <3>1, <3>2, <3>3, <3>4, <3>5, Waits
      <3> QED
        BY <1>1, <3>6, <3>7, OwnWaits
    <2> QED
      BY <2>1, <2>2, <2>3
  <1> QED
    BY <1>2, <1>3

LEMMA Restores ==
  ASSUME IInv, NEW r \in Requests, RestoreArtist(r), overtaken' \subseteq Requests \X Claims
  PROVE  IInv' /\ OwnStep(r)
  <1> DEFINE q == reqs[r]
  <1>1. q \in Request /\ WellFormed(q) /\ q.pc = "restoreArtist"
    BY DEF IInv, TypeOK, RestoreArtist
  <1>2. q.op = "import" /\ q.artist \in Artists /\ q.artist \in Ids /\ Exists(q.artist)
    BY <1>1, Identifiers DEF WellFormed, ImportPcs
  <1>3. PICK row \in Row : row = [rows[q.artist] EXCEPT !.deleted = FALSE]
    BY <1>2, RowMarked
  <1>4. row.artist = rows[q.artist].artist /\ row.deleted = FALSE
    BY <1>2, <1>3, RowMarked
  <1>5. rows' = [rows EXCEPT ![q.artist] = row] /\ UNCHANGED <<songGenres, published>>
    BY <1>3 DEF RestoreArtist
  <1>6. RowsStay /\ NewRowOf(r) /\ rows'[q.artist] = row
    BY <1>2, <1>4, <1>5, RowWritten
  <1>7. LinksStay /\ published' \subseteq Songs
    BY <1>5, <1>6, Identifiers DEF LinksStay, RowsStay, IInv, TypeOK, LinksOfRows, Exists
  <1>8. PICK call : call = [q EXCEPT !.pc = "songs"]
    OBVIOUS
  <1>9. Await(r, call)
    BY <1>8 DEF RestoreArtist
  <1>10. /\ call \in Request /\ call.pc = "songs" /\ call.op = q.op /\ call.id = q.id
         /\ call.artist = q.artist /\ call.slug = q.slug /\ call.genres = q.genres
    BY <1>1, <1>8 DEF Request, ImportPcs
  <1>11. WellFormed(call)' /\ ~Creating(call)
    BY <1>1, <1>2, <1>6, <1>10, NullIsNothing DEF WellFormed, ImportPcs, Creating, Exists
  <1>12. IInv' /\ reqs'[r] = call
    BY <1>6, <1>7, <1>9, <1>10, <1>11, Writes
  <1>13. OwnStep(r)
    BY <1>2, <1>4, <1>6, <1>10, <1>12, NullIsNothing
       DEF OwnStep, ArtistHolds, GenresHold, SlugHolds, UnusedHolds, SongHolds, SeenHolds,
           ImportPcs, Live, Exists
  <1> QED
    BY <1>12, <1>13

LEMMA TakesSong ==
  ASSUME IInv, NEW r \in Requests, NextSong(r), overtaken' \subseteq Requests \X Claims
  PROVE  IInv' /\ OwnStep(r)
  <1> DEFINE q == reqs[r]
  <1>1. q \in Request /\ WellFormed(q) /\ q.pc = "songs" /\ UNCHANGED db
    BY DEF IInv, TypeOK, NextSong
  <1>2. PICK slug \in Slugs, genres \in (GenreLists \ {{}}) \cup {UNDEF} :
          /\ GenresLive(genres)
          /\ Await(r, [q EXCEPT !.pc = "findSong", !.slug = slug, !.genres = genres])
    BY DEF NextSong
  <1> DEFINE c == [q EXCEPT !.pc = "findSong"]
             d == [c EXCEPT !.slug = slug]
             call == [d EXCEPT !.genres = genres]
  <1>3. Await(r, call)
    BY <1>2
  <1>4. c \in Request /\ c.pc = "findSong" /\ c.op = q.op /\ c.id = q.id /\ c.artist = q.artist
    BY <1>1 DEF Request, ImportPcs
  <1> HIDE DEF c
  <1>5. /\ d \in Request /\ d.pc = "findSong" /\ d.op = q.op /\ d.id = q.id /\ d.artist = q.artist
        /\ d.slug = slug
    BY <1>4 DEF Request
  <1> HIDE DEF d
  <1>6. /\ call \in Request /\ call.pc = "findSong" /\ call.op = q.op /\ call.id = q.id
        /\ call.artist = q.artist /\ call.slug = slug /\ call.genres = genres
    BY <1>5 DEF Request
  <1> HIDE DEF call
  <1>7. WellFormed(call) /\ ~Creating(call)
    BY <1>1, <1>6 DEF WellFormed, ImportPcs, Creating
  <1>8. Carries(q, call)
    BY <1>1, <1>2, <1>6 DEF Carries, ArtistHolds, GenresHold, SlugHolds, UnusedHolds, SongHolds,
                            SeenHolds, ImportPcs
  <1>9. IInv' /\ reqs'[r] = call
    BY <1>1, <1>3, <1>6, <1>7, GoesOn
  <1> QED
    BY <1>1, <1>8, <1>9, OwnWaits

LEMMA FindsSong ==
  ASSUME IInv, NEW r \in Requests, FindSong(r), overtaken' \subseteq Requests \X Claims
  PROVE  IInv' /\ OwnStep(r)
  <1> DEFINE q == reqs[r]
  <1>1. q \in Request /\ WellFormed(q) /\ q.pc = "findSong" /\ UNCHANGED db
    BY DEF IInv, TypeOK, FindSong
  <1>2. q.op = "import" /\ q.artist \in Artists /\ Exists(q.artist) /\ q.slug \in Slugs
    BY <1>1 DEF WellFormed, ImportPcs
  <1>3. ASSUME NEW s \in Songs, NEW pc \in {"createSong", "restoreSong", "reuseSong"},
               Await(r, [q EXCEPT !.id = s, !.pc = pc]),
               pc = "createSong" =>
                 /\ ~Exists(s) /\ SlugFree(s, q.artist, q.slug)
                 /\ \A p \in Requests : reqs[p].id # s,
               pc # "createSong" => Exists(s) /\ rows[s].artist = q.artist,
               pc = "reuseSong" => Live(s)
        PROVE  IInv' /\ OwnStep(r)
    <2> DEFINE c == [q EXCEPT !.id = s]
               call == [c EXCEPT !.pc = pc]
    <2>1. Await(r, call)
      BY <1>3
    <2>2. /\ c \in Request /\ c.op = q.op /\ c.id = s /\ c.artist = q.artist
          /\ c.slug = q.slug /\ c.genres = q.genres
      BY <1>1, Identifiers DEF Request
    <2> HIDE DEF c
    <2>3. /\ call \in Request /\ call.pc = pc /\ call.op = q.op /\ call.id = s
          /\ call.artist = q.artist /\ call.slug = q.slug /\ call.genres = q.genres
      BY <2>2 DEF Request, ImportPcs
    <2> HIDE DEF call
    <2>4. WellFormed(call)
      BY <1>2, <1>3, <2>3, Identifiers DEF WellFormed, ImportPcs
    <2>5. Carries(q, call)
      BY <1>1, <1>2, <1>3, <2>3 DEF Carries, ArtistHolds, GenresHold, SlugHolds, UnusedHolds,
                                    SongHolds, SeenHolds, ImportPcs
    <2>6. Creating(call) => ~Exists(call.id) /\ \A p \in Requests \ {r} : reqs[p].id # call.id
      BY <1>2, <1>3, <2>3 DEF Creating
    <2>7. \A p \in Requests \ {r} : Creating(reqs[p]) => call.id # reqs[p].id
      <3>1. CASE pc = "createSong"
        BY <1>3, <2>3, <3>1
      <3>2. CASE pc # "createSong"
        BY <1>3, <2>3, <3>2, NotOthers, Identifiers
      <3> QED
        BY <3>1, <3>2
    <2>8. UNCHANGED db /\ call \in Request
      BY <1>1, <2>3
    <2>9. IInv' /\ reqs'[r] = call
      BY <2>1, <2>4, <2>6, <2>7, <2>8, Waits
    <2> QED
      BY <1>1, <2>5, <2>9, OwnWaits
  <1>4. ASSUME NEW s \in Songs, Exists(s), rows[s].artist = q.artist,
               Await(r, [q EXCEPT !.id = s, !.pc = IF Live(s) THEN "reuseSong" ELSE "restoreSong"])
        PROVE  IInv' /\ OwnStep(r)
    <2>1. PICK pc : pc = IF Live(s) THEN "reuseSong" ELSE "restoreSong"
      OBVIOUS
    <2>2. Await(r, [q EXCEPT !.id = s, !.pc = pc])
      BY <1>4, <2>1, Zenon
    <2> QED
      BY <1>3, <1>4, <2>1, <2>2
  <1>5. ASSUME NEW s \in Unused(Songs), SlugFree(s, q.artist, q.slug),
               Await(r, [q EXCEPT !.id = s, !.pc = "createSong"])
        PROVE  IInv' /\ OwnStep(r)
    <2>1. s \in Songs /\ ~Exists(s) /\ \A p \in Requests : reqs[p].id # s
      BY UnusedIsNew, Identifiers
    <2> QED
      BY <1>3, <1>5, <2>1
  <1> QED
    BY <1>4, <1>5 DEF FindSong

\* The import goes on to its next song.
LEMMA GoesOnWithSongs ==
  ASSUME IInv, NEW r \in Requests, reqs[r].pc \in ImportPcs \ {"restoreArtist"}, RowsStay, NewRowOf(r),
         LinksStay, published' \subseteq Songs, overtaken' \subseteq Requests \X Claims,
         Await(r, Call("import", "songs", NULL, reqs[r].artist)),
         \A a \in Artists : Live(a) => Live(a)'
  PROVE  IInv' /\ OwnStep(r)
  <1>1. PICK a : a = reqs[r].artist
    OBVIOUS
  <1>2. a \in Artists /\ Exists(a)
    BY <1>1 DEF IInv, WellFormed, ImportPcs
  <1> DEFINE call == Call("import", "songs", NULL, a)
  <1>3. call = [pc |-> "songs", op |-> "import", id |-> NULL, artist |-> a, slug |-> UNDEF,
                genres |-> UNDEF, seen |-> {}, resp |-> "none"]
    BY DEF Call
  <1>4. Await(r, call)
    BY <1>1
  <1> HIDE DEF call
  <1>5. call \in Request /\ ~Creating(call)
    BY <1>2, <1>3 DEF Request, GenreLists, ImportPcs, Creating
  <1>6. WellFormed(call)'
    BY <1>2, <1>3, Identifiers DEF WellFormed, ImportPcs, RowsStay, Exists
  <1>7. IInv' /\ reqs'[r] = call
    BY <1>3, <1>4, <1>5, <1>6, Writes
  <1>8. Live(a) => Live(a)'
    BY <1>2
  <1>9. OwnStep(r)
    BY <1>1, <1>3, <1>7, <1>8 DEF OwnStep, ArtistHolds, GenresHold, SlugHolds, UnusedHolds,
                                  SongHolds, SeenHolds, ImportPcs
  <1> QED
    BY <1>7, <1>9

LEMMA EndsSong ==
  ASSUME IInv, NEW r \in Requests, StoreSong(r) \/ FailSong(r),
         overtaken' \subseteq Requests \X Claims
  PROVE  IInv' /\ OwnStep(r)
  <1> DEFINE q == reqs[r]
  <1>1. /\ q \in Request /\ WellFormed(q) /\ Await(r, Call("import", "songs", NULL, q.artist))
        /\ q.pc \in {"findSong", "createSong", "restoreSong", "reuseSong"}
    BY DEF IInv, TypeOK, StoreSong, FailSong
  <1>2. q.pc \in ImportPcs \ {"restoreArtist"} /\ q.op = "import"
    BY <1>1 DEF ImportPcs, WellFormed
  <1>3. rows \in [Ids -> Row \cup {NULL}] /\ published \subseteq Songs
    BY DEF IInv, TypeOK
  <1>4. CASE UNCHANGED <<rows, songGenres>> /\ published' \subseteq Songs
    <2>1. RowsStay /\ NewRowOf(r)
      BY <1>3, <1>4 DEF RowsStay, NewRowOf, Exists
    <2>2. LinksStay /\ \A a \in Artists : Live(a) => Live(a)'
      BY <1>4 DEF LinksStay, LinksOfRows, Exists, IInv, TypeOK, Live
    <2> QED
      BY <1>1, <1>2, <1>4, <2>1, <2>2, GoesOnWithSongs
  <1>5. CASE FailSong(r)
    BY <1>3, <1>4, <1>5 DEF FailSong, db
  <1>6. CASE StoreSong(r)
    <2>1. q.id \in Songs /\ q.id \in Ids /\ q.id \notin Artists /\ published' \subseteq Songs
      BY <1>1, <1>3, <1>6, Identifiers DEF StoreSong, WellFormed, ImportPcs
    <2>2. CASE q.pc = "createSong"
      <3>1. rows' = [rows EXCEPT ![q.id] = NewRow(q)] /\ Associate(q.id, q.genres)
        BY <1>6, <2>2 DEF StoreSong
      <3>2. Creating(q)
        BY <1>2, <2>2 DEF Creating
      <3>3. /\ RowsStay /\ NewRowOf(r) /\ LinksStay
            /\ \A j \in Ids \ {q.id} : rows'[j] = rows[j]
        BY <2>2, <3>1, <3>2, RowMade
      <3>4. \A a \in Artists : Live(a) => Live(a)'
        BY <2>1, <3>3, Identifiers DEF Live, Exists
      <3> QED
        BY <1>1, <1>2, <2>1, <3>3, <3>4, GoesOnWithSongs
    <2>3. CASE q.pc = "restoreSong"
      <3>1. Exists(q.id) /\ UNCHANGED songGenres
        BY <1>1, <1>6, <2>3 DEF WellFormed, StoreSong
      <3>2. PICK row \in Row : row = [rows[q.id] EXCEPT !.deleted = FALSE]
        BY <2>1, <3>1, RowMarked
      <3>3. row.artist = rows[q.id].artist
        BY <2>1, <3>1, <3>2, RowMarked
      <3>4. rows' = [rows EXCEPT ![q.id] = row]
        BY <1>6, <2>3, <3>2 DEF StoreSong
      <3>5. RowsStay /\ NewRowOf(r) /\ \A j \in Ids \ {q.id} : rows'[j] = rows[j]
        BY <2>1, <3>1, <3>3, <3>4, RowWritten
      <3>6. LinksStay
        BY <3>1, <3>5, Identifiers DEF LinksStay, RowsStay, IInv, TypeOK, LinksOfRows, Exists
      <3>7. \A a \in Artists : Live(a) => Live(a)'
        BY <2>1, <3>5, Identifiers DEF Live, Exists
      <3> QED
        BY <1>1, <1>2, <2>1, <3>5, <3>6, <3>7, GoesOnWithSongs
    <2>4. CASE q.pc = "reuseSong"
      BY <1>4, <1>6, <2>1, <2>4 DEF StoreSong
    <2> QED
      BY <1>6, <2>2, <2>3, <2>4 DEF StoreSong
  <1> QED
    BY <1>5, <1>6

LEMMA AllImports ==
  ASSUME IInv, NEW r \in Requests, Import(r), overtaken' \subseteq Requests \X Claims
  PROVE  IInv' /\ OwnStep(r)
  <1>1. EndImport(r) => IInv' /\ OwnStep(r)
    BY Refused DEF EndImport
  <1> QED
    BY <1>1, Restores, TakesSong, FindsSong, EndsSong DEF Import

LEMMA Arrivals ==
  ASSUME IInv, NEW r \in Requests, Arrive(r), overtaken' \subseteq Requests \X Claims
  PROVE  IInv' /\ OwnStep(r)
  <1>1. CASE CreateArtist(r)
    <2>1. UNCHANGED db /\ Ready(r)
      BY <1>1 DEF CreateArtist
    <2>2. PICK a \in Unused(Artists), slug \in Slugs :
            CheckSlug(r, [Call("create", "slug", a, NULL) EXCEPT !.slug = slug])
      BY <1>1 DEF CreateArtist
    <2> QED
      BY <2>1, <2>2, Creates
  <1>2. CASE CreateGenre(r)
    <2>1. UNCHANGED db /\ Ready(r)
      BY <1>2 DEF CreateGenre
    <2>2. PICK a \in Unused(Genres), slug \in Slugs :
            CheckSlug(r, [Call("create", "slug", a, NULL) EXCEPT !.slug = slug])
      BY <1>2 DEF CreateGenre
    <2> QED
      BY <2>1, <2>2, Creates
  <1>3. CASE UpdateArtist(r) \/ UpdateGenre(r)
    <2>1. PICK i \in Artists \cup Genres, slug \in Slugs \cup {UNDEF} : FindToUpdate(r, i, slug, UNDEF)
      BY <1>3 DEF UpdateArtist, UpdateGenre
    <2> QED
      BY <2>1, FindsToUpdate, Identifiers
  <1>4. CASE UpdateSong(r)
    BY <1>4, FindsToUpdate, Identifiers DEF UpdateSong
  <1>5. CASE DeleteArtist(r) \/ DeleteGenre(r) \/ DeleteSong(r)
    BY <1>5, FindsToDelete, Identifiers DEF DeleteArtist, DeleteGenre, DeleteSong
  <1> QED
    BY <1>1, <1>2, <1>3, <1>4, <1>5, CreatesSong, Resolutions
       DEF Arrive, ArriveArtists, ArriveGenres, ArriveSongs

-----------------------------------------------------------------------------
(* The invariant.                                                          *)

LEMMA Steps ==
  ASSUME IInv, NEW r \in Requests, Arrive(r) \/ Check(r) \/ Write(r) \/ Import(r),
         overtaken' \subseteq Requests \X Claims
  PROVE  IInv' /\ OwnStep(r)
  BY Arrivals, Checks, AllWrites, AllImports

LEMMA TabSteps ==
  ASSUME IInv, NEW s \in Songs, PublishTab(s) \/ WithdrawTabs(s),
         overtaken' \subseteq Requests \X Claims
  PROVE  IInv'
  <1>1. UNCHANGED <<rows, songGenres, reqs>> /\ published' \subseteq Songs
    BY DEF PublishTab, WithdrawTabs, IInv, TypeOK
  <1>2. TypeOK' /\ LinksOfRows'
    BY <1>1 DEF IInv, TypeOK, LinksOfRows, Exists
  <1>3. ASSUME NEW r \in Requests PROVE WellFormed(reqs[r])' /\ Fresh(r)'
    <2>1. WellFormed(reqs[r])'
      BY <1>1 DEF IInv, WellFormed, Exists
    <2>2. Fresh(r)'
      BY <1>1 DEF IInv, Fresh, Exists, Creating
    <2> QED
      BY <2>1, <2>2
  <1> QED
    BY <1>2, <1>3 DEF IInv

LEMMA Starts ==
  Init => IInv /\ ClaimsStand
  <1> SUFFICES ASSUME Init PROVE IInv /\ ClaimsStand
    OBVIOUS
  <1>1. Idle("none") \in Request /\ WellFormed(Idle("none")) /\ ~Creating(Idle("none"))
    BY IdleRequest
  <1>2. TypeOK /\ LinksOfRows
    BY <1>1, Identifiers DEF Init, TypeOK, LinksOfRows, Exists
  <1>3. \A r \in Requests : WellFormed(reqs[r]) /\ Fresh(r)
    BY <1>1 DEF Init, Fresh
  <1>4. ASSUME NEW r \in Requests, NEW c \in Claims PROVE Stands(r, c)
    <2>1. reqs[r].pc = "idle" /\ reqs[r].op = "none"
      BY DEF Init, Idle
    <2> QED
      BY <2>1, IdleHolds, StandsIs DEF Claims
  <1> QED
    BY <1>2, <1>3, <1>4 DEF IInv, ClaimsStand

LEMMA ClaimsKept ==
  ASSUME ClaimsStand, NEW movers, Overtake(movers), \A r \in Requests \cap movers : OwnStep(r)
  PROVE  ClaimsStand'
  <1> SUFFICES ASSUME NEW r \in Requests, NEW c \in Claims, ~Stands(r, c)'
               PROVE  <<r, c>> \in overtaken'
    BY DEF ClaimsStand
  <1>1. Stands(r, c) \/ <<r, c>> \in overtaken
    BY DEF ClaimsStand
  <1>2. CASE r \in movers
    <2>1. OwnStep(r)
      BY <1>2
    <2>2. Stands(r, c) => Stands(r, c)'
      BY <2>1, OwnStands
    <2> QED
      BY <1>1, <2>2 DEF Overtake
  <1>3. CASE r \notin movers
    BY <1>1, <1>3 DEF Overtake
  <1> QED
    BY <1>2, <1>3

LEMMA NextKeeps ==
  IInv /\ ClaimsStand /\ [Next]_vars => IInv' /\ ClaimsStand'
  <1> SUFFICES ASSUME IInv, ClaimsStand, [Next]_vars PROVE IInv' /\ ClaimsStand'
    OBVIOUS
  <1>1. ASSUME NEW movers, Overtake(movers) PROVE overtaken' \subseteq Requests \X Claims
    BY <1>1 DEF Overtake
  <1>2. ASSUME NEW r \in Requests, Arrive(r) \/ Check(r) \/ Write(r) \/ Import(r), Overtake({r})
        PROVE  IInv' /\ ClaimsStand'
    <2>1. IInv' /\ OwnStep(r)
      BY <1>1, <1>2, Steps
    <2> QED
      BY <1>2, <2>1, ClaimsKept
  <1>3. ASSUME NEW s \in Songs, PublishTab(s) \/ WithdrawTabs(s), Overtake({})
        PROVE  IInv' /\ ClaimsStand'
    <2>1. IInv'
      BY <1>1, <1>3, TabSteps
    <2> QED
      BY <1>3, <2>1, ClaimsKept
  <1>4. CASE UNCHANGED vars
    <2>1. TypeOK' /\ LinksOfRows'
      BY <1>4 DEF vars, IInv, TypeOK, LinksOfRows, Exists
    <2>2. ASSUME NEW r \in Requests PROVE WellFormed(reqs[r])' /\ Fresh(r)'
      <3>1. WellFormed(reqs[r])'
        BY <1>4 DEF vars, IInv, WellFormed, Exists
      <3>2. Fresh(r)'
        BY <1>4 DEF vars, IInv, Fresh, Exists, Creating
      <3> QED
        BY <3>1, <3>2
    <2>3. ASSUME NEW r \in Requests PROVE OwnStep(r)
      <3>1. Carries(reqs[r], reqs[r])
        BY DEF Carries
      <3>2. reqs'[r] = reqs[r] /\ UNCHANGED db
        BY <1>4 DEF vars, db
      <3> QED
        BY <3>1, <3>2, OwnWaits
    <2>4. ASSUME NEW r \in Requests, NEW c \in Claims PROVE Stands(r, c)' \/ <<r, c>> \in overtaken'
      <3>1. Stands(r, c) => Stands(r, c)'
        BY <2>3, OwnStands
      <3>2. Stands(r, c) \/ <<r, c>> \in overtaken
        BY DEF ClaimsStand
      <3> QED
        BY <1>4, <3>1, <3>2 DEF vars
    <2> QED
      BY <2>1, <2>2, <2>4 DEF IInv, ClaimsStand
  <1> QED
    BY <1>2, <1>3, <1>4 DEF Next

THEOREM Invariance ==
  Spec => [](IInv /\ ClaimsStand)
  BY Starts, NextKeeps, PTL DEF Spec

\* The tables hold rows of their types and every song has an artist there is; a
\* request carries what its next statement needs.
THEOREM TypeCorrect ==
  Spec => []TypeOK
  <1>1. IInv => TypeOK
    BY DEF IInv
  <1> QED
    BY <1>1, Invariance, PTL

\* What a request looked up before its write, that the artist and the genres are
\* live, the slug free, the row unused, is false by the time of the write only if
\* another request's step came between.
THEOREM ClaimsAlwaysStand ==
  Spec => []ClaimsStand
  BY Invariance, PTL

-----------------------------------------------------------------------------
(* What the writes do, for the action properties.                          *)

\* A request that acts on a claim that does not stand was overtaken.
LEMMA MisledBy ==
  ASSUME ClaimsStand, NEW r \in Requests, Moves(r), NEW c \in Claims, ~Stands(r, c),
         NEW cs, c \in cs
  PROVE  Misled(cs)
  BY DEF ClaimsStand, Misled

LEMMA MovesTo ==
  ASSUME IInv, NEW r \in Requests, NEW call, Await(r, call), call.pc # reqs[r].pc
  PROVE  Moves(r)
  BY DEF IInv, TypeOK, Await, Moves

LEMMA MovesOff ==
  ASSUME IInv, NEW r \in Requests, NEW code, Answer(r, code), reqs[r].pc # "idle"
  PROVE  Moves(r)
  BY DEF IInv, TypeOK, Answer, Moves, Idle

\* A row is created, with associations if it is a song's.
MakesRow(r) ==
  LET q == reqs[r]
      genres == IF q.genres = UNDEF THEN {} ELSE q.genres
  IN  /\ q.pc \in {"insert", "createSong"} /\ Creating(q) /\ q.id \in Ids /\ ~Exists(q.id)
      /\ q.id \in Songs => q.artist \in Artists /\ Exists(q.artist)
      /\ rows'[q.id] = NewRow(q) /\ \A j \in Ids \ {q.id} : rows'[j] = rows[j]
      /\ songGenres' = songGenres \cup ({q.id} \X genres)
      /\ published' \subseteq published \cup {q.id}

\* A row is marked deleted or not deleted, and keeps its artist.
MarksRow(r, i, mark) ==
  /\ i \in Ids /\ Exists(i) /\ rows'[i] = [rows[i] EXCEPT !.deleted = mark]
  /\ rows'[i] # NULL /\ rows'[i].artist = rows[i].artist /\ rows'[i].deleted = mark
  /\ \A j \in Ids \ {i} : rows'[j] = rows[j]
  /\ UNCHANGED songGenres

\* Rows keep what the properties look at.
KeepsRows ==
  /\ \A i \in Ids : Live(i)' = Live(i) /\ Exists(i)' = Exists(i)
  /\ \A i \in Ids : Exists(i) => rows'[i].artist = rows[i].artist /\ rows'[i].deleted = rows[i].deleted

LEMMA Unwritten ==
  ASSUME UNCHANGED rows
  PROVE  KeepsRows
  BY DEF KeepsRows, Live, Exists

\* The INSERT succeeds.
Inserted(r) == Insert(r) /\ SlugFree(reqs[r].id, reqs[r].artist, reqs[r].slug)

LEMMA InsertMakes ==
  ASSUME IInv, NEW r \in Requests, Inserted(r)
  PROVE  MakesRow(r) /\ Moves(r) /\ published' = published
  <1> DEFINE q == reqs[r]
  <1>1. q.pc = "insert" /\ q \in Request /\ WellFormed(q) /\ Fresh(r) /\ published' = published
    BY DEF Inserted, Insert, IInv, TypeOK
  <1>2. Creating(q)
    BY <1>1 DEF WellFormed, Creating, Request, ImportPcs
  <1>3. rows' = [rows EXCEPT ![q.id] = NewRow(q)] /\ Associate(q.id, q.genres)
    BY DEF Inserted, Insert
  <1>4. /\ q.id \in Ids /\ rows'[q.id] = NewRow(q) /\ \A j \in Ids \ {q.id} : rows'[j] = rows[j]
    BY <1>1, <1>2, <1>3, RowMade
  <1>5. q.id \in Songs => q.artist \in Artists /\ Exists(q.artist)
    BY <1>1, <1>2, Identifiers DEF WellFormed, Creating, ImportPcs
  <1>6. MakesRow(r)
    BY <1>1, <1>2, <1>3, <1>4, <1>5 DEF MakesRow, Fresh, Associate
  <1>7. CASE q.op = "import"
    <2>1. Await(r, Call("import", "songs", NULL, q.id))
      BY <1>7 DEF Inserted, Insert
    <2>2. Call("import", "songs", NULL, q.id).pc = "songs"
      BY DEF Call
    <2> QED
      BY <1>1, <1>6, <2>1, <2>2, MovesTo
  <1>8. CASE q.op # "import"
    BY <1>1, <1>6, <1>8, MovesOff DEF Inserted, Insert
  <1> QED
    BY <1>7, <1>8

LEMMA UpdateKeeps ==
  ASSUME IInv, NEW r \in Requests, Update(r)
  PROVE  KeepsRows
  <1> DEFINE q == reqs[r]
  <1>1. q \in Request /\ WellFormed(q) /\ q.op = "update" /\ q.id \in Ids
    BY DEF IInv, TypeOK, Update, WellFormed, Request, ImportPcs
  <1>2. rows \in [Ids -> Row \cup {NULL}] /\ rows[q.id] \in Row
    BY <1>1 DEF IInv, TypeOK, WellFormed, Exists
  <1>3. CASE rows' = rows
    BY <1>3, Unwritten
  <1>4. CASE rows' # rows
    <2> DEFINE slug == IF q.slug = UNDEF THEN rows[q.id].slug ELSE q.slug
               row == [rows[q.id] EXCEPT !.slug = slug]
    <2>1. rows' = [rows EXCEPT ![q.id] = row]
      BY <1>4 DEF Update
    <2>2. slug \in Slugs
      BY <1>1, <1>2 DEF Request, Row
    <2> HIDE DEF slug
    <2>3. row \in Row /\ row.artist = rows[q.id].artist /\ row.deleted = rows[q.id].deleted
      BY <1>2, <2>2 DEF Row
    <2> HIDE DEF row
    <2>4. rows'[q.id] = row /\ \A j \in Ids \ {q.id} : rows'[j] = rows[j]
      BY <1>1, <1>2, <2>1
    <2>5. row # NULL /\ rows[q.id] # NULL
      BY <1>2, <2>3, NullIsNothing
    <2> QED
      BY <2>3, <2>4, <2>5 DEF KeepsRows, Live, Exists
  <1> QED
    BY <1>3, <1>4

LEMMA Marks ==
  ASSUME IInv, NEW i \in Ids, Exists(i), NEW mark \in BOOLEAN, NEW r \in Requests,
         rows' = [rows EXCEPT ![i].deleted = mark], UNCHANGED songGenres
  PROVE  MarksRow(r, i, mark)
  <1>1. PICK row \in Row : row = [rows[i] EXCEPT !.deleted = mark]
    BY RowMarked
  <1>2. row.artist = rows[i].artist /\ row.deleted = mark
    BY <1>1, RowMarked
  <1>3. rows' = [rows EXCEPT ![i] = row]
    BY <1>1
  <1>4. rows'[i] = row /\ \A j \in Ids \ {i} : rows'[j] = rows[j]
    BY <1>2, <1>3, RowWritten
  <1> QED
    BY <1>1, <1>2, <1>4, NullIsNothing DEF MarksRow

LEMMA DeleteMarks ==
  ASSUME IInv, NEW r \in Requests, SoftDelete(r), rows' # rows
  PROVE  MarksRow(r, reqs[r].id, TRUE) /\ Moves(r) /\ published' = published
         /\ reqs[r].pc = "softDelete"
  <1> DEFINE q == reqs[r]
  <1>1. q.pc = "softDelete" /\ q \in Request /\ WellFormed(q)
    BY DEF SoftDelete, IInv, TypeOK
  <1>2. q.op = "delete" /\ q.id \in Ids /\ Exists(q.id)
    BY <1>1 DEF WellFormed, Request, ImportPcs
  <1>3. /\ rows' = [rows EXCEPT ![q.id].deleted = TRUE] /\ Answer(r, "ok")
        /\ UNCHANGED <<songGenres, published>>
    BY DEF SoftDelete
  <1> QED
    BY <1>1, <1>2, <1>3, Marks, MovesOff

LEMMA RestoreMarks ==
  ASSUME IInv, NEW r \in Requests, RestoreArtist(r)
  PROVE  /\ reqs[r].artist \in Artists /\ MarksRow(r, reqs[r].artist, FALSE)
         /\ published' = published
  <1> DEFINE q == reqs[r]
  <1>1. q.pc = "restoreArtist" /\ WellFormed(q)
    BY DEF RestoreArtist, IInv
  <1>2. q.artist \in Artists /\ q.artist \in Ids /\ Exists(q.artist)
    BY <1>1, Identifiers DEF WellFormed, ImportPcs
  <1>3. rows' = [rows EXCEPT ![q.artist].deleted = FALSE] /\ UNCHANGED <<songGenres, published>>
    BY DEF RestoreArtist
  <1> QED
    BY <1>2, <1>3, Marks

LEMMA StoreEffects ==
  ASSUME IInv, NEW r \in Requests, StoreSong(r)
  PROVE  /\ Moves(r) /\ reqs[r].id \in Songs /\ published' \subseteq published \cup {reqs[r].id}
         /\ \/ MakesRow(r)
            \/ /\ reqs[r].pc = "restoreSong" /\ MarksRow(r, reqs[r].id, FALSE)
               /\ rows[reqs[r].id].artist = reqs[r].artist
            \/ reqs[r].pc = "reuseSong" /\ UNCHANGED <<rows, songGenres>>
  <1> DEFINE q == reqs[r]
  <1>1. /\ q \in Request /\ WellFormed(q) /\ Fresh(r)
        /\ q.pc \in {"createSong", "restoreSong", "reuseSong"}
    BY DEF StoreSong, IInv, TypeOK
  <1>2. q.id \in Songs /\ q.id \in Ids /\ q.op = "import" /\ q.artist \in Artists /\ Exists(q.artist)
    BY <1>1, Identifiers DEF WellFormed, ImportPcs
  <1>3. published' \subseteq published \cup {q.id}
    BY DEF StoreSong
  <1>4. Moves(r)
    <2>1. Await(r, Call("import", "songs", NULL, q.artist))
      BY DEF StoreSong
    <2>2. Call("import", "songs", NULL, q.artist).pc = "songs"
      BY DEF Call
    <2> QED
      BY <1>1, <2>1, <2>2, MovesTo
  <1>5. CASE q.pc = "createSong"
    <2>1. Creating(q)
      BY <1>2, <1>5 DEF Creating
    <2>2. rows' = [rows EXCEPT ![q.id] = NewRow(q)] /\ Associate(q.id, q.genres)
      BY <1>5 DEF StoreSong
    <2>3. rows'[q.id] = NewRow(q) /\ \A j \in Ids \ {q.id} : rows'[j] = rows[j]
      BY <1>5, <2>1, <2>2, RowMade
    <2>4. MakesRow(r)
      BY <1>1, <1>2, <1>3, <1>5, <2>1, <2>2, <2>3 DEF MakesRow, Fresh, Associate
    <2> QED
      BY <1>2, <1>3, <1>4, <2>4
  <1>6. CASE q.pc = "restoreSong"
    <2>1. Exists(q.id) /\ rows[q.id].artist = q.artist
      BY <1>1, <1>6 DEF WellFormed
    <2>2. rows' = [rows EXCEPT ![q.id].deleted = FALSE] /\ UNCHANGED songGenres
      BY <1>6 DEF StoreSong
    <2>3. MarksRow(r, q.id, FALSE)
      BY <1>2, <2>1, <2>2, Marks
    <2> QED
      BY <1>2, <1>3, <1>4, <1>6, <2>1, <2>3
  <1>7. CASE q.pc = "reuseSong"
    BY <1>2, <1>3, <1>4, <1>7 DEF StoreSong
  <1> QED
    BY <1>1, <1>5, <1>6, <1>7

\* Every other step of a request leaves the tables alone, a replacement all but the
\* associations.
LEMMA OtherSteps ==
  ASSUME NEW r \in Requests, Arrive(r) \/ Check(r) \/ Write(r) \/ Import(r),
         ~Inserted(r), ~Update(r), ~(SoftDelete(r) /\ rows' # rows),
         ~RestoreArtist(r), ~StoreSong(r)
  PROVE  UNCHANGED <<rows, published>> /\ (ReplaceInsert(r) \/ UNCHANGED songGenres)
  <1>1. CASE Arrive(r)
    BY <1>1 DEF Arrive, ArriveArtists, ArriveGenres, ArriveSongs, CreateArtist, CreateGenre,
                CreateSong, UpdateArtist, UpdateGenre, UpdateSong, FindToUpdate, DeleteArtist,
                DeleteGenre, DeleteSong, FindToDelete, ResolveById, ResolveBySlug, db
  <1>2. CASE Check(r)
    BY <1>2 DEF Check, FindBySlug, FindGenres, CountUses, db
  <1>3. CASE Write(r)
    BY <1>3 DEF Write, Inserted, Insert, ReplaceDelete, ReplaceInsert, SoftDelete, db
  <1>4. CASE Import(r)
    BY <1>4 DEF Import, NextSong, FindSong, FailSong, EndImport, db
  <1> QED
    BY <1>1, <1>2, <1>3, <1>4

-----------------------------------------------------------------------------
(* The action properties.                                                  *)

NewOrphan(s) == Orphan(s)' /\ ~Orphan(s)

NewStale(s, g) == StaleGenre(s, g)' /\ ~StaleGenre(s, g)

NewHidden(s) == Hidden(s)' /\ ~Hidden(s)

\* Rows that keep artist and deletion make nothing of the kind.
LEMMA KeptRows ==
  ASSUME IInv, KeepsRows, NEW s \in Songs
  PROVE  /\ ~NewOrphan(s)
         /\ \A g \in Genres : NewStale(s, g) => <<s, g>> \notin songGenres /\ ~Live(g)
         /\ NewHidden(s) => s \notin published /\ rows[s].deleted
  <1>1. s \in Ids /\ Genres \subseteq Ids
    BY Identifiers
  <1>2. Live(s)' => Exists(s) /\ rows[s].artist \in Ids /\ rows'[s].artist = rows[s].artist
    BY <1>1, Identifiers DEF KeepsRows, Live, IInv, TypeOK
  <1>3. ~NewOrphan(s)
    BY <1>1, <1>2 DEF NewOrphan, Orphan, KeepsRows, Live, Exists
  <1>4. \A g \in Genres : NewStale(s, g) => <<s, g>> \notin songGenres /\ ~Live(g)
    BY <1>1 DEF NewStale, StaleGenre, KeepsRows
  <1>5. NewHidden(s) => s \notin published /\ rows[s].deleted
    BY <1>1 DEF NewHidden, Hidden, KeepsRows, Exists
  <1> QED
    BY <1>3, <1>4, <1>5

LEMMA MadeRow ==
  ASSUME IInv, ClaimsStand, NEW r \in Requests, MakesRow(r), Moves(r), NEW s \in Songs
  PROVE  /\ NewOrphan(s) => Misled({"artist", "unused"})
         /\ \A g \in Genres : NewStale(s, g) => Misled({"genres", "unused"})
         /\ ~NewHidden(s)
  <1> DEFINE q == reqs[r]
  <1>1. s \in Ids /\ Genres \subseteq Ids /\ Artists \subseteq Ids
    BY Identifiers
  <1>2. PICK i, a, genres :
          i \in Ids /\ i = q.id /\ a = q.artist /\ genres = IF q.genres = UNDEF THEN {} ELSE q.genres
    BY DEF MakesRow
  <1>3. /\ ~Exists(i) /\ rows'[i] = NewRow(q) /\ \A j \in Ids \ {i} : rows'[j] = rows[j]
        /\ songGenres' = songGenres \cup ({i} \X genres) /\ published' \subseteq published \cup {i}
    BY <1>2 DEF MakesRow
  <1>4. rows'[i].artist = a /\ rows'[i].deleted = FALSE
    BY <1>2, <1>3 DEF NewRow
  <1>5. q.pc \in {"insert", "createSong"} /\ q.op \in {"create", "import"}
    BY DEF MakesRow, Creating
  <1>6. \A j \in Ids : Live(j) => Live(j)'
    BY <1>3 DEF Live, Exists
  <1>7. \A e \in songGenres : Exists(e[1])
    BY DEF IInv, LinksOfRows
  <1>8. CASE s = i
    <2>1. a \in Artists /\ ((q.op = "create" /\ q.id \in Songs) \/ q.pc = "createSong")
      BY <1>2, <1>5, <1>8, Identifiers DEF MakesRow, Creating, IInv, WellFormed, ImportPcs
    <2>2. ~Hidden(s)'
      BY <1>4, <1>8 DEF Hidden
    <2>3. ASSUME NewOrphan(s) PROVE Misled({"artist", "unused"})
      <3>1. ~Live(a)'
        BY <1>4, <1>8, <2>3 DEF NewOrphan, Orphan
      <3>2. ~Live(a)
        BY <1>1, <1>6, <2>1, <3>1
      <3>3. ~Stands(r, "artist")
        BY <1>2, <2>1, <3>2, StandsIs DEF ArtistHolds, ImportPcs
      <3> QED
        BY <3>3, MisledBy DEF Claims
    <2>4. ASSUME NEW g \in Genres, NewStale(s, g) PROVE Misled({"genres", "unused"})
      <3>1. <<s, g>> \in songGenres' /\ ~Live(g)'
        BY <2>4 DEF NewStale, StaleGenre
      <3>2. <<s, g>> \notin songGenres
        BY <1>3, <1>7, <1>8
      <3>3. g \in genres
        BY <1>3, <3>1, <3>2
      <3>4. ~Live(g)
        BY <1>1, <1>6, <3>1
      <3>5. ~Stands(r, "genres")
        BY <1>2, <1>5, <3>3, <3>4, StandsIs DEF GenresHold, GenresLive
      <3> QED
        BY <3>5, MisledBy DEF Claims
    <2> QED
      BY <2>2, <2>3, <2>4 DEF NewHidden
  <1>9. CASE s # i
    <2>1. rows'[s] = rows[s] /\ Live(s)' = Live(s)
      BY <1>1, <1>3, <1>9 DEF Live, Exists
    <2>2. ~NewHidden(s)
      BY <1>3, <1>9, <2>1 DEF NewHidden, Hidden, Exists
    <2>3. ~NewOrphan(s)
      <3>1. Live(s) => rows[s].artist \in Ids
        BY <1>1 DEF Live, IInv, TypeOK
      <3> QED
        BY <1>6, <2>1, <3>1 DEF NewOrphan, Orphan
    <2>4. \A g \in Genres : ~NewStale(s, g)
      BY <1>1, <1>3, <1>6, <1>9, <2>1 DEF NewStale, StaleGenre
    <2> QED
      BY <2>2, <2>3, <2>4
  <1> QED
    BY <1>8, <1>9

\* Restoring a row: nothing gets worse for other rows.
LEMMA UnmarkedRow ==
  ASSUME IInv, NEW r \in Requests, NEW i, MarksRow(r, i, FALSE), NEW s \in Songs
  PROVE  /\ i # s => ~NewOrphan(s)
         /\ NewOrphan(s) => ~Live(rows[i].artist)
         /\ \A g \in Genres : NewStale(s, g) =>
              i = s /\ Exists(s) /\ rows[s].deleted /\ rows'[s] = [rows[s] EXCEPT !.deleted = FALSE]
         /\ published' \subseteq published \cup {i} => ~NewHidden(s)
  <1>1. s \in Ids /\ Genres \subseteq Ids /\ Artists \subseteq Ids
    BY Identifiers
  <1>2. /\ i \in Ids /\ Exists(i) /\ rows'[i] = [rows[i] EXCEPT !.deleted = FALSE]
        /\ rows'[i] # NULL /\ rows'[i].artist = rows[i].artist /\ rows'[i].deleted = FALSE
        /\ \A j \in Ids \ {i} : rows'[j] = rows[j]
        /\ UNCHANGED songGenres
    BY DEF MarksRow
  <1>3. \A j \in Ids : Live(j) => Live(j)'
    BY <1>2 DEF Live, Exists
  <1>4. i # s => Live(s)' = Live(s) /\ rows'[s] = rows[s]
    BY <1>1, <1>2 DEF Live, Exists
  <1>5. Exists(s) => rows[s].artist \in Ids
    BY <1>1 DEF IInv, TypeOK
  <1>6. i # s => ~NewOrphan(s)
    BY <1>3, <1>4, <1>5 DEF NewOrphan, Orphan, Live
  <1>7. NewOrphan(s) => ~Live(rows[i].artist)
    <2> SUFFICES ASSUME NewOrphan(s) PROVE ~Live(rows[s].artist) /\ i = s
      OBVIOUS
    <2>1. PICK a : a = rows[s].artist
      OBVIOUS
    <2>2. i = s /\ rows'[s].artist = a /\ a \in Ids
      BY <1>2, <1>5, <1>6, <2>1
    <2>3. ~Live(a)'
      BY <2>2 DEF NewOrphan, Orphan
    <2> QED
      BY <1>3, <2>1, <2>2, <2>3
  <1>8. ASSUME NEW g \in Genres, NewStale(s, g)
        PROVE  i = s /\ Exists(s) /\ rows[s].deleted /\ rows'[s] = [rows[s] EXCEPT !.deleted = FALSE]
    <2>1. <<s, g>> \in songGenres /\ ~Live(g) /\ Live(s)'
      BY <1>1, <1>2, <1>3, <1>8 DEF NewStale, StaleGenre
    <2>2. ~Live(s)
      BY <1>8, <2>1 DEF NewStale, StaleGenre
    <2>3. i = s
      BY <1>4, <2>1, <2>2
    <2> QED
      BY <1>2, <2>2, <2>3 DEF Live
  <1>9. published' \subseteq published \cup {i} => ~NewHidden(s)
    BY <1>1, <1>2, <1>4 DEF NewHidden, Hidden, Exists
  <1> QED
    BY <1>6, <1>7, <1>8, <1>9

LEMMA DeletedRow ==
  ASSUME IInv, ClaimsStand, NEW r \in Requests, SoftDelete(r), rows' # rows, NEW s \in Songs
  PROVE  /\ NewOrphan(s) => Misled({"artist", "unused"})
         /\ \A g \in Genres : NewStale(s, g) => Misled({"genres", "unused"})
         /\ NewHidden(s) => Misled({"unused", "song"})
  <1>1. s \in Ids /\ Genres \subseteq Ids /\ Artists \subseteq Ids
    BY Identifiers
  <1>2. PICK i : i = reqs[r].id
    OBVIOUS
  <1>3. /\ i \in Ids /\ Exists(i)
        /\ rows'[i] # NULL /\ rows'[i].artist = rows[i].artist /\ rows'[i].deleted = TRUE
        /\ \A j \in Ids \ {i} : rows'[j] = rows[j]
        /\ UNCHANGED <<songGenres, published>> /\ Moves(r) /\ reqs[r].pc = "softDelete"
    BY <1>2, DeleteMarks DEF MarksRow
  <1>4. \A j \in Ids \ {i} : Live(j)' = Live(j)
    BY <1>3 DEF Live, Exists
  <1>5. ~Live(i)'
    BY <1>3 DEF Live
  <1>6. ASSUME InUse(i), NEW cs, "unused" \in cs PROVE Misled(cs)
    <2>1. ~Stands(r, "unused")
      BY <1>2, <1>3, <1>6, StandsIs DEF UnusedHolds
    <2> QED
      BY <1>3, <1>6, <2>1, MisledBy DEF Claims
  <1>7. ASSUME NewOrphan(s) PROVE Misled({"artist", "unused"})
    <2>1. PICK a : a = rows'[s].artist
      OBVIOUS
    <2>2. Live(s)' /\ ~Live(a)'
      BY <1>7, <2>1 DEF NewOrphan, Orphan
    <2>3. s # i /\ Live(s) /\ rows[s].artist = a
      BY <1>1, <1>3, <1>4, <1>5, <2>1, <2>2
    <2>4. Live(a) /\ a \in Artists
      BY <1>7, <2>3 DEF NewOrphan, Orphan, IInv, TypeOK, Live
    <2>5. a = i
      BY <1>1, <1>4, <2>2, <2>4
    <2>6. InUse(i)
      BY <2>3, <2>4, <2>5, Identifiers DEF InUse
    <2> QED
      BY <1>6, <2>6
  <1>8. ASSUME NEW g \in Genres, NewStale(s, g) PROVE Misled({"genres", "unused"})
    <2>1. Live(s)' /\ <<s, g>> \in songGenres /\ ~Live(g)'
      BY <1>3, <1>8 DEF NewStale, StaleGenre
    <2>2. Live(s)
      BY <1>1, <1>4, <1>5, <2>1
    <2>3. Live(g)
      BY <1>8, <2>1, <2>2 DEF NewStale, StaleGenre
    <2>4. g = i /\ i \notin Artists
      BY <1>1, <1>4, <2>1, <2>3, Identifiers
    <2>5. InUse(i)
      BY <2>1, <2>2, <2>4, Identifiers DEF InUse
    <2> QED
      BY <1>6, <2>5
  <1>9. ASSUME NewHidden(s) PROVE Misled({"unused", "song"})
    <2>1. s \in published
      BY <1>3, <1>9 DEF NewHidden, Hidden
    <2>2. s = i
      BY <1>1, <1>3, <1>9 DEF NewHidden, Hidden, Exists
    <2>3. InUse(i)
      BY <2>1, <2>2, Identifiers DEF InUse
    <2> QED
      BY <1>6, <2>3
  <1> QED
    BY <1>7, <1>8, <1>9

LEMMA ReplacedGenres ==
  ASSUME IInv, ClaimsStand, NEW r \in Requests, ReplaceInsert(r), NEW s \in Songs,
         NEW g \in Genres, NewStale(s, g)
  PROVE  Misled({"genres", "unused"})
  <1>1. PICK i, genres : i = reqs[r].id /\ genres = reqs[r].genres
    OBVIOUS
  <1>2. UNCHANGED rows /\ reqs[r].pc = "replaceInsert" /\ reqs \in [Requests -> Request]
    BY DEF ReplaceInsert, IInv, TypeOK
  <1>3. <<s, g>> \in songGenres' /\ <<s, g>> \notin songGenres /\ ~Live(g)
    BY <1>2 DEF NewStale, StaleGenre, Live, Exists
  <1>4. s = i /\ g \in genres
    <2>1. songGenres' # songGenres
      BY <1>3
    <2>2. PICK kept : /\ kept = GenresOf(i) \ reqs[r].seen
                      /\ songGenres' = {e \in songGenres : e[1] # i} \cup ({i} \X (kept \cup genres))
      BY <1>1, <2>1 DEF ReplaceInsert
    <2>3. <<s, g>> \in {i} \X (kept \cup genres)
      BY <1>3, <2>2
    <2>4. s = i /\ g \in kept \cup genres
      BY <2>3
    <2>5. g \notin kept
      BY <1>3, <2>2, <2>4 DEF GenresOf
    <2> QED
      BY <2>4, <2>5
  <1>5. genres # UNDEF
    BY <1>1, <1>2, UndefIsNothing DEF IInv, WellFormed
  <1>6. ~Stands(r, "genres")
    BY <1>1, <1>2, <1>3, <1>4, <1>5, StandsIs DEF GenresHold, GenresLive
  <1>7. Moves(r)
    <2> DEFINE q == reqs[r]
               kept == GenresOf(q.id) \ q.seen
               call == [q EXCEPT !.pc = "write", !.seen = {}]
               Rival(p) == reqs[p].pc = "replaceInsert" /\ reqs[p].id = q.id
    <2>1. CASE kept \cap q.genres = {}
      <3>1. reqs' = [p \in Requests |->
                       IF p = r THEN call
                       ELSE IF Rival(p) THEN [reqs[p] EXCEPT !.seen = @ \ q.seen] ELSE reqs[p]]
        BY <2>1 DEF ReplaceInsert
      <3>2. call.pc = "write"
        BY <1>2 DEF Request
      <3> QED
        BY <1>2, <3>1, <3>2 DEF Moves
    <2>2. CASE kept \cap q.genres # {}
      BY <1>2, <2>2, MovesOff DEF ReplaceInsert
    <2> QED
      BY <2>1, <2>2
  <1> QED
    BY <1>6, <1>7, MisledBy DEF Claims

\* A step of a request, song by song.
LEMMA Effects ==
  ASSUME IInv, ClaimsStand, NEW r \in Requests, NEW s \in Songs,
         Arrive(r) \/ Check(r) \/ Write(r) \/ Import(r)
  PROVE  /\ NewOrphan(s) => Misled({"artist", "unused"})
         /\ \A g \in Genres : NewStale(s, g) =>
              \/ Misled({"genres", "unused"})
              \/ Exists(s) /\ rows[s].deleted /\ rows'[s] = [rows[s] EXCEPT !.deleted = FALSE]
         /\ NewHidden(s) => Misled({"unused", "song"})
  <1>1. CASE Inserted(r)
    BY <1>1, InsertMakes, MadeRow
  <1>2. CASE Update(r)
    <2>1. UNCHANGED <<songGenres, published>>
      BY <1>2 DEF Update
    <2>2. NewHidden(s) => s \in published
      BY <2>1 DEF NewHidden, Hidden
    <2>3. \A g \in Genres : NewStale(s, g) => <<s, g>> \in songGenres
      BY <2>1 DEF NewStale, StaleGenre
    <2> QED
      BY <1>2, <2>2, <2>3, UpdateKeeps, KeptRows
  <1>3. CASE SoftDelete(r) /\ rows' # rows
    BY <1>3, DeletedRow
  <1>4. CASE RestoreArtist(r)
    <2>1. PICK i : i = reqs[r].artist
      OBVIOUS
    <2>2. i \in Artists /\ MarksRow(r, i, FALSE) /\ published' = published /\ i # s
      BY <1>4, <2>1, RestoreMarks, Identifiers
    <2> QED
      BY <2>2, UnmarkedRow
  <1>5. CASE StoreSong(r)
    <2>1. PICK i : i = reqs[r].id
      OBVIOUS
    <2>2. Moves(r) /\ published' \subseteq published \cup {i}
      BY <1>5, <2>1, StoreEffects
    <2>3. CASE MakesRow(r)
      BY <2>2, <2>3, MadeRow
    <2>4. CASE reqs[r].pc = "restoreSong" /\ MarksRow(r, i, FALSE) /\ rows[i].artist = reqs[r].artist
      <3>1. /\ NewOrphan(s) => ~Live(rows[i].artist)
            /\ \A g \in Genres : NewStale(s, g) =>
                 Exists(s) /\ rows[s].deleted /\ rows'[s] = [rows[s] EXCEPT !.deleted = FALSE]
            /\ ~NewHidden(s)
        BY <2>2, <2>4, UnmarkedRow
      <3>2. ASSUME NewOrphan(s) PROVE Misled({"artist", "unused"})
        <4>1. ~Stands(r, "artist")
          BY <2>4, <3>1, <3>2, StandsIs DEF ArtistHolds, ImportPcs
        <4> QED
          BY <2>2, <4>1, MisledBy DEF Claims
      <3> QED
        BY <3>1, <3>2
    <2>5. CASE reqs[r].pc = "reuseSong" /\ UNCHANGED <<rows, songGenres>>
      <3>1. ~NewOrphan(s) /\ \A g \in Genres : ~NewStale(s, g)
        BY <2>5 DEF NewOrphan, Orphan, NewStale, StaleGenre, Live, Exists
      <3>2. ASSUME NewHidden(s) PROVE Misled({"unused", "song"})
        <4>1. s = i /\ ~Live(s)
          BY <2>2, <2>5, <3>2 DEF NewHidden, Hidden, Exists, Live
        <4>2. ~Stands(r, "song")
          BY <2>1, <2>5, <4>1, StandsIs DEF SongHolds
        <4> QED
          BY <2>2, <4>2, MisledBy DEF Claims
      <3> QED
        BY <3>1, <3>2
    <2> QED
      BY <1>5, <2>1, <2>3, <2>4, <2>5, StoreEffects
  <1>6. CASE /\ ~Inserted(r) /\ ~Update(r) /\ ~(SoftDelete(r) /\ rows' # rows)
             /\ ~RestoreArtist(r) /\ ~StoreSong(r)
    <2>1. UNCHANGED <<rows, published>> /\ (ReplaceInsert(r) \/ UNCHANGED songGenres)
      BY <1>6, OtherSteps
    <2>2. ~NewOrphan(s) /\ ~NewHidden(s)
      BY <2>1 DEF NewOrphan, Orphan, NewHidden, Hidden, Live, Exists
    <2>3. UNCHANGED songGenres => \A g \in Genres : ~NewStale(s, g)
      BY <2>1 DEF NewStale, StaleGenre, Live, Exists
    <2> QED
      BY <2>1, <2>2, <2>3, ReplacedGenres
  <1> QED
    BY <1>1, <1>2, <1>3, <1>4, <1>5, <1>6

\* A song's tabs change nothing else.
LEMMA TabEffects ==
  ASSUME NEW t \in Songs, PublishTab(t) \/ WithdrawTabs(t), NEW s \in Songs
  PROVE  /\ ~NewOrphan(s) /\ reqs' = reqs
         /\ \A g \in Genres : ~NewStale(s, g)
  BY DEF PublishTab, WithdrawTabs, NewOrphan, Orphan, NewStale, StaleGenre, Live, Exists

\* A live song comes to have a deleted artist only by two requests that crossed.
THEOREM OrphansNeedARace ==
  Spec => OrphansOnlyWhenOvertaken
  <1>1. IInv /\ ClaimsStand /\ [Next]_vars =>
          [\A s \in Songs : Orphan(s)' /\ ~Orphan(s) => Misled({"artist", "unused"})]_vars
    BY Effects, TabEffects DEF Next, NewOrphan
  <1> QED
    BY <1>1, Invariance, PTL DEF Spec, OrphansOnlyWhenOvertaken

\* A live song comes to have a deleted genre only by two requests that crossed, or by
\* the restoration of a song.
THEOREM StaleGenresNeedARace ==
  Spec => StaleGenresOnlyWhenOvertaken
  <1>1. IInv /\ ClaimsStand /\ [Next]_vars =>
          [\A s \in Songs, g \in Genres :
             StaleGenre(s, g)' /\ ~StaleGenre(s, g)
               => \/ Misled({"genres", "unused"})
                  \/ Exists(s) /\ rows[s].deleted /\ rows'[s] = [rows[s] EXCEPT !.deleted = FALSE]]_vars
    BY Effects, TabEffects DEF Next, NewStale
  <1> QED
    BY <1>1, Invariance, PTL DEF Spec, StaleGenresOnlyWhenOvertaken

\* A deleted song comes to have published tabs only when its tabs, or its deletion,
\* were changed under a request, or when a tab of it is published.
THEOREM HiddenTabsNeedARace ==
  Spec => HiddenTabsOnlyWhenOvertaken
  <1>1. IInv /\ ClaimsStand /\ [Next]_vars =>
          [\A s \in Songs :
             Hidden(s)' /\ ~Hidden(s) => reqs' = reqs \/ Misled({"unused", "song"})]_vars
    BY Effects, TabEffects DEF Next, NewHidden
  <1> QED
    BY <1>1, Invariance, PTL DEF Spec, HiddenTabsOnlyWhenOvertaken

\* Only the second statement of replaceForSong moves a request that awaits it.
LEMMA OnlyReplaces ==
  ASSUME NEW r \in Requests, reqs[r].pc = "replaceInsert",
         Arrive(r) \/ Check(r) \/ Write(r) \/ Import(r)
  PROVE  ReplaceInsert(r)
  <1>1. ~Arrive(r)
    BY DEF Arrive, ArriveArtists, ArriveGenres, ArriveSongs, CreateArtist, CreateGenre,
           CreateSong, UpdateArtist, UpdateGenre, UpdateSong, FindToUpdate, DeleteArtist,
           DeleteGenre, DeleteSong, FindToDelete, ResolveById, ResolveBySlug, Ready
  <1>2. ~Check(r)
    BY DEF Check, FindBySlug, FindGenres, CountUses
  <1>3. ~Import(r)
    BY DEF Import, RestoreArtist, NextSong, FindSong, StoreSong, FailSong, EndImport
  <1>4. Write(r) => ReplaceInsert(r)
    BY DEF Write, Insert, ReplaceDelete, Update, SoftDelete
  <1> QED
    BY <1>1, <1>2, <1>3, <1>4

LEMMA OneMoves ==
  ASSUME IInv, NEW r \in Requests, NEW p \in Requests, p # r,
         Arrive(r) \/ Check(r) \/ Write(r) \/ Import(r)
  PROVE  reqs'[p].pc = reqs[p].pc /\ reqs'[p].resp = reqs[p].resp
  <1>1. reqs \in [Requests -> Request]
    BY DEF IInv, TypeOK
  <1>2. ASSUME \E call : Await(r, call)
        PROVE  reqs'[p].pc = reqs[p].pc /\ reqs'[p].resp = reqs[p].resp
    BY <1>1, <1>2 DEF Await
  <1>3. \A code : Answer(r, code) => \E call : Await(r, call)
    BY DEF Answer, Await
  <1>4. CASE Arrive(r)
    <2>1. \A a : Resolve(r, a) => \E call : Await(r, call)
      BY DEF Resolve
    <2>2. \A q : CheckSlug(r, q) => \E call : Await(r, call)
      BY <1>3 DEF CheckSlug
    <2>3. \A i, slug, genres : FindToUpdate(r, i, slug, genres) => \E call : Await(r, call)
      BY <1>3 DEF FindToUpdate
    <2>4. \A i : FindToDelete(r, i) => \E call : Await(r, call)
      BY <1>3 DEF FindToDelete
    <2>5. CreateSong(r) => \E call : Await(r, call)
      BY <1>3 DEF CreateSong
    <2>6. ResolveById(r) \/ ResolveBySlug(r) => \E call : Await(r, call)
      BY <1>3, <2>1 DEF ResolveById, ResolveBySlug
    <2> QED
      BY <1>2, <1>4, <2>2, <2>3, <2>4, <2>5, <2>6
         DEF Arrive, ArriveArtists, ArriveGenres, ArriveSongs, CreateArtist, CreateGenre,
             UpdateArtist, UpdateGenre, UpdateSong, DeleteArtist, DeleteGenre, DeleteSong
  <1>5. CASE Check(r)
    BY <1>2, <1>3, <1>5 DEF Check, FindBySlug, CheckSlug, FindGenres, CountUses
  <1>6. CASE Import(r)
    BY <1>2, <1>3, <1>6
       DEF Import, RestoreArtist, NextSong, FindSong, StoreSong, FailSong, EndImport
  <1>7. CASE ReplaceInsert(r)
    <2> DEFINE q == reqs[r]
               kept == GenresOf(q.id) \ q.seen
               call == [q EXCEPT !.pc = "write", !.seen = {}]
               Rival(x) == reqs[x].pc = "replaceInsert" /\ reqs[x].id = q.id
    <2>1. CASE kept \cap q.genres = {}
      <3>1. reqs' = [x \in Requests |->
                       IF x = r THEN call
                       ELSE IF Rival(x) THEN [reqs[x] EXCEPT !.seen = @ \ q.seen] ELSE reqs[x]]
        BY <1>7, <2>1 DEF ReplaceInsert
      <3>2. LET other == [reqs[p] EXCEPT !.seen = @ \ q.seen]
            IN  other.pc = reqs[p].pc /\ other.resp = reqs[p].resp
        BY <1>1 DEF Request
      <3> QED
        BY <3>1, <3>2
    <2>2. CASE kept \cap q.genres # {}
      BY <1>2, <1>3, <1>7, <2>2 DEF ReplaceInsert
    <2> QED
      BY <2>1, <2>2
  <1>8. CASE Insert(r) \/ ReplaceDelete(r) \/ Update(r) \/ SoftDelete(r)
    BY <1>2, <1>3, <1>8 DEF Insert, ReplaceDelete, Update, SoftDelete
  <1> QED
    BY <1>4, <1>5, <1>6, <1>7, <1>8 DEF Write

LEMMA ReplacesAll ==
  ASSUME IInv, ClaimsStand, NEW r \in Requests, ReplaceInsert(r), reqs'[r].pc = "write"
  PROVE  GenresOf(reqs[r].id)' = reqs[r].genres \/ <<r, "seen">> \in overtaken
  <1> SUFFICES ASSUME <<r, "seen">> \notin overtaken
               PROVE  GenresOf(reqs[r].id)' = reqs[r].genres
    OBVIOUS
  <1>1. PICK i, genres, seen : i = reqs[r].id /\ genres = reqs[r].genres /\ seen = reqs[r].seen
    OBVIOUS
  <1>2. /\ reqs[r].pc = "replaceInsert" /\ reqs \in [Requests -> Request] /\ reqs[r] \in Request
        /\ genres \subseteq Genres
    BY <1>1 DEF ReplaceInsert, IInv, TypeOK, WellFormed, GenreLists
  <1>3. GenresOf(i) \ seen = {}
    <2>1. Stands(r, "seen")
      BY DEF ClaimsStand, Claims
    <2> QED
      BY <1>1, <1>2, <2>1, StandsIs DEF SeenHolds
  <1>4. songGenres' = {e \in songGenres : e[1] # i} \cup ({i} \X genres)
    BY <1>1, <1>3 DEF ReplaceInsert
  <1>5. reqs'[r].id = i
    <2> DEFINE q == reqs[r]
               kept == GenresOf(q.id) \ q.seen
               call == [q EXCEPT !.pc = "write", !.seen = {}]
               Rival(p) == reqs[p].pc = "replaceInsert" /\ reqs[p].id = q.id
    <2>1. reqs' = [p \in Requests |->
                     IF p = r THEN call
                     ELSE IF Rival(p) THEN [reqs[p] EXCEPT !.seen = @ \ q.seen] ELSE reqs[p]]
      BY <1>1, <1>3 DEF ReplaceInsert
    <2>2. call.id = q.id
      BY <1>2 DEF Request
    <2> QED
      BY <1>1, <2>1, <2>2
  <1>6. {g \in Genres : <<i, g>> \in songGenres'} = genres
    BY <1>2, <1>4
  <1> QED
    BY <1>1, <1>5, <1>6 DEF GenresOf

\* A replacement that commits leaves the song with the genres of its request and no
\* others, unless another replacement committed between its two statements.
THEOREM ReplacementsNeedARace ==
  Spec => ReplacedUnlessOvertaken
  <1>1. ASSUME IInv, ClaimsStand, Next, NEW p \in Requests, Replaces(p)
        PROVE  GenresOf(reqs[p].id)' = reqs[p].genres \/ <<p, "seen">> \in overtaken
    <2>1. reqs'[p].pc # reqs[p].pc /\ reqs[p].pc = "replaceInsert" /\ reqs'[p].pc = "write"
      BY <1>1 DEF Replaces
    <2>2. reqs' # reqs
      BY <2>1
    <2>3. PICK r \in Requests : Arrive(r) \/ Check(r) \/ Write(r) \/ Import(r)
      BY <1>1, <2>2 DEF Next, PublishTab, WithdrawTabs
    <2>4. r = p
      BY <1>1, <2>1, <2>3, OneMoves
    <2> QED
      BY <1>1, <2>1, <2>3, <2>4, OnlyReplaces, ReplacesAll
  <1>2. IInv /\ ClaimsStand /\ [Next]_vars =>
          [\A r \in Requests :
             Replaces(r) => \/ GenresOf(reqs[r].id)' = reqs[r].genres
                            \/ <<r, "seen">> \in overtaken]_vars
    BY <1>1
  <1> QED
    BY <1>2, Invariance, PTL DEF Spec, ReplacedUnlessOvertaken

-----------------------------------------------------------------------------
(* Server errors.                                                          *)

\* A request that awaits a statement has not been answered.
Unanswered == \A r \in Requests : reqs[r].pc # "idle" => reqs[r].resp = "none"

\* Why a request may fail with a server error.
Excused(r) ==
  \/ Exists(reqs[r].id) /\ rows[reqs[r].id].deleted
  \/ <<r, "slug">> \in overtaken
  \/ <<r, "seen">> \in overtaken

\* r goes on, or is answered, with a server error only for one of those reasons.
Outcome(r) ==
  \/ reqs'[r].pc # "idle" /\ reqs'[r].resp = "none"
  \/ reqs'[r].pc = "idle" /\ (reqs'[r].resp = "500" => Excused(r))

LEMMA OutcomeOf ==
  ASSUME IInv, NEW r \in Requests
  PROVE  /\ \A code : Answer(r, code) /\ (code = "500" => Excused(r)) => Outcome(r)
         /\ \A call : Await(r, call) /\ call.pc # "idle" /\ call.resp = "none" => Outcome(r)
  BY DEF IInv, TypeOK, Answer, Await, Idle, Outcome

LEMMA SlugOutcome ==
  ASSUME IInv, NEW r \in Requests, NEW q \in Request, q.resp = "none", CheckSlug(r, q)
  PROVE  Outcome(r)
  <1> DEFINE call == [q EXCEPT !.pc = AfterSlug(q)]
  <1>1. call.pc # "idle" /\ call.resp = "none"
    BY DEF Request, AfterSlug
  <1>2. Answer(r, "409") \/ Await(r, call)
    BY DEF CheckSlug
  <1> HIDE DEF call
  <1> QED
    BY <1>1, <1>2, OutcomeOf

\* No check that a request arrives with fails with a server error.
LEMMA ArrivalOutcome ==
  ASSUME IInv, NEW r \in Requests, Arrive(r)
  PROVE  Outcome(r)
  <1>1. ASSUME NEW i \in Artists \cup Genres, NEW slug \in Slugs,
               CheckSlug(r, [Call("create", "slug", i, NULL) EXCEPT !.slug = slug])
        PROVE  Outcome(r)
    <2> DEFINE q == [Call("create", "slug", i, NULL) EXCEPT !.slug = slug]
    <2>1. q \in Request /\ q.resp = "none"
      BY DEF Call, Request, Ids, GenreLists
    <2>2. CheckSlug(r, q)
      BY <1>1
    <2> HIDE DEF q
    <2> QED
      BY <2>1, <2>2, SlugOutcome
  <1>2. ASSUME NEW s \in Songs, NEW a \in Artists, NEW slug \in Slugs,
               NEW genres \in GenreLists \cup {UNDEF},
               Await(r, [Call("create", "slug", s, a) EXCEPT !.slug = slug, !.genres = genres])
        PROVE  Outcome(r)
    <2> DEFINE call == [Call("create", "slug", s, a) EXCEPT !.slug = slug, !.genres = genres]
    <2>1. call = With(Call("create", "slug", s, a), slug, genres)
      BY DEF With
    <2>2. Await(r, call)
      BY <1>2
    <2> HIDE DEF call
    <2>3. call.pc # "idle" /\ call.resp = "none"
      BY <2>1, CallWith
    <2> QED
      BY <2>2, <2>3, OutcomeOf
  <1>3. ASSUME NEW i \in Ids, NEW slug \in Slugs \cup {UNDEF},
               NEW genres \in GenreLists \cup {UNDEF}, FindToUpdate(r, i, slug, genres)
        PROVE  Outcome(r)
    <2>1. CASE ~Exists(i)
      BY <1>3, <2>1, OutcomeOf DEF FindToUpdate
    <2>2. CASE Exists(i)
      <3> DEFINE q == [Call("update", "slug", i, rows[i].artist) EXCEPT
                         !.slug = slug, !.genres = genres]
                 call == IF slug = UNDEF THEN [q EXCEPT !.pc = AfterSlug(q)] ELSE q
      <3>1. PICK a : a = rows[i].artist
        OBVIOUS
      <3>2. With(Call("update", "slug", i, a), slug, genres) =
              [pc |-> "slug", op |-> "update", id |-> i, artist |-> a, slug |-> slug,
               genres |-> genres, seen |-> {}, resp |-> "none"]
        BY CallWith
      <3>3. q = With(Call("update", "slug", i, a), slug, genres)
        BY <3>1 DEF With
      <3>4. Await(r, call)
        BY <1>3, <2>2 DEF FindToUpdate
      <3> HIDE DEF q
      <3>5. call.pc # "idle" /\ call.resp = "none"
        BY <3>2, <3>3 DEF AfterSlug
      <3> HIDE DEF call
      <3> QED
        BY <3>4, <3>5, OutcomeOf
    <2> QED
      BY <2>1, <2>2
  <1>4. ASSUME NEW i \in Ids, FindToDelete(r, i) PROVE Outcome(r)
    <2>1. LET call == Call("delete", "count", i, NULL) IN call.pc # "idle" /\ call.resp = "none"
      BY DEF Call
    <2> QED
      BY <1>4, <2>1, OutcomeOf DEF FindToDelete
  <1>5. ASSUME NEW a \in Artists, Resolve(r, a) PROVE Outcome(r)
    <2> DEFINE call == Call("import", IF Live(a) THEN "songs" ELSE "restoreArtist", NULL, a)
    <2>1. call.pc # "idle" /\ call.resp = "none"
      BY DEF Call
    <2>2. Await(r, call)
      BY <1>5 DEF Resolve
    <2> HIDE DEF call
    <2> QED
      BY <2>1, <2>2, OutcomeOf
  <1>6. ASSUME NEW a \in Artists, NEW slug \in Slugs,
               Await(r, [Call("import", "insert", a, NULL) EXCEPT !.slug = slug])
        PROVE  Outcome(r)
    <2> DEFINE call == [Call("import", "insert", a, NULL) EXCEPT !.slug = slug]
    <2>1. call.pc # "idle" /\ call.resp = "none"
      BY DEF Call
    <2>2. Await(r, call)
      BY <1>6
    <2> HIDE DEF call
    <2> QED
      BY <2>1, <2>2, OutcomeOf
  <1>7. ArriveArtists(r) => Outcome(r)
    BY <1>1, <1>3, <1>4 DEF ArriveArtists, CreateArtist, UpdateArtist, DeleteArtist, Unused, Ids
  <1>8. ArriveGenres(r) => Outcome(r)
    BY <1>1, <1>3, <1>4 DEF ArriveGenres, CreateGenre, UpdateGenre, DeleteGenre, Unused, Ids
  <1>9. CreateSong(r) => Outcome(r)
    BY <1>2, OutcomeOf DEF CreateSong, Unused
  <1>10. UpdateSong(r) \/ DeleteSong(r) => Outcome(r)
    BY <1>3, <1>4 DEF UpdateSong, DeleteSong, Ids
  <1>11. ResolveById(r) \/ ResolveBySlug(r) => Outcome(r)
    BY <1>5, <1>6, OutcomeOf DEF ResolveById, ResolveBySlug, Unused
  <1> QED
    BY <1>7, <1>8, <1>9, <1>10, <1>11 DEF Arrive, ArriveSongs

\* Neither do the later checks, nor the steps of an import.
LEMMA CheckOutcome ==
  ASSUME IInv, Unanswered, NEW r \in Requests, Check(r) \/ Import(r)
  PROVE  Outcome(r)
  <1> DEFINE Goes(call) == call.pc # "idle" /\ call.resp = "none"
  <1>1. PICK q : q = reqs[r]
    OBVIOUS
  <1>2. q \in Request
    BY <1>1 DEF IInv, TypeOK
  <1>3. ASSUME NEW pc, pc # "idle", NEW slug, NEW genres, NEW i, q.resp = "none"
        PROVE  /\ Goes([q EXCEPT !.pc = pc])
               /\ Goes([q EXCEPT !.pc = pc, !.slug = slug, !.genres = genres])
               /\ Goes([q EXCEPT !.id = i, !.pc = pc])
    BY <1>2, <1>3 DEF Request
  <1>4. \A a : Goes(Call("import", "songs", NULL, a))
    BY DEF Call
  <1>5. CASE q.pc = "idle"
    <2>1. ~Check(r) /\ ~Import(r)
      BY <1>1, <1>5 DEF Check, FindBySlug, FindGenres, CountUses, Import, RestoreArtist, NextSong,
                        FindSong, StoreSong, FailSong, EndImport
    <2> QED
      BY <2>1
  <1>6. CASE q.pc # "idle"
    <2>1. q.resp = "none"
      BY <1>1, <1>6 DEF Unanswered
    <2>2. FindBySlug(r) => Outcome(r)
      BY <1>1, <1>2, <2>1, SlugOutcome DEF FindBySlug
    <2>3. FindGenres(r) \/ CountUses(r) => Outcome(r)
      BY <1>1, <1>3, <2>1, OutcomeOf DEF FindGenres, CountUses
    <2>4. RestoreArtist(r) => Outcome(r)
      <3>1. RestoreArtist(r) => Await(r, [q EXCEPT !.pc = "songs"])
        BY <1>1 DEF RestoreArtist
      <3> QED
        BY <1>3, <2>1, <3>1, OutcomeOf
    <2>5. ASSUME NextSong(r) PROVE Outcome(r)
      <3>1. PICK slug, genres :
              Await(r, [q EXCEPT !.pc = "findSong", !.slug = slug, !.genres = genres])
        BY <1>1, <2>5 DEF NextSong
      <3> DEFINE call == [q EXCEPT !.pc = "findSong", !.slug = slug, !.genres = genres]
      <3>2. call.pc # "idle" /\ call.resp = "none"
        BY <1>3, <2>1
      <3>3. Await(r, call)
        BY <3>1
      <3> HIDE DEF call
      <3> QED
        BY <3>2, <3>3, OutcomeOf
    <2>6. FindSong(r) => Outcome(r)
      <3>1. FindSong(r) => \E s : \E pc \in {"reuseSong", "restoreSong", "createSong"} :
              Await(r, [q EXCEPT !.id = s, !.pc = pc])
        <4> SUFFICES ASSUME FindSong(r)
                     PROVE  \E s : \E pc \in {"reuseSong", "restoreSong", "createSong"} :
                              Await(r, [q EXCEPT !.id = s, !.pc = pc])
          OBVIOUS
        <4>1. CASE \E s \in Songs : Await(r, [q EXCEPT !.id = s,
                                       !.pc = IF Live(s) THEN "reuseSong" ELSE "restoreSong"])
          <5>1. PICK s \in Songs : Await(r, [q EXCEPT !.id = s,
                                      !.pc = IF Live(s) THEN "reuseSong" ELSE "restoreSong"])
            BY <4>1
          <5>2. CASE Live(s)
            BY <5>1, <5>2
          <5>3. CASE ~Live(s)
            BY <5>1, <5>3
          <5> QED
            BY <5>2, <5>3
        <4>2. CASE \E s : Await(r, [q EXCEPT !.id = s, !.pc = "createSong"])
          BY <4>2
        <4> QED
          BY <1>1, <4>1, <4>2 DEF FindSong
      <3> QED
        BY <1>3, <2>1, <3>1, OutcomeOf
    <2>7. StoreSong(r) \/ FailSong(r) \/ EndImport(r) => Outcome(r)
      BY <1>4, OutcomeOf DEF StoreSong, FailSong, EndImport
    <2> QED
      BY <2>2, <2>3, <2>4, <2>5, <2>6, <2>7 DEF Check, Import
  <1> QED
    BY <1>5, <1>6

\* A write that the database refuses meets a deleted row, a slug taken or a genre
\* associated since the request looked.
LEMMA WriteOutcome ==
  ASSUME IInv, ClaimsStand, Unanswered, NEW r \in Requests, Write(r)
  PROVE  Outcome(r)
  <1>1. PICK q : q = reqs[r]
    OBVIOUS
  <1>2. q \in Request /\ WellFormed(q)
    BY <1>1 DEF IInv, TypeOK
  <1>3. q.pc # "idle" /\ q.resp = "none"
    BY <1>1 DEF Unanswered, Write, Insert, ReplaceDelete, ReplaceInsert, Update, SoftDelete
  <1>4. /\ SlugHolds(q) \/ <<r, "slug">> \in overtaken
        /\ SeenHolds(q) \/ <<r, "seen">> \in overtaken
    BY <1>1, StandsIs DEF ClaimsStand, Claims
  <1>5. CASE Insert(r)
    <2>1. q.pc = "insert"
      BY <1>1, <1>5 DEF Insert
    <2>2. CASE SlugFree(q.id, q.artist, q.slug)
      <3>1. \A i : LET call == Call("import", "songs", NULL, i)
                   IN  call.pc # "idle" /\ call.resp = "none"
        BY DEF Call
      <3> QED
        BY <1>1, <1>5, <2>2, <3>1, OutcomeOf DEF Insert
    <2>3. CASE ~SlugFree(q.id, q.artist, q.slug)
      <3>1. q.slug # UNDEF
        BY <1>2, <2>1, UndefIsNothing DEF WellFormed, Request, ImportPcs
      <3>2. <<r, "slug">> \in overtaken
        BY <1>4, <2>1, <2>3, <3>1 DEF SlugHolds
      <3> QED
        BY <1>1, <1>5, <2>3, <3>2, OutcomeOf DEF Insert, Excused
    <2> QED
      BY <2>2, <2>3
  <1>6. CASE ReplaceDelete(r)
    <2>1. \A seen : LET call == [q EXCEPT !.pc = "replaceInsert", !.seen = seen]
                    IN  call.pc # "idle" /\ call.resp = "none"
      BY <1>2, <1>3 DEF Request
    <2> QED
      BY <1>1, <1>6, <2>1, OutcomeOf DEF ReplaceDelete
  <1>7. CASE ReplaceInsert(r)
    <2> DEFINE kept == GenresOf(q.id) \ q.seen
               call == [q EXCEPT !.pc = "write", !.seen = {}]
               Rival(p) == reqs[p].pc = "replaceInsert" /\ reqs[p].id = q.id
    <2>1. CASE kept \cap q.genres = {}
      <3>1. reqs' = [p \in Requests |->
                       IF p = r THEN call
                       ELSE IF Rival(p) THEN [reqs[p] EXCEPT !.seen = @ \ q.seen] ELSE reqs[p]]
        BY <1>1, <1>7, <2>1 DEF ReplaceInsert
      <3>2. call.pc = "write" /\ call.resp = "none"
        BY <1>2, <1>3 DEF Request
      <3> QED
        BY <3>1, <3>2 DEF Outcome
    <2>2. CASE kept \cap q.genres # {}
      <3>1. q.pc = "replaceInsert" /\ ~(GenresOf(q.id) \subseteq q.seen)
        BY <1>1, <1>7, <2>2 DEF ReplaceInsert
      <3>2. <<r, "seen">> \in overtaken
        BY <1>4, <3>1 DEF SeenHolds
      <3> QED
        BY <1>1, <1>7, <2>2, <3>2, OutcomeOf DEF ReplaceInsert, Excused
    <2> QED
      BY <2>1, <2>2
  <1>8. CASE Update(r)
    <2>1. q.pc = "write" /\ Exists(q.id)
      BY <1>1, <1>2, <1>8 DEF Update, WellFormed, Request, ImportPcs
    <2>2. CASE Live(q.id) /\ (q.slug = UNDEF \/ SlugFree(q.id, q.artist, q.slug))
      BY <1>1, <1>8, <2>2, OutcomeOf DEF Update
    <2>3. CASE ~(Live(q.id) /\ (q.slug = UNDEF \/ SlugFree(q.id, q.artist, q.slug)))
      <3>1. Excused(r)
        BY <1>1, <1>4, <2>1, <2>3 DEF Excused, Live, SlugHolds
      <3> QED
        BY <1>1, <1>8, <2>3, <3>1, OutcomeOf DEF Update
    <2> QED
      BY <2>2, <2>3
  <1>9. CASE SoftDelete(r)
    <2>1. Exists(q.id)
      BY <1>1, <1>2, <1>9 DEF SoftDelete, WellFormed, Request, ImportPcs
    <2>2. ~Live(q.id) => Excused(r)
      BY <1>1, <2>1 DEF Excused, Live
    <2> QED
      BY <1>1, <1>9, <2>2, OutcomeOf DEF SoftDelete
  <1> QED
    BY <1>5, <1>6, <1>7, <1>8, <1>9 DEF Write

LEMMA AllOutcomes ==
  ASSUME IInv, ClaimsStand, Unanswered, NEW r \in Requests,
         Arrive(r) \/ Check(r) \/ Write(r) \/ Import(r)
  PROVE  /\ Outcome(r)
         /\ \A p \in Requests : p # r => reqs'[p].pc = reqs[p].pc /\ reqs'[p].resp = reqs[p].resp
  BY ArrivalOutcome, CheckOutcome, WriteOutcome, OneMoves

LEMMA AwaitingUnanswered ==
  Spec => []Unanswered
  <1>1. Init => Unanswered
    BY DEF Init, Unanswered, Idle
  <1>2. IInv /\ ClaimsStand /\ Unanswered /\ [Next]_vars => Unanswered'
    <2> SUFFICES ASSUME IInv, ClaimsStand, Unanswered, [Next]_vars PROVE Unanswered'
      OBVIOUS
    <2>1. CASE reqs' = reqs
      BY <2>1 DEF Unanswered
    <2>2. CASE reqs' # reqs
      <3>1. PICK r \in Requests : Arrive(r) \/ Check(r) \/ Write(r) \/ Import(r)
        BY <2>2 DEF Next, PublishTab, WithdrawTabs, vars
      <3> QED
        BY <3>1, AllOutcomes DEF Unanswered, Outcome
    <2> QED
      BY <2>1, <2>2
  <1> QED
    BY <1>1, <1>2, Invariance, PTL DEF Spec

\* A request fails with a server error only if the row it is about is deleted, or if
\* another request took the slug, or replaced the song's genres, after it had looked.
THEOREM ServerErrorsNeedARace ==
  Spec => ServedUnlessOvertaken
  <1>1. ASSUME IInv, ClaimsStand, Unanswered, Next, NEW p \in Requests,
               Moves(p), reqs'[p].resp = "500"
        PROVE  Excused(p)
    <2>1. reqs' # reqs
      BY <1>1 DEF Moves
    <2>2. PICK r \in Requests : Arrive(r) \/ Check(r) \/ Write(r) \/ Import(r)
      BY <1>1, <2>1 DEF Next, PublishTab, WithdrawTabs
    <2>3. r = p
      BY <1>1, <2>2, OneMoves DEF Moves
    <2> QED
      BY <1>1, <2>2, <2>3, AllOutcomes DEF Outcome
  <1>2. IInv /\ ClaimsStand /\ Unanswered /\ [Next]_vars =>
          [\A r \in Requests :
             Moves(r) /\ reqs'[r].resp = "500"
               => \/ Exists(reqs[r].id) /\ rows[reqs[r].id].deleted
                  \/ <<r, "slug">> \in overtaken
                  \/ <<r, "seen">> \in overtaken]_vars
    BY <1>1 DEF Excused
  <1> QED
    BY <1>2, Invariance, AwaitingUnanswered, PTL DEF Spec, ServedUnlessOvertaken
=============================================================================
