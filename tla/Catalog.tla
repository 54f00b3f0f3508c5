------------------------------- MODULE Catalog -------------------------------
(***************************************************************************)
(* The administrator's catalog: artists, genres, songs and their           *)
(* associations, as AdminArtistsService, AdminGenresService,               *)
(* AdminSongsService and the artist and song steps of a bulk import run    *)
(* them.  One action per statement: every handler checks with one or more  *)
(* queries and writes with another, so requests interleave between them.   *)
(*                                                                         *)
(* The three services follow one pattern, which the model states once: an  *)
(* update finds the row, looks the slug up and writes; a delete finds the  *)
(* row, counts what depends on it and sets deleted_at.  A name stands for  *)
(* its slug; the columns no check reads (sortName, subtitle, releaseYear)  *)
(* are left out.                                                           *)
(***************************************************************************)
EXTENDS Naturals

CONSTANTS
  Artists, Genres, Songs,  \* identifiers, of rows there are and of rows to come
  Slugs,     \* slugified names
  Requests,  \* slots for requests being served at the same time
  NULL,      \* no row, no identifier
  UNDEF      \* a field the request body leaves out

ASSUME KindsDisjoint ==
  /\ Artists \cap Genres = {}
  /\ Artists \cap Songs = {}
  /\ Genres \cap Songs = {}

Ids == Artists \cup Genres \cup Songs

Row == [slug : Slugs, deleted : BOOLEAN, artist : Artists \cup {NULL}]

GenreLists == SUBSET Genres

ASSUME NullIsNothing == NULL \notin Ids /\ NULL \notin Row
ASSUME UndefIsNothing == UNDEF \notin Slugs /\ \A genres \in GenreLists : genres # UNDEF

(***************************************************************************)
(* A request slot.  pc names the next statement.  id is the row the        *)
(* request is about; a creation carries the identifier its row will have.  *)
(* artist is the artist a song is looked up or created under.  seen is     *)
(* what the DELETE of replaceForSong removes when its transaction commits. *)
(***************************************************************************)
ImportPcs == {"restoreArtist", "songs", "findSong", "createSong", "restoreSong", "reuseSong"}

Request == [pc : {"idle", "slug", "genres", "insert", "replaceDelete", "replaceInsert",
                  "write", "count", "softDelete"} \cup ImportPcs,
            op : {"none", "create", "update", "delete", "import"},
            id : Ids \cup {NULL}, artist : Artists \cup {NULL},
            slug : Slugs \cup {UNDEF}, genres : {UNDEF} \cup GenreLists,
            seen : GenreLists,
            resp : {"none", "ok", "404", "409", "422", "500"}]

Idle(code) == [pc |-> "idle", op |-> "none", id |-> NULL, artist |-> NULL,
               slug |-> UNDEF, genres |-> UNDEF, seen |-> {}, resp |-> code]

Call(op, pc, i, a) == [pc |-> pc, op |-> op, id |-> i, artist |-> a,
                       slug |-> UNDEF, genres |-> UNDEF, seen |-> {}, resp |-> "none"]

VARIABLES
  rows,       \* the tables artists, genres and songs
  songGenres, \* the join table
  published,  \* the songs that have a published tab
  reqs,       \* the request each slot is serving
  overtaken   \* history: <<r, c>> when a step of another made claim c of r false

db == <<rows, songGenres, published>>
vars == <<rows, songGenres, published, reqs, overtaken>>

Init ==
  /\ rows = [i \in Ids |-> NULL]
  /\ songGenres = {}
  /\ published = {}
  /\ reqs = [r \in Requests |-> Idle("none")]
  /\ overtaken = {}

-----------------------------------------------------------------------------
(* What the handlers share.                                                *)

Exists(i) == rows[i] # NULL

Live(i) == Exists(i) /\ ~rows[i].deleted

Ready(r) == reqs[r].pc = "idle"

Answer(r, code) == reqs' = [reqs EXCEPT ![r] = Idle(code)]

Await(r, call) == reqs' = [reqs EXCEPT ![r] = call]

\* Identifiers nobody has, and no request is about to give.
Unused(kind) == {i \in kind : ~Exists(i) /\ \A q \in Requests : reqs[q].id # i}

GenresOf(s) == {g \in Genres : <<s, g>> \in songGenres}

\* The rows a slug must be unique among: songs within their artist.
Namespace(i, a) ==
  CASE i \in Artists -> {j \in Artists : Exists(j)}
    [] i \in Genres -> {j \in Genres : Exists(j)}
    [] OTHER -> {j \in Songs : Exists(j) /\ rows[j].artist = a}

\* The unique keys and the finders by slug count deleted rows as well.
SlugFree(i, a, slug) == \A j \in Namespace(i, a) \ {i} : rows[j].slug # slug

\* Mutant of GenresLive: the finder sees deleted genres.
GenresExist(genres) == genres # UNDEF => \A g \in genres : Exists(g)

GenresLive(genres) == genres # UNDEF => \A g \in genres : Live(g)

\* countActiveSongs, countActiveSongAssociations, countPublishedTabs.
InUse(i) ==
  CASE i \in Artists -> \E s \in Songs : Live(s) /\ rows[s].artist = i
    [] i \in Genres -> \E s \in Songs : Live(s) /\ <<s, i>> \in songGenres
    [] OTHER -> i \in published

Associate(s, genres) ==
  songGenres' = songGenres \cup ({s} \X (IF genres = UNDEF THEN {} ELSE genres))

-----------------------------------------------------------------------------
(* The checks: each is a query and what follows it up to the next await.   *)

\* Where a song goes on when its slug is free.
AfterSlug(q) ==
  IF q.genres # UNDEF THEN "genres" ELSE IF q.op = "create" THEN "insert" ELSE "write"

\* Mutant of CheckSlug: the finder sees live rows only.
CheckSlugAmongLive(r, q) ==
  IF \E j \in Namespace(q.id, q.artist) \ {q.id} : Live(j) /\ rows[j].slug = q.slug
    THEN Answer(r, "409")
    ELSE Await(r, [q EXCEPT !.pc = AfterSlug(q)])

\* findBySlug, findByArtistAndSlug.
CheckSlug(r, q) ==
  IF SlugFree(q.id, q.artist, q.slug)
    THEN Await(r, [q EXCEPT !.pc = AfterSlug(q)])
    ELSE Answer(r, "409")

CreateArtist(r) ==
  /\ Ready(r)
  /\ \E a \in Unused(Artists), slug \in Slugs :
       CheckSlug(r, [Call("create", "slug", a, NULL) EXCEPT !.slug = slug])
  /\ UNCHANGED db

CreateGenre(r) ==
  /\ Ready(r)
  /\ \E g \in Unused(Genres), slug \in Slugs :
       CheckSlug(r, [Call("create", "slug", g, NULL) EXCEPT !.slug = slug])
  /\ UNCHANGED db

\* An empty list of genres is not looked up: UNDEF stands for it too.
CreateSong(r) ==
  /\ Ready(r)
  /\ \E s \in Unused(Songs), a \in Artists, slug \in Slugs,
        genres \in (GenreLists \ {{}}) \cup {UNDEF} :
       IF Live(a)
         THEN Await(r, [Call("create", "slug", s, a) EXCEPT
                          !.slug = slug, !.genres = genres])
         ELSE Answer(r, "422")
  /\ UNCHANGED db

\* The finders of the services see deleted rows.
FindToUpdate(r, i, slug, genres) ==
  /\ Ready(r)
  /\ IF Exists(i)
       THEN LET q == [Call("update", "slug", i, rows[i].artist) EXCEPT
                        !.slug = slug, !.genres = genres]
            IN  Await(r, IF slug = UNDEF THEN [q EXCEPT !.pc = AfterSlug(q)] ELSE q)
       ELSE Answer(r, "404")
  /\ UNCHANGED db

UpdateArtist(r) == \E a \in Artists, slug \in Slugs \cup {UNDEF} : FindToUpdate(r, a, slug, UNDEF)

UpdateGenre(r) == \E g \in Genres, slug \in Slugs \cup {UNDEF} : FindToUpdate(r, g, slug, UNDEF)

UpdateSong(r) ==
  \E s \in Songs, slug \in Slugs \cup {UNDEF}, genres \in GenreLists \cup {UNDEF} :
    FindToUpdate(r, s, slug, genres)

FindBySlug(r) ==
  /\ reqs[r].pc = "slug"
  /\ CheckSlug(r, reqs[r])
  /\ UNCHANGED db

\* findByIds returns the live ones.  A list that names a genre twice is refused
\* like one that names a genre there is not.
FindGenres(r) ==
  LET q == reqs[r]
  IN  /\ q.pc = "genres"
      /\ IF GenresLive(q.genres)
           THEN Await(r, [q EXCEPT !.pc = IF q.op = "create" THEN "insert" ELSE "replaceDelete"])
           ELSE Answer(r, "422")
      /\ UNCHANGED db

FindToDelete(r, i) ==
  /\ Ready(r)
  /\ IF Exists(i) THEN Await(r, Call("delete", "count", i, NULL)) ELSE Answer(r, "404")
  /\ UNCHANGED db

DeleteArtist(r) == \E a \in Artists : FindToDelete(r, a)

DeleteGenre(r) == \E g \in Genres : FindToDelete(r, g)

DeleteSong(r) == \E s \in Songs : FindToDelete(r, s)

\* Mutant of CountUses: the count is not looked at.
CountAnyway(r) ==
  /\ reqs[r].pc = "count"
  /\ Await(r, [reqs[r] EXCEPT !.pc = "softDelete"])
  /\ UNCHANGED db

CountUses(r) ==
  /\ reqs[r].pc = "count"
  /\ IF InUse(reqs[r].id)
       THEN Answer(r, "409")
       ELSE Await(r, [reqs[r] EXCEPT !.pc = "softDelete"])
  /\ UNCHANGED db

-----------------------------------------------------------------------------
(* The writes.                                                             *)

\* Mutant of NewRow: the artist is left out.
NewRowAlone(q) == [slug |-> q.slug, deleted |-> FALSE, artist |-> NULL]

NewRow(q) == [slug |-> q.slug, deleted |-> FALSE, artist |-> q.artist]

\* The INSERT of an artist or a genre, and the transaction of createSong: the song
\* and its associations become visible together.  A slug that is taken by now
\* violates the unique key, which no one turns into a conflict.  An import goes on
\* with its songs.
Insert(r) ==
  LET q == reqs[r]
  IN  /\ q.pc = "insert"
      /\ IF SlugFree(q.id, q.artist, q.slug)
           THEN /\ rows' = [rows EXCEPT ![q.id] = NewRow(q)]
                /\ Associate(q.id, q.genres)
                /\ IF q.op = "import"
                     THEN Await(r, Call("import", "songs", NULL, q.id))
                     ELSE Answer(r, "ok")
           ELSE /\ UNCHANGED <<rows, songGenres>>
                /\ Answer(r, "500")
      /\ UNCHANGED published

\* The first statement of replaceForSong deletes the associations it sees: those
\* committed by now.  Nobody else sees that before the transaction commits.
ReplaceDelete(r) ==
  /\ reqs[r].pc = "replaceDelete"
  /\ Await(r, [reqs[r] EXCEPT !.pc = "replaceInsert", !.seen = GenresOf(reqs[r].id)])
  /\ UNCHANGED db

\* Mutant of ReplaceInsert: the associations are added to those there are.
ReplaceInsertOnly(r) ==
  LET q == reqs[r]
  IN  /\ q.pc = "replaceInsert"
      /\ Await(r, [q EXCEPT !.pc = "write", !.seen = {}])
      /\ Associate(q.id, q.genres)
      /\ UNCHANGED <<rows, published>>

\* The second statement and the COMMIT.  An association committed since is not
\* deleted: it stays beside the new ones or, being one of them, violates the
\* primary key.  What this transaction has deleted is no longer there for another
\* one that waits to delete it (READ COMMITTED).
ReplaceInsert(r) ==
  LET q == reqs[r]
      kept == GenresOf(q.id) \ q.seen
      Rival(p) == reqs[p].pc = "replaceInsert" /\ reqs[p].id = q.id
  IN  /\ q.pc = "replaceInsert"
      /\ IF kept \cap q.genres = {}
           THEN /\ songGenres' = {e \in songGenres : e[1] # q.id}
                                   \cup ({q.id} \X (kept \cup q.genres))
                /\ reqs' = [p \in Requests |->
                     IF p = r THEN [q EXCEPT !.pc = "write", !.seen = {}]
                     ELSE IF Rival(p) THEN [reqs[p] EXCEPT !.seen = @ \ q.seen]
                     ELSE reqs[p]]
           ELSE /\ UNCHANGED songGenres
                /\ Answer(r, "500")
      /\ UNCHANGED <<rows, published>>

\* The UPDATE by id matches no deleted row (P2025); a slug taken by now violates
\* the unique key.  No one catches either.
Update(r) ==
  LET q == reqs[r]
  IN  /\ q.pc = "write"
      /\ IF Live(q.id) /\ (q.slug = UNDEF \/ SlugFree(q.id, q.artist, q.slug))
           THEN /\ rows' = [rows EXCEPT ![q.id].slug = IF q.slug = UNDEF THEN @ ELSE q.slug]
                /\ Answer(r, "ok")
           ELSE rows' = rows /\ Answer(r, "500")
      /\ UNCHANGED <<songGenres, published>>

SoftDelete(r) ==
  LET q == reqs[r]
  IN  /\ q.pc = "softDelete"
      /\ IF Live(q.id)
           THEN rows' = [rows EXCEPT ![q.id].deleted = TRUE] /\ Answer(r, "ok")
           ELSE rows' = rows /\ Answer(r, "500")
      /\ UNCHANGED <<songGenres, published>>

-----------------------------------------------------------------------------
(* A bulk import, as far as it writes artists, songs and associations; the *)
(* tabs it stores, and its locks, are module BulkImport's.                 *)

\* Mutant of Resolve: a deleted artist is used as it is.
ResolveAsIs(r, a) == Await(r, Call("import", "songs", NULL, a))

\* The artist found is used, after being restored if need be.
Resolve(r, a) ==
  Await(r, Call("import", IF Live(a) THEN "songs" ELSE "restoreArtist", NULL, a))

ResolveById(r) ==
  /\ Ready(r)
  /\ \E a \in Artists : IF Exists(a) THEN Resolve(r, a) ELSE Answer(r, "422")
  /\ UNCHANGED db

ResolveBySlug(r) ==
  /\ Ready(r)
  /\ \E slug \in Slugs :
       \/ \E a \in Artists : Exists(a) /\ rows[a].slug = slug /\ Resolve(r, a)
       \/ \E a \in Unused(Artists) :
            /\ SlugFree(a, NULL, slug)
            /\ Await(r, [Call("import", "insert", a, NULL) EXCEPT !.slug = slug])
  /\ UNCHANGED db

RestoreArtist(r) ==
  LET q == reqs[r]
  IN  /\ q.pc = "restoreArtist"
      /\ rows' = [rows EXCEPT ![q.artist].deleted = FALSE]
      /\ Await(r, [q EXCEPT !.pc = "songs"])
      /\ UNCHANGED <<songGenres, published>>

\* The next song of the batch, once its genres have been found.  A song whose
\* genres are not all there is left out.
NextSong(r) ==
  LET q == reqs[r]
  IN  /\ q.pc = "songs"
      /\ \E slug \in Slugs, genres \in (GenreLists \ {{}}) \cup {UNDEF} :
           /\ GenresLive(genres)
           /\ Await(r, [q EXCEPT !.pc = "findSong", !.slug = slug, !.genres = genres])
      /\ UNCHANGED db

FindSong(r) ==
  LET q == reqs[r]
  IN  /\ q.pc = "findSong"
      /\ \/ \E s \in Songs :
              /\ Exists(s) /\ rows[s].artist = q.artist /\ rows[s].slug = q.slug
              /\ Await(r, [q EXCEPT !.id = s,
                             !.pc = IF Live(s) THEN "reuseSong" ELSE "restoreSong"])
         \/ \E s \in Unused(Songs) :
              /\ SlugFree(s, q.artist, q.slug)
              /\ Await(r, [q EXCEPT !.id = s, !.pc = "createSong"])
      /\ UNCHANGED db

\* The song's transaction commits: with its row, its associations if it is new, and
\* its tabs, some of them published perhaps.
StoreSong(r) ==
  LET q == reqs[r]
  IN  /\ \/ /\ q.pc = "createSong"
            /\ SlugFree(q.id, q.artist, q.slug)
            /\ rows' = [rows EXCEPT ![q.id] = NewRow(q)]
            /\ Associate(q.id, q.genres)
         \/ /\ q.pc = "restoreSong"
            /\ rows' = [rows EXCEPT ![q.id].deleted = FALSE]
            /\ UNCHANGED songGenres
         \/ /\ q.pc = "reuseSong"
            /\ UNCHANGED <<rows, songGenres>>
      /\ published' \in {published, published \cup {q.id}}
      /\ Await(r, Call("import", "songs", NULL, q.artist))

\* The song's transaction fails, for a slug taken by now or any other reason, and
\* the import goes on.
FailSong(r) ==
  /\ reqs[r].pc \in {"findSong", "createSong", "restoreSong", "reuseSong"}
  /\ Await(r, Call("import", "songs", NULL, reqs[r].artist))
  /\ UNCHANGED db

EndImport(r) ==
  /\ reqs[r].pc = "songs"
  /\ Answer(r, "ok")
  /\ UNCHANGED db

-----------------------------------------------------------------------------
(* The tabs of a song: publishing one looks at the tab only, not at its    *)
(* song.                                                                   *)

PublishTab(s) ==
  /\ Exists(s)
  /\ published' = published \cup {s}
  /\ UNCHANGED <<rows, songGenres, reqs>>

WithdrawTabs(s) ==
  /\ published' = published \ {s}
  /\ UNCHANGED <<rows, songGenres, reqs>>

-----------------------------------------------------------------------------
(* What a request has found out and its next statements rely on.           *)

Claims == {"artist", "genres", "slug", "unused", "song", "seen"}

Stands(r, c) ==
  LET q == reqs[r]
      creates == q.op = "create" /\ q.id \in Songs
  IN  CASE c = "artist" ->
             creates \/ q.pc \in ImportPcs \ {"restoreArtist"} => Live(q.artist)
        [] c = "genres" ->
             q.pc \in {"insert", "replaceDelete", "replaceInsert", "findSong", "createSong"}
               => GenresLive(q.genres)
        [] c = "slug" ->
             q.slug # UNDEF /\ q.pc \in {"genres", "insert", "replaceDelete",
                                         "replaceInsert", "write", "createSong"}
               => SlugFree(q.id, q.artist, q.slug)
        [] c = "unused" -> q.pc = "softDelete" => ~InUse(q.id)
        [] c = "song" -> q.pc = "reuseSong" => Live(q.id)
        [] c = "seen" -> q.pc = "replaceInsert" => GenresOf(q.id) \subseteq q.seen

\* The claims a step makes false, other than its own request's, and those that
\* have been false since.
Overtake(movers) ==
  overtaken' = {o \in Requests \X Claims :
                  /\ ~Stands(o[1], o[2])'
                  /\ \/ o \in overtaken
                     \/ Stands(o[1], o[2]) /\ o[1] \notin movers}

\* The endpoints of admin/artists, admin/genres and admin/songs that write, and the
\* artist of an import.
ArriveArtists(r) == CreateArtist(r) \/ UpdateArtist(r) \/ DeleteArtist(r)

ArriveGenres(r) == CreateGenre(r) \/ UpdateGenre(r) \/ DeleteGenre(r)

ArriveSongs(r) == CreateSong(r) \/ UpdateSong(r) \/ DeleteSong(r)

Arrive(r) ==
  ArriveArtists(r) \/ ArriveGenres(r) \/ ArriveSongs(r) \/ ResolveById(r) \/ ResolveBySlug(r)

Check(r) == FindBySlug(r) \/ FindGenres(r) \/ CountUses(r)

Write(r) ==
  Insert(r) \/ ReplaceDelete(r) \/ ReplaceInsert(r) \/ Update(r) \/ SoftDelete(r)

Import(r) ==
  RestoreArtist(r) \/ NextSong(r) \/ FindSong(r) \/ StoreSong(r) \/ FailSong(r) \/ EndImport(r)

Next ==
  \/ \E r \in Requests : (Arrive(r) \/ Check(r) \/ Write(r) \/ Import(r)) /\ Overtake({r})
  \/ \E s \in Songs : (PublishTab(s) \/ WithdrawTabs(s)) /\ Overtake({})

Spec == Init /\ [][Next]_vars

-----------------------------------------------------------------------------
(* Properties.                                                             *)

\* The tables, the slots and the history variable hold values of their types, and
\* songs have artists.
TypeOK ==
  /\ rows \in [Ids -> Row \cup {NULL}]
  /\ \A s \in Songs : Exists(s) => rows[s].artist \in Artists /\ Exists(rows[s].artist)
  /\ songGenres \subseteq Songs \X Genres
  /\ published \subseteq Songs
  /\ reqs \in [Requests -> Request]
  /\ overtaken \subseteq Requests \X Claims

\* What a request found out is false only if a step of another made it so.
ClaimsStand ==
  \A r \in Requests, c \in Claims : Stands(r, c) \/ <<r, c>> \in overtaken

Moves(r) == reqs'[r].pc # reqs[r].pc

\* The step is one of a request that relies on claims among cs made false by another.
Misled(cs) == \E r \in Requests, c \in cs : Moves(r) /\ <<r, c>> \in overtaken

Orphan(s) == Live(s) /\ ~Live(rows[s].artist)

\* A live song comes to have a deleted artist only when the two requests crossed:
\* the artist was deleted after it had been found live, or it got the song after
\* its songs had been counted.  An import that restores a song restores its artist.
OrphansOnlyWhenOvertaken ==
  [][\A s \in Songs : Orphan(s)' /\ ~Orphan(s) => Misled({"artist", "unused"})]_vars

StaleGenre(s, g) == Live(s) /\ <<s, g>> \in songGenres /\ ~Live(g)

\* A live song comes to have a deleted genre only when two requests crossed, or
\* when an import restores a song whose genre was deleted while it was deleted.
StaleGenresOnlyWhenOvertaken ==
  [][\A s \in Songs, g \in Genres :
       StaleGenre(s, g)' /\ ~StaleGenre(s, g)
         => \/ Misled({"genres", "unused"})
            \/ Exists(s) /\ rows[s].deleted /\ rows'[s] = [rows[s] EXCEPT !.deleted = FALSE]]_vars

Hidden(s) == Exists(s) /\ rows[s].deleted /\ s \in published

\* No step of a request leaves published tabs in a deleted song, unless the song's
\* tabs, or its deletion, were changed under it.  Publishing itself does not look.
HiddenTabsOnlyWhenOvertaken ==
  [][\A s \in Songs :
       Hidden(s)' /\ ~Hidden(s) => reqs' = reqs \/ Misled({"unused", "song"})]_vars

\* A request fails with a server error only if the row it is about is deleted, which
\* updates and deletions do not check, or if another request took the slug, or
\* replaced the song's genres, after it had looked.
ServedUnlessOvertaken ==
  [][\A r \in Requests :
       Moves(r) /\ reqs'[r].resp = "500"
         => \/ Exists(reqs[r].id) /\ rows[reqs[r].id].deleted
            \/ <<r, "slug">> \in overtaken
            \/ <<r, "seen">> \in overtaken]_vars

\* Request r commits the replacement of a song's genres.
Replaces(r) == reqs[r].pc = "replaceInsert" /\ reqs'[r].pc = "write"

\* replaceForSong leaves the song with the genres of the request and no others,
\* unless another replacement committed between its two statements.
ReplacedUnlessOvertaken ==
  [][\A r \in Requests :
       Replaces(r) => \/ GenresOf(reqs[r].id)' = reqs[r].genres
                      \/ <<r, "seen">> \in overtaken]_vars
=============================================================================
