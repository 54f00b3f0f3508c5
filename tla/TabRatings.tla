----------------------------- MODULE TabRatings -----------------------------
(* Ratings beside the life of the tabs they are about: TabRatingService looks *)
(* whether a tab is published and, after the await, writes or aggregates the  *)
(* ratings, which are in a table of their own and know nothing of the tab's   *)
(* status.  The composition is TabLifecycle, unchanged, interleaved with the  *)
(* requests of raters and readers.                                            *)
EXTENDS TabLifecycle

CONSTANTS
  Raters,   \* slots for requests about ratings being served at the same time
  Ratings   \* the values the body's schema admits: 1 to 5

ASSUME RatingsAssumption == NULL \notin Ratings

VARIABLES
  ratings,        \* the tab_ratings table, one row per tab and user: the unique key
  raters,         \* the request each slot is serving
  outrun,         \* history: the slots whose tab has changed status, or gone, since
                  \* they looked at it
  everPublished   \* history: the tabs that have been published at some time

ratingVars == <<ratings, raters>>
ratedVars == <<vars, ratings, raters, outrun, everPublished>>

RatingRequest ==
  [pc : {"idle", "rate", "aggregate"}, tab : Tabs \cup {NULL}, user : Users \cup {NULL},
   rating : Ratings \cup {NULL}, resp : {"none", "ok", "404"}]

Served(code) ==
  [pc |-> "idle", tab |-> NULL, user |-> NULL, rating |-> NULL, resp |-> code]

\* A tab the public sees.
Published(t) == Live(t) /\ tabs[t].status = "PUBLISHED"

RatedInit ==
  /\ Init
  /\ ratings = [t \in Tabs |-> [u \in Users |-> NULL]]
  /\ raters = [q \in Raters |-> Served("none")]
  /\ outrun = {}
  /\ everPublished = {}

Waiting(q) == raters[q].pc # "idle"

Respond(q, code) == raters' = [raters EXCEPT ![q] = Served(code)]

\* Mutant of AssertPublished: the tab's being there is enough.
AssertLive(q, t, call) ==
  \/ ~Live(t) /\ Respond(q, "404")
  \/ Live(t) /\ raters' = [raters EXCEPT ![q] = call]

\* assertPublishedTab, and what awaits it.
AssertPublished(q, t, call) ==
  \/ ~Published(t) /\ Respond(q, "404")
  \/ Published(t) /\ raters' = [raters EXCEPT ![q] = call]

\* POST /tabs/:id/rate.
RateFind(q) ==
  /\ ~Waiting(q)
  /\ \E t \in Tabs, u \in Users, n \in Ratings :
       AssertPublished(q, t, [pc |-> "rate", tab |-> t, user |-> u, rating |-> n, resp |-> "none"])
  /\ UNCHANGED <<ratings, outrun>>

\* upsert on (tabId, userId), one INSERT ... ON CONFLICT.  The foreign keys hold: the
\* server removes no tab and no user.
RateWrite(q) ==
  LET c == raters[q]
  IN /\ c.pc = "rate"
     /\ ratings' = [ratings EXCEPT ![c.tab] = [@ EXCEPT ![c.user] = c.rating]]
     /\ Respond(q, "ok")
     /\ outrun' = outrun \ {q}

\* GET /tabs/:id/rating: AVG and COUNT over whatever rows there are, 0 of none.
AggregateFind(q) ==
  /\ ~Waiting(q)
  /\ \E t \in Tabs :
       AssertPublished(q, t, [pc |-> "aggregate", tab |-> t, user |-> NULL, rating |-> NULL,
                              resp |-> "none"])
  /\ UNCHANGED <<ratings, outrun>>

AggregateRead(q) ==
  /\ raters[q].pc = "aggregate"
  /\ Respond(q, "ok")
  /\ outrun' = outrun \ {q}
  /\ UNCHANGED ratings

\* GET /me/tabs/:id/rating: whether the tab is still published is not asked.
GetUserRating(q) ==
  /\ ~Waiting(q)
  /\ \E t \in Tabs, u \in Users : Respond(q, IF ratings[t][u] = NULL THEN "404" ELSE "ok")
  /\ UNCHANGED <<ratings, outrun>>

\* GET /tabs/:id, the caller known or not: findPublicDetail.
PublicDetail(q) ==
  /\ ~Waiting(q)
  /\ \E t \in Tabs, u \in Users \cup {NULL} :
       LET visible == Live(t) /\ (Published(t) \/ tabs[t].author = u \/ u \in Admins)
       IN Respond(q, IF visible THEN "ok" ELSE "404")
  /\ UNCHANGED <<ratings, outrun>>

RatingStep(q) ==
  \/ RateFind(q) \/ RateWrite(q)
  \/ AggregateFind(q) \/ AggregateRead(q)
  \/ GetUserRating(q) \/ PublicDetail(q)

\* The tabs this step takes from the public.
Withdrawn == {t \in Tabs : Published(t) /\ ~Published(t)'}

\* A step of a tab endpoint leaves the ratings alone, and outruns those who have looked
\* at a tab that goes.
TabStep ==
  /\ Next
  /\ outrun' = outrun \cup {q \in Raters : Waiting(q) /\ raters[q].tab \in Withdrawn}
  /\ UNCHANGED ratingVars

RatedNext ==
  /\ \/ TabStep
     \/ \E q \in Raters : RatingStep(q) /\ UNCHANGED vars
  /\ everPublished' = everPublished \cup {t \in Tabs : Published(t)'}

RatedSpec == RatedInit /\ [][RatedNext]_ratedVars

-----------------------------------------------------------------------------
(* Properties.                                                             *)

RatedTypeOK ==
  /\ ratings \in [Tabs -> [Users -> Ratings \cup {NULL}]]
  /\ raters \in [Raters -> RatingRequest]
  /\ \A q \in Raters :
       /\ Waiting(q) => raters[q].tab \in Tabs
       /\ raters[q].pc = "rate" => raters[q].user \in Users /\ raters[q].rating \in Ratings
  /\ outrun \subseteq {q \in Raters : Waiting(q)}
  /\ everPublished \subseteq Tabs

\* Whatever is withdrawn or deleted under a rater's feet, nothing is ever rated that
\* the public has never seen: a draft, a pending or a rejected tab gets no rating
\* before its first publication.
RatedWasPublished ==
  \A t \in Tabs, u \in Users : ratings[t][u] # NULL => t \in everPublished

\* A rating is stored, and an aggregate served, for a tab that is published at that
\* moment, unless a withdrawal or a deletion outran the request between its two
\* statements.
PublishedUnlessOutrun ==
  [][\A q \in Raters : Waiting(q) /\ raters'[q] = Served("ok") =>
       q \in outrun \/ Published(raters[q].tab)]_ratedVars
=============================================================================
