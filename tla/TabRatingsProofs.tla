-------------------------- MODULE TabRatingsProofs --------------------------
(* What a rating is about, for any number of tabs, users and requests.  The   *)
(* argument does not look into the tab endpoints: whatever they do to a tab,  *)
(* publishing it puts it into everPublished and hiding it outruns those who   *)
(* have looked at it.                                                         *)
EXTENDS TabRatings, TLAPS

PublishedTabs == {t \in Tabs : Published(t)}

\* The rows a waiting request is about have been published; unless it was outrun,
\* the tab still is.
LooksStand ==
  \A q \in Raters : Waiting(q) =>
    /\ raters[q].tab \in everPublished
    /\ q \in outrun \/ raters[q].tab \in PublishedTabs

RatedInv ==
  /\ RatedTypeOK
  /\ PublishedTabs \subseteq everPublished
  /\ LooksStand
  /\ RatedWasPublished

LEMMA ServedType == \A code \in {"none", "ok", "404"} : Served(code) \in RatingRequest
  BY DEF Served, RatingRequest

\* A slot that has been answered waits for nothing.
LEMMA RespondEnds ==
  ASSUME RatedTypeOK, NEW q \in Raters, NEW code \in {"none", "ok", "404"},
         Respond(q, code)
  PROVE  /\ raters' \in [Raters -> RatingRequest]
         /\ raters'[q].pc = "idle"
         /\ \A p \in Raters \ {q} : raters'[p] = raters[p]
  BY ServedType DEF RatedTypeOK, Respond, Served

\* Initially no tab is there, and nobody has rated one.
LEMMA RatedInitInv == RatedInit => RatedInv
<1> SUFFICES ASSUME RatedInit PROVE RatedInv
  OBVIOUS
<1>1. PublishedTabs = {}
  BY DEF RatedInit, Init, PublishedTabs, Published, Live, Exists
<1>2. RatedTypeOK
  BY ServedType DEF RatedInit, RatedTypeOK, Waiting, Served
<1> QED
  BY <1>1, <1>2 DEF RatedInit, RatedInv, RatedWasPublished, LooksStand, Waiting, Served

\* A request that looks at a tab either ends there or waits for a published one.
LEMMA LookKeepsInv ==
  ASSUME RatedInv, NEW q \in Raters, NEW t \in Tabs, NEW call \in RatingRequest,
         ~Waiting(q), AssertPublished(q, t, call),
         call.tab = t, call.pc # "idle",
         call.pc = "rate" => call.user \in Users /\ call.rating \in Ratings,
         UNCHANGED <<vars, ratings, outrun>>,
         everPublished' = everPublished \cup PublishedTabs'
  PROVE  RatedInv'
<1>1. PublishedTabs' = PublishedTabs
  BY DEF vars, PublishedTabs, Published, Live, Exists
<1>2. everPublished' = everPublished
  BY <1>1 DEF RatedInv
<1>3. CASE Respond(q, "404")
  <2>1. /\ raters' \in [Raters -> RatingRequest]
        /\ raters'[q].pc = "idle"
        /\ \A p \in Raters \ {q} : raters'[p] = raters[p]
    BY <1>3, RespondEnds DEF RatedInv
  <2> QED
    BY <1>1, <1>2, <2>1 DEF RatedInv, RatedTypeOK, RatedWasPublished, LooksStand, Waiting
<1>4. CASE Published(t) /\ raters' = [raters EXCEPT ![q] = call]
  <2>1. /\ raters' \in [Raters -> RatingRequest]
        /\ raters'[q] = call
        /\ \A p \in Raters \ {q} : raters'[p] = raters[p]
    BY <1>4 DEF RatedInv, RatedTypeOK
  <2>2. t \in everPublished /\ t \in PublishedTabs
    BY <1>4 DEF RatedInv, PublishedTabs
  <2>3. RatedTypeOK'
    BY <1>2, <2>1 DEF RatedInv, RatedTypeOK, Waiting
  <2>4. LooksStand'
    BY <1>1, <1>2, <1>4, <2>1, <2>2 DEF RatedInv, LooksStand, Waiting, RatedTypeOK
  <2> QED
    BY <1>1, <1>2, <2>3, <2>4 DEF RatedInv, RatedWasPublished
<1> QED
  BY <1>3, <1>4 DEF AssertPublished

\* A request that ends without writing a rating.
LEMMA EndKeepsInv ==
  ASSUME RatedInv, NEW q \in Raters, NEW code \in {"ok", "404"}, Respond(q, code),
         UNCHANGED <<vars, ratings>>, outrun' = outrun \ {q},
         everPublished' = everPublished \cup PublishedTabs'
  PROVE  RatedInv'
<1>1. PublishedTabs' = PublishedTabs
  BY DEF vars, PublishedTabs, Published, Live, Exists
<1>2. everPublished' = everPublished
  BY <1>1 DEF RatedInv
<1>3. /\ raters' \in [Raters -> RatingRequest]
      /\ raters'[q].pc = "idle"
      /\ \A p \in Raters \ {q} : raters'[p] = raters[p]
  BY RespondEnds DEF RatedInv
<1> QED
  BY <1>1, <1>2, <1>3 DEF RatedInv, RatedTypeOK, RatedWasPublished, LooksStand, Waiting

\* The statement that stores a rating.
LEMMA WriteKeepsInv ==
  ASSUME RatedInv, NEW q \in Raters, RateWrite(q), UNCHANGED vars,
         everPublished' = everPublished \cup PublishedTabs'
  PROVE  RatedInv'
<1> DEFINE c == raters[q]
<1>1. PublishedTabs' = PublishedTabs
  BY DEF vars, PublishedTabs, Published, Live, Exists
<1>2. everPublished' = everPublished
  BY <1>1 DEF RatedInv
<1>3. c.tab \in Tabs /\ c.user \in Users /\ c.rating \in Ratings /\ c.tab \in everPublished
  BY DEF RateWrite, RatedInv, RatedTypeOK, LooksStand, Waiting
<1>4. ratings' = [ratings EXCEPT ![c.tab] = [@ EXCEPT ![c.user] = c.rating]]
  BY DEF RateWrite
<1>5. ratings' \in [Tabs -> [Users -> Ratings \cup {NULL}]]
  BY <1>3, <1>4 DEF RatedInv, RatedTypeOK
<1>6. \A t \in Tabs, u \in Users : ratings'[t][u] # NULL => t = c.tab \/ ratings[t][u] # NULL
  BY <1>3, <1>4 DEF RatedInv, RatedTypeOK
<1>7. /\ raters' \in [Raters -> RatingRequest]
      /\ raters'[q].pc = "idle"
      /\ \A p \in Raters \ {q} : raters'[p] = raters[p]
  BY RespondEnds DEF RatedInv, RateWrite
<1>8. RatedTypeOK'
  BY <1>2, <1>5, <1>7 DEF RateWrite, RatedInv, RatedTypeOK, Waiting
<1>9. LooksStand'
  BY <1>1, <1>2, <1>7 DEF RateWrite, RatedInv, LooksStand, Waiting
<1> QED
  BY <1>1, <1>2, <1>3, <1>6, <1>8, <1>9 DEF RatedInv, RatedWasPublished

\* Whatever a tab endpoint does.
LEMMA TabKeepsInv ==
  ASSUME RatedInv, TabStep,
         everPublished' = everPublished \cup PublishedTabs'
  PROVE  RatedInv'
<1>1. UNCHANGED <<ratings, raters>>
  BY DEF TabStep, ratingVars
<1>2. PublishedTabs \ Withdrawn \subseteq PublishedTabs'
  BY DEF Withdrawn, PublishedTabs
<1>3. outrun' = outrun \cup {q \in Raters : Waiting(q) /\ raters[q].tab \in Withdrawn}
  BY DEF TabStep
<1>4. RatedTypeOK'
  <2>1. everPublished' \subseteq Tabs
    BY DEF PublishedTabs, RatedInv, RatedTypeOK
  <2> QED
    BY <1>1, <1>3, <2>1 DEF RatedInv, RatedTypeOK, Waiting
<1>5. LooksStand'
  BY <1>1, <1>2, <1>3 DEF RatedInv, LooksStand, Waiting
<1> QED
  BY <1>1, <1>4, <1>5 DEF RatedInv, RatedWasPublished

LEMMA RatedStepInv == RatedInv /\ [RatedNext]_ratedVars => RatedInv'
<1> SUFFICES ASSUME RatedInv, [RatedNext]_ratedVars PROVE RatedInv'
  OBVIOUS
<1>1. CASE UNCHANGED ratedVars
  BY <1>1 DEF ratedVars, vars, RatedInv, RatedTypeOK, LooksStand, RatedWasPublished, Waiting,
              PublishedTabs, Published, Live, Exists
<1>2. CASE RatedNext /\ TabStep
  <2>1. everPublished' = everPublished \cup PublishedTabs'
    BY <1>2 DEF RatedNext, PublishedTabs
  <2> QED
    BY <1>2, <2>1, TabKeepsInv
<1>3. ASSUME RatedNext, NEW q \in Raters, RatingStep(q), UNCHANGED vars
      PROVE  RatedInv'
  <2>0. everPublished' = everPublished \cup PublishedTabs'
    BY <1>3 DEF RatedNext, PublishedTabs
  <2>1. CASE RateFind(q)
    <3>1. PICK t \in Tabs, u \in Users, n \in Ratings :
            AssertPublished(q, t, [pc |-> "rate", tab |-> t, user |-> u, rating |-> n,
                                   resp |-> "none"])
      BY <2>1 DEF RateFind
    <3> DEFINE call == [pc |-> "rate", tab |-> t, user |-> u, rating |-> n, resp |-> "none"]
    <3>2. call \in RatingRequest
      BY DEF RatingRequest
    <3> QED
      BY <1>3, <2>0, <2>1, <3>1, <3>2, LookKeepsInv DEF RateFind
  <2>2. CASE RateWrite(q)
    BY <1>3, <2>0, <2>2, WriteKeepsInv
  <2>3. CASE AggregateFind(q)
    <3>1. PICK t \in Tabs :
            AssertPublished(q, t, [pc |-> "aggregate", tab |-> t, user |-> NULL,
                                   rating |-> NULL, resp |-> "none"])
      BY <2>3 DEF AggregateFind
    <3> DEFINE call == [pc |-> "aggregate", tab |-> t, user |-> NULL, rating |-> NULL,
                        resp |-> "none"]
    <3>2. call \in RatingRequest
      BY DEF RatingRequest
    <3> QED
      BY <1>3, <2>0, <2>3, <3>1, <3>2, LookKeepsInv DEF AggregateFind
  <2>4. CASE AggregateRead(q)
    BY <1>3, <2>0, <2>4, EndKeepsInv DEF AggregateRead
  <2>5. CASE GetUserRating(q) \/ PublicDetail(q)
    <3>1. PICK code \in {"ok", "404"} : Respond(q, code)
      BY <2>5 DEF GetUserRating, PublicDetail
    <3>2. ~Waiting(q) /\ UNCHANGED <<ratings, outrun>>
      BY <2>5 DEF GetUserRating, PublicDetail
    <3>3. outrun' = outrun \ {q}
      BY <3>2 DEF RatedInv, RatedTypeOK
    <3> QED
      BY <1>3, <2>0, <3>1, <3>2, <3>3, EndKeepsInv
  <2> QED
    BY <1>3, <2>1, <2>2, <2>3, <2>4, <2>5 DEF RatingStep
<1> QED
  BY <1>1, <1>2, <1>3 DEF RatedNext

\* Every rating, stored whenever, is about a tab that has been published: rateTab
\* looks before it writes, and no tab endpoint touches the ratings.
THEOREM RatingsAreOfPublishedTabs == RatedSpec => []RatedWasPublished
<1>1. RatedInv => RatedWasPublished
  BY DEF RatedInv
<1> QED
  BY RatedInitInv, RatedStepInv, <1>1, PTL DEF RatedSpec

\* The table and the slots keep their types.
THEOREM RatedTypeCorrect == RatedSpec => []RatedTypeOK
<1>1. RatedInv => RatedTypeOK
  BY DEF RatedInv
<1> QED
  BY RatedInitInv, RatedStepInv, <1>1, PTL DEF RatedSpec

\* rateTab stores, and getAggregate serves, for a tab that is published at that moment
\* unless a withdrawal or a deletion outran the request.
THEOREM RatedWhilePublished == RatedSpec => PublishedUnlessOutrun
<1>1. RatedInv =>
        \A q \in Raters : Waiting(q) => q \in outrun \/ Published(raters[q].tab)
  BY DEF RatedInv, LooksStand, PublishedTabs
<1>2. RatedInv /\ [RatedNext]_ratedVars =>
        [\A q \in Raters : Waiting(q) /\ raters'[q] = Served("ok") =>
           q \in outrun \/ Published(raters[q].tab)]_ratedVars
  BY <1>1
<1> QED
  BY RatedInitInv, RatedStepInv, <1>2, PTL DEF RatedSpec, PublishedUnlessOutrun
=============================================================================
