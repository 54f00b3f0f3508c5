---------------------------- MODULE TabLifecycle ----------------------------
(***************************************************************************)
(* The life of a tab: creation, editing, submission, moderation, the       *)
(* administrator's free-form PATCH, and soft deletion, as TabsService, the *)
(* tab use cases and PrismaTabRepository run them.                         *)
(*                                                                         *)
(* Every handler awaits the database between its steps, so requests        *)
(* interleave there: a handler is a `Find' action (the read and the checks *)
(* made on what it returned) followed by one action per statement it       *)
(* issues.  One repository call is one SQL statement, hence one action.    *)
(* The statements are `UPDATE ... WHERE id AND deleted_at IS NULL': they   *)
(* do not repeat the status check made after the read.                     *)
(***************************************************************************)
EXTENDS Naturals

CONSTANTS
  Tabs,      \* tab identifiers
  Users,     \* user identifiers
  Admins,    \* the users whose role is ADMIN
  Requests,  \* slots for requests being served at the same time
  Contents,  \* values of a tab's editable columns, taken together
  Notes,     \* moderation notes
  Stamps,    \* instants new Date() may return, equal or not to earlier ones
  NULL,      \* SQL NULL, and `no row' for a tab not created yet
  UNDEF      \* a field the request body leaves out (undefined)

ASSUME AdminsAreUsers == Admins \subseteq Users
ASSUME NullIsNoValue == NULL \notin Users \cup Notes \cup Stamps \cup Contents
ASSUME UndefIsNoValue == UNDEF \notin Notes \cup Contents \cup Stamps \cup {NULL}

Statuses == {"DRAFT", "PENDING", "PUBLISHED", "REJECTED"}

TabStatusTransitions ==
  [s \in Statuses |->
     CASE s = "DRAFT"     -> {"PENDING"}
       [] s = "PENDING"   -> {"PUBLISHED", "REJECTED"}
       [] s = "PUBLISHED" -> {}
       [] s = "REJECTED"  -> {"PENDING"}]

CanTransition(from, to) == to \in TabStatusTransitions[from]

EditableStatuses == {"DRAFT", "REJECTED"}

Row == [author : Users, content : Contents, status : Statuses,
        submittedAt : Stamps \cup {NULL}, publishedAt : Stamps \cup {NULL},
        moderatedBy : Users \cup {NULL}, notes : Notes \cup {NULL},
        deleted : BOOLEAN]

ASSUME NullIsNoRow == NULL \notin Row

(***************************************************************************)
(* A request slot.  pc names the statement the handler will issue next,    *)
(* "idle" when the slot is free; resp is the last answer it gave.  held is *)
(* what updateAdminTab keeps of the row it read: its two dates.            *)
(***************************************************************************)
Dates == [submittedAt : Stamps \cup {NULL}, publishedAt : Stamps \cup {NULL}]

AuthorPcs == {"edit", "submit", "delete"}
ModeratorPcs == {"publish", "reject", "adminDelete", "patchContent", "patchStatus"}

Request == [pc : AuthorPcs \cup ModeratorPcs \cup {"idle"},
            tab : Tabs \cup {NULL}, user : Users \cup {NULL},
            content : Contents \cup {UNDEF},
            status : Statuses \cup {UNDEF},
            notes : Notes \cup {NULL, UNDEF},
            held : Dates,
            resp : {"none", "ok", "400", "403", "404", "409", "500"}]

NoDates == [submittedAt |-> NULL, publishedAt |-> NULL]

Idle(code) == [pc |-> "idle", tab |-> NULL, user |-> NULL, content |-> UNDEF,
               status |-> UNDEF, notes |-> UNDEF, held |-> NoDates, resp |-> code]

Call(pc, t, u) == [pc |-> pc, tab |-> t, user |-> u, content |-> UNDEF,
                   status |-> UNDEF, notes |-> UNDEF, held |-> NoDates, resp |-> "none"]

VARIABLES
  tabs,      \* the tabs table: a row per tab, NULL before its INSERT
  reqs,      \* the request each slot is serving
  overtaken  \* history: the requests that read a tab whose status or deletion
             \* another request has written since

vars == <<tabs, reqs, overtaken>>

Init ==
  /\ tabs = [t \in Tabs |-> NULL]
  /\ reqs = [r \in Requests |-> Idle("none")]
  /\ overtaken = {}

-----------------------------------------------------------------------------
(* What the handlers share.                                                *)

Exists(t) == tabs[t] # NULL

\* Mutant of Live: the filter is left out of find and update.
LiveUnfiltered(t) == Exists(t)

\* A row the soft-delete filter lets through: findUnique and update see no other.
Live(t) == Exists(t) /\ ~tabs[t].deleted

Ready(r) == reqs[r].pc = "idle"

Answer(r, code) == reqs' = [reqs EXCEPT ![r] = Idle(code)]

Await(r, call) == reqs' = [reqs EXCEPT ![r] = call]

\* The other requests that have read the tab request r is about to write.
Rivals(r) ==
  {q \in Requests \ {r} : ~Ready(q) /\ reqs[q].tab = reqs[r].tab}

\* tab.update by id.  The filter makes it fail on a deleted row (P2025, which no
\* one catches: 500).  The last statement of its handler.
Update(r, row) ==
  IF Live(reqs[r].tab)
    THEN /\ tabs' = [tabs EXCEPT ![reqs[r].tab] = row]
         /\ Answer(r, "ok")
    ELSE /\ tabs' = tabs
         /\ Answer(r, "500")

\* updateStatus and softDelete overtake the requests that read the row before;
\* updateContent does not: nobody's checks are about the content.
Overtake(r) ==
  overtaken' = (overtaken \ {r}) \cup (IF Live(reqs[r].tab) THEN Rivals(r) ELSE {})

LeaveOthers(r) == overtaken' = overtaken \ {r}

-----------------------------------------------------------------------------
(* Creation.                                                               *)

\* Whether the foreign key to the song holds is not this module's business.
InsertTab(r, row) ==
  /\ Ready(r)
  /\ \E t \in Tabs :
       /\ ~Exists(t)
       /\ \/ /\ tabs' = [tabs EXCEPT ![t] = row]
             /\ Answer(r, "ok")
          \/ /\ tabs' = tabs
             /\ Answer(r, "400")
  /\ UNCHANGED overtaken

DraftRow(u, c) ==
  [author |-> u, content |-> c, status |-> "DRAFT", submittedAt |-> NULL,
   publishedAt |-> NULL, moderatedBy |-> NULL, notes |-> NULL, deleted |-> FALSE]

CreateTab(r) == \E u \in Users, c \in Contents : InsertTab(r, DraftRow(u, c))

Or(x, default) == IF x \in {NULL, UNDEF} THEN default ELSE x

\* The moderation columns a status an administrator sets goes with.  known is the
\* date the tab has already.
\* Mutant of SubmittedAtFor: only PENDING dates the submission.
SubmittedAtForPending(status, known, now) ==
  IF status = "PENDING" THEN Or(known, now) ELSE known

SubmittedAtFor(status, known, now) == IF status = "DRAFT" THEN NULL ELSE Or(known, now)

\* Mutant of PublishedAtFor: the date the tab has is not looked at.
PublishedAtForNow(status, known, now) == IF status = "PUBLISHED" THEN now ELSE NULL

PublishedAtFor(status, known, now) == IF status = "PUBLISHED" THEN Or(known, now) ELSE NULL

\* Mutant of ModeratorFor: who sets the status is its moderator, whatever the status.
ModeratorForAny(status, admin) == admin

ModeratorFor(status, admin) == IF status \in {"PUBLISHED", "REJECTED"} THEN admin ELSE NULL

\* Mutant of NotesFor: the notes of the body are kept, whatever the status.
NotesForAny(status, notes) == Or(notes, NULL)

NotesFor(status, notes) == IF status = "REJECTED" THEN Or(notes, NULL) ELSE NULL

NormalizeAdminStatus(row, status, admin, notes, dates, now) ==
  [row EXCEPT !.status = status,
              !.submittedAt = SubmittedAtFor(status, dates.submittedAt, now),
              !.publishedAt = PublishedAtFor(status, dates.publishedAt, now),
              !.moderatedBy = ModeratorFor(status, admin),
              !.notes = NotesFor(status, notes)]

CreateAdminTab(r) ==
  \E a \in Admins, c \in Contents, n \in Notes \cup {NULL},
     s \in Statuses, now \in Stamps :
    InsertTab(r, NormalizeAdminStatus(DraftRow(a, c), s, a, n, NoDates, now))

-----------------------------------------------------------------------------
(* The author's endpoints: find, own, check, then write.                   *)

\* Mutants of FindOwn.  The status is left for the statement to check.
FindOwnAnyStatus(r, t, u, legal, call) ==
  /\ Ready(r)
  /\ \/ ~Live(t) /\ Answer(r, "404")
     \/ Live(t) /\ tabs[t].author # u /\ Answer(r, "403")
     \/ Live(t) /\ tabs[t].author = u /\ Await(r, call)
  /\ UNCHANGED <<tabs, overtaken>>

\* Anyone's tab will do.
FindAnyones(r, t, u, legal, call) ==
  /\ Ready(r)
  /\ \/ ~Live(t) /\ Answer(r, "404")
     \/ Live(t) /\ ~legal /\ Answer(r, "409")
     \/ Live(t) /\ legal /\ Await(r, call)
  /\ UNCHANGED <<tabs, overtaken>>

FindOwn(r, t, u, legal, call) ==
  /\ Ready(r)
  /\ \/ ~Live(t) /\ Answer(r, "404")
     \/ Live(t) /\ tabs[t].author # u /\ Answer(r, "403")
     \/ Live(t) /\ tabs[t].author = u /\ ~legal /\ Answer(r, "409")
     \/ Live(t) /\ tabs[t].author = u /\ legal /\ Await(r, call)
  /\ UNCHANGED <<tabs, overtaken>>

UpdateTabFind(r) ==
  \E t \in Tabs, u \in Users, c \in Contents :
    FindOwn(r, t, u, tabs[t].status \in EditableStatuses,
            [Call("edit", t, u) EXCEPT !.content = c])

UpdateTabWrite(r) ==
  /\ reqs[r].pc = "edit"
  /\ Update(r, [tabs[reqs[r].tab] EXCEPT !.content = reqs[r].content])
  /\ LeaveOthers(r)

SubmitTabFind(r) ==
  \E t \in Tabs, u \in Users :
    FindOwn(r, t, u, CanTransition(tabs[t].status, "PENDING"), Call("submit", t, u))

SubmitTabWrite(r) ==
  /\ reqs[r].pc = "submit"
  /\ \E now \in Stamps :
       Update(r, [tabs[reqs[r].tab] EXCEPT !.status = "PENDING", !.submittedAt = now])
  /\ Overtake(r)

SoftDeleteTabFind(r) ==
  \E t \in Tabs, u \in Users : FindOwn(r, t, u, TRUE, Call("delete", t, u))

\* softDelete, of the author's endpoint and of the administrator's.
SoftDeleteTabWrite(r) ==
  /\ reqs[r].pc \in {"delete", "adminDelete"}
  /\ Update(r, [tabs[reqs[r].tab] EXCEPT !.deleted = TRUE])
  /\ Overtake(r)

-----------------------------------------------------------------------------
(* Moderation: find, check the transition, then write.                     *)

\* Mutant of FindToModerate: it finds deleted rows, as the administrator's PATCH does.
FindDeletedToModerate(r, t, to, call) ==
  /\ Ready(r)
  /\ \/ ~Exists(t) /\ Answer(r, "404")
     \/ Exists(t) /\ ~CanTransition(tabs[t].status, to) /\ Answer(r, "409")
     \/ Exists(t) /\ CanTransition(tabs[t].status, to) /\ Await(r, call)
  /\ UNCHANGED <<tabs, overtaken>>

FindToModerate(r, t, to, call) ==
  /\ Ready(r)
  /\ \/ ~Live(t) /\ Answer(r, "404")
     \/ Live(t) /\ ~CanTransition(tabs[t].status, to) /\ Answer(r, "409")
     \/ Live(t) /\ CanTransition(tabs[t].status, to) /\ Await(r, call)
  /\ UNCHANGED <<tabs, overtaken>>

PublishTabFind(r) ==
  \E t \in Tabs, a \in Admins :
    FindToModerate(r, t, "PUBLISHED", Call("publish", t, a))

\* The notes of an earlier rejection and submittedAt stay as they are.
PublishTabWrite(r) ==
  /\ reqs[r].pc = "publish"
  /\ \E now \in Stamps :
       Update(r, [tabs[reqs[r].tab] EXCEPT !.status = "PUBLISHED",
                    !.publishedAt = now, !.moderatedBy = reqs[r].user])
  /\ Overtake(r)

RejectTabFind(r) ==
  \E t \in Tabs, a \in Admins, n \in Notes :
    FindToModerate(r, t, "REJECTED", [Call("reject", t, a) EXCEPT !.notes = n])

\* publishedAt stays as it is.
RejectTabWrite(r) ==
  /\ reqs[r].pc = "reject"
  /\ Update(r, [tabs[reqs[r].tab] EXCEPT !.status = "REJECTED",
                  !.moderatedBy = reqs[r].user, !.notes = reqs[r].notes])
  /\ Overtake(r)

-----------------------------------------------------------------------------
(* The administrator's PATCH and DELETE: they find deleted rows too, and   *)
(* PATCH takes any status, without consulting the transition table.        *)

HasContentUpdate(call) ==
  \/ call.content # UNDEF
  \/ call.status = UNDEF /\ call.notes # UNDEF

DatesOf(row) == [submittedAt |-> row.submittedAt, publishedAt |-> row.publishedAt]

FindToPatch(r, t, call) ==
  /\ Ready(r)
  /\ \/ ~Exists(t) /\ Answer(r, "404")
     \/ /\ Exists(t) /\ HasContentUpdate(call)
        /\ Await(r, [call EXCEPT !.pc = "patchContent"])
     \/ /\ Exists(t) /\ ~HasContentUpdate(call) /\ call.status # UNDEF
        /\ Await(r, [call EXCEPT !.held = DatesOf(tabs[t])])
     \/ /\ Exists(t) /\ ~HasContentUpdate(call) /\ call.status = UNDEF
        /\ Answer(r, "ok")
  /\ UNCHANGED <<tabs, overtaken>>

UpdateAdminTabFind(r) ==
  \E t \in Tabs, a \in Admins, c \in Contents \cup {UNDEF},
     s \in Statuses \cup {UNDEF}, n \in Notes \cup {NULL, UNDEF} :
    FindToPatch(r, t, [Call("patchStatus", t, a) EXCEPT
                         !.content = c, !.status = s, !.notes = n])

\* updateContent, with moderationNotes among the columns only when no status
\* follows.  The row it returns replaces the one read before.
UpdateAdminTabContent(r) ==
  LET q == reqs[r]
      row == [tabs[q.tab] EXCEPT
                !.content = IF q.content # UNDEF THEN q.content ELSE @,
                !.notes = IF q.status = UNDEF /\ q.notes # UNDEF THEN q.notes ELSE @]
  IN  /\ q.pc = "patchContent"
      /\ IF q.status = UNDEF \/ ~Live(q.tab)
           THEN Update(r, row)
           ELSE /\ tabs' = [tabs EXCEPT ![q.tab] = row]
                /\ Await(r, [q EXCEPT !.pc = "patchStatus", !.held = DatesOf(row)])
      /\ LeaveOthers(r)

UpdateAdminTabStatus(r) ==
  LET q == reqs[r]
  IN  /\ q.pc = "patchStatus"
      /\ \E now \in Stamps :
           Update(r, NormalizeAdminStatus(tabs[q.tab], q.status, q.user,
                                          q.notes, q.held, now))
      /\ Overtake(r)

SoftDeleteAdminTabFind(r) ==
  \E t \in Tabs, a \in Admins :
    /\ Ready(r)
    /\ \/ ~Exists(t) /\ Answer(r, "404")
       \/ Exists(t) /\ Await(r, Call("adminDelete", t, a))
    /\ UNCHANGED <<tabs, overtaken>>

-----------------------------------------------------------------------------

\* What a request does once its endpoint has accepted it.
Write(r) ==
  \/ UpdateTabWrite(r)
  \/ SubmitTabWrite(r)
  \/ SoftDeleteTabWrite(r)
  \/ PublishTabWrite(r)
  \/ RejectTabWrite(r)
  \/ UpdateAdminTabContent(r)
  \/ UpdateAdminTabStatus(r)

\* A request arrives.
Arrive(r) ==
  \/ CreateTab(r)
  \/ CreateAdminTab(r)
  \/ UpdateTabFind(r)
  \/ SubmitTabFind(r)
  \/ SoftDeleteTabFind(r)
  \/ PublishTabFind(r)
  \/ RejectTabFind(r)
  \/ UpdateAdminTabFind(r)
  \/ SoftDeleteAdminTabFind(r)

Next == \E r \in Requests : Arrive(r) \/ Write(r)

Spec == Init /\ [][Next]_vars

\* The event loop and the database serve every request that has begun.
FairSpec == Spec /\ \A r \in Requests : WF_vars(Write(r))

-----------------------------------------------------------------------------
(* Properties.                                                             *)

\* The table, the slots and the history variable hold values of their types.
TypeOK ==
  /\ tabs \in [Tabs -> Row \cup {NULL}]
  /\ reqs \in [Requests -> Request]
  /\ overtaken \subseteq Requests

MetadataFits(row) ==
  /\ row.status = "PUBLISHED" => row.publishedAt # NULL
  /\ row.status \in {"PUBLISHED", "REJECTED"} => row.moderatedBy \in Admins
  /\ row.status = "DRAFT" => DatesOf(row) = NoDates /\ row.moderatedBy = NULL

\* However requests interleave, the columns an UPDATE leaves out still agree with
\* the status it writes: a published tab has its date (the table's CHECK
\* constraint), a decided one its moderator, a draft neither date nor moderator.
MetadataMatchesStatus == \A t \in Tabs : Exists(t) => MetadataFits(tabs[t])

\* A soft-deleted tab is frozen: a request that read it before the deletion can
\* neither change nor revive it, nor delete it a second time.
DeletedTabsFrozen ==
  [][\A t \in Tabs : Exists(t) /\ tabs[t].deleted => tabs'[t] = tabs[t]]_vars

\* What request r checked before its await, as it stands in the table now.
CheckHolds(r) ==
  LET q == reqs[r]
      row == tabs[q.tab]
  IN  /\ q.pc \in AuthorPcs \cup {"publish", "reject"} => Live(q.tab)
      /\ q.pc = "edit" => row.status \in EditableStatuses
      /\ q.pc = "submit" => CanTransition(row.status, "PENDING")
      /\ q.pc = "publish" => CanTransition(row.status, "PUBLISHED")
      /\ q.pc = "reject" => CanTransition(row.status, "REJECTED")
      /\ q.pc = "patchStatus" => q.held = DatesOf(row)

\* Checks go stale only when another request has written the status or the deletion
\* of the tab: the inductive invariant behind the action properties below.
ChecksStand ==
  \A r \in Requests :
    /\ Ready(r) => r \notin overtaken
    /\ ~Ready(r) => r \in overtaken \/ CheckHolds(r)

\* Request r issues the statement it was about to, and the statement has effect.
Effects(r, pcs) ==
  reqs[r].pc \in pcs /\ reqs'[r].pc # reqs[r].pc /\ reqs'[r].resp # "500"

\* The check made before the await still holds at the write, unless another
\* request has written the status or the deletion of that tab in between: a use
\* case then takes a legal transition, and an author's edit meets an editable tab.
LegalUnlessOvertaken ==
  [][\A r \in Requests \ overtaken :
       LET row == tabs[reqs[r].tab]
       IN  /\ Effects(r, {"submit"}) => CanTransition(row.status, "PENDING")
           /\ Effects(r, {"publish"}) => CanTransition(row.status, "PUBLISHED")
           /\ Effects(r, {"reject"}) => CanTransition(row.status, "REJECTED")
           /\ Effects(r, {"edit"}) => row.status \in EditableStatuses]_vars

\* An author's request that passed its checks fails with a server error (P2025)
\* only when another request deleted the tab in between.  So do a moderator's
\* publish and reject; the administrator's PATCH and DELETE also find deleted rows.
ServedUnlessOvertaken ==
  [][\A r \in Requests :
       reqs[r].pc \in AuthorPcs \cup {"publish", "reject"} /\ reqs'[r] = Idle("500")
         => r \in overtaken]_vars

\* publishedAt, the key public listings page by, never changes while a tab stays
\* published, except by a request that was overtaken: a PATCH to PUBLISHED keeps
\* the date it has just read.
PublishedAtStable ==
  [][\A t \in Tabs :
       Exists(t) /\ tabs[t].status = "PUBLISHED" /\ tabs'[t].status = "PUBLISHED"
         => \/ tabs'[t].publishedAt = tabs[t].publishedAt
            \/ \E r \in overtaken : reqs[r].tab = t /\ reqs'[r].pc = "idle"]_vars

\* A tab changes only on a request of its author or of an administrator, the
\* author never changes, and the ownership checked before the await is still
\* there at the write.
ChangedByOwnerOrAdmin ==
  [][\A t \in Tabs : Exists(t) /\ tabs'[t] # tabs[t] =>
       /\ tabs'[t].author = tabs[t].author
       /\ \E r \in Requests :
            /\ reqs[r].tab = t /\ reqs'[r].pc # reqs[r].pc
            /\ \/ reqs[r].user = tabs[t].author
               \/ reqs[r].user \in Admins /\ reqs[r].pc \notin AuthorPcs]_vars

\* When requests on a tab do not overlap, a tab that left DRAFT has been submitted:
\* no sequence of submit, publish, reject and PATCH loses submittedAt on the way.
DecidedWasSubmitted ==
  \A t \in Tabs : Exists(t) /\ tabs[t].status # "DRAFT" => tabs[t].submittedAt # NULL

\* docs/architecture.md:160: `Each use-case validates that the requested transition
\* is legal before executing it.'  Publishing and rejecting decide a pending tab, so
\* of two moderators who decide the same submission one gets the domain error.
ModerationDecidesPendingTabs ==
  [][\A r \in Requests :
       Effects(r, {"publish", "reject"}) => tabs[reqs[r].tab].status = "PENDING"]_vars
=============================================================================
