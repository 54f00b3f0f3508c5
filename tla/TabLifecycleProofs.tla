------------------------- MODULE TabLifecycleProofs -------------------------
(***************************************************************************)
(* Theorems about TabLifecycle, for any tabs, users, requests and values;  *)
(* then about requests served one at a time, which implement               *)
(* TabStatusMachine.                                                       *)
(***************************************************************************)
EXTENDS TabLifecycleSerial, TLAPS

Codes == {"none", "ok", "400", "403", "404", "409", "500"}

\* What a request in flight carries, and what stays true of its tab for good: the
\* row exists, its author is the user whose ownership was checked, and only an
\* administrator moderates.
WellFormed(q) ==
  /\ q.tab \in Tabs /\ Exists(q.tab) /\ q.user \in Users
  /\ q.pc \in AuthorPcs => q.user = tabs[q.tab].author
  /\ q.pc \in ModeratorPcs => q.user \in Admins
  /\ q.pc = "edit" => q.content \in Contents
  /\ q.pc = "reject" => q.notes \in Notes
  /\ q.pc = "patchStatus" => q.status \in Statuses

CallsWellFormed == \A r \in Requests : ~Ready(r) => WellFormed(reqs[r])

TypeInv == TypeOK /\ CallsWellFormed

-----------------------------------------------------------------------------
(* The shapes a handler's state takes.                                     *)

LEMMA IdleType == \A code \in Codes : Idle(code) \in Request
  BY DEF Idle, Request, Codes, NoDates, Dates

LEMMA CallType ==
  \A pc \in AuthorPcs \cup ModeratorPcs, t \in Tabs, u \in Users : Call(pc, t, u) \in Request
  BY DEF Call, Request, NoDates, Dates, AuthorPcs, ModeratorPcs

LEMMA LiveRow == TypeOK => \A t \in Tabs : Exists(t) => tabs[t] \in Row
  BY DEF TypeOK, Exists

LEMMA NewRow == \A u \in Users, c \in Contents : DraftRow(u, c) \in Row
  BY DEF DraftRow, Row, Statuses

LEMMA NormalRow ==
  ASSUME NEW row \in Row, NEW s \in Statuses, NEW a \in Users,
         NEW n \in Notes \cup {NULL, UNDEF}, NEW dates \in Dates, NEW now \in Stamps
  PROVE  NormalizeAdminStatus(row, s, a, n, dates, now) \in Row
  <1>1. /\ SubmittedAtFor(s, dates.submittedAt, now) \in Stamps \cup {NULL}
        /\ PublishedAtFor(s, dates.publishedAt, now) \in Stamps \cup {NULL}
    BY DEF SubmittedAtFor, PublishedAtFor, Or, Dates
  <1>2. ModeratorFor(s, a) \in Users \cup {NULL}
    BY DEF ModeratorFor
  <1>3. NotesFor(s, n) \in Notes \cup {NULL}
    BY DEF NotesFor, Or
  <1>4. QED
    BY <1>1, <1>2, <1>3 DEF NormalizeAdminStatus, Row

-----------------------------------------------------------------------------
(* The three ways a step changes the table and its slot.                   *)

\* Every step leaves the rows there are, with their author.
RowsKept ==
  \A t \in Tabs : Exists(t) => Exists(t)' /\ tabs'[t].author = tabs[t].author

\* Only the slot of request r changes; it is free, or carries a well-formed call.
SlotSteps(r) ==
  /\ reqs' \in [Requests -> Request]
  /\ \A q \in Requests \ {r} : reqs'[q] = reqs[q]
  /\ Ready(r)' \/ WellFormed(reqs[r])'

LEMMA SlotsStayWellFormed ==
  ASSUME TypeInv, NEW r \in Requests, RowsKept, SlotSteps(r)
  PROVE  CallsWellFormed'
  <1> SUFFICES ASSUME NEW q \in Requests, ~Ready(q)'
               PROVE  WellFormed(reqs[q])'
    BY DEF CallsWellFormed
  <1>1. CASE q = r
    BY <1>1 DEF SlotSteps
  <1>2. CASE q # r
    <2>1. reqs'[q] = reqs[q] /\ ~Ready(q)
      BY <1>2 DEF SlotSteps, Ready
    <2>2. WellFormed(reqs[q])
      BY <2>1 DEF TypeInv, CallsWellFormed
    <2>3. QED
      BY <2>1, <2>2 DEF WellFormed, RowsKept
  <1>3. QED
    BY <1>1, <1>2

LEMMA AnswerSteps ==
  ASSUME TypeInv, NEW r \in Requests, NEW code \in Codes, Answer(r, code)
  PROVE  SlotSteps(r)
  BY IdleType DEF TypeInv, TypeOK, Answer, SlotSteps, Ready, Idle

LEMMA AwaitSteps ==
  ASSUME TypeInv, NEW r \in Requests, NEW call \in Request, Await(r, call),
         WellFormed(call), UNCHANGED tabs
  PROVE  SlotSteps(r)
  BY DEF TypeInv, TypeOK, Await, SlotSteps, WellFormed, Exists

LEMMA UpdateSteps ==
  ASSUME TypeInv, NEW r \in Requests, NEW row, Update(r, row), ~Ready(r),
         Live(reqs[r].tab) => row \in Row /\ row.author = tabs[reqs[r].tab].author
  PROVE  tabs' \in [Tabs -> Row \cup {NULL}] /\ RowsKept /\ SlotSteps(r)
  <1> DEFINE t == reqs[r].tab
  <1>1. t \in Tabs /\ Exists(t)
    BY DEF TypeInv, CallsWellFormed, WellFormed
  <1>2. CASE Live(t)
    <2>1. tabs' = [tabs EXCEPT ![t] = row] /\ Answer(r, "ok")
      BY <1>2 DEF Update
    <2>2. SlotSteps(r)
      BY <2>1, AnswerSteps DEF Codes
    <2>3. tabs' \in [Tabs -> Row \cup {NULL}]
      BY <1>2, <2>1 DEF TypeInv, TypeOK
    <2>4. RowsKept
      BY <1>1, <1>2, <2>1, NullIsNoRow DEF RowsKept, Exists, TypeInv, TypeOK
    <2>5. QED
      BY <2>2, <2>3, <2>4
  <1>3. CASE ~Live(t)
    <2>1. tabs' = tabs /\ Answer(r, "500")
      BY <1>3 DEF Update
    <2>2. SlotSteps(r)
      BY <2>1, AnswerSteps DEF Codes
    <2>3. QED
      BY <2>1, <2>2 DEF RowsKept, Exists, TypeInv, TypeOK
  <1>4. QED
    BY <1>2, <1>3

-----------------------------------------------------------------------------
(* Type correctness.                                                       *)

StepOf(r) ==
  /\ tabs' \in [Tabs -> Row \cup {NULL}]
  /\ RowsKept
  /\ SlotSteps(r)

LEMMA InsertSteps ==
  ASSUME TypeInv, NEW r \in Requests, NEW row \in Row, InsertTab(r, row)
  PROVE  StepOf(r) /\ UNCHANGED overtaken
  <1>1. PICK t \in Tabs :
          /\ ~Exists(t)
          /\ \/ tabs' = [tabs EXCEPT ![t] = row] /\ Answer(r, "ok")
             \/ tabs' = tabs /\ Answer(r, "400")
    BY DEF InsertTab
  <1>2. SlotSteps(r)
    BY <1>1, AnswerSteps DEF Codes
  <1>3. tabs' \in [Tabs -> Row \cup {NULL}] /\ RowsKept
    BY <1>1 DEF TypeInv, TypeOK, RowsKept, Exists
  <1>4. QED
    BY <1>2, <1>3 DEF StepOf, InsertTab

\* A find step answers or waits; the table stays as it is.
LEMMA FindSteps ==
  ASSUME TypeInv, NEW r \in Requests, UNCHANGED <<tabs, overtaken>>,
         \/ \E code \in Codes : Answer(r, code)
         \/ \E call \in Request : Await(r, call) /\ WellFormed(call)
  PROVE  StepOf(r) /\ UNCHANGED overtaken
  <1>1. SlotSteps(r)
    BY AnswerSteps, AwaitSteps
  <1>2. QED
    BY <1>1 DEF StepOf, RowsKept, Exists, TypeInv, TypeOK

LEMMA ArriveSteps ==
  ASSUME TypeInv, NEW r \in Requests, Arrive(r)
  PROVE  StepOf(r) /\ UNCHANGED overtaken
  <1>1. CASE CreateTab(r)
    BY <1>1, NewRow, InsertSteps DEF CreateTab
  <1>2. CASE CreateAdminTab(r)
    <2>1. PICK a \in Admins, c \in Contents, n \in Notes \cup {NULL},
               s \in Statuses, now \in Stamps :
            InsertTab(r, NormalizeAdminStatus(DraftRow(a, c), s, a, n, NoDates, now))
      BY <1>2 DEF CreateAdminTab
    <2>2. NoDates \in Dates /\ a \in Users
      BY AdminsAreUsers DEF NoDates, Dates
    <2>3. NormalizeAdminStatus(DraftRow(a, c), s, a, n, NoDates, now) \in Row
      BY <2>2, NewRow, NormalRow
    <2>4. QED
      BY <2>1, <2>3, InsertSteps
  <1>3. CASE UpdateTabFind(r)
    <2>1. PICK t \in Tabs, u \in Users, c \in Contents :
            FindOwn(r, t, u, tabs[t].status \in EditableStatuses,
                    [Call("edit", t, u) EXCEPT !.content = c])
      BY <1>3 DEF UpdateTabFind
    <2> DEFINE call == [Call("edit", t, u) EXCEPT !.content = c]
    <2>2. call \in Request
      BY DEF Call, Request, NoDates, Dates, AuthorPcs
    <2>3. Live(t) /\ tabs[t].author = u => WellFormed(call)
      BY DEF WellFormed, Call, Live, AuthorPcs, ModeratorPcs
    <2>4. QED
      BY <2>1, <2>2, <2>3, FindSteps DEF FindOwn, Codes
  <1>4. CASE SubmitTabFind(r)
    <2>1. PICK t \in Tabs, u \in Users :
            FindOwn(r, t, u, CanTransition(tabs[t].status, "PENDING"), Call("submit", t, u))
      BY <1>4 DEF SubmitTabFind
    <2>2. Call("submit", t, u) \in Request
      BY CallType DEF AuthorPcs
    <2>3. Live(t) /\ tabs[t].author = u => WellFormed(Call("submit", t, u))
      BY DEF WellFormed, Call, Live, AuthorPcs, ModeratorPcs
    <2>4. QED
      BY <2>1, <2>2, <2>3, FindSteps DEF FindOwn, Codes
  <1>5. CASE SoftDeleteTabFind(r)
    <2>1. PICK t \in Tabs, u \in Users : FindOwn(r, t, u, TRUE, Call("delete", t, u))
      BY <1>5 DEF SoftDeleteTabFind
    <2>2. Call("delete", t, u) \in Request
      BY CallType DEF AuthorPcs
    <2>3. Live(t) /\ tabs[t].author = u => WellFormed(Call("delete", t, u))
      BY DEF WellFormed, Call, Live, AuthorPcs, ModeratorPcs
    <2>4. QED
      BY <2>1, <2>2, <2>3, FindSteps DEF FindOwn, Codes
  <1>6. CASE PublishTabFind(r)
    <2>1. PICK t \in Tabs, a \in Admins :
            FindToModerate(r, t, "PUBLISHED", Call("publish", t, a))
      BY <1>6 DEF PublishTabFind
    <2>2. Call("publish", t, a) \in Request
      BY CallType, AdminsAreUsers DEF ModeratorPcs
    <2>3. Live(t) => WellFormed(Call("publish", t, a))
      BY AdminsAreUsers DEF WellFormed, Call, Live, AuthorPcs, ModeratorPcs
    <2>4. QED
      BY <2>1, <2>2, <2>3, FindSteps DEF FindToModerate, Codes
  <1>7. CASE RejectTabFind(r)
    <2>1. PICK t \in Tabs, a \in Admins, n \in Notes :
            FindToModerate(r, t, "REJECTED", [Call("reject", t, a) EXCEPT !.notes = n])
      BY <1>7 DEF RejectTabFind
    <2> DEFINE call == [Call("reject", t, a) EXCEPT !.notes = n]
    <2>2. call \in Request
      BY AdminsAreUsers DEF Call, Request, NoDates, Dates, ModeratorPcs
    <2>3. Live(t) => WellFormed(call)
      BY AdminsAreUsers DEF WellFormed, Call, Live, AuthorPcs, ModeratorPcs
    <2>4. QED
      BY <2>1, <2>2, <2>3, FindSteps DEF FindToModerate, Codes
  <1>8. CASE UpdateAdminTabFind(r)
    <2>1. PICK t \in Tabs, a \in Admins, c \in Contents \cup {UNDEF},
               s \in Statuses \cup {UNDEF}, n \in Notes \cup {NULL, UNDEF} :
            FindToPatch(r, t, [Call("patchStatus", t, a) EXCEPT
                                 !.content = c, !.status = s, !.notes = n])
      BY <1>8 DEF UpdateAdminTabFind
    <2> DEFINE call == [Call("patchStatus", t, a) EXCEPT
                          !.content = c, !.status = s, !.notes = n]
    <2>2. /\ [call EXCEPT !.pc = "patchContent"] \in Request
          /\ Exists(t) => WellFormed([call EXCEPT !.pc = "patchContent"])
      BY AdminsAreUsers
         DEF Call, Request, NoDates, Dates, ModeratorPcs, AuthorPcs, WellFormed
    <2>3. Exists(t) => DatesOf(tabs[t]) \in Dates
      BY LiveRow DEF DatesOf, Dates, Row, TypeInv
    <2>4. Exists(t) /\ call.status # UNDEF =>
            /\ [call EXCEPT !.held = DatesOf(tabs[t])] \in Request
            /\ WellFormed([call EXCEPT !.held = DatesOf(tabs[t])])
      BY <2>3, AdminsAreUsers
         DEF Call, Request, NoDates, ModeratorPcs, AuthorPcs, WellFormed
    <2>5. QED
      BY <2>1, <2>2, <2>4, FindSteps DEF FindToPatch, Codes
  <1>9. CASE SoftDeleteAdminTabFind(r)
    <2>1. PICK t \in Tabs, a \in Admins :
            /\ \/ ~Exists(t) /\ Answer(r, "404")
               \/ Exists(t) /\ Await(r, Call("adminDelete", t, a))
            /\ UNCHANGED <<tabs, overtaken>>
      BY <1>9 DEF SoftDeleteAdminTabFind
    <2>2. Call("adminDelete", t, a) \in Request
      BY CallType, AdminsAreUsers DEF ModeratorPcs
    <2>3. Exists(t) => WellFormed(Call("adminDelete", t, a))
      BY AdminsAreUsers DEF WellFormed, Call, AuthorPcs, ModeratorPcs
    <2>4. QED
      BY <2>1, <2>2, <2>3, FindSteps DEF Codes
  <1>10. QED
    BY <1>1, <1>2, <1>3, <1>4, <1>5, <1>6, <1>7, <1>8, <1>9 DEF Arrive

\* The row a statement writes is well typed, and keeps its author.
LEMMA UpdateWithRow ==
  ASSUME TypeInv, NEW r \in Requests, NEW row, Update(r, row), ~Ready(r),
         reqs[r].tab \in Tabs /\ Exists(reqs[r].tab) =>
           row \in Row /\ row.author = tabs[reqs[r].tab].author
  PROVE  StepOf(r)
  <1>1. reqs[r].tab \in Tabs /\ Exists(reqs[r].tab)
    BY DEF TypeInv, CallsWellFormed, WellFormed
  <1>2. QED
    BY <1>1, UpdateSteps DEF StepOf

LEMMA WriteSteps ==
  ASSUME TypeInv, NEW r \in Requests, Write(r)
  PROVE  StepOf(r)
  <1> DEFINE q == reqs[r]
  <1> DEFINE row == tabs[q.tab]
  <1>1. q \in Request /\ (q.tab \in Tabs /\ Exists(q.tab) => row \in Row)
    BY LiveRow DEF TypeInv, TypeOK
  <1>2. ~Ready(r) => WellFormed(q)
    BY DEF TypeInv, CallsWellFormed
  <1>3. CASE UpdateTabWrite(r)
    <2>1. ~Ready(r) /\ q.content \in Contents /\ Update(r, [row EXCEPT !.content = q.content])
      BY <1>2, <1>3 DEF UpdateTabWrite, Ready, WellFormed
    <2>2. row \in Row => [row EXCEPT !.content = q.content] \in Row
      BY <2>1 DEF Row
    <2>3. QED
      BY <1>1, <2>1, <2>2, UpdateWithRow DEF Row
  <1>4. CASE SubmitTabWrite(r)
    <2>1. PICK now \in Stamps :
            Update(r, [row EXCEPT !.status = "PENDING", !.submittedAt = now])
      BY <1>4 DEF SubmitTabWrite
    <2>2. row \in Row => [row EXCEPT !.status = "PENDING", !.submittedAt = now] \in Row
      BY DEF Row, Statuses
    <2>3. QED
      BY <1>1, <1>4, <2>1, <2>2, UpdateWithRow DEF Row, SubmitTabWrite, Ready
  <1>5. CASE SoftDeleteTabWrite(r)
    <2>1. row \in Row => [row EXCEPT !.deleted = TRUE] \in Row
      BY DEF Row
    <2>2. QED
      BY <1>1, <1>5, <2>1, UpdateWithRow DEF Row, SoftDeleteTabWrite, Ready
  <1>6. CASE PublishTabWrite(r)
    <2>1. PICK now \in Stamps :
            Update(r, [row EXCEPT !.status = "PUBLISHED", !.publishedAt = now,
                                  !.moderatedBy = q.user])
      BY <1>6 DEF PublishTabWrite
    <2>2. ~Ready(r) /\ q.user \in Users
      BY <1>2, <1>6 DEF PublishTabWrite, Ready, WellFormed
    <2>3. row \in Row => [row EXCEPT !.status = "PUBLISHED", !.publishedAt = now,
                                     !.moderatedBy = q.user] \in Row
      BY <2>2 DEF Row, Statuses
    <2>4. QED
      BY <1>1, <2>1, <2>2, <2>3, UpdateWithRow DEF Row
  <1>7. CASE RejectTabWrite(r)
    <2>1. ~Ready(r) /\ q.user \in Users /\ q.notes \in Notes
      BY <1>2, <1>7 DEF RejectTabWrite, Ready, WellFormed
    <2>2. row \in Row => [row EXCEPT !.status = "REJECTED", !.moderatedBy = q.user,
                                     !.notes = q.notes] \in Row
      BY <2>1 DEF Row, Statuses
    <2>3. QED
      BY <1>1, <1>7, <2>1, <2>2, UpdateWithRow DEF Row, RejectTabWrite
  <1>8. CASE UpdateAdminTabContent(r)
    <2> DEFINE new == [row EXCEPT
                         !.content = IF q.content # UNDEF THEN q.content ELSE @,
                         !.notes = IF q.status = UNDEF /\ q.notes # UNDEF THEN q.notes ELSE @]
    <2>1. ~Ready(r) /\ q.tab \in Tabs /\ Exists(q.tab) /\ q.pc = "patchContent"
      BY <1>2, <1>8 DEF UpdateAdminTabContent, Ready, WellFormed
    <2>2. new \in Row /\ new.author = row.author
      BY <1>1, <2>1 DEF Row, Request
    <2>3. CASE q.status = UNDEF \/ ~Live(q.tab)
      <3>1. Update(r, new)
        BY <1>8, <2>3 DEF UpdateAdminTabContent
      <3>2. QED
        BY <2>1, <2>2, <3>1, UpdateWithRow
    <2>4. CASE ~(q.status = UNDEF \/ ~Live(q.tab))
      <3> DEFINE call == [q EXCEPT !.pc = "patchStatus", !.held = DatesOf(new)]
      <3>1. tabs' = [tabs EXCEPT ![q.tab] = new] /\ Await(r, call)
        BY <1>8, <2>4 DEF UpdateAdminTabContent
      <3>2. tabs' \in [Tabs -> Row \cup {NULL}] /\ RowsKept
        BY <2>1, <2>2, <3>1, NullIsNoRow DEF RowsKept, Exists, TypeInv, TypeOK
      <3>3. DatesOf(new) \in Dates
        BY <2>2 DEF DatesOf, Dates, Row
      <3>4. call \in Request
        BY <1>1, <3>3 DEF Request, ModeratorPcs
      <3>5. q.user \in Users /\ q.user \in Admins /\ q.status \in Statuses
        BY <1>1, <1>2, <2>1, <2>4 DEF WellFormed, ModeratorPcs, Request
      <3>6. /\ call.tab = q.tab /\ call.user = q.user
            /\ call.status = q.status /\ call.pc = "patchStatus"
        BY <1>1 DEF Request
      <3>7. reqs' = [reqs EXCEPT ![r] = call]
        BY <3>1 DEF Await
      <3>8. reqs'[r] = call
        BY <3>7 DEF TypeInv, TypeOK
      <3>9. WellFormed(reqs[r])'
        <4>1. tabs'[q.tab] # NULL
          BY <2>1, <3>2 DEF RowsKept, Exists
        <4> HIDE DEF call
        <4>2. QED
          BY <2>1, <3>5, <3>6, <3>8, <4>1 DEF WellFormed, AuthorPcs, Exists
      <3>10. SlotSteps(r)
        BY <3>4, <3>7, <3>9 DEF SlotSteps, TypeInv, TypeOK
      <3>11. QED
        BY <3>2, <3>10 DEF StepOf
    <2>5. QED
      BY <2>3, <2>4
  <1>9. CASE UpdateAdminTabStatus(r)
    <2>1. PICK now \in Stamps :
            Update(r, NormalizeAdminStatus(row, q.status, q.user, q.notes, q.held, now))
      BY <1>9 DEF UpdateAdminTabStatus
    <2>2. ~Ready(r) /\ q.user \in Users /\ q.status \in Statuses
      BY <1>2, <1>9 DEF UpdateAdminTabStatus, Ready, WellFormed
    <2>3. row \in Row =>
            NormalizeAdminStatus(row, q.status, q.user, q.notes, q.held, now) \in Row
      BY <1>1, <2>2, NormalRow DEF Request
    <2>4. NormalizeAdminStatus(row, q.status, q.user, q.notes, q.held, now).author = row.author
      BY <1>1, <1>2, <2>2 DEF NormalizeAdminStatus, Row, WellFormed
    <2>5. QED
      BY <1>1, <2>1, <2>2, <2>3, <2>4, UpdateWithRow
  <1>10. QED
    BY <1>3, <1>4, <1>5, <1>6, <1>7, <1>8, <1>9 DEF Write

LEMMA OvertakenAreRequests ==
  ASSUME TypeOK, NEW r \in Requests, Write(r)
  PROVE  overtaken' \subseteq Requests
  BY DEF TypeOK, Write, UpdateTabWrite, SubmitTabWrite, SoftDeleteTabWrite,
         PublishTabWrite, RejectTabWrite, UpdateAdminTabContent, UpdateAdminTabStatus,
         Overtake, LeaveOthers, Rivals

\* The table, the requests in flight and the history variable keep their types, and
\* a request in flight always points at a row that exists, owned by the user whose
\* ownership was checked or handled by an administrator (tabs.service.ts).
THEOREM TypeCorrect == Spec => []TypeInv
  <1>1. Init => TypeInv
    BY IdleType DEF Init, TypeInv, TypeOK, CallsWellFormed, Ready, Idle, Codes
  <1>2. TypeInv /\ [Next]_vars => TypeInv'
    <2> SUFFICES ASSUME TypeInv, [Next]_vars PROVE TypeInv'
      OBVIOUS
    <2>1. ASSUME NEW r \in Requests, Arrive(r) PROVE TypeInv'
      BY <2>1, ArriveSteps, SlotsStayWellFormed DEF StepOf, SlotSteps, TypeInv, TypeOK
    <2>2. ASSUME NEW r \in Requests, Write(r) PROVE TypeInv'
      BY <2>2, WriteSteps, OvertakenAreRequests, SlotsStayWellFormed
         DEF StepOf, SlotSteps, TypeInv, TypeOK
    <2>3. CASE UNCHANGED vars
      BY <2>3 DEF vars, TypeInv, TypeOK, CallsWellFormed, WellFormed, Ready, Exists
    <2>4. QED
      BY <2>1, <2>2, <2>3 DEF Next
  <1>3. QED
    BY <1>1, <1>2, PTL DEF Spec

\* The tables, the slots and the history variable hold values of their types.
THEOREM TypesAlwaysHold == Spec => []TypeOK
  <1>1. TypeInv => TypeOK
    BY DEF TypeInv
  <1>2. QED
    BY <1>1, TypeCorrect, PTL

-----------------------------------------------------------------------------
(* The moderation columns.                                                 *)

LEMMA NormalFits ==
  ASSUME NEW row \in Row, NEW s \in Statuses, NEW a \in Admins,
         NEW n \in Notes \cup {NULL, UNDEF}, NEW dates \in Dates, NEW now \in Stamps
  PROVE  MetadataFits(NormalizeAdminStatus(row, s, a, n, dates, now))
  BY NullIsNoValue
     DEF MetadataFits, NormalizeAdminStatus, SubmittedAtFor, PublishedAtFor,
         ModeratorFor, Row, Or, DatesOf, NoDates, Dates, Statuses

LEMMA InsertFits ==
  ASSUME TypeInv, MetadataMatchesStatus, NEW r \in Requests, NEW row \in Row,
         MetadataFits(row), InsertTab(r, row)
  PROVE  MetadataMatchesStatus'
  BY DEF InsertTab, MetadataMatchesStatus, MetadataFits, DatesOf, Exists, TypeInv, TypeOK

LEMMA UpdateFits ==
  ASSUME TypeInv, MetadataMatchesStatus, NEW r \in Requests, ~Ready(r), NEW row,
         Update(r, row),
         reqs[r].tab \in Tabs /\ Exists(reqs[r].tab) => MetadataFits(row)
  PROVE  MetadataMatchesStatus'
  <1>1. reqs[r].tab \in Tabs /\ Exists(reqs[r].tab)
    BY DEF TypeInv, CallsWellFormed, WellFormed
  <1>2. MetadataFits(row)
    BY <1>1
  <1>3. SUFFICES ASSUME NEW t \in Tabs, Exists(t)' PROVE MetadataFits(tabs[t])'
    BY DEF MetadataMatchesStatus
  <1>4. tabs'[t] = tabs[t] \/ tabs'[t] = row
    BY DEF Update, TypeInv, TypeOK
  <1>5. tabs'[t] = tabs[t] => Exists(t)
    BY <1>3 DEF Exists
  <1>6. QED
    BY <1>2, <1>4, <1>5 DEF MetadataMatchesStatus, MetadataFits, DatesOf

LEMMA FindsLeaveTable ==
  ASSUME NEW r \in Requests
  PROVE  \/ UpdateTabFind(r) \/ SubmitTabFind(r) \/ SoftDeleteTabFind(r)
         \/ PublishTabFind(r) \/ RejectTabFind(r)
         \/ UpdateAdminTabFind(r) \/ SoftDeleteAdminTabFind(r)
         => UNCHANGED <<tabs, overtaken>>
  <1>1. UpdateTabFind(r) => UNCHANGED <<tabs, overtaken>>
    BY DEF UpdateTabFind, FindOwn
  <1>2. SubmitTabFind(r) => UNCHANGED <<tabs, overtaken>>
    BY DEF SubmitTabFind, FindOwn
  <1>3. SoftDeleteTabFind(r) => UNCHANGED <<tabs, overtaken>>
    BY DEF SoftDeleteTabFind, FindOwn
  <1>4. PublishTabFind(r) \/ RejectTabFind(r) => UNCHANGED <<tabs, overtaken>>
    BY DEF PublishTabFind, RejectTabFind, FindToModerate
  <1>5. UpdateAdminTabFind(r) => UNCHANGED <<tabs, overtaken>>
    BY DEF UpdateAdminTabFind, FindToPatch
  <1>6. SoftDeleteAdminTabFind(r) => UNCHANGED <<tabs, overtaken>>
    BY DEF SoftDeleteAdminTabFind
  <1>7. QED
    BY <1>1, <1>2, <1>3, <1>4, <1>5, <1>6

LEMMA ArriveFits ==
  ASSUME TypeInv, MetadataMatchesStatus, NEW r \in Requests, Arrive(r)
  PROVE  MetadataMatchesStatus'
  <1>1. CASE CreateTab(r)
    <2>1. PICK u \in Users, c \in Contents : InsertTab(r, DraftRow(u, c))
      BY <1>1 DEF CreateTab
    <2>2. MetadataFits(DraftRow(u, c))
      BY DEF MetadataFits, DraftRow, DatesOf, NoDates
    <2>3. QED
      BY <2>1, <2>2, NewRow, InsertFits
  <1>2. CASE CreateAdminTab(r)
    <2>1. PICK a \in Admins, c \in Contents, n \in Notes \cup {NULL},
               s \in Statuses, now \in Stamps :
            InsertTab(r, NormalizeAdminStatus(DraftRow(a, c), s, a, n, NoDates, now))
      BY <1>2 DEF CreateAdminTab
    <2>2. NoDates \in Dates /\ a \in Users
      BY AdminsAreUsers DEF NoDates, Dates
    <2>3. DraftRow(a, c) \in Row
      BY <2>2, NewRow
    <2>4. QED
      BY <2>1, <2>2, <2>3, NormalRow, NormalFits, InsertFits
  <1>3. CASE ~CreateTab(r) /\ ~CreateAdminTab(r)
    <2>1. tabs' = tabs
      BY <1>3, FindsLeaveTable DEF Arrive
    <2>2. QED
      BY <2>1 DEF MetadataMatchesStatus, MetadataFits, DatesOf, Exists
  <1>4. QED
    BY <1>1, <1>2, <1>3

LEMMA WriteFits ==
  ASSUME TypeInv, MetadataMatchesStatus, NEW r \in Requests, Write(r)
  PROVE  MetadataMatchesStatus'
  <1> DEFINE q == reqs[r]
  <1> DEFINE row == tabs[q.tab]
  <1>1. q.tab \in Tabs /\ Exists(q.tab) => row \in Row /\ MetadataFits(row)
    BY LiveRow DEF TypeInv, MetadataMatchesStatus
  <1>2. ~Ready(r) => WellFormed(q)
    BY DEF TypeInv, CallsWellFormed
  <1>3. CASE UpdateTabWrite(r)
    <2>1. ~Ready(r) /\ Update(r, [row EXCEPT !.content = q.content])
      BY <1>3 DEF UpdateTabWrite, Ready
    <2>2. row \in Row /\ MetadataFits(row) => MetadataFits([row EXCEPT !.content = q.content])
      BY DEF Row, MetadataFits, DatesOf
    <2>3. QED
      BY <1>1, <2>1, <2>2, UpdateFits
  <1>4. CASE SubmitTabWrite(r)
    <2>1. PICK now \in Stamps :
            Update(r, [row EXCEPT !.status = "PENDING", !.submittedAt = now])
      BY <1>4 DEF SubmitTabWrite
    <2>2. row \in Row => MetadataFits([row EXCEPT !.status = "PENDING", !.submittedAt = now])
      BY DEF Row, MetadataFits
    <2>3. QED
      BY <1>1, <1>4, <2>1, <2>2, UpdateFits DEF SubmitTabWrite, Ready
  <1>5. CASE SoftDeleteTabWrite(r)
    <2>1. row \in Row /\ MetadataFits(row) => MetadataFits([row EXCEPT !.deleted = TRUE])
      BY DEF Row, MetadataFits, DatesOf
    <2>2. QED
      BY <1>1, <1>5, <2>1, UpdateFits DEF SoftDeleteTabWrite, Ready
  <1>6. CASE PublishTabWrite(r)
    <2>1. PICK now \in Stamps :
            Update(r, [row EXCEPT !.status = "PUBLISHED", !.publishedAt = now,
                                  !.moderatedBy = q.user])
      BY <1>6 DEF PublishTabWrite
    <2>2. ~Ready(r) /\ q.user \in Admins
      BY <1>2, <1>6 DEF PublishTabWrite, Ready, WellFormed, ModeratorPcs
    <2>3. row \in Row => MetadataFits([row EXCEPT !.status = "PUBLISHED",
                                     !.publishedAt = now, !.moderatedBy = q.user])
      BY <2>2, NullIsNoValue DEF Row, MetadataFits
    <2>4. QED
      BY <1>1, <2>1, <2>2, <2>3, UpdateFits
  <1>7. CASE RejectTabWrite(r)
    <2>1. ~Ready(r) /\ q.user \in Admins
      BY <1>2, <1>7 DEF RejectTabWrite, Ready, WellFormed, ModeratorPcs
    <2>2. row \in Row => MetadataFits([row EXCEPT !.status = "REJECTED",
                                     !.moderatedBy = q.user, !.notes = q.notes])
      BY <2>1 DEF Row, MetadataFits
    <2>3. QED
      BY <1>1, <1>7, <2>1, <2>2, UpdateFits DEF RejectTabWrite
  <1>8. CASE UpdateAdminTabContent(r)
    <2> DEFINE new == [row EXCEPT
                         !.content = IF q.content # UNDEF THEN q.content ELSE @,
                         !.notes = IF q.status = UNDEF /\ q.notes # UNDEF THEN q.notes ELSE @]
    <2>1. ~Ready(r) /\ q.tab \in Tabs /\ Exists(q.tab)
      BY <1>2, <1>8 DEF UpdateAdminTabContent, Ready, WellFormed
    <2>2. MetadataFits(new)
      BY <1>1, <2>1 DEF Row, MetadataFits, DatesOf
    <2>3. CASE q.status = UNDEF \/ ~Live(q.tab)
      <3>1. Update(r, new)
        BY <1>8, <2>3 DEF UpdateAdminTabContent
      <3>2. QED
        BY <2>1, <2>2, <3>1, UpdateFits
    <2>4. CASE ~(q.status = UNDEF \/ ~Live(q.tab))
      <3>1. tabs' = [tabs EXCEPT ![q.tab] = new]
        BY <1>8, <2>4 DEF UpdateAdminTabContent
      <3> SUFFICES ASSUME NEW t \in Tabs, Exists(t)' PROVE MetadataFits(tabs[t])'
        BY DEF MetadataMatchesStatus
      <3> HIDE DEF new
      <3>2. tabs'[t] = new \/ (tabs'[t] = tabs[t] /\ Exists(t))
        BY <3>1 DEF Exists, TypeInv, TypeOK
      <3>3. QED
        BY <2>2, <3>2 DEF MetadataMatchesStatus, MetadataFits, DatesOf
    <2>5. QED
      BY <2>3, <2>4
  <1>9. CASE UpdateAdminTabStatus(r)
    <2>1. PICK now \in Stamps :
            Update(r, NormalizeAdminStatus(row, q.status, q.user, q.notes, q.held, now))
      BY <1>9 DEF UpdateAdminTabStatus
    <2>2. ~Ready(r) /\ q.user \in Admins /\ q.status \in Statuses
      BY <1>2, <1>9 DEF UpdateAdminTabStatus, Ready, WellFormed, ModeratorPcs
    <2>3. q \in Request
      BY DEF TypeInv, TypeOK
    <2>4. row \in Row =>
            MetadataFits(NormalizeAdminStatus(row, q.status, q.user, q.notes, q.held, now))
      BY <2>2, <2>3, NormalFits DEF Request
    <2>5. QED
      BY <1>1, <2>1, <2>2, <2>4, UpdateFits
  <1>10. QED
    BY <1>3, <1>4, <1>5, <1>6, <1>7, <1>8, <1>9 DEF Write

\* However requests interleave, a published tab has its publication date (the CHECK
\* constraint of the tabs table), a decided tab the administrator who decided it, and
\* a draft neither (prisma-tab.repository.ts updateStatus writes single columns).
THEOREM MetadataAlwaysMatchesStatus == Spec => []MetadataMatchesStatus
  <1>1. Init => MetadataMatchesStatus
    BY DEF Init, MetadataMatchesStatus, Exists
  <1>2. TypeInv /\ MetadataMatchesStatus /\ [Next]_vars => MetadataMatchesStatus'
    <2> SUFFICES ASSUME TypeInv, MetadataMatchesStatus, [Next]_vars
                 PROVE  MetadataMatchesStatus'
      OBVIOUS
    <2>1. CASE UNCHANGED vars
      BY <2>1 DEF vars, MetadataMatchesStatus, MetadataFits, DatesOf, Exists
    <2>2. CASE Next
      BY <2>2, ArriveFits, WriteFits DEF Next
    <2>3. QED
      BY <2>1, <2>2
  <1>3. QED
    BY <1>1, <1>2, TypeCorrect, PTL DEF Spec

-----------------------------------------------------------------------------
(* Checks made before an await.                                            *)

Stands(r) ==
  /\ Ready(r) => r \notin overtaken
  /\ ~Ready(r) => r \in overtaken \/ CheckHolds(r)

\* The columns the checks are about do not change.
Same(t) ==
  /\ tabs[t] # NULL /\ tabs'[t] # NULL
  /\ tabs'[t].status = tabs[t].status
  /\ tabs'[t].deleted = tabs[t].deleted
  /\ tabs'[t].submittedAt = tabs[t].submittedAt
  /\ tabs'[t].publishedAt = tabs[t].publishedAt

LEMMA StandsInPlace ==
  ASSUME NEW p \in Requests, Stands(p), reqs'[p] = reqs[p],
         p \in overtaken' <=> p \in overtaken,
         ~Ready(p) => Same(reqs[p].tab)
  PROVE  Stands(p)'
  <1>1. CASE Ready(p)
    BY <1>1 DEF Stands, Ready
  <1>2. CASE ~Ready(p) /\ p \in overtaken
    BY <1>2 DEF Stands, Ready
  <1>3. CASE ~Ready(p) /\ CheckHolds(p)
    <2>1. CheckHolds(p)'
      BY <1>3 DEF CheckHolds, Same, Live, DatesOf, Exists
    <2>2. QED
      BY <1>3, <2>1 DEF Stands, Ready
  <1>4. QED
    BY <1>1, <1>2, <1>3 DEF Stands

\* The last statement of a handler: its slot is free and no longer overtaken; the
\* others either see the columns they checked unchanged or are marked overtaken.
LEMMA UpdateStands ==
  ASSUME TypeInv, ChecksStand, NEW r \in Requests, ~Ready(r), NEW row, Update(r, row),
         \/ Overtake(r)
         \/ /\ LeaveOthers(r)
            /\ Live(reqs[r].tab) =>
                 /\ row \in Row
                 /\ row.status = tabs[reqs[r].tab].status
                 /\ row.deleted = tabs[reqs[r].tab].deleted
                 /\ row.submittedAt = tabs[reqs[r].tab].submittedAt
                 /\ row.publishedAt = tabs[reqs[r].tab].publishedAt
  PROVE  ChecksStand'
  <1> DEFINE t == reqs[r].tab
  <1>1. t \in Tabs /\ Exists(t)
    BY DEF TypeInv, CallsWellFormed, WellFormed
  <1>2. /\ reqs' \in [Requests -> Request] /\ Ready(r)'
        /\ \A q \in Requests \ {r} : reqs'[q] = reqs[q]
    BY IdleType DEF Update, Answer, TypeInv, TypeOK, Ready, Idle, Codes
  <1>3. r \notin overtaken'
    BY DEF Overtake, LeaveOthers, Rivals
  <1>4. SUFFICES ASSUME NEW p \in Requests PROVE Stands(p)'
    BY DEF ChecksStand, Stands
  <1>5. CASE p = r
    BY <1>2, <1>3, <1>5 DEF Stands
  <1>6. ASSUME p # r PROVE Stands(p)'
    <2>1. reqs'[p] = reqs[p] /\ Stands(p)
      BY <1>2, <1>6 DEF ChecksStand, Stands
    <2>2. ~Ready(p) => reqs[p].tab \in Tabs /\ Exists(reqs[p].tab)
      BY DEF TypeInv, CallsWellFormed, WellFormed
    <2>3. CASE p \in overtaken' /\ ~Ready(p)
      BY <2>1, <2>3 DEF Stands, Ready
    <2>4. CASE p \notin overtaken' \/ Ready(p)
      <3>1. p \in overtaken' <=> p \in overtaken
        BY <1>6, <2>1, <2>4 DEF Overtake, LeaveOthers, Rivals, Stands
      <3>2. ~Ready(p) => Same(reqs[p].tab)
        <4> SUFFICES ASSUME ~Ready(p) PROVE Same(reqs[p].tab)
          OBVIOUS
        <4>1. CASE reqs[p].tab # t \/ ~Live(t)
          <5>1. tabs'[reqs[p].tab] = tabs[reqs[p].tab]
            BY <4>1, <2>2 DEF Update, TypeInv, TypeOK
          <5>2. QED
            BY <5>1, <2>2 DEF Same, Exists
        <4>2. CASE reqs[p].tab = t /\ Live(t)
          <5>1. p \in Rivals(r)
            BY <1>6, <4>2 DEF Rivals
          <5>2. ~Overtake(r)
            BY <2>4, <4>2, <5>1 DEF Overtake
          <5>3. tabs'[t] = row
            BY <1>1, <4>2 DEF Update, TypeInv, TypeOK
          <5>4. QED
            BY <1>1, <4>2, <5>2, <5>3, NullIsNoRow DEF Same, Exists
        <4>3. QED
          BY <4>1, <4>2
      <3>3. QED
        BY <2>1, <3>1, <3>2, StandsInPlace
    <2>5. QED
      BY <2>3, <2>4
  <1>7. QED
    BY <1>5, <1>6

LEMMA WriteStands ==
  ASSUME TypeInv, ChecksStand, NEW r \in Requests, Write(r)
  PROVE  ChecksStand'
  <1> DEFINE q == reqs[r]
  <1> DEFINE row == tabs[q.tab]
  <1>1. q \in Request /\ (q.tab \in Tabs /\ Exists(q.tab) => row \in Row)
    BY LiveRow DEF TypeInv, TypeOK
  <1>2. ~Ready(r) => q.tab \in Tabs /\ Exists(q.tab)
    BY DEF TypeInv, CallsWellFormed, WellFormed
  <1>3. CASE UpdateTabWrite(r)
    <2>1. /\ ~Ready(r) /\ Update(r, [row EXCEPT !.content = q.content]) /\ LeaveOthers(r)
          /\ q.pc = "edit"
      BY <1>3 DEF UpdateTabWrite, Ready
    <2>2. q.content \in Contents
      BY <2>1 DEF TypeInv, CallsWellFormed, WellFormed
    <2> DEFINE new == [row EXCEPT !.content = q.content]
    <2>3. /\ new \in Row /\ new.status = row.status /\ new.deleted = row.deleted
          /\ new.submittedAt = row.submittedAt /\ new.publishedAt = row.publishedAt
      BY <1>1, <1>2, <2>1, <2>2 DEF Row
    <2>4. QED
      BY <2>1, <2>3, UpdateStands
  <1>4. CASE SubmitTabWrite(r)
    BY <1>4, UpdateStands DEF SubmitTabWrite, Ready
  <1>5. CASE SoftDeleteTabWrite(r)
    BY <1>5, UpdateStands DEF SoftDeleteTabWrite, Ready
  <1>6. CASE PublishTabWrite(r)
    BY <1>6, UpdateStands DEF PublishTabWrite, Ready
  <1>7. CASE RejectTabWrite(r)
    BY <1>7, UpdateStands DEF RejectTabWrite, Ready
  <1>8. CASE UpdateAdminTabStatus(r)
    BY <1>8, UpdateStands DEF UpdateAdminTabStatus, Ready
  <1>9. CASE UpdateAdminTabContent(r)
    <2> DEFINE new == [row EXCEPT
                         !.content = IF q.content # UNDEF THEN q.content ELSE @,
                         !.notes = IF q.status = UNDEF /\ q.notes # UNDEF THEN q.notes ELSE @]
    <2>1. ~Ready(r) /\ LeaveOthers(r) /\ q.pc = "patchContent"
      BY <1>9 DEF UpdateAdminTabContent, Ready
    <2>2. /\ new \in Row /\ new.status = row.status /\ new.deleted = row.deleted
          /\ new.submittedAt = row.submittedAt /\ new.publishedAt = row.publishedAt
      BY <1>1, <1>2, <2>1 DEF Row, Request
    <2>3. CASE q.status = UNDEF \/ ~Live(q.tab)
      <3>1. Update(r, new)
        BY <1>9, <2>3 DEF UpdateAdminTabContent
      <3> HIDE DEF new
      <3>2. QED
        BY <2>1, <2>2, <3>1, UpdateStands
    <2>4. CASE ~(q.status = UNDEF \/ ~Live(q.tab))
      <3> DEFINE call == [q EXCEPT !.pc = "patchStatus", !.held = DatesOf(new)]
      <3>1. tabs' = [tabs EXCEPT ![q.tab] = new] /\ reqs' = [reqs EXCEPT ![r] = call]
        BY <1>9, <2>4 DEF UpdateAdminTabContent, Await
      <3>2. SUFFICES ASSUME NEW p \in Requests PROVE Stands(p)'
        BY DEF ChecksStand, Stands
      <3>3. tabs'[q.tab] = new
        BY <1>2, <2>1, <3>1 DEF TypeInv, TypeOK
      <3>4. CASE p = r
        <4>1. reqs'[r] = call
          BY <3>1 DEF TypeInv, TypeOK
        <4>2. call.pc = "patchStatus" /\ call.tab = q.tab /\ call.held = DatesOf(new)
          BY <1>1 DEF Request
        <4> HIDE DEF call, new
        <4>3. CheckHolds(r)' /\ ~Ready(r)'
          BY <3>3, <4>1, <4>2 DEF CheckHolds, DatesOf, AuthorPcs, Ready
        <4>4. QED
          BY <3>4, <4>3 DEF Stands
      <3>5. ASSUME p # r PROVE Stands(p)'
        <4>1. reqs'[p] = reqs[p] /\ Stands(p)
          BY <3>1, <3>5 DEF ChecksStand, Stands, TypeInv, TypeOK
        <4>2. p \in overtaken' <=> p \in overtaken
          BY <2>1, <3>5 DEF LeaveOthers
        <4>3. ~Ready(p) => reqs[p].tab \in Tabs /\ Exists(reqs[p].tab)
          BY DEF TypeInv, CallsWellFormed, WellFormed
        <4> HIDE DEF new
        <4>4. ~Ready(p) => Same(reqs[p].tab)
          <5> SUFFICES ASSUME ~Ready(p) PROVE Same(reqs[p].tab)
            OBVIOUS
          <5>1. CASE reqs[p].tab = q.tab
            BY <2>2, <3>3, <4>3, <5>1, NullIsNoRow DEF Same, Exists
          <5>2. CASE reqs[p].tab # q.tab
            <6>1. tabs'[reqs[p].tab] = tabs[reqs[p].tab]
              BY <3>1, <4>3, <5>2 DEF TypeInv, TypeOK
            <6>2. QED
              BY <4>3, <6>1 DEF Same, Exists
          <5>3. QED
            BY <5>1, <5>2
        <4>5. QED
          BY <4>1, <4>2, <4>4, StandsInPlace
      <3>6. QED
        BY <3>4, <3>5
    <2>5. QED
      BY <2>3, <2>4
  <1>10. QED
    BY <1>3, <1>4, <1>5, <1>6, <1>7, <1>8, <1>9 DEF Write

\* An arriving request changes no row that exists; it is answered at once, or goes on
\* with its checks holding.
LEMMA ArrivalStands ==
  ASSUME TypeInv, ChecksStand, NEW r \in Requests, Ready(r), UNCHANGED overtaken,
         \A q \in Requests \ {r} : reqs'[q] = reqs[q],
         \A t \in Tabs : Exists(t) => tabs'[t] = tabs[t],
         Ready(r)' \/ CheckHolds(r)'
  PROVE  ChecksStand'
  <1> SUFFICES ASSUME NEW p \in Requests PROVE Stands(p)'
    BY DEF ChecksStand, Stands
  <1>1. CASE p = r
    BY <1>1 DEF ChecksStand, Stands
  <1>2. CASE p # r
    <2>1. reqs'[p] = reqs[p] /\ Stands(p)
      BY <1>2 DEF ChecksStand, Stands
    <2>2. ~Ready(p) => reqs[p].tab \in Tabs /\ Exists(reqs[p].tab)
      BY DEF TypeInv, CallsWellFormed, WellFormed
    <2>3. ~Ready(p) => Same(reqs[p].tab)
      BY <2>2 DEF Same, Exists
    <2>4. QED
      BY <2>1, <2>3, StandsInPlace
  <1>3. QED
    BY <1>1, <1>2

\* What a find step does to its slot.
LEMMA FindStands ==
  ASSUME TypeInv, ChecksStand, NEW r \in Requests, Ready(r), UNCHANGED <<tabs, overtaken>>,
         \/ \E code \in Codes : Answer(r, code)
         \/ \E call \in Request :
              /\ Await(r, call)
              /\ LET row == tabs[call.tab]
                 IN  /\ call.pc \in AuthorPcs \cup {"publish", "reject"} => Live(call.tab)
                     /\ call.pc = "edit" => row.status \in EditableStatuses
                     /\ call.pc = "submit" => CanTransition(row.status, "PENDING")
                     /\ call.pc = "publish" => CanTransition(row.status, "PUBLISHED")
                     /\ call.pc = "reject" => CanTransition(row.status, "REJECTED")
                     /\ call.pc = "patchStatus" => call.held = DatesOf(row)
  PROVE  ChecksStand'
  <1>1. CASE \E code \in Codes : Answer(r, code)
    <2>1. Ready(r)' /\ \A q \in Requests \ {r} : reqs'[q] = reqs[q]
      BY <1>1 DEF Answer, Ready, Idle, TypeInv, TypeOK
    <2>2. QED
      BY <2>1, ArrivalStands
  <1>2. CASE ~\E code \in Codes : Answer(r, code)
    <2>1. PICK call \in Request :
            /\ Await(r, call)
            /\ call.pc \in AuthorPcs \cup {"publish", "reject"} => Live(call.tab)
            /\ call.pc = "edit" => tabs[call.tab].status \in EditableStatuses
            /\ call.pc = "submit" => CanTransition(tabs[call.tab].status, "PENDING")
            /\ call.pc = "publish" => CanTransition(tabs[call.tab].status, "PUBLISHED")
            /\ call.pc = "reject" => CanTransition(tabs[call.tab].status, "REJECTED")
            /\ call.pc = "patchStatus" => call.held = DatesOf(tabs[call.tab])
      BY <1>2
    <2>2. reqs'[r] = call /\ \A q \in Requests \ {r} : reqs'[q] = reqs[q]
      BY <2>1 DEF Await, TypeInv, TypeOK
    <2>3. CheckHolds(r)'
      BY <2>1, <2>2 DEF CheckHolds, Live, Exists, DatesOf
    <2>4. QED
      BY <2>2, <2>3, ArrivalStands
  <1>3. QED
    BY <1>1, <1>2

LEMMA InsertStands ==
  ASSUME TypeInv, ChecksStand, NEW r \in Requests, NEW row, InsertTab(r, row)
  PROVE  ChecksStand'
  <1>1. Ready(r)' /\ \A q \in Requests \ {r} : reqs'[q] = reqs[q]
    BY DEF InsertTab, Answer, Ready, Idle, TypeInv, TypeOK
  <1>2. \A t \in Tabs : Exists(t) => tabs'[t] = tabs[t]
    BY DEF InsertTab, Exists, TypeInv, TypeOK
  <1>3. QED
    BY <1>1, <1>2, ArrivalStands DEF InsertTab

LEMMA ArriveStands ==
  ASSUME TypeInv, ChecksStand, NEW r \in Requests, Arrive(r)
  PROVE  ChecksStand'
  <1>1. CASE CreateTab(r)
    BY <1>1, InsertStands DEF CreateTab
  <1>2. CASE CreateAdminTab(r)
    BY <1>2, InsertStands DEF CreateAdminTab
  <1>3. CASE UpdateTabFind(r)
    <2>1. PICK t \in Tabs, u \in Users, c \in Contents :
            FindOwn(r, t, u, tabs[t].status \in EditableStatuses,
                    [Call("edit", t, u) EXCEPT !.content = c])
      BY <1>3 DEF UpdateTabFind
    <2> DEFINE call == [Call("edit", t, u) EXCEPT !.content = c]
    <2>2. call \in Request /\ call.pc = "edit" /\ call.tab = t
      BY DEF Call, Request, NoDates, Dates, AuthorPcs
    <2> HIDE DEF call
    <2>3. QED
      BY <2>1, <2>2, FindStands DEF FindOwn, Codes, call
  <1>4. CASE SubmitTabFind(r)
    <2>1. PICK t \in Tabs, u \in Users :
            FindOwn(r, t, u, CanTransition(tabs[t].status, "PENDING"), Call("submit", t, u))
      BY <1>4 DEF SubmitTabFind
    <2>2. /\ Call("submit", t, u) \in Request
          /\ Call("submit", t, u).pc = "submit" /\ Call("submit", t, u).tab = t
      BY CallType DEF AuthorPcs, Call
    <2>3. QED
      BY <2>1, <2>2, FindStands DEF FindOwn, Codes
  <1>5. CASE SoftDeleteTabFind(r)
    <2>1. PICK t \in Tabs, u \in Users : FindOwn(r, t, u, TRUE, Call("delete", t, u))
      BY <1>5 DEF SoftDeleteTabFind
    <2>2. /\ Call("delete", t, u) \in Request
          /\ Call("delete", t, u).pc = "delete" /\ Call("delete", t, u).tab = t
      BY CallType DEF AuthorPcs, Call
    <2>3. QED
      BY <2>1, <2>2, FindStands DEF FindOwn, Codes
  <1>6. CASE PublishTabFind(r)
    <2>1. PICK t \in Tabs, a \in Admins :
            FindToModerate(r, t, "PUBLISHED", Call("publish", t, a))
      BY <1>6 DEF PublishTabFind
    <2>2. /\ Call("publish", t, a) \in Request
          /\ Call("publish", t, a).pc = "publish" /\ Call("publish", t, a).tab = t
      BY CallType, AdminsAreUsers DEF ModeratorPcs, Call
    <2>3. QED
      BY <2>1, <2>2, FindStands DEF FindToModerate, Codes
  <1>7. CASE RejectTabFind(r)
    <2>1. PICK t \in Tabs, a \in Admins, n \in Notes :
            FindToModerate(r, t, "REJECTED", [Call("reject", t, a) EXCEPT !.notes = n])
      BY <1>7 DEF RejectTabFind
    <2> DEFINE call == [Call("reject", t, a) EXCEPT !.notes = n]
    <2>2. call \in Request /\ call.pc = "reject" /\ call.tab = t
      BY AdminsAreUsers DEF Call, Request, NoDates, Dates, ModeratorPcs
    <2>3. QED
      BY <2>1, <2>2, FindStands DEF FindToModerate, Codes
  <1>8. CASE UpdateAdminTabFind(r)
    <2>1. PICK t \in Tabs, a \in Admins, c \in Contents \cup {UNDEF},
               s \in Statuses \cup {UNDEF}, n \in Notes \cup {NULL, UNDEF} :
            FindToPatch(r, t, [Call("patchStatus", t, a) EXCEPT
                                 !.content = c, !.status = s, !.notes = n])
      BY <1>8 DEF UpdateAdminTabFind
    <2> DEFINE call == [Call("patchStatus", t, a) EXCEPT
                          !.content = c, !.status = s, !.notes = n]
    <2> DEFINE first == [call EXCEPT !.pc = "patchContent"]
    <2> DEFINE last == [call EXCEPT !.held = DatesOf(tabs[t])]
    <2>2. first \in Request /\ first.pc = "patchContent"
      BY AdminsAreUsers DEF Call, Request, NoDates, Dates, ModeratorPcs
    <2>3. Exists(t) => DatesOf(tabs[t]) \in Dates
      BY LiveRow DEF DatesOf, Dates, Row, TypeInv
    <2>4. Exists(t) => /\ last \in Request /\ last.pc = "patchStatus"
                       /\ last.tab = t /\ last.held = DatesOf(tabs[t])
      BY <2>3, AdminsAreUsers DEF Call, Request, NoDates, ModeratorPcs
    <2>5. \/ Answer(r, "404") \/ Answer(r, "ok") \/ Await(r, first)
          \/ Exists(t) /\ Await(r, last)
      BY <2>1 DEF FindToPatch
    <2>6. Ready(r) /\ UNCHANGED <<tabs, overtaken>>
      BY <2>1 DEF FindToPatch
    <2> HIDE DEF call, first, last
    <2>7. QED
      BY <2>2, <2>4, <2>5, <2>6, FindStands DEF Codes, AuthorPcs
  <1>9. CASE SoftDeleteAdminTabFind(r)
    <2>1. PICK t \in Tabs, a \in Admins :
            /\ Ready(r)
            /\ \/ ~Exists(t) /\ Answer(r, "404")
               \/ Exists(t) /\ Await(r, Call("adminDelete", t, a))
            /\ UNCHANGED <<tabs, overtaken>>
      BY <1>9 DEF SoftDeleteAdminTabFind
    <2>2. /\ Call("adminDelete", t, a) \in Request
          /\ Call("adminDelete", t, a).pc = "adminDelete"
      BY CallType, AdminsAreUsers DEF ModeratorPcs, Call
    <2>3. QED
      BY <2>1, <2>2, FindStands DEF Codes, AuthorPcs
  <1>10. QED
    BY <1>1, <1>2, <1>3, <1>4, <1>5, <1>6, <1>7, <1>8, <1>9 DEF Arrive

\* A check made before an await holds until the write, unless another request has
\* written the status or the deletion of that tab in between.
THEOREM ChecksAlwaysStand == Spec => []ChecksStand
  <1>1. Init => ChecksStand
    BY DEF Init, ChecksStand, Ready, Idle
  <1>2. TypeInv /\ ChecksStand /\ [Next]_vars => ChecksStand'
    <2> SUFFICES ASSUME TypeInv, ChecksStand, [Next]_vars PROVE ChecksStand'
      OBVIOUS
    <2>1. CASE UNCHANGED vars
      BY <2>1 DEF vars, ChecksStand, CheckHolds, Ready, Live, Exists, DatesOf
    <2>2. CASE Next
      BY <2>2, ArriveStands, WriteStands DEF Next
    <2>3. QED
      BY <2>1, <2>2
  <1>3. QED
    BY <1>1, <1>2, TypeCorrect, PTL DEF Spec

-----------------------------------------------------------------------------
(* What a step may never do.                                               *)

\* Submit, publish, reject and the author's edit meet a status they are legal in,
\* unless the request was overtaken (the use cases' canTransition, updateTab's
\* EDITABLE_STATUSES), whatever the number of requests.
THEOREM OnlyOvertakenRequestsBreakTheTable == Spec => LegalUnlessOvertaken
  <1>1. ChecksStand /\ [Next]_vars =>
          [\A r \in Requests \ overtaken :
             LET row == tabs[reqs[r].tab]
             IN  /\ Effects(r, {"submit"}) => CanTransition(row.status, "PENDING")
                 /\ Effects(r, {"publish"}) => CanTransition(row.status, "PUBLISHED")
                 /\ Effects(r, {"reject"}) => CanTransition(row.status, "REJECTED")
                 /\ Effects(r, {"edit"}) => row.status \in EditableStatuses]_vars
    BY DEF ChecksStand, CheckHolds, Effects, Ready
  <1>2. QED
    BY <1>1, ChecksAlwaysStand, PTL DEF Spec, LegalUnlessOvertaken

\* An arriving request changes no row there is.
LEMMA ArrivalsChangeNoRow ==
  ASSUME TypeInv, NEW r \in Requests, Arrive(r), NEW t \in Tabs, Exists(t)
  PROVE  tabs'[t] = tabs[t] /\ Ready(r) /\ \A q \in Requests \ {r} : reqs'[q] = reqs[q]
  <1>1. /\ Ready(r)
        /\ (\E x : reqs' = [reqs EXCEPT ![r] = x])
        /\ \/ tabs' = tabs
           \/ \E n \in Tabs : \E row : ~Exists(n) /\ tabs' = [tabs EXCEPT ![n] = row]
    <2>1. CASE CreateTab(r) \/ CreateAdminTab(r)
      BY <2>1 DEF CreateTab, CreateAdminTab, InsertTab, Answer
    <2>2. CASE UpdateTabFind(r) \/ SubmitTabFind(r) \/ SoftDeleteTabFind(r)
      BY <2>2 DEF UpdateTabFind, SubmitTabFind, SoftDeleteTabFind, FindOwn, Answer, Await
    <2>3. CASE PublishTabFind(r) \/ RejectTabFind(r)
      BY <2>3 DEF PublishTabFind, RejectTabFind, FindToModerate, Answer, Await
    <2>4. CASE UpdateAdminTabFind(r)
      BY <2>4 DEF UpdateAdminTabFind, FindToPatch, Answer, Await
    <2>5. CASE SoftDeleteAdminTabFind(r)
      BY <2>5 DEF SoftDeleteAdminTabFind, Answer, Await
    <2>6. QED
      BY <2>1, <2>2, <2>3, <2>4, <2>5 DEF Arrive
  <1>2. QED
    BY <1>1 DEF TypeInv, TypeOK

\* A statement answers or, between the two of a PATCH, waits; it writes the row of its
\* own request if that row is live, and answers a server error exactly when it is not.
StatementOf(r) ==
  /\ ~Ready(r)
  /\ reqs'[r].pc # reqs[r].pc
  /\ \A q \in Requests \ {r} : reqs'[q] = reqs[q]
  /\ \A t \in Tabs : tabs'[t] # tabs[t] => t = reqs[r].tab /\ Live(t)
  /\ reqs'[r] = Idle("500") => ~Live(reqs[r].tab)

LEMMA UpdateIsStatement ==
  ASSUME TypeInv, NEW r \in Requests, ~Ready(r), NEW row, Update(r, row)
  PROVE  StatementOf(r)
  BY DEF Update, StatementOf, Answer, Idle, Ready, TypeInv, TypeOK

LEMMA WriteIsStatement ==
  ASSUME TypeInv, NEW r \in Requests, Write(r)
  PROVE  StatementOf(r)
  <1>1. CASE UpdateAdminTabContent(r) /\ reqs[r].status # UNDEF /\ Live(reqs[r].tab)
    <2>1. PICK row, dates :
            /\ tabs' = [tabs EXCEPT ![reqs[r].tab] = row]
            /\ reqs' = [reqs EXCEPT ![r] = [reqs[r] EXCEPT !.pc = "patchStatus", !.held = dates]]
      BY <1>1 DEF UpdateAdminTabContent, Await
    <2>2. reqs[r] \in Request /\ reqs[r].pc = "patchContent"
      BY <1>1 DEF UpdateAdminTabContent, TypeInv, TypeOK
    <2>3. reqs'[r].pc = "patchStatus" /\ \A q \in Requests \ {r} : reqs'[q] = reqs[q]
      BY <2>1, <2>2 DEF Request, TypeInv, TypeOK
    <2>4. \A t \in Tabs : tabs'[t] # tabs[t] => t = reqs[r].tab
      BY <2>1 DEF TypeInv, TypeOK
    <2>5. QED
      BY <1>1, <2>2, <2>3, <2>4 DEF StatementOf, Ready, Idle
  <1>2. CASE ~(UpdateAdminTabContent(r) /\ reqs[r].status # UNDEF /\ Live(reqs[r].tab))
    <2>1. ~Ready(r) /\ \E row : Update(r, row)
      BY <1>2 DEF Write, UpdateTabWrite, SubmitTabWrite, SoftDeleteTabWrite,
                  PublishTabWrite, RejectTabWrite, UpdateAdminTabContent,
                  UpdateAdminTabStatus, Ready
    <2>2. QED
      BY <2>1, UpdateIsStatement
  <1>3. QED
    BY <1>1, <1>2

\* No request changes, revives or deletes again a soft-deleted tab, however many read
\* it before the deletion (the filter of prisma.service.ts on every update).
THEOREM NoRequestThawsATab == Spec => DeletedTabsFrozen
  <1>1. TypeInv /\ [Next]_vars =>
          [\A t \in Tabs : Exists(t) /\ tabs[t].deleted => tabs'[t] = tabs[t]]_vars
    <2> SUFFICES ASSUME TypeInv, Next, NEW t \in Tabs, Exists(t), tabs[t].deleted
                 PROVE  tabs'[t] = tabs[t]
      BY DEF vars
    <2>1. QED
      BY ArrivalsChangeNoRow, WriteIsStatement DEF Next, StatementOf, Live
  <1>2. QED
    BY <1>1, TypeCorrect, PTL DEF Spec, DeletedTabsFrozen

\* An author's or a moderator's request that passed its checks fails with a server
\* error only when it was overtaken.
THEOREM OnlyOvertakenRequestsFail == Spec => ServedUnlessOvertaken
  <1>1. TypeInv /\ ChecksStand /\ [Next]_vars =>
          [\A r \in Requests :
             reqs[r].pc \in AuthorPcs \cup {"publish", "reject"} /\ reqs'[r] = Idle("500")
               => r \in overtaken]_vars
    <2> SUFFICES ASSUME TypeInv, ChecksStand, Next, NEW r \in Requests,
                        reqs[r].pc \in AuthorPcs \cup {"publish", "reject"},
                        reqs'[r] = Idle("500")
                 PROVE  r \in overtaken
      BY DEF vars
    <2>1. ~Ready(r) /\ reqs'[r] # reqs[r]
      BY DEF Ready, AuthorPcs, Idle
    <2>2. reqs[r].tab \in Tabs /\ Exists(reqs[r].tab)
      BY <2>1 DEF TypeInv, CallsWellFormed, WellFormed
    <2>3. Write(r)
      BY <2>1, <2>2, ArrivalsChangeNoRow, WriteIsStatement DEF Next, StatementOf
    <2>4. QED
      BY <2>1, <2>3, WriteIsStatement DEF StatementOf, ChecksStand, CheckHolds
  <1>2. QED
    BY <1>1, TypeCorrect, ChecksAlwaysStand, PTL DEF Spec, ServedUnlessOvertaken

\* A tab changes only on a request of its author or of an administrator, and keeps
\* its author (the ownership checks of tabs.service.ts, the guards of the admin API).
THEOREM OnlyOwnerOrAdminChangesATab == Spec => ChangedByOwnerOrAdmin
  <1>1. TypeInv /\ [Next]_vars =>
          [\A t \in Tabs : Exists(t) /\ tabs'[t] # tabs[t] =>
             /\ tabs'[t].author = tabs[t].author
             /\ \E r \in Requests :
                  /\ reqs[r].tab = t /\ reqs'[r].pc # reqs[r].pc
                  /\ \/ reqs[r].user = tabs[t].author
                     \/ reqs[r].user \in Admins /\ reqs[r].pc \notin AuthorPcs]_vars
    <2> SUFFICES ASSUME TypeInv, Next, NEW t \in Tabs, Exists(t), tabs'[t] # tabs[t]
                 PROVE  /\ tabs'[t].author = tabs[t].author
                        /\ \E r \in Requests :
                             /\ reqs[r].tab = t /\ reqs'[r].pc # reqs[r].pc
                             /\ \/ reqs[r].user = tabs[t].author
                                \/ reqs[r].user \in Admins /\ reqs[r].pc \notin AuthorPcs
      BY DEF vars
    <2>1. PICK r \in Requests : Write(r)
      BY ArrivalsChangeNoRow DEF Next
    <2>2. StatementOf(r) /\ RowsKept
      BY <2>1, WriteIsStatement, WriteSteps DEF StepOf
    <2>3. WellFormed(reqs[r]) /\ reqs[r].pc \in AuthorPcs \cup ModeratorPcs
      BY <2>2 DEF StatementOf, TypeInv, TypeOK, CallsWellFormed, Ready, Request
    <2>4. QED
      BY <2>2, <2>3 DEF StatementOf, RowsKept, WellFormed
  <1>2. QED
    BY <1>1, TypeCorrect, PTL DEF Spec, ChangedByOwnerOrAdmin

\* The statement that gives a published tab another date belongs to an overtaken
\* request, and is the last of its handler.
LEMMA OnlyOvertakenRedate ==
  ASSUME TypeInv, MetadataMatchesStatus, ChecksStand, NEW r \in Requests, Write(r),
         NEW t \in Tabs, Exists(t), tabs[t].status = "PUBLISHED",
         tabs'[t].status = "PUBLISHED", tabs'[t].publishedAt # tabs[t].publishedAt
  PROVE  r \in overtaken /\ reqs[r].tab = t /\ reqs'[r].pc = "idle"
  <1>1. reqs[r].tab = t /\ Live(t) /\ ~Ready(r)
    BY WriteIsStatement DEF StatementOf
  <1>2. tabs[t] \in Row /\ tabs[t].publishedAt # NULL
    BY LiveRow DEF TypeInv, MetadataMatchesStatus, MetadataFits
  <1>3. ASSUME NEW row, Update(r, row)
        PROVE  tabs'[t] = row /\ reqs'[r].pc = "idle"
    BY <1>1, <1>3 DEF Update, Answer, Idle, TypeInv, TypeOK
  <1>4. ~UpdateTabWrite(r) /\ ~SoftDeleteTabWrite(r)
    BY <1>1, <1>2, <1>3 DEF UpdateTabWrite, SoftDeleteTabWrite, Row
  <1>5. ~SubmitTabWrite(r) /\ ~RejectTabWrite(r)
    <2>1. \A x : [tabs[t] EXCEPT !.status = "PENDING", !.submittedAt = x].status = "PENDING"
      BY <1>2 DEF Row
    <2>2. \A a, n : [tabs[t] EXCEPT !.status = "REJECTED", !.moderatedBy = a,
                                    !.notes = n].status = "REJECTED"
      BY <1>2 DEF Row
    <2>3. ~SubmitTabWrite(r)
      BY <1>1, <1>3, <2>1 DEF SubmitTabWrite
    <2>4. ~RejectTabWrite(r)
      <3> SUFFICES ASSUME RejectTabWrite(r) PROVE FALSE
        OBVIOUS
      <3>1. tabs'[t] = [tabs[t] EXCEPT !.status = "REJECTED",
                          !.moderatedBy = reqs[r].user, !.notes = reqs[r].notes]
        BY <1>1, <1>3 DEF RejectTabWrite
      <3>2. QED
        BY <2>2, <3>1
    <2>5. QED
      BY <2>3, <2>4
  <1>6. ~UpdateAdminTabContent(r)
    <2> SUFFICES ASSUME UpdateAdminTabContent(r) PROVE FALSE
      OBVIOUS
    <2> DEFINE row == [tabs[t] EXCEPT
                         !.content = IF reqs[r].content # UNDEF THEN reqs[r].content ELSE @,
                         !.notes = IF reqs[r].status = UNDEF /\ reqs[r].notes # UNDEF
                                     THEN reqs[r].notes ELSE @]
    <2>1. tabs' = [tabs EXCEPT ![t] = row]
      BY <1>1 DEF UpdateAdminTabContent, Update
    <2>2. row.publishedAt = tabs[t].publishedAt
      BY <1>2 DEF Row
    <2>3. QED
      BY <2>1, <2>2 DEF TypeInv, TypeOK
  <1>7. CASE PublishTabWrite(r)
    <2>1. ~CanTransition("PUBLISHED", "PUBLISHED")
      BY DEF CanTransition, TabStatusTransitions, Statuses
    <2>2. r \in overtaken
      BY <1>1, <1>7, <2>1 DEF PublishTabWrite, ChecksStand, CheckHolds
    <2>3. QED
      BY <1>1, <1>3, <1>7, <2>2 DEF PublishTabWrite
  <1>8. CASE UpdateAdminTabStatus(r)
    <2>1. PICK now \in Stamps :
            Update(r, NormalizeAdminStatus(tabs[t], reqs[r].status, reqs[r].user,
                                           reqs[r].notes, reqs[r].held, now))
      BY <1>1, <1>8 DEF UpdateAdminTabStatus
    <2>2. tabs'[t] = NormalizeAdminStatus(tabs[t], reqs[r].status, reqs[r].user,
                                          reqs[r].notes, reqs[r].held, now)
          /\ reqs'[r].pc = "idle"
      BY <2>1, <1>3
    <2>3. tabs'[t].publishedAt = PublishedAtFor("PUBLISHED", reqs[r].held.publishedAt, now)
      BY <1>2, <2>2 DEF NormalizeAdminStatus, Row
    <2>4. reqs[r].held # DatesOf(tabs[t])
      BY <1>2, <2>3, UndefIsNoValue DEF PublishedAtFor, Or, DatesOf, Row
    <2>5. r \in overtaken
      BY <1>1, <1>8, <2>4 DEF UpdateAdminTabStatus, ChecksStand, CheckHolds
    <2>6. QED
      BY <1>1, <2>2, <2>5
  <1>9. QED
    BY <1>4, <1>5, <1>6, <1>7, <1>8 DEF Write

\* A tab that stays published keeps its publication date, the key its public listings
\* page by, unless the request that writes it was overtaken (normalizeAdminStatus
\* keeps the date updateAdminTab has read).
THEOREM PublicationDateStays == Spec => PublishedAtStable
  <1>1. TypeInv /\ MetadataMatchesStatus /\ ChecksStand /\ [Next]_vars =>
          [\A t \in Tabs :
             Exists(t) /\ tabs[t].status = "PUBLISHED" /\ tabs'[t].status = "PUBLISHED"
               => \/ tabs'[t].publishedAt = tabs[t].publishedAt
                  \/ \E r \in overtaken : reqs[r].tab = t /\ reqs'[r].pc = "idle"]_vars
    BY ArrivalsChangeNoRow, OnlyOvertakenRedate DEF Next, vars
  <1>2. QED
    BY <1>1, TypeCorrect, MetadataAlwaysMatchesStatus, ChecksAlwaysStand, PTL
       DEF Spec, PublishedAtStable

-----------------------------------------------------------------------------
(* TabLifecycle with a single slot implements TabStatusMachine: the write  *)
(* of a handler is the abstract step, everything else leaves the           *)
(* moderation columns as they are.                                         *)

Columns == {"author", "status", "submittedAt", "publishedAt", "moderatedBy", "notes", "deleted"}

\* Nobody is overtaken, since there is nobody else.
Alone == overtaken = {}

SerialInv == TypeInv /\ ChecksStand /\ Alone

-----------------------------------------------------------------------------
(* The abstract state.                                                     *)

LEMMA ModerationIs ==
  ASSUME NEW row \in Row
  PROVE  /\ Moderation(row).author = row.author
         /\ Moderation(row).status = row.status
         /\ Moderation(row).submittedAt = row.submittedAt
         /\ Moderation(row).publishedAt = row.publishedAt
         /\ Moderation(row).moderatedBy = row.moderatedBy
         /\ Moderation(row).notes = row.notes
         /\ Moderation(row).deleted = row.deleted
         /\ DOMAIN Moderation(row) = Columns
         /\ Moderation(row) # NULL
  BY NullIsNoModeration DEF Moderation, Columns, Row

\* Row t is written: its moderation columns become those of row, the others stay.
LEMMA RowWritten ==
  ASSUME TypeInv, NEW t \in Tabs, NEW row \in Row, tabs' = [tabs EXCEPT ![t] = row]
  PROVE  /\ Moderations'[t] = Moderation(row)
         /\ \A o \in Tabs \ {t} : Moderations'[o] = Moderations[o]
         /\ Exists(t) => Moderations[t] = Moderation(tabs[t]) /\ tabs[t] \in Row
         /\ ~Exists(t) => Moderations[t] = NULL
  <1>1. tabs'[t] = row /\ Exists(t)' /\ \A o \in Tabs \ {t} : tabs'[o] = tabs[o]
    BY NullIsNoRow DEF TypeInv, TypeOK, Exists
  <1> QED
    BY <1>1, LiveRow DEF TypeInv, Moderations, Exists

\* A write of the columns cols of a live tab, in the terms of the abstract machine.
LEMMA WritesColumns ==
  ASSUME TypeInv, NEW t \in Tabs, Live(t), NEW row \in Row, tabs' = [tabs EXCEPT ![t] = row],
         NEW cols, \A c \in Columns \ cols : Moderation(row)[c] = Moderation(tabs[t])[c]
  PROVE  Machine!Active(t) /\ Machine!Writes(t, cols)
  <1>1. /\ Moderations'[t] = Moderation(row) /\ Moderations[t] = Moderation(tabs[t])
        /\ \A o \in Tabs \ {t} : Moderations'[o] = Moderations[o]
        /\ tabs[t] \in Row /\ ~tabs[t].deleted
    BY RowWritten DEF Live
  <1>2. Machine!Active(t)
    BY <1>1, ModerationIs DEF Machine!Active, Moderations
  <1>3. Machine!Writes(t, cols)
    BY <1>1, ModerationIs DEF Machine!Writes, Moderations, Columns
  <1> QED
    BY <1>2, <1>3

\* Of a row only the columns cols differ from the row it replaces.
Keeps(old, row, cols) == \A c \in Columns \ cols : row[c] = old[c]

LEMMA ModerationColumns ==
  ASSUME NEW row \in Row, NEW c \in Columns
  PROVE  Moderation(row)[c] = row[c]
  BY DEF Moderation, Columns

LEMMA RowKeeps ==
  ASSUME TypeInv, NEW t \in Tabs, Live(t), NEW row \in Row, tabs' = [tabs EXCEPT ![t] = row],
         NEW cols, Keeps(tabs[t], row, cols)
  PROVE  /\ Machine!Active(t) /\ Machine!Writes(t, cols)
         /\ Moderations[t] = Moderation(tabs[t]) /\ Moderations'[t] = Moderation(row)
         /\ tabs[t] \in Row
  <1>1. Exists(t) /\ tabs[t] \in Row
    BY LiveRow DEF TypeInv, Live
  <1>2. \A c \in Columns \ cols : Moderation(row)[c] = Moderation(tabs[t])[c]
    BY <1>1, ModerationColumns DEF Keeps
  <1> QED
    BY <1>1, <1>2, RowWritten, WritesColumns

-----------------------------------------------------------------------------
(* What each write is in the abstract machine.                             *)

\* No moderation column changes.
LEMMA Stutters ==
  ASSUME TypeInv, NEW t \in Tabs, Live(t), NEW row \in Row, tabs' = [tabs EXCEPT ![t] = row],
         Keeps(tabs[t], row, {})
  PROVE  Moderations' = Moderations
  <1>1. Moderations'[t] = Moderation(row) /\ Moderations[t] = Moderation(tabs[t])
        /\ tabs[t] \in Row
    BY RowKeeps
  <1>2. Moderation(row) = Moderation(tabs[t])
    BY DEF Keeps, Columns, Moderation
  <1>3. \A o \in Tabs \ {t} : Moderations'[o] = Moderations[o]
    BY RowWritten
  <1>4. \A o \in Tabs : Moderations'[o] = Moderations[o]
    BY <1>1, <1>2, <1>3
  <1> QED
    BY <1>4 DEF Moderations

LEMMA Submits ==
  ASSUME TypeInv, NEW t \in Tabs, Live(t), NEW row \in Row, tabs' = [tabs EXCEPT ![t] = row],
         Keeps(tabs[t], row, {"status", "submittedAt"}),
         CanTransition(tabs[t].status, "PENDING"), row.status = "PENDING", row.submittedAt \in Stamps
  PROVE  Machine!Submit(t)
  <1>1. /\ Machine!Active(t) /\ Machine!Writes(t, {"status", "submittedAt"})
        /\ Moderations[t] = Moderation(tabs[t]) /\ Moderations'[t] = Moderation(row)
        /\ tabs[t] \in Row
    BY RowKeeps
  <1>2. tabs[t].status \in {"DRAFT", "REJECTED"}
    BY <1>1 DEF CanTransition, TabStatusTransitions, Statuses, Row
  <1> QED
    BY <1>1, <1>2, ModerationIs DEF Machine!Submit, Machine!Moves

LEMMA Publishes ==
  ASSUME TypeInv, NEW t \in Tabs, Live(t), NEW row \in Row, tabs' = [tabs EXCEPT ![t] = row],
         Keeps(tabs[t], row, {"status", "publishedAt", "moderatedBy"}), NEW a \in Admins,
         CanTransition(tabs[t].status, "PUBLISHED"), row.status = "PUBLISHED",
         row.publishedAt \in Stamps, row.moderatedBy = a
  PROVE  Machine!Publish(t, a)
  <1>1. /\ Machine!Active(t) /\ Machine!Writes(t, {"status", "publishedAt", "moderatedBy"})
        /\ Moderations[t] = Moderation(tabs[t]) /\ Moderations'[t] = Moderation(row)
        /\ tabs[t] \in Row
    BY RowKeeps
  <1>2. tabs[t].status \in {"PENDING"}
    BY <1>1 DEF CanTransition, TabStatusTransitions, Statuses, Row
  <1> QED
    BY <1>1, <1>2, ModerationIs DEF Machine!Publish, Machine!Moves

LEMMA Rejects ==
  ASSUME TypeInv, NEW t \in Tabs, Live(t), NEW row \in Row, tabs' = [tabs EXCEPT ![t] = row],
         Keeps(tabs[t], row, {"status", "moderatedBy", "notes"}), NEW a \in Admins,
         CanTransition(tabs[t].status, "REJECTED"), row.status = "REJECTED",
         row.notes \in Notes, row.moderatedBy = a
  PROVE  Machine!Reject(t, a)
  <1>1. /\ Machine!Active(t) /\ Machine!Writes(t, {"status", "moderatedBy", "notes"})
        /\ Moderations[t] = Moderation(tabs[t]) /\ Moderations'[t] = Moderation(row)
        /\ tabs[t] \in Row
    BY RowKeeps
  <1>2. tabs[t].status \in {"PENDING"}
    BY <1>1 DEF CanTransition, TabStatusTransitions, Statuses, Row
  <1> QED
    BY <1>1, <1>2, ModerationIs DEF Machine!Reject, Machine!Moves

LEMMA Deletes ==
  ASSUME TypeInv, NEW t \in Tabs, Live(t), NEW row \in Row, tabs' = [tabs EXCEPT ![t] = row],
         Keeps(tabs[t], row, {"deleted"}), row.deleted
  PROVE  Machine!Delete(t)
  BY RowKeeps, ModerationIs DEF Machine!Delete

LEMMA Annotates ==
  ASSUME TypeInv, NEW t \in Tabs, Live(t), NEW row \in Row, tabs' = [tabs EXCEPT ![t] = row],
         Keeps(tabs[t], row, {"notes"})
  PROVE  Machine!Annotate(t)
  <1>1. row.notes \in Notes \cup {NULL}
    BY DEF Row
  <1> QED
    BY <1>1, RowKeeps, ModerationIs DEF Machine!Annotate

\* What an administrator's status brings along, for the dates the row had.
LEMMA NormalizeIs ==
  ASSUME NEW old \in Row, NEW s \in Statuses, NEW a \in Admins,
         NEW n \in Notes \cup {NULL, UNDEF}, NEW dates \in Dates, NEW now \in Stamps
  PROVE  LET row == NormalizeAdminStatus(old, s, a, n, dates, now)
         IN  /\ row \in Row /\ row.author = old.author /\ row.deleted = old.deleted
             /\ row.status = s
             /\ row.submittedAt = NULL <=> s = "DRAFT"
             /\ row.publishedAt # NULL <=> s = "PUBLISHED"
             /\ dates.submittedAt = NULL \/ row.submittedAt \in {dates.submittedAt, NULL}
             /\ dates.publishedAt = NULL \/ row.publishedAt \in {dates.publishedAt, NULL}
             /\ row.moderatedBy = IF s \in {"PUBLISHED", "REJECTED"} THEN a ELSE NULL
             /\ row.notes # NULL => s = "REJECTED"
  <1> DEFINE row == NormalizeAdminStatus(old, s, a, n, dates, now)
  <1>1. row \in Row
    BY NormalRow, AdminsAreUsers
  <1>2. /\ row.author = old.author /\ row.deleted = old.deleted /\ row.status = s
        /\ row.submittedAt = SubmittedAtFor(s, dates.submittedAt, now)
        /\ row.publishedAt = PublishedAtFor(s, dates.publishedAt, now)
        /\ row.moderatedBy = ModeratorFor(s, a)
        /\ row.notes = NotesFor(s, n)
    BY DEF NormalizeAdminStatus, Row
  <1>3. now # NULL /\ UNDEF \notin Stamps
    BY NullIsNoValue, UndefIsNoValue
  <1> HIDE DEF row
  <1> QED
    BY <1>1, <1>2, <1>3 DEF SubmittedAtFor, PublishedAtFor, ModeratorFor, NotesFor, Or, Dates, row

LEMMA Overrides ==
  ASSUME TypeInv, NEW t \in Tabs, Live(t), NEW s \in Statuses, NEW a \in Admins,
         NEW n \in Notes \cup {NULL, UNDEF}, NEW now \in Stamps,
         tabs' = [tabs EXCEPT ![t] = NormalizeAdminStatus(tabs[t], s, a, n, DatesOf(tabs[t]), now)]
  PROVE  Machine!Override(t, a)
  <1> DEFINE row == NormalizeAdminStatus(tabs[t], s, a, n, DatesOf(tabs[t]), now)
  <1> DEFINE cols == {"status", "submittedAt", "publishedAt", "moderatedBy", "notes"}
  <1>1. tabs[t] \in Row
    BY LiveRow DEF TypeInv, Live
  <1>2. DatesOf(tabs[t]) \in Dates /\ DatesOf(tabs[t]).submittedAt = tabs[t].submittedAt
        /\ DatesOf(tabs[t]).publishedAt = tabs[t].publishedAt
    BY <1>1 DEF DatesOf, Dates, Row
  <1>3. /\ row \in Row /\ row.author = tabs[t].author /\ row.deleted = tabs[t].deleted
        /\ row.status = s
        /\ row.submittedAt = NULL <=> s = "DRAFT"
        /\ row.publishedAt # NULL <=> s = "PUBLISHED"
        /\ tabs[t].submittedAt = NULL \/ row.submittedAt \in {tabs[t].submittedAt, NULL}
        /\ tabs[t].publishedAt = NULL \/ row.publishedAt \in {tabs[t].publishedAt, NULL}
        /\ row.moderatedBy = IF s \in {"PUBLISHED", "REJECTED"} THEN a ELSE NULL
        /\ row.notes # NULL => s = "REJECTED"
    BY <1>1, <1>2, NormalizeIs
  <1>4. tabs' = [tabs EXCEPT ![t] = row]
    OBVIOUS
  <1> HIDE DEF row
  <1>5. Keeps(tabs[t], row, cols)
    BY <1>3 DEF Keeps, Columns
  <1>6. /\ Machine!Active(t) /\ Machine!Writes(t, cols)
        /\ Moderations[t] = Moderation(tabs[t]) /\ Moderations'[t] = Moderation(row)
    BY <1>3, <1>4, <1>5, RowKeeps
  <1>7. Machine!Normal(t, Moderations[t], a)
    BY <1>1, <1>3, <1>6, ModerationIs DEF Machine!Normal, Machine!Statuses, Statuses
  <1> QED
    BY <1>6, <1>7 DEF Machine!Override

\* A tab inserted: the abstract machine has it from now on.
LEMMA Creates ==
  ASSUME TypeInv, NEW t \in Tabs, ~Exists(t), NEW row \in Row, ~row.deleted,
         tabs' = [tabs EXCEPT ![t] = row]
  PROVE  Machine!Created(t) /\ Moderations'[t] = Moderation(row)
  BY RowWritten, ModerationIs DEF Machine!Created, Machine!Writes, Columns

LEMMA CreatesDraft ==
  ASSUME TypeInv, NEW t \in Tabs, ~Exists(t), NEW u \in Users, NEW c \in Contents,
         tabs' = [tabs EXCEPT ![t] = DraftRow(u, c)]
  PROVE  Machine!Create(t)
  <1>1. /\ DraftRow(u, c) \in Row /\ ~DraftRow(u, c).deleted
        /\ DraftRow(u, c).status = "DRAFT" /\ DraftRow(u, c).submittedAt = NULL
        /\ DraftRow(u, c).publishedAt = NULL /\ DraftRow(u, c).moderatedBy = NULL
        /\ DraftRow(u, c).notes = NULL
    BY NewRow DEF DraftRow
  <1>2. Machine!Created(t) /\ Moderations'[t] = Moderation(DraftRow(u, c))
    BY <1>1, Creates
  <1> QED
    BY <1>1, <1>2, ModerationIs
       DEF Machine!Create, Machine!Normal, Machine!Statuses, Machine!NoDates

LEMMA CreatesAsAdmin ==
  ASSUME TypeInv, NEW t \in Tabs, ~Exists(t), NEW a \in Admins, NEW c \in Contents,
         NEW s \in Statuses, NEW n \in Notes \cup {NULL}, NEW now \in Stamps,
         tabs' = [tabs EXCEPT ![t] =
                    NormalizeAdminStatus(DraftRow(a, c), s, a, n, NoDates, now)]
  PROVE  Machine!CreateAsAdmin(t, a)
  <1> DEFINE row == NormalizeAdminStatus(DraftRow(a, c), s, a, n, NoDates, now)
  <1>1. /\ DraftRow(a, c) \in Row /\ DraftRow(a, c).author = a /\ ~DraftRow(a, c).deleted
    BY NewRow, AdminsAreUsers DEF DraftRow
  <1>2. NoDates \in Dates
    BY DEF NoDates, Dates
  <1>3. /\ row \in Row /\ row.author = a /\ ~row.deleted /\ row.status = s
        /\ row.submittedAt = NULL <=> s = "DRAFT"
        /\ row.publishedAt # NULL <=> s = "PUBLISHED"
        /\ row.moderatedBy = IF s \in {"PUBLISHED", "REJECTED"} THEN a ELSE NULL
        /\ row.notes # NULL => s = "REJECTED"
    BY <1>1, <1>2, NormalizeIs
  <1>4. tabs' = [tabs EXCEPT ![t] = row]
    OBVIOUS
  <1> HIDE DEF row
  <1>5. Machine!Created(t) /\ Moderations'[t] = Moderation(row)
    BY <1>3, <1>4, Creates
  <1> QED
    BY <1>3, <1>5, ModerationIs
       DEF Machine!CreateAsAdmin, Machine!Normal, Machine!Statuses, Machine!NoDates, Statuses

-----------------------------------------------------------------------------
(* What the handlers do is what the abstract machine does.                 *)

\* The abstract machine moves, or is where it was.
Mapped == Machine!Next \/ UNCHANGED Moderations

\* The last statement of a handler: nothing, or a write of its row.
LEMMA Statement ==
  ASSUME NEW r \in Requests, NEW row, Update(r, row), ~Live(reqs[r].tab) \/ Mapped
  PROVE  Mapped
  <1>1. CASE ~Live(reqs[r].tab)
    BY <1>1 DEF Update, Mapped, Moderations, Exists
  <1> QED
    BY <1>1

LEMMA WritesMapped ==
  ASSUME SerialInv, NEW r \in Requests, Write(r)
  PROVE  Mapped
  <1>1. PICK q \in Request : q = reqs[r]
    BY DEF SerialInv, TypeInv, TypeOK
  <1>2. PICK t : t = q.tab
    OBVIOUS
  <1> DEFINE old == tabs[t]
  <1>3. ~Ready(r)
    BY WriteIsStatement DEF SerialInv, StatementOf
  <1>4. CheckHolds(r) /\ TypeInv /\ WellFormed(q) /\ t \in Tabs /\ Exists(t) /\ old \in Row
    BY <1>1, <1>2, <1>3, LiveRow
       DEF SerialInv, ChecksStand, Alone, TypeInv, CallsWellFormed, WellFormed
  <1>5. ASSUME NEW row, Update(r, row), Live(t) PROVE tabs' = [tabs EXCEPT ![t] = row]
    BY <1>1, <1>2, <1>5 DEF Update
  <1>6. ASSUME ~Live(t), NEW row, Update(r, row) PROVE Mapped
    BY <1>1, <1>2, <1>6, Statement
  <1>7. CASE UpdateTabWrite(r)
    <2>1. Update(r, [old EXCEPT !.content = q.content]) /\ q.content \in Contents
      BY <1>1, <1>2, <1>4, <1>7 DEF UpdateTabWrite, WellFormed
    <2> SUFFICES ASSUME Live(t) PROVE Mapped
      BY <1>6, <2>1
    <2>2. PICK row : row = [old EXCEPT !.content = q.content]
      OBVIOUS
    <2>3. row \in Row /\ Keeps(old, row, {})
      BY <1>4, <2>1, <2>2 DEF Row, Keeps, Columns
    <2>4. tabs' = [tabs EXCEPT ![t] = row]
      BY <1>5, <2>1, <2>2
    <2> QED
      BY <1>4, <2>3, <2>4, Stutters DEF Mapped
  <1>8. CASE SubmitTabWrite(r)
    <2>1. PICK now \in Stamps : Update(r, [old EXCEPT !.status = "PENDING", !.submittedAt = now])
      BY <1>1, <1>2, <1>8 DEF SubmitTabWrite
    <2> SUFFICES ASSUME Live(t) PROVE Mapped
      BY <1>6, <2>1
    <2>2. PICK row : row = [old EXCEPT !.status = "PENDING", !.submittedAt = now]
      OBVIOUS
    <2>3. /\ row \in Row /\ Keeps(old, row, {"status", "submittedAt"})
          /\ row.status = "PENDING" /\ row.submittedAt \in Stamps
      BY <1>4, <2>2 DEF Row, Keeps, Columns, Statuses
    <2>4. tabs' = [tabs EXCEPT ![t] = row]
      BY <1>5, <2>1, <2>2
    <2>5. CanTransition(old.status, "PENDING")
      BY <1>1, <1>2, <1>4, <1>8 DEF SubmitTabWrite, CheckHolds
    <2> QED
      BY <1>4, <2>3, <2>4, <2>5, Submits DEF Mapped, Machine!Next
  <1>9. CASE SoftDeleteTabWrite(r)
    <2>1. Update(r, [old EXCEPT !.deleted = TRUE])
      BY <1>1, <1>2, <1>9 DEF SoftDeleteTabWrite
    <2> SUFFICES ASSUME Live(t) PROVE Mapped
      BY <1>6, <2>1
    <2>2. PICK row : row = [old EXCEPT !.deleted = TRUE]
      OBVIOUS
    <2>3. row \in Row /\ Keeps(old, row, {"deleted"}) /\ row.deleted
      BY <1>4, <2>2 DEF Row, Keeps, Columns
    <2>4. tabs' = [tabs EXCEPT ![t] = row]
      BY <1>5, <2>1, <2>2
    <2> QED
      BY <1>4, <2>3, <2>4, Deletes DEF Mapped, Machine!Next
  <1>10. CASE PublishTabWrite(r)
    <2>1. PICK now \in Stamps :
            Update(r, [old EXCEPT !.status = "PUBLISHED", !.publishedAt = now,
                                  !.moderatedBy = q.user])
      BY <1>1, <1>2, <1>10 DEF PublishTabWrite
    <2> SUFFICES ASSUME Live(t) PROVE Mapped
      BY <1>6, <2>1
    <2>2. PICK row : row = [old EXCEPT !.status = "PUBLISHED", !.publishedAt = now,
                                       !.moderatedBy = q.user]
      OBVIOUS
    <2>3. q.user \in Admins /\ q.user \in Users
      BY <1>1, <1>4, <1>10 DEF PublishTabWrite, WellFormed, ModeratorPcs
    <2>4. /\ row \in Row /\ Keeps(old, row, {"status", "publishedAt", "moderatedBy"})
          /\ row.status = "PUBLISHED" /\ row.publishedAt \in Stamps /\ row.moderatedBy = q.user
      BY <1>4, <2>2, <2>3 DEF Row, Keeps, Columns, Statuses
    <2>5. tabs' = [tabs EXCEPT ![t] = row]
      BY <1>5, <2>1, <2>2
    <2>6. CanTransition(old.status, "PUBLISHED")
      BY <1>1, <1>2, <1>4, <1>10 DEF PublishTabWrite, CheckHolds
    <2> QED
      BY <1>4, <2>3, <2>4, <2>5, <2>6, Publishes DEF Mapped, Machine!Next
  <1>11. CASE RejectTabWrite(r)
    <2>1. Update(r, [old EXCEPT !.status = "REJECTED", !.moderatedBy = q.user,
                                !.notes = q.notes])
      BY <1>1, <1>2, <1>11 DEF RejectTabWrite
    <2> SUFFICES ASSUME Live(t) PROVE Mapped
      BY <1>6, <2>1
    <2>2. PICK row : row = [old EXCEPT !.status = "REJECTED", !.moderatedBy = q.user,
                                       !.notes = q.notes]
      OBVIOUS
    <2>3. q.user \in Admins /\ q.user \in Users /\ q.notes \in Notes
      BY <1>1, <1>4, <1>11 DEF RejectTabWrite, WellFormed, ModeratorPcs
    <2>4. /\ row \in Row /\ Keeps(old, row, {"status", "moderatedBy", "notes"})
          /\ row.status = "REJECTED" /\ row.notes \in Notes /\ row.moderatedBy = q.user
      BY <1>4, <2>2, <2>3 DEF Row, Keeps, Columns, Statuses
    <2>5. tabs' = [tabs EXCEPT ![t] = row]
      BY <1>5, <2>1, <2>2
    <2>6. CanTransition(old.status, "REJECTED")
      BY <1>1, <1>2, <1>4, <1>11 DEF RejectTabWrite, CheckHolds
    <2> QED
      BY <1>4, <2>3, <2>4, <2>5, <2>6, Rejects DEF Mapped, Machine!Next
  <1>12. CASE UpdateAdminTabContent(r)
    <2>1. PICK row :
            row = [old EXCEPT
                     !.content = IF q.content # UNDEF THEN q.content ELSE @,
                     !.notes = IF q.status = UNDEF /\ q.notes # UNDEF THEN q.notes ELSE @]
      OBVIOUS
    <2>2. Update(r, row) \/ (Live(t) /\ tabs' = [tabs EXCEPT ![t] = row])
      BY <1>1, <1>2, <1>12, <2>1 DEF UpdateAdminTabContent
    <2> SUFFICES ASSUME Live(t) PROVE Mapped
      BY <1>6, <2>2
    <2>3. tabs' = [tabs EXCEPT ![t] = row]
      BY <1>5, <2>2
    <2>4. row \in Row
      BY <1>1, <1>4, <2>1 DEF Row, Request
    <2>5. Keeps(old, row, {"notes"})
      BY <1>4, <2>1 DEF Row, Keeps, Columns
    <2> QED
      BY <1>4, <2>3, <2>4, <2>5, Annotates DEF Mapped, Machine!Next
  <1>13. CASE UpdateAdminTabStatus(r)
    <2>1. PICK now \in Stamps :
            Update(r, NormalizeAdminStatus(old, q.status, q.user, q.notes, q.held, now))
      BY <1>1, <1>2, <1>13 DEF UpdateAdminTabStatus
    <2> SUFFICES ASSUME Live(t) PROVE Mapped
      BY <1>6, <2>1
    <2>2. q.user \in Admins /\ q.status \in Statuses
      BY <1>1, <1>4, <1>13 DEF UpdateAdminTabStatus, WellFormed, ModeratorPcs
    <2>3. q.held = DatesOf(old) /\ q.notes \in Notes \cup {NULL, UNDEF}
      BY <1>1, <1>2, <1>4, <1>13 DEF UpdateAdminTabStatus, CheckHolds, Request
    <2>4. tabs' = [tabs EXCEPT ![t] =
                     NormalizeAdminStatus(old, q.status, q.user, q.notes, DatesOf(old), now)]
      BY <1>5, <2>1, <2>3
    <2> QED
      BY <1>4, <2>2, <2>3, <2>4, Overrides DEF Mapped, Machine!Next
  <1> QED
    BY <1>7, <1>8, <1>9, <1>10, <1>11, <1>12, <1>13 DEF Write

LEMMA ArrivalsMapped ==
  ASSUME SerialInv, NEW r \in Requests, Arrive(r)
  PROVE  Mapped
  <1>1. TypeInv
    BY DEF SerialInv
  <1>2. tabs' = tabs => Mapped
    BY DEF Mapped, Moderations, Exists
  <1>3. CASE CreateTab(r)
    <2>1. PICK u \in Users, c \in Contents : InsertTab(r, DraftRow(u, c))
      BY <1>3 DEF CreateTab
    <2>2. PICK t \in Tabs :
            ~Exists(t) /\ (tabs' = [tabs EXCEPT ![t] = DraftRow(u, c)] \/ tabs' = tabs)
      BY <2>1 DEF InsertTab
    <2> QED
      BY <1>1, <1>2, <2>2, CreatesDraft DEF Mapped, Machine!Next
  <1>4. CASE CreateAdminTab(r)
    <2>1. PICK a \in Admins, c \in Contents, n \in Notes \cup {NULL},
               s \in Statuses, now \in Stamps :
            InsertTab(r, NormalizeAdminStatus(DraftRow(a, c), s, a, n, NoDates, now))
      BY <1>4 DEF CreateAdminTab
    <2>2. PICK row : row = NormalizeAdminStatus(DraftRow(a, c), s, a, n, NoDates, now)
      OBVIOUS
    <2>3. PICK t \in Tabs :
            ~Exists(t) /\ (tabs' = [tabs EXCEPT ![t] = row] \/ tabs' = tabs)
      BY <2>1, <2>2 DEF InsertTab
    <2> QED
      BY <1>1, <1>2, <2>2, <2>3, CreatesAsAdmin DEF Mapped, Machine!Next
  <1> QED
    BY <1>2, <1>3, <1>4, FindsLeaveTable DEF Arrive

-----------------------------------------------------------------------------

\* With one slot no request has a rival.
LEMMA StaysAlone ==
  ASSUME \A p, q \in Requests : p = q, Alone, [Next]_vars
  PROVE  Alone'
  <1>1. \A r \in Requests : Rivals(r) = {}
    BY DEF Rivals
  <1>2. ASSUME NEW r \in Requests, Arrive(r) PROVE UNCHANGED overtaken
    BY <1>2, FindsLeaveTable DEF Arrive, CreateTab, CreateAdminTab, InsertTab
  <1>3. ASSUME NEW r \in Requests, Write(r) PROVE Overtake(r) \/ LeaveOthers(r)
    BY <1>3 DEF Write, UpdateTabWrite, SubmitTabWrite, SoftDeleteTabWrite, PublishTabWrite,
                RejectTabWrite, UpdateAdminTabContent, UpdateAdminTabStatus
  <1>4. ASSUME NEW r \in Requests, Write(r) PROVE overtaken' = {}
    BY <1>1, <1>3, <1>4 DEF Alone, Overtake, LeaveOthers
  <1>5. CASE UNCHANGED vars
    BY <1>5 DEF vars, Alone
  <1> QED
    BY <1>2, <1>4, <1>5 DEF Next, Alone

\* The types, the checks made before an await and nobody being overtaken hold for good
\* when requests are served one at a time (tabs.service.ts, tab use cases).
THEOREM SerialInvHolds ==
  ASSUME \A p, q \in Requests : p = q
  PROVE  Spec => []SerialInv
  <1>1. Init => Alone
    BY DEF Init, Alone
  <1>2. Alone /\ [Next]_vars => Alone'
    BY StaysAlone
  <1>3. Spec => []Alone
    BY <1>1, <1>2, PTL DEF Spec
  <1> QED
    BY <1>3, TypeCorrect, ChecksAlwaysStand, PTL DEF SerialInv

\* Served one at a time, the tab endpoints do what the documented status machine and
\* the administrator's override allow and nothing else (tab-status-machine.ts,
\* normalizeAdminStatus): every write is one of its steps, and creating, finding and
\* editing content change none of its columns beyond that.
THEOREM SerialTabsFollowTheStatusMachine ==
  ASSUME \A p, q \in Requests : p = q
  PROVE  Spec => ImplementsStatusMachine
  <1>1. Init => Machine!Init
    BY DEF Init, Machine!Init, Moderations, Exists
  <1>2. SerialInv /\ [Next]_vars => [Machine!Next]_Moderations
    <2> SUFFICES ASSUME SerialInv, [Next]_vars PROVE Mapped
      BY DEF Mapped
    <2>1. CASE UNCHANGED vars
      BY <2>1 DEF vars, Mapped, Moderations, Exists
    <2> QED
      BY <2>1, ArrivalsMapped, WritesMapped DEF Next
  <1> QED
    BY <1>1, <1>2, SerialInvHolds, PTL DEF Spec, ImplementsStatusMachine, Machine!Spec

-----------------------------------------------------------------------------
(* What the status machine guarantees.                                     *)

\* DecidedWasSubmitted, said of the abstract machine.
MachineDated ==
  \A t \in Tabs : Moderations[t] # NULL /\ Moderations[t].status # "DRAFT"
                    => Moderations[t].submittedAt # NULL

LEMMA MachineDatedIs == TypeInv => (MachineDated <=> DecidedWasSubmitted)
  BY LiveRow, ModerationIs DEF MachineDated, DecidedWasSubmitted, Moderations, TypeInv, Exists

LEMMA MachineKeepsDates ==
  ASSUME MachineDated, Machine!Next
  PROVE  MachineDated'
  <1>1. PICK t \in Tabs :
          \/ Machine!Create(t) \/ Machine!Submit(t) \/ Machine!Annotate(t) \/ Machine!Delete(t)
          \/ \E a \in Admins : \/ Machine!CreateAsAdmin(t, a) \/ Machine!Publish(t, a)
                               \/ Machine!Reject(t, a) \/ Machine!Override(t, a)
    BY DEF Machine!Next
  <1> DEFINE Dated == Moderations'[t].status # "DRAFT" => Moderations'[t].submittedAt # NULL
  <1>2. ASSUME NEW cols, Machine!Writes(t, cols), Dated PROVE MachineDated'
    BY <1>2 DEF MachineDated, Machine!Writes
  <1>3. ASSUME NEW cols, Machine!Writes(t, cols), Machine!Active(t),
               "status" \notin cols, "submittedAt" \notin cols
        PROVE  Dated
    BY <1>3 DEF MachineDated, Machine!Writes, Machine!Active
  <1>4. CASE Machine!Annotate(t)
    BY <1>2, <1>3, <1>4 DEF Machine!Annotate
  <1>5. CASE Machine!Delete(t)
    BY <1>2, <1>3, <1>5 DEF Machine!Delete
  <1>6. CASE Machine!Submit(t)
    BY <1>2, <1>6, NullIsNoValue DEF Machine!Submit
  <1>7. ASSUME NEW cols, Machine!Writes(t, cols), Machine!Active(t), "submittedAt" \notin cols,
               Moderations[t].status \in {"PENDING"}
        PROVE  Dated
    BY <1>7 DEF MachineDated, Machine!Writes, Machine!Active
  <1>8. ASSUME NEW a \in Admins, Machine!Publish(t, a) PROVE MachineDated'
    BY <1>2, <1>7, <1>8 DEF Machine!Publish, Machine!Moves
  <1>9. ASSUME NEW a \in Admins, Machine!Reject(t, a) PROVE MachineDated'
    BY <1>2, <1>7, <1>9 DEF Machine!Reject, Machine!Moves
  <1>10. ASSUME NEW known, NEW a, Machine!Normal(t, known, a) PROVE Dated
    BY <1>10 DEF Machine!Normal
  <1>11. ASSUME NEW a \in Admins, Machine!Override(t, a) PROVE MachineDated'
    BY <1>2, <1>10, <1>11 DEF Machine!Override
  <1>12. ASSUME NEW a \in Admins, Machine!CreateAsAdmin(t, a) PROVE MachineDated'
    BY <1>2, <1>10, <1>12 DEF Machine!CreateAsAdmin, Machine!Created
  <1>13. CASE Machine!Create(t)
    BY <1>2, <1>10, <1>13 DEF Machine!Create, Machine!Created
  <1> QED
    BY <1>1, <1>4, <1>5, <1>6, <1>8, <1>9, <1>11, <1>12, <1>13

\* Served one at a time, no sequence of submit, publish, reject and PATCH leaves a tab
\* decided or pending without its submission date (the columns each updateStatus call
\* leaves out): it follows from the abstract machine's steps.
THEOREM SerialDecisionsKeepTheSubmissionDate ==
  ASSUME \A p, q \in Requests : p = q
  PROVE  Spec => []DecidedWasSubmitted
  <1>1. Init => MachineDated
    BY DEF Init, MachineDated, Moderations, Exists
  <1>2. SerialInv /\ MachineDated /\ [Next]_vars => MachineDated'
    <2> SUFFICES ASSUME SerialInv, MachineDated, [Next]_vars PROVE MachineDated'
      OBVIOUS
    <2>1. Mapped
      <3>1. CASE UNCHANGED vars
        BY <3>1 DEF vars, Mapped, Moderations, Exists
      <3> QED
        BY <3>1, ArrivalsMapped, WritesMapped DEF Next
    <2>2. CASE UNCHANGED Moderations
      BY <2>2 DEF MachineDated
    <2> QED
      BY <2>1, <2>2, MachineKeepsDates DEF Mapped
  <1>3. SerialInv => (MachineDated <=> DecidedWasSubmitted)
    BY MachineDatedIs DEF SerialInv
  <1> QED
    BY <1>1, <1>2, <1>3, SerialInvHolds, PTL DEF Spec
=============================================================================
