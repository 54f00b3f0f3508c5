-------------------------- MODULE TabStatusMachine --------------------------
(***************************************************************************)
(* What the tab workflow promises, one atomic step per request: the status *)
(* machine DRAFT -> PENDING -> PUBLISHED or REJECTED, REJECTED -> PENDING, *)
(* next to the administrator's override, which may set any status but      *)
(* leaves the moderation columns as that status requires.                  *)
(***************************************************************************)
CONSTANTS Tabs, Users, Admins, Notes, Stamps, NULL

VARIABLE machine  \* the moderation columns of each tab, NULL before it exists

Statuses == {"DRAFT", "PENDING", "PUBLISHED", "REJECTED"}

Init == machine = [t \in Tabs |-> NULL]

Active(t) == machine[t] # NULL /\ ~machine[t].deleted

\* Only tab t changes, and of it only the columns in cols.
Writes(t, cols) ==
  /\ \A o \in Tabs \ {t} : machine'[o] = machine[o]
  /\ machine'[t] # NULL
  /\ \A c \in {"author", "status", "submittedAt", "publishedAt", "moderatedBy",
               "notes", "deleted"} \ cols : machine'[t][c] = machine[t][c]

Moves(t, from, to) == machine[t].status \in from /\ machine'[t].status = to

\* The columns a tab carries in the status an administrator has just given it.
\* A date the tab had already and still has is the date it had.
Normal(t, known, admin) ==
  LET row == machine'[t]
  IN  /\ row.status \in Statuses
      /\ row.submittedAt = NULL <=> row.status = "DRAFT"
      /\ row.publishedAt # NULL <=> row.status = "PUBLISHED"
      /\ \A date \in {"submittedAt", "publishedAt"} :
           known[date] = NULL \/ row[date] \in {known[date], NULL}
      /\ row.moderatedBy = IF row.status \in {"PUBLISHED", "REJECTED"} THEN admin ELSE NULL
      /\ row.notes # NULL => row.status = "REJECTED"

Created(t) ==
  /\ machine[t] = NULL
  /\ Writes(t, DOMAIN machine'[t])
  /\ ~machine'[t].deleted

NoDates == [submittedAt |-> NULL, publishedAt |-> NULL]

Create(t) == Created(t) /\ machine'[t].status = "DRAFT" /\ Normal(t, NoDates, NULL)

CreateAsAdmin(t, a) == Created(t) /\ machine'[t].author = a /\ Normal(t, NoDates, a)

Submit(t) ==
  /\ Active(t)
  /\ Writes(t, {"status", "submittedAt"})
  /\ Moves(t, {"DRAFT", "REJECTED"}, "PENDING")
  /\ machine'[t].submittedAt \in Stamps

Publish(t, a) ==
  /\ Active(t)
  /\ Writes(t, {"status", "publishedAt", "moderatedBy"})
  /\ Moves(t, {"PENDING"}, "PUBLISHED")
  /\ machine'[t].publishedAt \in Stamps /\ machine'[t].moderatedBy = a

Reject(t, a) ==
  /\ Active(t)
  /\ Writes(t, {"status", "moderatedBy", "notes"})
  /\ Moves(t, {"PENDING"}, "REJECTED")
  /\ machine'[t].moderatedBy = a /\ machine'[t].notes \in Notes

Override(t, a) ==
  /\ Active(t)
  /\ Writes(t, {"status", "submittedAt", "publishedAt", "moderatedBy", "notes"})
  /\ Normal(t, machine[t], a)

Annotate(t) == Active(t) /\ Writes(t, {"notes"}) /\ machine'[t].notes \in Notes \cup {NULL}

Delete(t) == Active(t) /\ Writes(t, {"deleted"}) /\ machine'[t].deleted

Next ==
  \E t \in Tabs :
    \/ Create(t) \/ Submit(t) \/ Annotate(t) \/ Delete(t)
    \/ \E a \in Admins :
         CreateAsAdmin(t, a) \/ Publish(t, a) \/ Reject(t, a) \/ Override(t, a)

Spec == Init /\ [][Next]_machine
=============================================================================
