------------------------- MODULE TabLifecycleSerial -------------------------
(***************************************************************************)
(* TabLifecycle implements TabStatusMachine when the requests on a tab do  *)
(* not overlap.  The abstract step is the concrete write; finding, and     *)
(* writing the editable columns, are stuttering steps.                     *)
(***************************************************************************)
EXTENDS TabLifecycle

\* The moderation columns of a row.
Moderation(row) ==
  [author |-> row.author, status |-> row.status, submittedAt |-> row.submittedAt,
   publishedAt |-> row.publishedAt, moderatedBy |-> row.moderatedBy,
   notes |-> row.notes, deleted |-> row.deleted]

\* NULL, `no row', is told apart from a row also when only these columns are looked at.
ASSUME NullIsNoModeration ==
  NULL \notin [author : Users, status : Statuses, submittedAt : Stamps \cup {NULL},
               publishedAt : Stamps \cup {NULL}, moderatedBy : Users \cup {NULL},
               notes : Notes \cup {NULL}, deleted : BOOLEAN]

\* The state of the abstract machine.
Moderations == [t \in Tabs |-> IF Exists(t) THEN Moderation(tabs[t]) ELSE NULL]

Machine == INSTANCE TabStatusMachine WITH machine <- Moderations

\* Served one at a time, the tab endpoints take only the steps of the documented
\* status machine (docs/architecture.md, `Tab Status Machine') and of the
\* administrator's override, and leave every moderation column as it says.
ImplementsStatusMachine == Machine!Spec
=============================================================================
