SPECIFICATION FairSpec
CONSTANTS
  Users = {u1, u2}
  Emails = {e1, e2}
  Names = {n1}
  Requests = {r1, r2}
  NULL = NULL
  UNDEF = UNDEF
INVARIANTS
  TypeOK
  AuthorityStands
PROPERTIES
  ChangedByRightHands
  AdminRemainsUnlessOvertaken
  SyncServed
  EveryRequestAnswered
