SPECIFICATION Spec
CONSTANTS
  Users = {u1, u2}
  Emails = {e1}
  Names = {n1}
  Requests = {r1}
  NULL = NULL
  UNDEF = UNDEF
SYMMETRY Interchangeable
INVARIANTS
  RecoveryFindsTheAccount
