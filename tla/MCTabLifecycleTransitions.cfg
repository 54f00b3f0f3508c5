SPECIFICATION FairSpec
CONSTANTS
  Tabs = {t1}
  Users = {u1, a1}
  Admins = {a1}
  Requests = {r1, r2}
  Contents = {c1}
  Notes = {n1}
  Stamps = {s1, s2}
  NULL = NULL
  UNDEF = UNDEF
PROPERTY ModerationDecidesPendingTabs
