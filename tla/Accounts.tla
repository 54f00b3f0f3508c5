------------------------------ MODULE Accounts ------------------------------
(***************************************************************************)
(* User accounts: AuthGuard, AuthService.syncUser and RolesGuard in front  *)
(* of every authenticated endpoint, and the endpoints that write accounts: *)
(* PATCH /me and the administrator's role and status changes.              *)
(*                                                                         *)
(* The guard reads the account once; the handler behind it acts on that    *)
(* snapshot however the account changes meanwhile.  The checks from that   *)
(* read to the handler's first await run in one go, and each statement is  *)
(* an action.                                                              *)
(***************************************************************************)
EXTENDS Naturals

CONSTANTS
  Users,     \* identities (the sub claim); the account of one is its row
  Emails,
  Names,     \* display names
  Requests,  \* slots for requests being served at the same time
  NULL,      \* no account, no e-mail address, no display name
  UNDEF      \* a field the request body leaves out

ASSUME UndefIsNothing == UNDEF \notin Names

Roles == {"USER", "ADMIN"}
Statuses == {"ACTIVE", "BLOCKED"}

\* The row; blocked_at is written together with the status and is left out.
Account == [email : Emails, name : Names \cup {NULL}, role : Roles, status : Statuses]

ASSUME NullIsNoAccount == NULL \notin Account

(***************************************************************************)
(* A request: user and email are the claims of its token, target and value *)
(* the parameters of its endpoint.  The identity provider issues tokens    *)
(* that outlive a change of the e-mail address, and gives an address that  *)
(* was given up to another identity: any pair of claims may arrive.        *)
(***************************************************************************)
AdminEndpoints == {"role", "status"}
Endpoints == AdminEndpoints \cup {"me", "profile"}

ValuesOf(endpoint) ==
  CASE endpoint = "role" -> Roles
    [] endpoint = "status" -> Statuses
    [] endpoint = "profile" -> Names \cup {NULL, UNDEF}
    [] OTHER -> {NULL}

Values == Roles \cup Statuses \cup Names \cup {NULL, UNDEF}

Request == [pc : {"idle", "create", "recover", "profile", "findTarget", "role", "status"},
            endpoint : Endpoints, user : Users \cup {NULL}, email : Emails \cup {NULL},
            target : Users \cup {NULL}, value : Values,
            resp : {"none", "ok", "403", "404", "500"}]

Idle(code) == [pc |-> "idle", endpoint |-> "me", user |-> NULL, email |-> NULL,
               target |-> NULL, value |-> NULL, resp |-> code]

VARIABLES
  accounts,  \* the users table: a row per identity, NULL before its INSERT
  reqs,      \* the request each slot is serving
  overtaken  \* history: requests whose user lost, after the guard's read, the
             \* role or the status the guard admitted it with

vars == <<accounts, reqs, overtaken>>

Init ==
  /\ accounts = [u \in Users |-> NULL]
  /\ reqs = [r \in Requests |-> Idle("none")]
  /\ overtaken = {}

\* The first administrator is promoted by hand, in the database.
PromoteFirstAdmin(u) ==
  /\ accounts[u] # NULL
  /\ \A v \in Users : accounts[v] # NULL => accounts[v].role = "USER"
  /\ accounts' = [accounts EXCEPT ![u].role = "ADMIN"]
  /\ UNCHANGED reqs

-----------------------------------------------------------------------------
(* The guards.                                                             *)

Exists(u) == accounts[u] # NULL

Ready(r) == reqs[r].pc = "idle"

Answer(r, code) == reqs' = [reqs EXCEPT ![r] = Idle(code)]

Await(r, q, pc) == reqs' = [reqs EXCEPT ![r] = [q EXCEPT !.pc = pc]]

\* Mutant of MayEnter: the status is not looked at.
MayEnterBlocked(q, account) == q.endpoint \in AdminEndpoints => account.role = "ADMIN"

\* ensureUserIsActive and RolesGuard.
MayEnter(q, account) ==
  /\ account.status = "ACTIVE"
  /\ q.endpoint \in AdminEndpoints => account.role = "ADMIN"

\* Mutant of Enter: one may change oneself.
EnterUnprotected(r, q, account) ==
  IF ~MayEnter(q, account) THEN Answer(r, "403")
  ELSE CASE q.endpoint = "me" -> Answer(r, "ok")
         [] q.endpoint = "profile" -> Await(r, q, "profile")
         [] OTHER -> Await(r, q, "findTarget")

\* What remains of the guards once the account is known, and the handler up to its
\* first statement.  Changing one's own role or status is refused.
Enter(r, q, account) ==
  IF ~MayEnter(q, account) \/ (q.endpoint \in AdminEndpoints /\ q.target = q.user)
    THEN Answer(r, "403")
    ELSE CASE q.endpoint = "me" -> Answer(r, "ok")
           [] q.endpoint = "profile" -> Await(r, q, "profile")
           [] OTHER -> Await(r, q, "findTarget")

\* The guard verifies the token and looks the account up.
Authenticate(r) ==
  /\ Ready(r)
  /\ \E u \in Users, e \in Emails, endpoint \in Endpoints :
       \E t \in (IF endpoint \in AdminEndpoints THEN Users ELSE {NULL}),
          v \in ValuesOf(endpoint) :
         LET q == [pc |-> "create", endpoint |-> endpoint, user |-> u, email |-> e,
                   target |-> t, value |-> v, resp |-> "none"]
         IN  IF Exists(u) THEN Enter(r, q, accounts[u]) ELSE Await(r, q, "create")
  /\ UNCHANGED accounts

\* The two unique keys of the table.
MayInsert(u, e) == ~Exists(u) /\ \A v \in Users : Exists(v) => accounts[v].email # e

NewAccount(e, name) == [email |-> e, name |-> name, role |-> "USER", status |-> "ACTIVE"]

\* Mutant of CreateAccount: it is an upsert by e-mail address.
UpsertAccount(r) ==
  LET q == reqs[r]
  IN  /\ q.pc = "create"
      /\ \E name \in Names \cup {NULL} :
           /\ accounts' = [v \in Users |->
                IF v = q.user \/ (Exists(v) /\ accounts[v].email = q.email)
                  THEN NewAccount(q.email, name) ELSE accounts[v]]
           /\ Enter(r, q, NewAccount(q.email, name))

CreateAccount(r) ==
  LET q == reqs[r]
  IN  /\ q.pc = "create"
      /\ IF MayInsert(q.user, q.email)
           THEN \E name \in Names \cup {NULL} :
                  /\ accounts' = [accounts EXCEPT ![q.user] = NewAccount(q.email, name)]
                  /\ Enter(r, q, NewAccount(q.email, name))
           ELSE accounts' = accounts /\ Await(r, q, "recover")

\* Mutants of RecoverAccount: an INSERT that failed is fatal; it is tried again.
FailAccount(r) ==
  /\ reqs[r].pc = "recover"
  /\ Answer(r, "500")
  /\ UNCHANGED accounts

RetryAccount(r) ==
  /\ reqs[r].pc = "recover"
  /\ IF Exists(reqs[r].user)
       THEN Enter(r, reqs[r], accounts[reqs[r].user])
       ELSE Await(r, reqs[r], "create")
  /\ UNCHANGED accounts

\* A unique violation: the row another request inserted is read.  If there is none,
\* the violated key is the e-mail address, and the error is thrown again.
RecoverAccount(r) ==
  /\ reqs[r].pc = "recover"
  /\ IF Exists(reqs[r].user)
       THEN Enter(r, reqs[r], accounts[reqs[r].user])
       ELSE Answer(r, "500")
  /\ UNCHANGED accounts

-----------------------------------------------------------------------------
(* The handlers.                                                           *)

UpdateProfile(r) ==
  LET q == reqs[r]
  IN  /\ q.pc = "profile"
      /\ accounts' = [accounts EXCEPT ![q.user].name = IF q.value = UNDEF THEN @ ELSE q.value]
      /\ Answer(r, "ok")

\* Mutant of FindTarget: what it returns is not looked at.
FindTargetAnyway(r) ==
  /\ reqs[r].pc = "findTarget"
  /\ Await(r, reqs[r], reqs[r].endpoint)
  /\ UNCHANGED accounts

FindTarget(r) ==
  LET q == reqs[r]
  IN  /\ q.pc = "findTarget"
      /\ IF Exists(q.target) THEN Await(r, q, q.endpoint) ELSE Answer(r, "404")
      /\ UNCHANGED accounts

UpdateRole(r) ==
  LET q == reqs[r]
  IN  /\ q.pc = "role"
      /\ accounts' = [accounts EXCEPT ![q.target].role = q.value]
      /\ Answer(r, "ok")

UpdateStatus(r) ==
  LET q == reqs[r]
  IN  /\ q.pc = "status"
      /\ accounts' = [accounts EXCEPT ![q.target].status = q.value]
      /\ Answer(r, "ok")

-----------------------------------------------------------------------------
Admitted(r) == reqs[r].pc \in {"profile", "findTarget", "role", "status"}

Active(u) == Exists(u) /\ accounts[u].status = "ACTIVE"

Administers(u) == Active(u) /\ accounts[u].role = "ADMIN"

\* The user of a request that is being handled may still make it.
Authorized(r) ==
  Admitted(r) => /\ Active(reqs[r].user)
                 /\ reqs[r].endpoint \in AdminEndpoints => Administers(reqs[r].user)

Overtake(movers) ==
  overtaken' = {r \in Requests :
                  /\ ~Authorized(r)'
                  /\ r \in overtaken \/ (Authorized(r) /\ r \notin movers)}

Serve(r) ==
  \/ CreateAccount(r) \/ RecoverAccount(r)
  \/ UpdateProfile(r) \/ FindTarget(r) \/ UpdateRole(r) \/ UpdateStatus(r)

Next ==
  \/ \E r \in Requests : (Authenticate(r) \/ Serve(r)) /\ Overtake({r})
  \/ \E u \in Users : PromoteFirstAdmin(u) /\ Overtake({})

Spec == Init /\ [][Next]_vars

\* Every statement returns and every continuation runs.
FairSpec == Spec /\ \A r \in Requests : WF_vars(Serve(r) /\ Overtake({r}))

-----------------------------------------------------------------------------
(* Properties.                                                             *)

\* What a slot carries when it waits: an admitted request has an account, and one
\* about to write a target.
Carries(r) ==
  LET q == reqs[r]
  IN  /\ q.pc \in {"create", "recover"} => q.email \in Emails
      /\ ~Ready(r) => /\ q.user \in Users /\ q.value \in ValuesOf(q.endpoint)
                      /\ q.resp = "none"
      /\ ~Ready(r) /\ q.endpoint \in AdminEndpoints => q.target \in Users
      /\ Admitted(r) => Exists(q.user) /\ (q.pc = "findTarget" \/ q.pc = q.endpoint)
      /\ q.pc \in AdminEndpoints => Exists(q.target)

\* The table, the slots and the history variable hold values of their types, and
\* slots carry what their statements need.
TypeOK ==
  /\ accounts \in [Users -> Account \cup {NULL}]
  /\ reqs \in [Requests -> Request]
  /\ overtaken \subseteq Requests
  /\ \A r \in Requests : Carries(r)

\* A request acts with a role or a status its user does not have only when the role
\* or the status was changed after its guard had read them.
AuthorityStands == \A r \in Requests : Authorized(r) \/ r \in overtaken

Moves(r) == reqs'[r].pc # reqs[r].pc

RightHands(u) ==
  LET old == accounts[u]
      new == accounts'[u]
      By(r) == Moves(r) /\ (reqs[r].user = u <=> reqs[r].endpoint = "profile")
                 /\ (Administers(reqs[r].user) \/ reqs[r].endpoint = "profile"
                       \/ r \in overtaken)
  IN  /\ new # NULL /\ new.email = old.email
      /\ new.name # old.name => \E r \in Requests : By(r) /\ reqs[r].endpoint = "profile"
      /\ <<new.role, new.status>> # <<old.role, old.status>> /\ reqs' # reqs
           => \E r \in Requests : By(r) /\ reqs[r].endpoint \in AdminEndpoints

\* The role and the status of an account change only on a request of another
\* account, which administers or did when its guard read it (or by hand, when there
\* is no administrator); the display name only on a request of its owner; the e-mail
\* address and the account itself never.
ChangedByRightHands == [][\A u \in Users : Exists(u) => RightHands(u)]_vars

\* The last active administrator goes only through a request whose own user stopped
\* being one after the guard had read its account: administrators who do not act on
\* each other at the same time cannot lock everyone out.
AdminRemainsUnlessOvertaken ==
  [][(\E u \in Users : Administers(u)) /\ ~(\E u \in Users : Administers(u)')
       => \E r \in overtaken : Moves(r)]_vars

\* Someone else's account has the e-mail address of a request.
Claimed(r) == \E v \in Users \ {reqs[r].user} : Exists(v) /\ accounts[v].email = reqs[r].email

\* Of any number of first requests of a user, none fails because of the others: a
\* request fails only when the account of someone else has its e-mail address.
SyncServed ==
  [][\A r \in Requests : Moves(r) /\ reqs'[r].resp = "500" => Claimed(r)]_vars

\* A request is answered, whatever happens to the account it is made with.
EveryRequestAnswered == \A r \in Requests : ~Ready(r) ~> Ready(r)

\* src/modules/auth/__tests__/auth.service.spec.ts:87 calls it an `impossible state'
\* that the lookup after a unique violation returns nothing.
RecoveryFindsTheAccount ==
  \A r \in Requests : reqs[r].pc = "recover" => Exists(reqs[r].user)
=============================================================================
