--------------------------- MODULE AccountsProofs ---------------------------
(***************************************************************************)
(* Theorems about Accounts, for any users, e-mail addresses and number of  *)
(* requests being served at the same time.                                 *)
(***************************************************************************)
EXTENDS Accounts, TLAPS

\* Nobody is about to change an own role or status.
SpareSelf(r) ==
  reqs[r].pc \in {"findTarget", "role", "status"} =>
    reqs[r].endpoint \in AdminEndpoints /\ reqs[r].target # reqs[r].user

\* An INSERT that failed did so for a row that is still there.
Recoverable(r) == reqs[r].pc = "recover" => Exists(reqs[r].user) \/ Claimed(r)

SlotsInv == \A r \in Requests : SpareSelf(r) /\ Recoverable(r)

IInv == TypeOK /\ AuthorityStands /\ SlotsInv

-----------------------------------------------------------------------------
(* The accounts.                                                           *)

LEMMA AccountType ==
  ASSUME TypeOK, NEW u \in Users, Exists(u)
  PROVE  accounts[u] \in Account
  BY DEF TypeOK, Exists

LEMMA NewAccountType ==
  ASSUME NEW e \in Emails, NEW name \in Names \cup {NULL}
  PROVE  /\ NewAccount(e, name) \in Account
         /\ NewAccount(e, name) # NULL
         /\ NewAccount(e, name).email = e
         /\ NewAccount(e, name).status = "ACTIVE"
         /\ NewAccount(e, name).role = "USER"
  BY NullIsNoAccount DEF NewAccount, Account, Roles, Statuses

\* One field of one account is written: no account loses its e-mail address.
Kept ==
  /\ accounts' \in [Users -> Account \cup {NULL}]
  /\ \A u \in Users : Exists(u) => accounts'[u] # NULL /\ accounts'[u].email = accounts[u].email

LEMMA CreateKeeps ==
  ASSUME TypeOK, NEW r \in Requests, CreateAccount(r)
  PROVE  Kept
  <1> DEFINE q == reqs[r]
  <1>1. q.user \in Users /\ q.email \in Emails /\ q.pc = "create"
    BY DEF TypeOK, Carries, CreateAccount, Ready
  <1>2. CASE MayInsert(q.user, q.email)
    <2>1. PICK name \in Names \cup {NULL} :
            accounts' = [accounts EXCEPT ![q.user] = NewAccount(q.email, name)]
      BY <1>2 DEF CreateAccount
    <2>2. QED
      BY <1>1, <1>2, <2>1, NewAccountType DEF Kept, TypeOK, MayInsert, Exists
  <1>3. CASE ~MayInsert(q.user, q.email)
    BY <1>3 DEF CreateAccount, Kept, TypeOK, Exists
  <1>4. QED
    BY <1>2, <1>3

LEMMA ProfileKeeps ==
  ASSUME TypeOK, NEW r \in Requests, UpdateProfile(r)
  PROVE  /\ Kept
         /\ \A u \in Users : Exists(u) => /\ accounts'[u].role = accounts[u].role
                                          /\ accounts'[u].status = accounts[u].status
                                          /\ u # reqs[r].user => accounts'[u] = accounts[u]
  <1> DEFINE q == reqs[r]
             name == IF q.value = UNDEF THEN accounts[q.user].name ELSE q.value
  <1>1. q.user \in Users /\ accounts[q.user] \in Account /\ q.value \in Names \cup {NULL, UNDEF}
    BY AccountType DEF TypeOK, Carries, UpdateProfile, Ready, Admitted, AdminEndpoints, ValuesOf
  <1>2. name \in Names \cup {NULL}
    BY <1>1 DEF Account
  <1>3. accounts' = [accounts EXCEPT ![q.user] = [accounts[q.user] EXCEPT !.name = name]]
    BY <1>1 DEF UpdateProfile, TypeOK
  <1>4. /\ [accounts[q.user] EXCEPT !.name = name] \in Account
        /\ [accounts[q.user] EXCEPT !.name = name].email = accounts[q.user].email
        /\ [accounts[q.user] EXCEPT !.name = name].role = accounts[q.user].role
        /\ [accounts[q.user] EXCEPT !.name = name].status = accounts[q.user].status
    BY <1>1, <1>2 DEF Account
  <1>5. QED
    BY <1>1, <1>3, <1>4, NullIsNoAccount DEF Kept, TypeOK, Exists

\* Either of the administrator's endpoints.
LEMMA AdminUpdateKeeps ==
  ASSUME TypeOK, NEW r \in Requests, UpdateRole(r) \/ UpdateStatus(r)
  PROVE  /\ Kept
         /\ reqs[r].target \in Users /\ Exists(reqs[r].target)
         /\ reqs[r].pc = reqs[r].endpoint /\ reqs[r].endpoint \in AdminEndpoints
         /\ accounts'[reqs[r].target].name = accounts[reqs[r].target].name
         /\ \A u \in Users : u # reqs[r].target => accounts'[u] = accounts[u]
  <1> DEFINE q == reqs[r]
             t == q.target
  <1>1. /\ t \in Users /\ Exists(t) /\ q.pc = q.endpoint /\ q.endpoint \in AdminEndpoints
        /\ q.value \in ValuesOf(q.endpoint)
    BY DEF TypeOK, Carries, UpdateRole, UpdateStatus, Ready, Admitted, AdminEndpoints
  <1>2. accounts[t] \in Account
    BY <1>1, AccountType
  <1>3. CASE UpdateRole(r)
    <2>1. q.value \in Roles
      BY <1>1, <1>3 DEF UpdateRole, ValuesOf
    <2>2. accounts' = [accounts EXCEPT ![t] = [accounts[t] EXCEPT !.role = q.value]]
      BY <1>1, <1>3 DEF UpdateRole, TypeOK
    <2>3. /\ [accounts[t] EXCEPT !.role = q.value] \in Account
          /\ [accounts[t] EXCEPT !.role = q.value].email = accounts[t].email
          /\ [accounts[t] EXCEPT !.role = q.value].name = accounts[t].name
      BY <1>2, <2>1 DEF Account
    <2>4. QED
      BY <1>1, <2>2, <2>3, NullIsNoAccount DEF Kept, TypeOK, Exists
  <1>4. CASE UpdateStatus(r)
    <2>1. q.value \in Statuses
      BY <1>1, <1>4 DEF UpdateStatus, ValuesOf
    <2>2. accounts' = [accounts EXCEPT ![t] = [accounts[t] EXCEPT !.status = q.value]]
      BY <1>1, <1>4 DEF UpdateStatus, TypeOK
    <2>3. /\ [accounts[t] EXCEPT !.status = q.value] \in Account
          /\ [accounts[t] EXCEPT !.status = q.value].email = accounts[t].email
          /\ [accounts[t] EXCEPT !.status = q.value].name = accounts[t].name
      BY <1>2, <2>1 DEF Account
    <2>4. QED
      BY <1>1, <2>2, <2>3, NullIsNoAccount DEF Kept, TypeOK, Exists
  <1>5. QED
    BY <1>3, <1>4

LEMMA PromotionKeeps ==
  ASSUME TypeOK, NEW u \in Users, PromoteFirstAdmin(u)
  PROVE  /\ Kept
         /\ accounts'[u].name = accounts[u].name
         /\ accounts'[u].status = accounts[u].status
         /\ accounts'[u].role = "ADMIN"
         /\ \A v \in Users : v # u => accounts'[v] = accounts[v]
  <1>1. accounts[u] \in Account
    BY AccountType DEF PromoteFirstAdmin, Exists
  <1>2. accounts' = [accounts EXCEPT ![u] = [accounts[u] EXCEPT !.role = "ADMIN"]]
    BY DEF PromoteFirstAdmin, TypeOK
  <1>3. /\ [accounts[u] EXCEPT !.role = "ADMIN"] \in Account
        /\ [accounts[u] EXCEPT !.role = "ADMIN"].email = accounts[u].email
        /\ [accounts[u] EXCEPT !.role = "ADMIN"].name = accounts[u].name
        /\ [accounts[u] EXCEPT !.role = "ADMIN"].status = accounts[u].status
        /\ [accounts[u] EXCEPT !.role = "ADMIN"].role = "ADMIN"
    BY <1>1 DEF Account, Roles
  <1>4. QED
    BY <1>2, <1>3, NullIsNoAccount DEF Kept, TypeOK, Exists

-----------------------------------------------------------------------------
(* The slots.                                                              *)

\* A step of request r keeps the accounts and the other slots, leaves its own slot
\* with all it needs and the right to go on, and fails only if its address is taken.
SoundStep(r) ==
  /\ Kept
  /\ reqs' \in [Requests -> Request]
  /\ \A p \in Requests \ {r} : reqs'[p] = reqs[p]
  /\ Carries(r)' /\ SpareSelf(r)' /\ Recoverable(r)'
  /\ Authorized(r)' \/ r \in overtaken
  /\ reqs'[r].resp = "500" => Claimed(r)

LEMMA IdleType ==
  ASSUME NEW code \in {"none", "ok", "403", "404", "500"}
  PROVE  /\ Idle(code) \in Request
         /\ Idle(code).pc = "idle"
         /\ Idle(code).resp = code
  BY DEF Idle, Request, Endpoints, AdminEndpoints, Values

LEMMA AnswerSound ==
  ASSUME TypeOK, Kept, NEW r \in Requests, NEW code \in {"ok", "403", "404", "500"},
         Answer(r, code), code = "500" => Claimed(r)
  PROVE  SoundStep(r)
  <1>1. /\ reqs' \in [Requests -> Request]
        /\ \A p \in Requests \ {r} : reqs'[p] = reqs[p]
        /\ reqs'[r].pc = "idle" /\ reqs'[r].resp = code
    BY IdleType DEF TypeOK, Answer
  <1>2. Carries(r)' /\ SpareSelf(r)' /\ Recoverable(r)' /\ Authorized(r)'
    BY <1>1 DEF Carries, SpareSelf, Recoverable, Authorized, Ready, Admitted, AdminEndpoints
  <1>3. QED
    BY <1>1, <1>2 DEF SoundStep

Moved(q, pc) == [q EXCEPT !.pc = pc]

LEMMA MovedType ==
  ASSUME NEW q \in Request,
         NEW pc \in {"create", "recover", "profile", "findTarget", "role", "status"}
  PROVE  /\ Moved(q, pc) \in Request
         /\ Moved(q, pc).pc = pc
         /\ Moved(q, pc).endpoint = q.endpoint
         /\ Moved(q, pc).user = q.user
         /\ Moved(q, pc).email = q.email
         /\ Moved(q, pc).target = q.target
         /\ Moved(q, pc).value = q.value
         /\ Moved(q, pc).resp = q.resp
  BY DEF Request, Moved

\* What an authenticated request carries.
Authenticated(q) ==
  /\ q \in Request
  /\ q.resp = "none"
  /\ q.user \in Users /\ q.email \in Emails
  /\ q.value \in ValuesOf(q.endpoint)
  /\ q.endpoint \in AdminEndpoints => q.target \in Users

LEMMA AwaitEffect ==
  ASSUME TypeOK, NEW r \in Requests, NEW q, Authenticated(q),
         NEW pc \in {"create", "recover", "profile", "findTarget", "role", "status"},
         Await(r, q, pc)
  PROVE  /\ reqs' \in [Requests -> Request]
         /\ \A p \in Requests \ {r} : reqs'[p] = reqs[p]
         /\ reqs'[r].pc = pc
         /\ reqs'[r].endpoint = q.endpoint
         /\ reqs'[r].user = q.user
         /\ reqs'[r].email = q.email
         /\ reqs'[r].target = q.target
         /\ reqs'[r].value = q.value
         /\ reqs'[r].resp = "none"
  <1>1. q \in Request /\ q.resp = "none"
    BY DEF Authenticated
  <1>2. reqs' = [reqs EXCEPT ![r] = Moved(q, pc)]
    BY DEF Await, Moved
  <1>3. reqs \in [Requests -> Request]
    BY DEF TypeOK
  <1>4. QED
    BY <1>1, <1>2, <1>3, MovedType

LEMMA EnterSound ==
  ASSUME TypeOK, Kept, NEW r \in Requests, NEW q, Authenticated(q),
         accounts'[q.user] # NULL, Enter(r, q, accounts'[q.user])
  PROVE  SoundStep(r)
  <1>1. CASE Answer(r, "ok") \/ Answer(r, "403")
    BY <1>1, AnswerSound
  <1>2. CASE /\ ~(Answer(r, "ok") \/ Answer(r, "403"))
    <2>1. /\ MayEnter(q, accounts'[q.user])
          /\ ~(q.endpoint \in AdminEndpoints /\ q.target = q.user)
          /\ \/ Await(r, q, "profile") /\ q.endpoint = "profile"
             \/ Await(r, q, "findTarget") /\ q.endpoint \in AdminEndpoints
      BY <1>2 DEF Enter, Authenticated, Request, Endpoints, AdminEndpoints
    <2>2. PICK pc \in {"profile", "findTarget"} :
            /\ Await(r, q, pc)
            /\ pc = "profile" => q.endpoint = "profile"
            /\ pc = "findTarget" => q.endpoint \in AdminEndpoints
      BY <2>1
    <2>3. /\ reqs' \in [Requests -> Request]
          /\ \A p \in Requests \ {r} : reqs'[p] = reqs[p]
          /\ reqs'[r].pc = pc
          /\ reqs'[r].endpoint = q.endpoint
          /\ reqs'[r].user = q.user
          /\ reqs'[r].email = q.email
          /\ reqs'[r].target = q.target
          /\ reqs'[r].value = q.value
          /\ reqs'[r].resp = "none"
      BY <2>2, AwaitEffect
    <2>4. Carries(r)'
      BY <2>2, <2>3 DEF Carries, Authenticated, Ready, Admitted, Exists, AdminEndpoints
    <2>5. SpareSelf(r)' /\ Recoverable(r)'
      BY <2>1, <2>2, <2>3 DEF SpareSelf, Recoverable
    <2>6. Authorized(r)'
      BY <2>1, <2>3 DEF Authorized, MayEnter, Active, Administers, Exists
    <2>7. QED
      BY <2>3, <2>4, <2>5, <2>6 DEF SoundStep
  <1>3. QED
    BY <1>1, <1>2

LEMMA NothingKept == ASSUME TypeOK, UNCHANGED accounts PROVE Kept
  BY DEF TypeOK, Kept, Exists

LEMMA AuthenticateSound ==
  ASSUME IInv, NEW r \in Requests, Authenticate(r)
  PROVE  SoundStep(r)
  <1>1. TypeOK /\ Kept
    BY NothingKept DEF IInv, Authenticate
  <1>2. PICK u \in Users, e \in Emails, endpoint \in Endpoints :
          \E t \in (IF endpoint \in AdminEndpoints THEN Users ELSE {NULL}),
             v \in ValuesOf(endpoint) :
            LET q == [pc |-> "create", endpoint |-> endpoint, user |-> u, email |-> e,
                      target |-> t, value |-> v, resp |-> "none"]
            IN  IF Exists(u) THEN Enter(r, q, accounts[u]) ELSE Await(r, q, "create")
    BY DEF Authenticate
  <1>3. PICK t \in (IF endpoint \in AdminEndpoints THEN Users ELSE {NULL}),
             v \in ValuesOf(endpoint) :
            LET q == [pc |-> "create", endpoint |-> endpoint, user |-> u, email |-> e,
                      target |-> t, value |-> v, resp |-> "none"]
            IN  IF Exists(u) THEN Enter(r, q, accounts[u]) ELSE Await(r, q, "create")
    BY <1>2
  <1> DEFINE q == [pc |-> "create", endpoint |-> endpoint, user |-> u, email |-> e,
                   target |-> t, value |-> v, resp |-> "none"]
  <1>4. IF Exists(u) THEN Enter(r, q, accounts[u]) ELSE Await(r, q, "create")
    BY <1>3
  <1>5. v \in Values
    BY DEF ValuesOf, Values, Endpoints, AdminEndpoints
  <1>6. Authenticated(q) /\ q.user = u
    BY <1>5 DEF Authenticated, Request, Endpoints, AdminEndpoints
  <1> HIDE DEF q
  <1>7. CASE Exists(u)
    BY <1>1, <1>4, <1>6, <1>7, EnterSound DEF Authenticate, Exists
  <1>8. CASE ~Exists(u)
    <2>1. /\ reqs' \in [Requests -> Request]
          /\ \A p \in Requests \ {r} : reqs'[p] = reqs[p]
          /\ reqs'[r].pc = "create"
          /\ reqs'[r].endpoint = q.endpoint
          /\ reqs'[r].user = q.user
          /\ reqs'[r].email = q.email
          /\ reqs'[r].target = q.target
          /\ reqs'[r].value = q.value
          /\ reqs'[r].resp = "none"
      BY <1>1, <1>4, <1>6, <1>8, AwaitEffect
    <2>2. Carries(r)' /\ SpareSelf(r)' /\ Recoverable(r)' /\ Authorized(r)'
      BY <1>6, <2>1 DEF Carries, Authenticated, SpareSelf, Recoverable, Authorized, Ready,
                        Admitted, AdminEndpoints
    <2>3. QED
      BY <1>1, <2>1, <2>2 DEF SoundStep
  <1>9. QED
    BY <1>7, <1>8

\* What a slot carries when it waits for its account.
LEMMA WaitingAuthenticated ==
  ASSUME TypeOK, NEW r \in Requests, reqs[r].pc \in {"create", "recover"}
  PROVE  Authenticated(reqs[r])
  BY DEF TypeOK, Carries, Ready, Authenticated

LEMMA CreateSound ==
  ASSUME IInv, NEW r \in Requests, CreateAccount(r)
  PROVE  SoundStep(r)
  <1> DEFINE q == reqs[r]
  <1>1. TypeOK /\ Kept
    BY CreateKeeps DEF IInv
  <1>2. q.pc = "create" /\ Authenticated(q)
    BY <1>1, WaitingAuthenticated DEF CreateAccount
  <1>3. CASE MayInsert(q.user, q.email)
    <2>1. PICK name \in Names \cup {NULL} :
            /\ accounts' = [accounts EXCEPT ![q.user] = NewAccount(q.email, name)]
            /\ Enter(r, q, NewAccount(q.email, name))
      BY <1>3 DEF CreateAccount
    <2>2. accounts'[q.user] = NewAccount(q.email, name) /\ accounts'[q.user] # NULL
      BY <1>1, <1>2, <2>1, NewAccountType DEF TypeOK, Authenticated
    <2> HIDE DEF q
    <2>3. QED
      BY <1>1, <1>2, <2>1, <2>2, EnterSound
  <1>4. CASE ~MayInsert(q.user, q.email)
    <2>1. Await(r, q, "recover") /\ accounts' = accounts
      BY <1>4 DEF CreateAccount
    <2>2. /\ reqs' \in [Requests -> Request]
          /\ \A p \in Requests \ {r} : reqs'[p] = reqs[p]
          /\ reqs'[r].pc = "recover"
          /\ reqs'[r].endpoint = q.endpoint
          /\ reqs'[r].user = q.user
          /\ reqs'[r].email = q.email
          /\ reqs'[r].target = q.target
          /\ reqs'[r].value = q.value
          /\ reqs'[r].resp = "none"
      BY <1>1, <1>2, <2>1, AwaitEffect
    <2>3. Exists(q.user) \/ Claimed(r)
      BY <1>4 DEF MayInsert, Claimed
    <2>4. Recoverable(r)'
      BY <2>1, <2>2, <2>3 DEF Recoverable, Claimed, Exists
    <2>5. Carries(r)' /\ SpareSelf(r)' /\ Authorized(r)'
      BY <1>2, <2>2 DEF Carries, Authenticated, SpareSelf, Authorized, Ready, Admitted,
                        AdminEndpoints
    <2>6. QED
      BY <1>1, <2>2, <2>4, <2>5 DEF SoundStep
  <1>5. QED
    BY <1>3, <1>4

LEMMA RecoverSound ==
  ASSUME IInv, NEW r \in Requests, RecoverAccount(r)
  PROVE  SoundStep(r)
  <1>1. TypeOK /\ Kept
    BY NothingKept DEF IInv, RecoverAccount
  <1>2. Authenticated(reqs[r])
    BY <1>1, WaitingAuthenticated DEF RecoverAccount
  <1>3. CASE Exists(reqs[r].user)
    <2>1. Enter(r, reqs[r], accounts'[reqs[r].user]) /\ accounts'[reqs[r].user] # NULL
      BY <1>3 DEF RecoverAccount, Exists
    <2>2. QED
      BY <1>1, <1>2, <2>1, EnterSound
  <1>4. CASE ~Exists(reqs[r].user)
    <2>1. Answer(r, "500") /\ Claimed(r)
      BY <1>4 DEF RecoverAccount, IInv, SlotsInv, Recoverable
    <2>2. QED
      BY <1>1, <2>1, AnswerSound
  <1>5. QED
    BY <1>3, <1>4

LEMMA FindTargetSound ==
  ASSUME IInv, NEW r \in Requests, FindTarget(r)
  PROVE  SoundStep(r)
  <1> DEFINE q == reqs[r]
  <1>1. TypeOK /\ Kept
    BY NothingKept DEF IInv, FindTarget
  <1>2. CASE ~Exists(q.target)
    BY <1>1, <1>2, AnswerSound DEF FindTarget
  <1>3. CASE Exists(q.target)
    <2>1. /\ q.pc = "findTarget" /\ q.endpoint \in AdminEndpoints /\ q.target # q.user
          /\ Exists(q.user) /\ q.user \in Users /\ q.target \in Users
          /\ q.value \in ValuesOf(q.endpoint) /\ q.resp = "none" /\ q \in Request
      BY DEF FindTarget, IInv, SlotsInv, SpareSelf, TypeOK, Carries, Ready, Admitted
    <2>2. q.endpoint \in {"role", "status"}
      BY <2>1 DEF AdminEndpoints
    <2> DEFINE n == Moved(q, q.endpoint)
    <2>3. /\ n \in Request /\ n.pc = q.endpoint /\ n.endpoint = q.endpoint
          /\ n.user = q.user /\ n.email = q.email /\ n.target = q.target
          /\ n.value = q.value /\ n.resp = "none"
      BY <2>1, <2>2, MovedType
    <2>4. reqs' = [reqs EXCEPT ![r] = n] /\ accounts' = accounts
      BY <1>3 DEF FindTarget, Await, Moved
    <2> HIDE DEF n
    <2>5. /\ reqs' \in [Requests -> Request]
          /\ \A p \in Requests \ {r} : reqs'[p] = reqs[p]
          /\ reqs'[r] = n
      BY <1>1, <2>3, <2>4 DEF TypeOK
    <2>6. Carries(r)'
      BY <1>3, <2>1, <2>2, <2>3, <2>4, <2>5
      DEF Carries, Ready, Admitted, Exists
    <2>7. SpareSelf(r)' /\ Recoverable(r)'
      BY <2>1, <2>2, <2>3, <2>5 DEF SpareSelf, Recoverable
    <2>8. Authorized(r)' \/ r \in overtaken
      BY <2>1, <2>3, <2>4, <2>5
      DEF IInv, AuthorityStands, Authorized, Admitted, Active, Administers, Exists
    <2>9. QED
      BY <1>1, <2>3, <2>5, <2>6, <2>7, <2>8 DEF SoundStep
  <1>4. QED
    BY <1>2, <1>3

LEMMA StepSound ==
  ASSUME IInv, NEW r \in Requests, Authenticate(r) \/ Serve(r)
  PROVE  SoundStep(r)
  <1>1. CASE Authenticate(r)
    BY <1>1, AuthenticateSound
  <1>2. CASE CreateAccount(r)
    BY <1>2, CreateSound
  <1>3. CASE RecoverAccount(r)
    BY <1>3, RecoverSound
  <1>4. CASE UpdateProfile(r)
    BY <1>4, ProfileKeeps, AnswerSound DEF IInv, UpdateProfile
  <1>5. CASE FindTarget(r)
    BY <1>5, FindTargetSound
  <1>6. CASE UpdateRole(r) \/ UpdateStatus(r)
    BY <1>6, AdminUpdateKeeps, AnswerSound DEF IInv, UpdateRole, UpdateStatus
  <1>7. QED
    BY <1>1, <1>2, <1>3, <1>4, <1>5, <1>6 DEF Serve

-----------------------------------------------------------------------------
(* The inductive invariant.                                                *)

LEMMA InitInv == ASSUME Init PROVE IInv
  <1>1. reqs \in [Requests -> Request] /\ \A r \in Requests : reqs[r].pc = "idle"
    BY IdleType DEF Init
  <1>2. QED
    BY <1>1 DEF Init, IInv, TypeOK, Carries, AuthorityStands, Authorized, SlotsInv, SpareSelf,
                Recoverable, Ready, Admitted, AdminEndpoints

\* A slot that does not move keeps what it carries while accounts are kept.
LEMMA StillCarries ==
  ASSUME IInv, Kept, NEW p \in Requests, reqs'[p] = reqs[p]
  PROVE  Carries(p)' /\ SpareSelf(p)' /\ Recoverable(p)'
  <1>1. Carries(p) /\ SpareSelf(p) /\ Recoverable(p) /\ reqs[p] \in Request
    BY DEF IInv, TypeOK, SlotsInv
  <1>2. \A u \in Users : Exists(u) => Exists(u)' /\ accounts'[u].email = accounts[u].email
    BY DEF Kept, Exists
  <1>3. Carries(p)'
    BY <1>1, <1>2 DEF Carries, Ready, Admitted, AdminEndpoints
  <1>4. SpareSelf(p)'
    BY <1>1 DEF SpareSelf
  <1>5. Recoverable(p)'
    <2>1. CASE reqs[p].pc = "recover"
      <3>1. reqs[p].user \in Users
        BY <1>1, <2>1 DEF Carries, Ready
      <3>2. QED
        BY <1>1, <1>2, <2>1, <3>1 DEF Recoverable, Claimed
    <2>2. CASE reqs[p].pc # "recover"
      BY <2>2 DEF Recoverable
    <2>3. QED
      BY <2>1, <2>2
  <1>6. QED
    BY <1>3, <1>4, <1>5

LEMMA StepInv ==
  ASSUME IInv, NEW r \in Requests, SoundStep(r), Overtake({r})
  PROVE  IInv'
  <1>1. \A p \in Requests : Carries(p)' /\ SpareSelf(p)' /\ Recoverable(p)'
    BY StillCarries DEF SoundStep
  <1>2. TypeOK' /\ SlotsInv'
    BY <1>1 DEF SoundStep, Kept, TypeOK, SlotsInv, Overtake
  <1>3. AuthorityStands'
    BY DEF IInv, AuthorityStands, SoundStep, Overtake
  <1>4. QED
    BY <1>2, <1>3 DEF IInv

LEMMA PromotionInv ==
  ASSUME IInv, NEW u \in Users, PromoteFirstAdmin(u), Overtake({})
  PROVE  IInv'
  <1>1. Kept /\ reqs' = reqs
    BY PromotionKeeps DEF IInv, PromoteFirstAdmin
  <1>2. \A p \in Requests : Carries(p)' /\ SpareSelf(p)' /\ Recoverable(p)'
    BY <1>1, StillCarries
  <1>3. TypeOK' /\ SlotsInv'
    BY <1>1, <1>2 DEF IInv, Kept, TypeOK, SlotsInv, Overtake
  <1>4. AuthorityStands'
    BY DEF IInv, AuthorityStands, Overtake
  <1>5. QED
    BY <1>3, <1>4 DEF IInv

LEMMA NextInv ==
  ASSUME IInv, [Next]_vars
  PROVE  IInv'
  <1>1. ASSUME NEW r \in Requests, Authenticate(r) \/ Serve(r), Overtake({r}) PROVE IInv'
    BY <1>1, StepSound, StepInv
  <1>2. ASSUME NEW u \in Users, PromoteFirstAdmin(u), Overtake({}) PROVE IInv'
    BY <1>2, PromotionInv
  <1>3. CASE UNCHANGED vars
    BY <1>3 DEF vars, IInv, TypeOK, Carries, AuthorityStands, Authorized, SlotsInv, SpareSelf,
                Recoverable, Claimed, Ready, Admitted, Exists, Active, Administers
  <1>4. QED
    BY <1>1, <1>2, <1>3 DEF Next

\* The inductive invariant of all the results below.
THEOREM InvariantHolds == Spec => []IInv
  <1>1. Init => IInv
    BY InitInv
  <1>2. IInv /\ [Next]_vars => IInv'
    BY NextInv
  <1>3. QED
    BY <1>1, <1>2, PTL DEF Spec

\* Every slot carries what its statement needs: no statement finds the account it
\* is about to write missing.
THEOREM TypeCorrect == Spec => []TypeOK
  <1>1. IInv => TypeOK
    BY DEF IInv
  <1>2. QED
    BY <1>1, InvariantHolds, PTL

\* A request whose user was demoted or blocked before its guard read the account is
\* never handled.
THEOREM AuthorityAlwaysStands == Spec => []AuthorityStands
  <1>1. IInv => AuthorityStands
    BY DEF IInv
  <1>2. QED
    BY <1>1, InvariantHolds, PTL

-----------------------------------------------------------------------------
(* What a step may do to an account.                                       *)

LEMMA StepMoves ==
  ASSUME IInv, NEW r \in Requests,
         UpdateProfile(r) \/ UpdateRole(r) \/ UpdateStatus(r)
  PROVE  Moves(r)
  <1>1. reqs'[r].pc = "idle"
    BY IdleType DEF UpdateProfile, UpdateRole, UpdateStatus, Answer, IInv, TypeOK
  <1>2. QED
    BY <1>1 DEF UpdateProfile, UpdateRole, UpdateStatus, Moves

\* An account that exists is written by its owner's profile request, by an admitted
\* request of an administrator about someone else, or by hand.
LEMMA Writers ==
  ASSUME IInv, NEW r \in Requests, Authenticate(r) \/ Serve(r)
  PROVE  \/ \A u \in Users : Exists(u) => accounts'[u] = accounts[u]
         \/ UpdateProfile(r)
         \/ UpdateRole(r) \/ UpdateStatus(r)
  <1>1. CASE CreateAccount(r)
    <2>1. reqs[r].user \in Users
      BY <1>1 DEF CreateAccount, IInv, TypeOK, Carries, Ready
    <2>2. QED
      BY <1>1, <2>1 DEF CreateAccount, MayInsert, IInv, TypeOK, Exists
  <1>2. CASE Authenticate(r) \/ RecoverAccount(r) \/ FindTarget(r)
    BY <1>2 DEF Authenticate, RecoverAccount, FindTarget
  <1>3. QED
    BY <1>1, <1>2 DEF Serve

\* An administrator's request that writes an account is made by someone else, who
\* administers unless overtaken.
LEMMA AdminsWrite ==
  ASSUME IInv, NEW r \in Requests, UpdateRole(r) \/ UpdateStatus(r)
  PROVE  /\ reqs[r].user \in Users /\ reqs[r].user # reqs[r].target
         /\ reqs[r].endpoint \in AdminEndpoints
         /\ Administers(reqs[r].user) \/ r \in overtaken
  <1>1. reqs[r].pc \in {"role", "status"}
    BY DEF UpdateRole, UpdateStatus
  <1>2. QED
    BY <1>1 DEF IInv, TypeOK, Carries, Ready, SlotsInv, SpareSelf, AuthorityStands, Authorized,
                Admitted

LEMMA RightHandsStep ==
  ASSUME IInv, [Next]_vars, NEW u \in Users, Exists(u)
  PROVE  RightHands(u)
  <1>1. ASSUME NEW r \in Requests, Authenticate(r) \/ Serve(r) PROVE RightHands(u)
    <2>1. accounts'[u] # NULL /\ accounts'[u].email = accounts[u].email
      BY <1>1, StepSound DEF SoundStep, Kept
    <2>2. CASE accounts'[u] = accounts[u]
      BY <2>1, <2>2 DEF RightHands
    <2>3. CASE UpdateProfile(r) /\ accounts'[u] # accounts[u]
      <3>1. /\ accounts'[u].role = accounts[u].role /\ accounts'[u].status = accounts[u].status
            /\ u = reqs[r].user
        BY <2>3, ProfileKeeps DEF IInv
      <3>2. Moves(r) /\ reqs[r].endpoint = "profile"
        BY <2>3, StepMoves DEF UpdateProfile, IInv, TypeOK, Carries, Admitted
      <3>3. QED
        BY <2>1, <3>1, <3>2 DEF RightHands
    <2>4. CASE (UpdateRole(r) \/ UpdateStatus(r)) /\ accounts'[u] # accounts[u]
      <3>1. u = reqs[r].target /\ accounts'[u].name = accounts[u].name
        BY <2>4, AdminUpdateKeeps DEF IInv
      <3>2. /\ Moves(r) /\ reqs[r].user # u /\ reqs[r].endpoint \in AdminEndpoints
            /\ Administers(reqs[r].user) \/ r \in overtaken
        BY <2>4, <3>1, StepMoves, AdminsWrite
      <3>3. reqs[r].endpoint # "profile"
        BY <3>2 DEF AdminEndpoints
      <3>4. QED
        BY <2>1, <3>1, <3>2, <3>3 DEF RightHands
    <2>5. QED
      BY <1>1, <2>2, <2>3, <2>4, Writers
  <1>2. ASSUME NEW v \in Users, PromoteFirstAdmin(v) PROVE RightHands(u)
    <2>1. reqs' = reqs /\ Kept /\ accounts'[u].name = accounts[u].name
      BY <1>2, PromotionKeeps DEF IInv, PromoteFirstAdmin
    <2>2. QED
      BY <2>1 DEF RightHands, Kept
  <1>3. CASE UNCHANGED vars
    BY <1>3 DEF vars, RightHands, Exists
  <1>4. QED
    BY <1>1, <1>2, <1>3 DEF Next

\* Roles, states and names are changed only by those who may, the e-mail address and
\* the account itself by nobody.
THEOREM OnlyRightHandsChange == Spec => ChangedByRightHands
  <1>1. IInv /\ [Next]_vars => [\A u \in Users : Exists(u) => RightHands(u)]_vars
    BY RightHandsStep
  <1>2. QED
    BY <1>1, InvariantHolds, PTL DEF Spec, ChangedByRightHands

LEMMA AdminRemainsStep ==
  ASSUME IInv, [Next]_vars, NEW a \in Users, Administers(a),
         \A u \in Users : ~Administers(u)'
  PROVE  \E r \in overtaken : Moves(r)
  <1>1. Exists(a) /\ accounts[a].role = "ADMIN" /\ accounts[a].status = "ACTIVE"
    BY DEF Administers, Active
  <1>2. ASSUME NEW u \in Users, accounts'[u] = accounts[u], Administers(u) PROVE FALSE
    BY <1>2 DEF Administers, Active, Exists
  <1>3. ASSUME NEW r \in Requests, Authenticate(r) \/ Serve(r)
        PROVE  \E p \in overtaken : Moves(p)
    <2>1. CASE UpdateProfile(r)
      <3>1. /\ accounts'[a].role = "ADMIN" /\ accounts'[a].status = "ACTIVE"
            /\ accounts'[a] # NULL
        BY <1>1, <2>1, ProfileKeeps DEF IInv, Kept
      <3>2. QED
        BY <3>1 DEF Administers, Active, Exists
    <2>2. CASE UpdateRole(r) \/ UpdateStatus(r)
      <3>1. accounts'[reqs[r].user] = accounts[reqs[r].user]
        BY <2>2, AdminsWrite, AdminUpdateKeeps DEF IInv
      <3>2. r \in overtaken /\ Moves(r)
        BY <1>2, <2>2, <3>1, AdminsWrite, StepMoves
      <3>3. QED
        BY <3>2
    <2>3. CASE accounts'[a] = accounts[a]
      BY <1>2, <2>3
    <2>4. QED
      BY <1>1, <1>3, <2>1, <2>2, <2>3, Writers
  <1>4. ASSUME NEW u \in Users, PromoteFirstAdmin(u) PROVE FALSE
    <2>1. accounts[a].role = "USER"
      BY <1>1, <1>4 DEF PromoteFirstAdmin, Exists
    <2>2. QED
      BY <1>1, <2>1
  <1>5. CASE UNCHANGED vars
    BY <1>2, <1>5 DEF vars
  <1>6. QED
    BY <1>3, <1>4, <1>5 DEF Next

\* Administrators cannot lock everyone out unless they act on each other at the same
\* time.
THEOREM AdminRemains == Spec => AdminRemainsUnlessOvertaken
  <1>1. IInv /\ [Next]_vars
          => [(\E u \in Users : Administers(u)) /\ ~(\E u \in Users : Administers(u)')
                => \E r \in overtaken : Moves(r)]_vars
    BY AdminRemainsStep
  <1>2. QED
    BY <1>1, InvariantHolds, PTL DEF Spec, AdminRemainsUnlessOvertaken

LEMMA ServedStep ==
  ASSUME IInv, [Next]_vars, NEW r \in Requests, Moves(r), reqs'[r].resp = "500"
  PROVE  Claimed(r)
  <1>1. ASSUME NEW p \in Requests, Authenticate(p) \/ Serve(p) PROVE Claimed(r)
    BY <1>1, StepSound DEF SoundStep, Moves
  <1>2. ASSUME NEW u \in Users, PromoteFirstAdmin(u) PROVE FALSE
    BY <1>2 DEF PromoteFirstAdmin, Moves
  <1>3. CASE UNCHANGED vars
    BY <1>3 DEF vars, Moves
  <1>4. QED
    BY <1>1, <1>2, <1>3 DEF Next

\* However many first requests of a user race, only an address that someone else's
\* account has makes one fail.
THEOREM SyncAlwaysServed == Spec => SyncServed
  <1>1. IInv /\ [Next]_vars
          => [\A r \in Requests : Moves(r) /\ reqs'[r].resp = "500" => Claimed(r)]_vars
    BY ServedStep
  <1>2. QED
    BY <1>1, InvariantHolds, PTL DEF Spec, SyncServed
-----------------------------------------------------------------------------
(* How many statements a request has left.                                 *)

Left(r) ==
  CASE reqs[r].pc = "create" -> 4
    [] reqs[r].pc = "recover" -> 3
    [] reqs[r].pc = "findTarget" -> 2
    [] reqs[r].pc \in {"profile", "role", "status"} -> 1
    [] OTHER -> 0

LEMMA LeftType ==
  ASSUME NEW r \in Requests
  PROVE  Left(r)' \in Nat
  BY DEF Left

LEMMA AnswerEnds ==
  ASSUME TypeOK, NEW r \in Requests, NEW code, Answer(r, code)
  PROVE  Left(r)' = 0 /\ \A p \in Requests \ {r} : reqs'[p] = reqs[p]
  BY DEF TypeOK, Answer, Idle, Left

\* What is left after each statement that is awaited.
LEMMA AwaitLeft ==
  ASSUME TypeOK, NEW r \in Requests, NEW pc, Await(r, reqs[r], pc)
  PROVE  /\ pc = "recover" => Left(r)' = 3
         /\ pc = "findTarget" => Left(r)' = 2
         /\ pc \in {"profile", "role", "status"} => Left(r)' = 1
         /\ \A p \in Requests \ {r} : reqs'[p] = reqs[p]
  <1>1. reqs'[r].pc = pc /\ \A p \in Requests \ {r} : reqs'[p] = reqs[p]
    BY DEF TypeOK, Await, Request
  <1>2. QED
    BY <1>1 DEF Left

LEMMA EnterAdvances ==
  ASSUME TypeOK, NEW r \in Requests, NEW account, Enter(r, reqs[r], account)
  PROVE  Left(r)' <= 2 /\ \A p \in Requests \ {r} : reqs'[p] = reqs[p]
  <1>1. \/ Answer(r, "ok") \/ Answer(r, "403")
        \/ Await(r, reqs[r], "profile") \/ Await(r, reqs[r], "findTarget")
    BY DEF Enter
  <1>2. CASE Answer(r, "ok") \/ Answer(r, "403")
    BY <1>2, AnswerEnds
  <1>3. CASE Await(r, reqs[r], "profile") \/ Await(r, reqs[r], "findTarget")
    BY <1>3, AwaitLeft
  <1>4. QED
    BY <1>1, <1>2, <1>3

LEMMA ServeAdvances ==
  ASSUME IInv, NEW r \in Requests, Serve(r)
  PROVE  Left(r)' < Left(r) /\ \A p \in Requests \ {r} : reqs'[p] = reqs[p]
  <1>0. TypeOK /\ SpareSelf(r)
    BY DEF IInv, SlotsInv
  <1>1. CASE CreateAccount(r)
    <2>1. Left(r) = 4
      BY <1>1 DEF CreateAccount, Left
    <2>2. CASE MayInsert(reqs[r].user, reqs[r].email)
      <3>1. PICK name \in Names \cup {NULL} : Enter(r, reqs[r], NewAccount(reqs[r].email, name))
        BY <1>1, <2>2 DEF CreateAccount
      <3>2. QED
        BY <1>0, <2>1, <3>1, EnterAdvances, LeftType
    <2>3. CASE ~MayInsert(reqs[r].user, reqs[r].email)
      <3>1. Await(r, reqs[r], "recover")
        BY <1>1, <2>3 DEF CreateAccount
      <3>2. QED
        BY <1>0, <2>1, <3>1, AwaitLeft
    <2>4. QED
      BY <2>2, <2>3
  <1>2. CASE RecoverAccount(r)
    <2>1. Left(r) = 3
      BY <1>2 DEF RecoverAccount, Left
    <2>2. Enter(r, reqs[r], accounts[reqs[r].user]) \/ Answer(r, "500")
      BY <1>2 DEF RecoverAccount
    <2>3. QED
      BY <1>0, <2>1, <2>2, EnterAdvances, AnswerEnds, LeftType
  <1>3. CASE FindTarget(r)
    <2>1. Left(r) = 2
      BY <1>3 DEF FindTarget, Left
    <2>2. reqs[r].endpoint \in AdminEndpoints
      BY <1>0, <1>3 DEF FindTarget, SpareSelf
    <2>3. Await(r, reqs[r], reqs[r].endpoint) \/ Answer(r, "404")
      BY <1>3 DEF FindTarget
    <2>4. CASE Answer(r, "404")
      BY <1>0, <2>1, <2>4, AnswerEnds
    <2>5. CASE Await(r, reqs[r], reqs[r].endpoint)
      BY <1>0, <2>1, <2>2, <2>5, AwaitLeft DEF AdminEndpoints
    <2>6. QED
      BY <2>3, <2>4, <2>5
  <1>4. CASE UpdateProfile(r) \/ UpdateRole(r) \/ UpdateStatus(r)
    <2>1. Left(r) = 1 /\ Answer(r, "ok")
      BY <1>4 DEF UpdateProfile, UpdateRole, UpdateStatus, Left
    <2>2. QED
      BY <1>0, <2>1, AnswerEnds
  <1>5. QED
    BY <1>1, <1>2, <1>3, <1>4 DEF Serve

\* Whoever else writes, every step of a request leaves it fewer statements, four at most
\* after the guard's lookup: the recovery from a unique violation never tries again.
EveryStatementCounts ==
  [][\A r \in Requests : ~Ready(r) /\ reqs'[r] # reqs[r] => Left(r)' < Left(r)]_vars

\* Hence no request can go on for ever (auth.service.ts, the lookup after the INSERT).
THEOREM RequestsRunOut == Spec => EveryStatementCounts
  <1>1. IInv /\ [Next]_vars
          => [\A r \in Requests : ~Ready(r) /\ reqs'[r] # reqs[r] => Left(r)' < Left(r)]_vars
    <2> SUFFICES ASSUME IInv, Next, NEW r \in Requests, ~Ready(r), reqs'[r] # reqs[r]
                 PROVE  Left(r)' < Left(r)
      OBVIOUS
    <2>1. ASSUME NEW p \in Requests, Serve(p) PROVE Left(r)' < Left(r)
      BY <2>1, ServeAdvances
    <2>2. ASSUME NEW p \in Requests, Authenticate(p) PROVE FALSE
      <3>1. p # r
        BY <2>2 DEF Authenticate
      <3>2. SoundStep(p)
        BY <2>2, StepSound
      <3>3. QED
        BY <3>1, <3>2 DEF SoundStep
    <2>3. ASSUME NEW u \in Users, PromoteFirstAdmin(u) PROVE FALSE
      BY <2>3 DEF PromoteFirstAdmin
    <2>4. QED
      BY <2>1, <2>2, <2>3 DEF Next
  <1>2. QED
    BY <1>1, InvariantHolds, PTL DEF Spec, EveryStatementCounts
=============================================================================
