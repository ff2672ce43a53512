------------------------ MODULE TenantAccessProofs ------------------------
(***************************************************************************)
(* TenantAccess for any set of users, any number of concurrent requests    *)
(* and any number of deactivations: registration leaves no half-made       *)
(* tenant, access follows what was committed, and an unpaid company has no *)
(* AI.                                                                     *)
(*                                                                         *)
(* The rows a request relies on were read earlier without a lock, so the   *)
(* invariant says what each step of a request may still assume of the      *)
(* committed rows (Sound): who is about to register is unknown, who is     *)
(* about to be deactivated is known, and who joins a company either finds  *)
(* it committed or founds it in the same transaction.                      *)
(***************************************************************************)
EXTENDS TenantAccess, TLAPS

RequestRecord ==
    [pc : {"idle", "company", "account", "user", "register", "blacklist", "deactivate", "aborted"},
     on : Users \union {"none"}, version : Nat, founds : BOOLEAN]

UserRecord == [row : {"none", "active", "inactive"}, version : Nat]

(* What a request may assume of the committed rows at each step.           *)
Sound(q, comp, rows) ==
    /\ q.pc \notin {"idle", "aborted"} => q.on \in Users
    /\ q.founds => q.pc \in {"account", "user", "register"} /\ ~ comp
    /\ q.pc = "account" => q.founds
    /\ q.pc \in {"user", "register"} => comp \/ q.founds
    /\ q.pc = "register" => rows[q.on].row = "none"
    /\ q.pc \in {"blacklist", "deactivate"} => rows[q.on].row # "none"

AllSound == \A r \in Requests : Sound(req[r], company, users)

(* At most one transaction holds a new company, and at most one a new row  *)
(* of a user.                                                              *)
OneFounder == \A r, s \in Requests : req[r].founds /\ req[s].founds => r = s

OneRegistration ==
    \A r, s \in Requests :
        req[r].pc = "register" /\ req[s].pc = "register" /\ req[r].on = req[s].on => r = s

RequestInv ==
    /\ req \in [Requests -> RequestRecord]
    /\ company \in BOOLEAN /\ account \in BOOLEAN
    /\ AllSound
    /\ OneFounder
    /\ OneRegistration
    /\ TenantComplete

(* A deactivation leaves a version that no token without a version has,    *)
(* and only such versions are ever blacklisted.                            *)
UserInv ==
    /\ users \in [Users -> UserRecord]
    /\ \A u \in Users : users[u].row = "active" => users[u].version = 0
    /\ \A u \in Users : u \in left <=> users[u].row = "inactive"
    /\ \A u \in Users : <<u, 0>> \notin blacklist

(* A payment handler that is about to commit what it read: if it saw AI    *)
(* off and no administrator came in between, AI is off.                    *)
PaymentInv ==
    /\ disabled \in BOOLEAN /\ unpaid \in BOOLEAN
    /\ hook \in [op : {"none", "failed", "succeeded"}, disabled : BOOLEAN, overruled : BOOLEAN]
    /\ UnpaidIsDisabled
    /\ hook.op = "failed" /\ hook.disabled /\ ~ hook.overruled => disabled
    /\ hook.op = "succeeded" => ~ unpaid

IInv == RequestInv /\ UserInv /\ PaymentInv

-----------------------------------------------------------------------------
(* Nobody has registered.                                                  *)
LEMMA InitInv == Init => IInv
  <1> SUFFICES ASSUME Init PROVE IInv
    OBVIOUS
  <1>1. NoRequest \in RequestRecord /\ NoRequest.pc = "idle" /\ ~NoRequest.founds
    BY DEF NoRequest, RequestRecord
  <1>2. \A r \in Requests : req[r] = NoRequest
    BY DEF Init
  <1>3. RequestInv
    BY <1>1, <1>2 DEF Init, RequestInv, AllSound, Sound, OneFounder, OneRegistration, TenantComplete
  <1>4. UserInv
    BY DEF Init, UserInv, UserRecord
  <1>5. PaymentInv
    BY DEF Init, AccessInit, PaymentInv, UnpaidIsDisabled, NoHook
  <1> QED
    BY <1>3, <1>4, <1>5 DEF IInv

(* A step of one request that commits nothing.                             *)
LEMMA RequestStep ==
  ASSUME RequestInv, UNCHANGED <<company, account, users>>, NEW r \in Requests,
         req' \in [Requests -> RequestRecord],
         \A s \in Requests \ {r} : req'[s] = req[s],
         Sound(req'[r], company, users),
         req'[r].founds => req[r].founds \/ \A s \in Requests : ~req[s].founds,
         req'[r].pc = "register" =>
            \A s \in Requests \ {r} : ~(req[s].pc = "register" /\ req[s].on = req'[r].on)
  PROVE  RequestInv'
  <1>1. AllSound'
    BY DEF RequestInv, AllSound
  <1>2. OneFounder'
    BY DEF RequestInv, OneFounder
  <1>3. OneRegistration'
    BY DEF RequestInv, OneRegistration
  <1>4. TenantComplete'
    BY DEF RequestInv, TenantComplete
  <1> QED
    BY <1>1, <1>2, <1>3, <1>4 DEF RequestInv

(* A request that ends is sound and holds nothing.                         *)
LEMMA DoneFacts ==
  ASSUME RequestInv, NEW r \in Requests, Done(r)
  PROVE  /\ req' \in [Requests -> RequestRecord]
         /\ \A s \in Requests \ {r} : req'[s] = req[s]
         /\ req'[r].pc = "idle" /\ ~req'[r].founds
         /\ \A comp, rows : Sound(req'[r], comp, rows)
  <1>1. NoRequest \in RequestRecord /\ NoRequest.pc = "idle" /\ ~NoRequest.founds
    BY DEF NoRequest, RequestRecord
  <1>2. req'[r] = NoRequest
    BY DEF RequestInv, Done
  <1>3. \A comp, rows : Sound(NoRequest, comp, rows)
    BY <1>1 DEF Sound
  <1> QED
    BY <1>1, <1>2, <1>3 DEF RequestInv, Done

(* A step of a request to p, by which it keeps its user and its company.   *)
LEMMA MovedFacts ==
  ASSUME RequestInv, NEW r \in Requests,
         NEW p \in {"user", "register", "deactivate", "aborted"}, Moved(r, p)
  PROVE  /\ req' \in [Requests -> RequestRecord]
         /\ \A s \in Requests \ {r} : req'[s] = req[s]
         /\ req'[r].pc = p /\ req'[r].on = req[r].on /\ req'[r].version = req[r].version
         /\ req'[r].founds = req[r].founds
  BY DEF RequestInv, Moved, RequestRecord

-----------------------------------------------------------------------------
(* POST /register, step by step.                                           *)

LEMMA RegisterInv == ASSUME RequestInv, NEW r \in Requests, NEW u \in Users, Register(r, u) PROVE RequestInv'
  <1> DEFINE p == IF company THEN "user" ELSE "company"
             a == [NoRequest EXCEPT !.pc = p]
             q == [a EXCEPT !.on = u]
  <1>1. NoRequest \in RequestRecord /\ ~NoRequest.founds
    BY DEF NoRequest, RequestRecord
  <1>2. a \in RequestRecord /\ ~a.founds /\ a.pc = p
    BY <1>1 DEF RequestRecord
  <1>3. q = [NoRequest EXCEPT !.pc = p, !.on = u]
    OBVIOUS
  <1> HIDE DEF a
  <1>4. q \in RequestRecord /\ ~q.founds /\ q.pc = p /\ q.on = u
    BY <1>2 DEF RequestRecord
  <1>5. req' = [req EXCEPT ![r] = q]
    BY <1>3 DEF Register
  <1> HIDE DEF q
  <1>6. Sound(q, company, users)
    BY <1>4 DEF Sound
  <1>7. UNCHANGED <<company, account, users>>
    BY DEF Register
  <1>8. /\ req' \in [Requests -> RequestRecord]
        /\ \A s \in Requests \ {r} : req'[s] = req[s]
        /\ req'[r] = q
    BY <1>4, <1>5 DEF RequestInv
  <1> QED
    BY <1>4, <1>6, <1>7, <1>8, RequestStep

LEMMA InsertCompanyInv == ASSUME RequestInv, NEW r \in Requests, InsertCompany(r) PROVE RequestInv'
  <1>1. req \in [Requests -> RequestRecord] /\ Sound(req[r], company, users) /\ company \in BOOLEAN
    BY DEF RequestInv, AllSound
  <1>2. UNCHANGED <<company, account, users>> /\ req[r].pc = "company"
    BY DEF InsertCompany
  <1>3. CASE company
    <2>1. req' = [req EXCEPT ![r].pc = "user", ![r].founds = FALSE]
      BY <1>3 DEF InsertCompany
    <2>2. /\ req' \in [Requests -> RequestRecord] /\ \A s \in Requests \ {r} : req'[s] = req[s]
          /\ req'[r].pc = "user" /\ ~req'[r].founds /\ req'[r].on = req[r].on
      BY <1>1, <2>1 DEF RequestRecord
    <2>3. Sound(req'[r], company, users)
      BY <1>1, <1>2, <1>3, <2>2 DEF Sound
    <2> QED
      BY <1>2, <2>2, <2>3, RequestStep
  <1>4. CASE ~company
    <2>1. req' = [req EXCEPT ![r].pc = "account", ![r].founds = TRUE]
      BY <1>4 DEF InsertCompany
    <2>2. /\ req' \in [Requests -> RequestRecord] /\ \A s \in Requests \ {r} : req'[s] = req[s]
          /\ req'[r].pc = "account" /\ req'[r].founds /\ req'[r].on = req[r].on
      BY <1>1, <2>1 DEF RequestRecord
    <2>3. Sound(req'[r], company, users)
      BY <1>1, <1>2, <1>4, <2>2 DEF Sound
    <2>4. \A s \in Requests : ~req[s].founds
      BY DEF InsertCompany
    <2> QED
      BY <1>2, <2>2, <2>3, <2>4, RequestStep
  <1> QED
    BY <1>3, <1>4

LEMMA InsertUserInv ==
  ASSUME RequestInv, NEW r \in Requests, CreateAccount(r) \/ InsertUser(r)
  PROVE  RequestInv'
  <1>1. Sound(req[r], company, users) /\ UNCHANGED <<company, account, users>>
    BY DEF RequestInv, AllSound, CreateAccount, InsertUser
  <1>2. CASE CreateAccount(r)
    <2>1. req[r].pc = "account" /\ Moved(r, "user")
      BY <1>2 DEF CreateAccount
    <2>2. Sound(req'[r], company, users)
      BY <1>1, <2>1, MovedFacts DEF Sound
    <2> QED
      BY <1>1, <2>1, <2>2, MovedFacts, RequestStep
  <1>3. CASE InsertUser(r) /\ users[req[r].on].row # "none"
    <2>1. Done(r)
      BY <1>3 DEF InsertUser
    <2> QED
      BY <1>1, <2>1, DoneFacts, RequestStep
  <1>4. CASE InsertUser(r) /\ users[req[r].on].row = "none"
    <2>1. /\ req[r].pc = "user" /\ Moved(r, "register")
          /\ \A s \in Requests : ~(req[s].pc = "register" /\ req[s].on = req[r].on)
      BY <1>4 DEF InsertUser
    <2>2. Sound(req'[r], company, users)
      BY <1>1, <1>4, <2>1, MovedFacts DEF Sound
    <2> QED
      BY <1>1, <2>1, <2>2, MovedFacts, RequestStep
  <1> QED
    BY <1>2, <1>3, <1>4

(* The commit of a registration: no other transaction founds a company or  *)
(* registers the same user.                                                *)
LEMMA CommitRegisterInv ==
  ASSUME RequestInv, UserInv, NEW r \in Requests, CommitRegister(r)
  PROVE  RequestInv' /\ UserInv'
  <1> DEFINE u == req[r].on
             row == [row |-> "active", version |-> 0]
  <1>1. /\ req[r].pc = "register" /\ Done(r) /\ Sound(req[r], company, users)
        /\ company' = (company \/ req[r].founds) /\ account' = (account \/ req[r].founds)
        /\ users' = [users EXCEPT ![u] = row]
        /\ UNCHANGED <<blacklist, left>>
    BY DEF CommitRegister, RequestInv, AllSound
  <1>2. u \in Users /\ users[u].row = "none" /\ (company \/ req[r].founds)
    BY <1>1 DEF Sound
  <1>3. row \in UserRecord /\ row.row = "active" /\ row.version = 0
    BY DEF UserRecord
  <1> HIDE DEF row
  <1>4. /\ users' \in [Users -> UserRecord] /\ users'[u] = row
        /\ \A v \in Users \ {u} : users'[v] = users[v]
    BY <1>1, <1>2, <1>3 DEF UserInv
  <1>5. UserInv'
    BY <1>1, <1>2, <1>3, <1>4 DEF UserInv
  <1>6. company' /\ company' \in BOOLEAN /\ account' \in BOOLEAN
    BY <1>1, <1>2 DEF RequestInv
  <1>7. account'
    BY <1>1, <1>2 DEF RequestInv, TenantComplete
  <1>8. TenantComplete'
    BY <1>6, <1>7 DEF TenantComplete
  <1>9. AllSound'
    <2> SUFFICES ASSUME NEW s \in Requests PROVE Sound(req'[s], company', users')
      BY DEF AllSound
    <2>1. CASE s = r
      BY <1>1, <2>1, DoneFacts
    <2>2. CASE s # r
      <3>1. req'[s] = req[s] /\ Sound(req[s], company, users)
        BY <1>1, <2>2, DoneFacts DEF RequestInv, AllSound
      <3>2. ~req[s].founds
        BY <1>2, <2>2, <3>1 DEF RequestInv, OneFounder, Sound
      <3>3. req[s].pc = "register" => req[s].on # u
        BY <1>1, <2>2 DEF RequestInv, OneRegistration
      <3> QED
        BY <1>2, <1>3, <1>4, <1>6, <3>1, <3>2, <3>3 DEF Sound
    <2> QED
      BY <2>1, <2>2
  <1>10. OneFounder' /\ OneRegistration'
    BY <1>1, DoneFacts DEF RequestInv, OneFounder, OneRegistration
  <1> QED
    BY <1>1, <1>5, <1>6, <1>8, <1>9, <1>10, DoneFacts DEF RequestInv

-----------------------------------------------------------------------------
(* POST /deactivate and DELETE /delete/me.                                 *)

LEMMA ReadTargetInv ==
  ASSUME RequestInv, UserInv, NEW r \in Requests, NEW u \in Users,
         DeactivateUser(r, u) \/ DeleteMyData(r, u)
  PROVE  RequestInv'
  <1> DEFINE a == [NoRequest EXCEPT !.pc = "blacklist"]
             b == [a EXCEPT !.on = u]
             q == [b EXCEPT !.version = users[u].version]
  <1>1. users[u].row # "none" /\ ReadTarget(r, u) /\ users[u].version \in Nat
    BY DEF DeactivateUser, DeleteMyData, Authentic, UserInv, UserRecord
  <1>2. NoRequest \in RequestRecord /\ ~NoRequest.founds
    BY DEF NoRequest, RequestRecord
  <1>3. q = [NoRequest EXCEPT !.pc = "blacklist", !.on = u, !.version = users[u].version]
    OBVIOUS
  <1>4. a \in RequestRecord /\ ~a.founds /\ a.pc = "blacklist"
    BY <1>2 DEF RequestRecord
  <1> HIDE DEF a
  <1>5. b \in RequestRecord /\ ~b.founds /\ b.pc = "blacklist" /\ b.on = u
    BY <1>4 DEF RequestRecord
  <1> HIDE DEF b
  <1>6. q \in RequestRecord /\ ~q.founds /\ q.pc = "blacklist" /\ q.on = u
    BY <1>1, <1>5 DEF RequestRecord
  <1>7. req' = [req EXCEPT ![r] = q] /\ UNCHANGED <<company, account, users>>
    BY <1>1, <1>3 DEF ReadTarget
  <1> HIDE DEF q
  <1>8. Sound(q, company, users)
    BY <1>1, <1>6 DEF Sound
  <1>9. /\ req' \in [Requests -> RequestRecord]
        /\ \A s \in Requests \ {r} : req'[s] = req[s]
        /\ req'[r] = q
    BY <1>6, <1>7 DEF RequestInv
  <1> QED
    BY <1>6, <1>7, <1>8, <1>9, RequestStep

LEMMA BlacklistInv ==
  ASSUME RequestInv, UserInv, NEW r \in Requests, BlacklistSession(r)
  PROVE  RequestInv' /\ UserInv'
  <1>1. /\ req[r].pc = "blacklist" /\ Moved(r, "deactivate") /\ Sound(req[r], company, users)
        /\ UNCHANGED <<company, account, users, left>>
    BY DEF RequestInv, AllSound, BlacklistSession
  <1>2. Sound(req'[r], company, users)
    BY <1>1, MovedFacts DEF Sound
  <1>3. RequestInv'
    BY <1>1, <1>2, MovedFacts, RequestStep DEF Sound
  <1>4. req[r].version + 1 # 0
    BY DEF RequestInv, RequestRecord
  <1>5. \A u \in Users : <<u, 0>> \notin blacklist'
    <2> SUFFICES ASSUME NEW u \in Users PROVE <<u, 0>> \notin blacklist'
      OBVIOUS
    <2>1. <<u, 0>> \notin blacklist
      BY DEF UserInv
    <2>2. <<u, 0>> # <<req[r].on, req[r].version + 1>>
      BY <1>4
    <2>3. blacklist' \subseteq blacklist \union {<<req[r].on, req[r].version + 1>>}
      BY DEF BlacklistSession
    <2> QED
      BY <2>1, <2>2, <2>3
  <1> QED
    BY <1>1, <1>3, <1>5 DEF UserInv

(* The commit of a deactivation: its user is known, so nobody is about to  *)
(* register it.                                                            *)
LEMMA CommitDeactivateInv ==
  ASSUME RequestInv, UserInv, NEW r \in Requests, CommitDeactivate(r)
  PROVE  RequestInv' /\ UserInv'
  <1> DEFINE u == req[r].on
             row == [row |-> "inactive", version |-> req[r].version + 1]
  <1>1. /\ req[r].pc = "deactivate" /\ Done(r) /\ Sound(req[r], company, users)
        /\ users' = [users EXCEPT ![u] = row]
        /\ left' = left \union {u}
        /\ UNCHANGED <<company, account, blacklist>>
    BY DEF CommitDeactivate, RequestInv, AllSound
  <1>2. u \in Users /\ users[u].row # "none"
    BY <1>1 DEF Sound
  <1>3. row \in UserRecord /\ row.row = "inactive"
    BY DEF RequestInv, RequestRecord, UserRecord
  <1> HIDE DEF row
  <1>4. /\ users' \in [Users -> UserRecord] /\ users'[u] = row
        /\ \A v \in Users \ {u} : users'[v] = users[v]
    BY <1>1, <1>2, <1>3 DEF UserInv
  <1>5. UserInv'
    BY <1>1, <1>2, <1>3, <1>4 DEF UserInv
  <1>6. TenantComplete'
    BY <1>1, <1>2, <1>4 DEF RequestInv, TenantComplete
  <1>7. AllSound'
    <2> SUFFICES ASSUME NEW s \in Requests PROVE Sound(req'[s], company', users')
      BY DEF AllSound
    <2>1. CASE s = r
      BY <1>1, <2>1, DoneFacts
    <2>2. CASE s # r
      <3>1. req'[s] = req[s] /\ Sound(req[s], company, users)
        BY <1>1, <2>2, DoneFacts DEF RequestInv, AllSound
      <3> QED
        BY <1>1, <1>2, <1>3, <1>4, <3>1 DEF Sound
    <2> QED
      BY <2>1, <2>2
  <1>8. OneFounder' /\ OneRegistration'
    BY <1>1, DoneFacts DEF RequestInv, OneFounder, OneRegistration
  <1> QED
    BY <1>1, <1>5, <1>6, <1>7, <1>8, DoneFacts DEF RequestInv

(* A request that deletes nothing, and one that ends.                      *)
LEMMA EndInv ==
  ASSUME RequestInv, NEW r \in Requests, DeleteTenant(r) \/ Abandon(r)
  PROVE  RequestInv'
  <1>1. UNCHANGED <<company, account, users>> /\ Sound(req[r], company, users)
    BY DEF DeleteTenant, Abandon, RequestInv, AllSound
  <1>2. CASE DeleteTenant(r)
    <2>1. req[r].pc = "idle" /\ Moved(r, "aborted")
      BY <1>2 DEF DeleteTenant, Moved
    <2>2. Sound(req'[r], company, users)
      BY <1>1, <2>1, MovedFacts DEF Sound
    <2> QED
      BY <1>1, <2>1, <2>2, MovedFacts, RequestStep
  <1>3. CASE Abandon(r)
    <2>1. Done(r)
      BY <1>3 DEF Abandon
    <2> QED
      BY <1>1, <2>1, DoneFacts, RequestStep
  <1> QED
    BY <1>2, <1>3

-----------------------------------------------------------------------------
(* Whoever writes the account, an unpaid company keeps AI off.             *)
LEMMA AccessStep ==
  ASSUME PaymentInv, UserAccess \/ SystemAccess
  PROVE  PaymentInv'
  <1> USE DEF PaymentInv, UnpaidIsDisabled
  <1>1. ASSUME NEW spike \in BOOLEAN, NEW failures \in BOOLEAN, Request(spike, failures)
        PROVE  PaymentInv'
    BY <1>1 DEF Request
  <1>2. ASSUME NEW op, AdminRead(op) PROVE PaymentInv'
    BY <1>2 DEF AdminRead
  <1>3. CASE Decay
    BY <1>3 DEF Decay
  <1>4. CASE DisableCompany
    <2>1. disabled' \in BOOLEAN /\ (disabled => disabled') /\ UNCHANGED <<hook, unpaid>>
      BY <1>4 DEF DisableCompany
    <2> QED
      BY <2>1
  <1>5. CASE EnableCompany
    <2>1. disabled' \in BOOLEAN /\ unpaid' = FALSE
      BY <1>5 DEF EnableCompany
    <2>2. hook' = [hook EXCEPT !.overruled = (hook.op = "failed")]
      BY <1>5 DEF EnableCompany
    <2>3. /\ hook' \in [op : {"none", "failed", "succeeded"}, disabled : BOOLEAN, overruled : BOOLEAN]
          /\ hook'.op = "failed" => hook'.overruled
      BY <2>2
    <2> QED
      BY <2>1, <2>3
  <1>6. ASSUME NEW op \in {"failed", "succeeded"}, PaymentRead(op) PROVE PaymentInv'
    <2>1. hook' = SeenBy(op) /\ disabled' = disabled /\ unpaid' = (unpaid /\ op = "failed")
      BY <1>6 DEF PaymentRead
    <2>2. /\ hook' \in [op : {"none", "failed", "succeeded"}, disabled : BOOLEAN, overruled : BOOLEAN]
          /\ hook'.op = op /\ (hook'.disabled => disabled)
      BY <2>1 DEF SeenBy
    <2> QED
      BY <2>1, <2>2
  <1>7. NoHook \in [op : {"none", "failed", "succeeded"}, disabled : BOOLEAN, overruled : BOOLEAN]
        /\ NoHook.op = "none"
    BY DEF NoHook
  <1>8. CASE PaymentFailed
    <2>1. /\ hook.op = "failed" /\ disabled' = (disabled \/ ~ hook.disabled)
          /\ unpaid' = ~ hook.overruled /\ hook' = NoHook
      BY <1>8 DEF PaymentFailed
    <2>2. ~ hook.overruled => disabled'
      BY <2>1
    <2> QED
      BY <1>7, <2>1, <2>2
  <1>9. CASE PaymentSucceeded
    <2>1. ~unpaid /\ unpaid' = unpaid /\ hook' = NoHook /\ (disabled' = FALSE \/ disabled' = disabled)
      BY <1>9 DEF PaymentSucceeded
    <2> QED
      BY <1>7, <2>1
  <1> QED
    BY <1>1, <1>2, <1>3, <1>4, <1>5, <1>6, <1>8, <1>9 DEF UserAccess, SystemAccess

(* Every step keeps the invariant.                                         *)
LEMMA StepInv == IInv /\ [Next]_vars => IInv'
  <1> SUFFICES ASSUME IInv, [Next]_vars PROVE IInv'
    OBVIOUS
  <1>0. RequestInv /\ UserInv /\ PaymentInv
    BY DEF IInv
  <1>1. UNCHANGED accessVars => PaymentInv'
    BY <1>0 DEF accessVars, PaymentInv, UnpaidIsDisabled
  <1>2. UNCHANGED <<users, blacklist, left>> => UserInv'
    BY <1>0 DEF UserInv
  <1>3. ASSUME NEW r \in Requests, NEW u \in Users,
               Register(r, u) \/ DeactivateUser(r, u) \/ DeleteMyData(r, u)
        PROVE  IInv'
    <2>1. UNCHANGED <<accessVars, users, blacklist, left>>
      BY <1>3 DEF Register, DeactivateUser, DeleteMyData, ReadTarget
    <2>2. RequestInv'
      BY <1>0, <1>3, RegisterInv, ReadTargetInv
    <2> QED
      BY <1>1, <1>2, <2>1, <2>2 DEF IInv
  <1>4. ASSUME NEW r \in Requests,
               \/ InsertCompany(r) \/ CreateAccount(r) \/ InsertUser(r) \/ DeleteTenant(r)
               \/ Abandon(r)
        PROVE  IInv'
    <2>1. UNCHANGED <<accessVars, users, blacklist, left>>
      BY <1>4 DEF InsertCompany, CreateAccount, InsertUser, DeleteTenant, Abandon
    <2>2. RequestInv'
      BY <1>0, <1>4, InsertCompanyInv, InsertUserInv, EndInv
    <2> QED
      BY <1>1, <1>2, <2>1, <2>2 DEF IInv
  <1>5. ASSUME NEW r \in Requests,
               CommitRegister(r) \/ BlacklistSession(r) \/ CommitDeactivate(r)
        PROVE  IInv'
    <2>1. UNCHANGED accessVars
      BY <1>5 DEF CommitRegister, BlacklistSession, CommitDeactivate
    <2>2. RequestInv' /\ UserInv'
      BY <1>0, <1>5, CommitRegisterInv, BlacklistInv, CommitDeactivateInv
    <2> QED
      BY <1>1, <2>1, <2>2 DEF IInv
  <1>6. UNCHANGED <<req, company, account, users>> => RequestInv'
    BY <1>0 DEF RequestInv, AllSound, OneFounder, OneRegistration, TenantComplete
  <1>7. CASE Expire
    <2>1. UNCHANGED <<accessVars, company, account, users, req, left>> /\ blacklist' \subseteq blacklist
      BY <1>7 DEF Expire
    <2>2. UserInv'
      BY <1>0, <2>1 DEF UserInv
    <2> QED
      BY <1>1, <1>6, <2>1, <2>2 DEF IInv
  <1>8. CASE UserAccess \/ SystemAccess
    <2>1. UNCHANGED tenantVars
      BY <1>8 DEF UserAccess, SystemAccess
    <2>2. PaymentInv'
      BY <1>0, <1>8, AccessStep
    <2> QED
      BY <1>2, <1>6, <2>1, <2>2 DEF IInv, tenantVars
  <1>9. CASE UNCHANGED vars
    BY <1>1, <1>2, <1>6, <1>9 DEF IInv, vars, tenantVars
  <1> QED
    BY <1>3, <1>4, <1>5, <1>7, <1>8, <1>9 DEF Next

(* The invariant holds of every behaviour of a tenant.                     *)
THEOREM TenantInvariant == Spec => []IInv
  BY InitInv, StepInv, PTL DEF Spec

(* A company never lacks its billing account nor a user its company,       *)
(* however many registrations race and wherever one of them fails.         *)
THEOREM TenantCompleteTheorem == Spec => []TenantComplete
  <1>1. IInv => TenantComplete
    BY DEF IInv, RequestInv
  <1> QED
    BY <1>1, TenantInvariant, PTL

(* A user is let in exactly from the commit of the registration to the     *)
(* commit of the first deactivation; what Redis holds makes no difference. *)
THEOREM AccessFollowsCommitTheorem == Spec => []AccessFollowsCommit
  <1>1. IInv => AccessFollowsCommit
    <2> SUFFICES ASSUME IInv, NEW u \in Users
                 PROVE  Authentic(u) <=> users[u].row # "none" /\ u \notin left
      BY DEF AccessFollowsCommit
    <2>1. /\ users[u].row \in {"none", "active", "inactive"}
          /\ users[u].row = "active" => 0 >= users[u].version
          /\ u \in left <=> users[u].row = "inactive"
      BY DEF IInv, UserInv, UserRecord
    <2>2. Identified(u)
      BY DEF IInv, UserInv, Identified
    <2> QED
      BY <2>1, <2>2 DEF Authentic
  <1> QED
    BY <1>1, TenantInvariant, PTL

(* An unpaid company has no AI, however the unlocked reads of payment      *)
(* handlers and administrators interleave.                                 *)
THEOREM UnpaidIsDisabledTheorem == Spec => []UnpaidIsDisabled
  <1>1. IInv => UnpaidIsDisabled
    BY DEF IInv, PaymentInv
  <1> QED
    BY <1>1, TenantInvariant, PTL

(* Nobody becomes active again: once the deactivation of a user was        *)
(* committed no step lets the user in, not even another registration.      *)
THEOREM LeftForGood == Spec => [][\A u \in Users : u \in left => ~ Authentic(u)']_vars
  <1>1. IInv /\ IInv' /\ [Next]_vars => (\A u \in Users : u \in left => ~ Authentic(u)')
    <2> SUFFICES ASSUME IInv, IInv', [Next]_vars, NEW u \in Users, u \in left
                 PROVE  ~ Authentic(u)'
      OBVIOUS
    <2>1. left \subseteq left'
      BY DEF Next, vars, tenantVars, Register, DeactivateUser, DeleteMyData, ReadTarget,
             InsertCompany, CreateAccount, InsertUser, CommitRegister, BlacklistSession,
             CommitDeactivate, DeleteTenant, Abandon, Expire, UserAccess, SystemAccess
    <2>2. users'[u].row = "inactive"
      BY <2>1 DEF IInv, UserInv
    <2> QED
      BY <2>2 DEF Authentic
  <1> QED
    BY <1>1, TenantInvariant, PTL DEF Spec

=============================================================================
