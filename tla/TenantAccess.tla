---------------------------- MODULE TenantAccess ----------------------------
(***************************************************************************)
(* A company and its users: registration, which creates the company, its   *)
(* billing account and the user in one transaction; deactivation and       *)
(* erasure of users, which write Redis before the database commits; and    *)
(* the operations of AIAccess, which only signed-in users and payments     *)
(* reach.  Users carry tokens without a token_version claim, read as 0,    *)
(* and everyone who registers is an owner.                                 *)
(***************************************************************************)
EXTENDS AIAccess, FiniteSets

CONSTANTS
    Users,       \* identities of the provider (Clerk)
    Requests,    \* requests a replica serves at a time
    MaxVersion   \* bound: token versions

ASSUME TenantAssumption == MaxVersion \in Nat /\ IsFiniteSet(Users)

VARIABLES
    company,     \* committed: the company's row exists
    account,     \* committed: its billing account exists
    users,       \* committed rows: state and token_version
    blacklist,   \* Redis: session_blacklist:<user>:<version>
    req,         \* the requests under way
    left         \* history: users whose deactivation was committed

tenantVars == <<company, account, users, blacklist, req, left>>
vars == <<accessVars, tenantVars>>

(* The step a request is at, the user it is about, the version it read,    *)
(* and whether its open transaction holds the new company and account.     *)
NoRequest == [pc |-> "idle", on |-> "none", version |-> 0, founds |-> FALSE]

Init ==
    /\ AccessInit
    /\ company = FALSE
    /\ account = FALSE
    /\ users = [u \in Users |-> [row |-> "none", version |-> 0]]
    /\ blacklist = {}
    /\ req = [r \in Requests |-> NoRequest]
    /\ left = {}

-----------------------------------------------------------------------------
(* Who is let in.                                                          *)

(* _verify_clerk_token: the token is not blacklisted.  A request that      *)
(* finds Redis down is refused and changes nothing.                        *)
Identified(u) == <<u, 0>> \notin blacklist

(* get_current_user: the row exists, is active and not of a later version. *)
Authentic(u) ==
    /\ Identified(u)
    /\ users[u].row = "active"
    /\ 0 >= users[u].version

SignedIn == \E u \in Users : Authentic(u)

ActiveOwners == {u \in Users : users[u].row = "active"}

Moved(r, pc) == req' = [req EXCEPT ![r].pc = pc]

Done(r) == req' = [req EXCEPT ![r] = NoRequest]

-----------------------------------------------------------------------------
(* POST /register.                                                         *)

(* The limits passed, the company is looked up by its name.                *)
Register(r, u) ==
    /\ req[r].pc = "idle"
    /\ Identified(u)
    /\ req' = [req EXCEPT ![r] = [NoRequest EXCEPT
                  !.pc = IF company THEN "user" ELSE "company", !.on = u]]
    /\ UNCHANGED <<accessVars, company, account, users, blacklist, left>>

(* Mutant: the company is committed before its account is made.            *)
InsertCompany_Commits(r) ==
    /\ req[r].pc = "company"
    /\ company' = TRUE
    /\ req' = [req EXCEPT ![r].pc = IF company THEN "user" ELSE "account",
                          ![r].founds = ~ company]
    /\ UNCHANGED <<accessVars, account, users, blacklist, left>>

(* The savepoint's INSERT waits for another uncommitted one of that name;  *)
(* on a conflict the company found is joined and no account is made.       *)
InsertCompany(r) ==
    /\ req[r].pc = "company"
    /\ \A s \in Requests : ~ req[s].founds
    /\ req' = [req EXCEPT ![r].pc = IF company THEN "user" ELSE "account",
                          ![r].founds = ~ company]
    /\ UNCHANGED <<accessVars, company, account, users, blacklist, left>>

CreateAccount(r) ==
    /\ req[r].pc = "account"
    /\ Moved(r, "user")
    /\ UNCHANGED <<accessVars, company, account, users, blacklist, left>>

(* A known user is refused (409) and the transaction rolled back; the      *)
(* INSERT waits for another uncommitted one of the same user.              *)
InsertUser(r) ==
    /\ req[r].pc = "user"
    /\ \A s \in Requests : ~ (req[s].pc = "register" /\ req[s].on = req[r].on)
    /\ IF users[req[r].on].row # "none" THEN Done(r) ELSE Moved(r, "register")
    /\ UNCHANGED <<accessVars, company, account, users, blacklist, left>>

CommitRegister(r) ==
    /\ req[r].pc = "register"
    /\ company' = (company \/ req[r].founds)
    /\ account' = (account \/ req[r].founds)
    /\ users' = [users EXCEPT ![req[r].on] = [row |-> "active", version |-> 0]]
    /\ Done(r)
    /\ UNCHANGED <<accessVars, blacklist, left>>

-----------------------------------------------------------------------------
(* POST /deactivate and DELETE /delete/me.                                 *)

ReadTarget(r, u) ==
    /\ req[r].pc = "idle"
    /\ users[u].version < MaxVersion
    /\ req' = [req EXCEPT ![r] = [NoRequest EXCEPT
                  !.pc = "blacklist", !.on = u, !.version = users[u].version]]
    /\ UNCHANGED <<accessVars, company, account, users, blacklist, left>>

(* An owner may deactivate anyone of the company, also twice.              *)
DeactivateUser(r, u) ==
    /\ SignedIn
    /\ users[u].row # "none"
    /\ ReadTarget(r, u)

(* The last owner may not leave; the owners are counted without a lock.    *)
DeleteMyData(r, u) ==
    /\ Authentic(u)
    /\ Cardinality(ActiveOwners) > 1
    /\ ReadTarget(r, u)

(* Mutant: the version that was read is blacklisted.                       *)
BlacklistSession_Old(r) ==
    /\ req[r].pc = "blacklist"
    /\ blacklist' = blacklist \union {<<req[r].on, req[r].version>>}
    /\ Moved(r, "deactivate")
    /\ UNCHANGED <<accessVars, company, account, users, left>>

(* Redis is written before the database commits; its failure is ignored.   *)
BlacklistSession(r) ==
    /\ req[r].pc = "blacklist"
    /\ \/ blacklist' = blacklist \union {<<req[r].on, req[r].version + 1>>}
       \/ UNCHANGED blacklist
    /\ Moved(r, "deactivate")
    /\ UNCHANGED <<accessVars, company, account, users, left>>

(* The UPDATE writes the version computed from the one that was read.      *)
CommitDeactivate(r) ==
    /\ req[r].pc = "deactivate"
    /\ users' = [users EXCEPT ![req[r].on] =
                    [row |-> "inactive", version |-> req[r].version + 1]]
    /\ left' = left \union {req[r].on}
    /\ Done(r)
    /\ UNCHANGED <<accessVars, company, account, blacklist>>

(* DELETE /delete-tenant deletes table by table by company_id, a column    *)
(* that companies does not have: the failed statement aborts the           *)
(* transaction and nothing is deleted.                                     *)
DeleteTenant(r) ==
    /\ req[r].pc = "idle"
    /\ SignedIn
    /\ req' = [req EXCEPT ![r].pc = "aborted"]
    /\ UNCHANGED <<accessVars, company, account, users, blacklist, left>>

(* A request ends without committing: an error, a lost client or a crash.  *)
Abandon(r) ==
    /\ req[r].pc # "idle"
    /\ Done(r)
    /\ UNCHANGED <<accessVars, company, account, users, blacklist, left>>

(* A blacklist entry outlives its TTL of one or seven days.                *)
Expire ==
    /\ \E b \in blacklist : blacklist' = blacklist \ {b}
    /\ UNCHANGED <<accessVars, company, account, users, req, left>>

-----------------------------------------------------------------------------
(* What users, the scheduler and Stripe do to the company's account.       *)

UserAccess ==
    /\ account
    /\ SignedIn
    /\ \/ \E spike, failures \in BOOLEAN : Request(spike, failures)
       \/ \E op \in {"disable", "enable"} : AdminRead(op)
    /\ UNCHANGED tenantVars

SystemAccess ==
    /\ account
    /\ \/ Decay
       \/ DisableCompany
       \/ EnableCompany
       \/ \E op \in {"failed", "succeeded"} : PaymentRead(op)
       \/ PaymentFailed
       \/ PaymentSucceeded
    /\ UNCHANGED tenantVars

Next ==
    \/ \E r \in Requests :
          \/ \E u \in Users : Register(r, u) \/ DeactivateUser(r, u) \/ DeleteMyData(r, u)
          \/ InsertCompany(r)
          \/ CreateAccount(r)
          \/ InsertUser(r)
          \/ CommitRegister(r)
          \/ BlacklistSession(r)
          \/ CommitDeactivate(r)
          \/ DeleteTenant(r)
          \/ Abandon(r)
    \/ Expire
    \/ UserAccess
    \/ SystemAccess

Spec == Init /\ [][Next]_vars

-----------------------------------------------------------------------------
(* A company that exists has its billing account, and a user's company     *)
(* exists, whichever of several concurrent registrations creates it and    *)
(* wherever one of them fails (register joins an existing company without  *)
(* making an account, auth/router.py:133).                                 *)
TenantComplete ==
    /\ company => account
    /\ \A u \in Users : users[u].row # "none" => company

(* A user is let in exactly when the registration was committed and no     *)
(* deactivation was: neither a deactivation that is rolled back after its  *)
(* Redis write, nor a second one that overwrites the version, nor an       *)
(* expired blacklist entry, nor registering again changes that.            *)
AccessFollowsCommit ==
    \A u \in Users : Authentic(u) <=> users[u].row # "none" /\ u \notin left
=============================================================================
