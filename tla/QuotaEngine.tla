---------------------------- MODULE QuotaEngine ----------------------------
(***************************************************************************)
(* AIQuotaEngine (app/billing/quota_engine.py): the optimistic-concurrency *)
(* protocol on one company's row of billing_accounts.                      *)
(*                                                                         *)
(* A database session that runs check_and_reserve or release_reserved      *)
(* first SELECTs the row WITHOUT a lock (its snapshot), and later runs one *)
(* UPDATE ... WHERE version = <version read> that writes ABSOLUTE values   *)
(* computed from the snapshot and bumps the version.  The UPDATE takes the *)
(* row lock, which is kept until the commit, so UPDATE and commit are one  *)
(* step here; between the SELECT and the UPDATE any other session may run. *)
(* Three failed UPDATEs end the operation.                                 *)
(*                                                                         *)
(* What a retry works with is decided by SQLAlchemy's identity map: its    *)
(* SELECT does not overwrite the loaded attributes of the object the first *)
(* SELECT made, only those that have expired since (Retried, below).       *)
(*                                                                         *)
(* ACU amounts are naturals.  granted[j] is not a column: it records the   *)
(* amounts that were ever reserved for job j.  A message carries such an   *)
(* amount from retry to retry, and the task gives it back from several     *)
(* places (job_tasks.py:478, :832, :863), none of which knows of another.  *)
(* finalize_usage has no caller.                                           *)
(***************************************************************************)
EXTENDS Integers, FiniteSetsExt

CONSTANTS
    Sessions,      \* database sessions of Celery workers and API requests
    Jobs,          \* job ids
    Costs,         \* cost_acu values a caller may ask for
    Quota,         \* billing_accounts.monthly_quota_acu
    MaxPerJob,     \* PLAN_TIERS[plan]["max_cost_per_job"], in ACU
    DailyLimit,    \* get_user_daily_acu_limit()
    MaxVersion     \* bound: no operation starts once version has reached it

ASSUME QuotaAssumption ==
    /\ "none" \notin Jobs
    /\ Costs \subseteq Nat \ {0}
    /\ Quota \in Nat /\ MaxPerJob \in Nat /\ DailyLimit \in Nat
    /\ MaxVersion \in Nat

VARIABLES
    account,       \* the committed row: used_acu, reserved_acu, version, ai_disabled
    daily,         \* user_daily_usage.acu_used of the (single) user, today
    sess,          \* what each session is doing
    granted        \* history: the amounts ever reserved for each job

engineVars == <<account, daily, sess, granted>>

Account == [used : Nat, reserved : Nat, version : Nat, ai : {"enabled", "disabled"}]

MaxRetries == 3

NewAccount == [used |-> 0, reserved |-> 0, version |-> 0, ai |-> "enabled"]

(* A session between operations.                                           *)
NoSession == [op |-> "idle", job |-> "none", amt |-> 0, user |-> FALSE, uuid |-> FALSE,
              snap |-> NewAccount, tries |-> 0]

(* user: the caller names a user, whose daily usage is charged as well.    *)
(* uuid: the caller passes company_id as a UUID and not as a string.       *)
Session == [op : {"idle", "reserve", "release"}, job : Jobs \cup {"none"}, amt : Nat,
            user : BOOLEAN, uuid : BOOLEAN, snap : Account,
            tries : 0 .. MaxRetries - 1]

EngineInit ==
    /\ account = NewAccount
    /\ daily = 0
    /\ sess = [s \in Sessions |-> NoSession]
    /\ granted = [j \in Jobs |-> {}]

-----------------------------------------------------------------------------
(* The row as the code computes it.  snap is the row as the session has    *)
(* it, a the row the UPDATE finds.                                         *)

FloorZero(n) == IF n < 0 THEN 0 ELSE n

Available(snap) == Quota - snap.used - snap.reserved

(* The checks of check_and_reserve, in the snapshot.                       *)
Admits(snap, c) ==
    /\ snap.ai = "enabled"
    /\ c <= MaxPerJob
    /\ c <= Available(snap)

(* The upsert of user_daily_usage is checked after it is made; a refused   *)
(* one is rolled back with the caller's transaction.                       *)
WithinDaily(user, c) == user => daily + c <= DailyLimit

(* Mutant: the UPDATE is not conditional on the version.                   *)
VersionMatches_Ignored(a, snap) == TRUE

VersionMatches(a, snap) == a.version = snap.version

ReserveWrite(a, snap, c) ==
    [used |-> a.used, reserved |-> snap.reserved + c,
     version |-> a.version + 1, ai |-> a.ai]

ReleaseWrite(a, snap, d) ==
    [used |-> a.used, reserved |-> FloorZero(snap.reserved - d),
     version |-> a.version + 1, ai |-> a.ai]

(* The row a session works with after an UPDATE that met another version.  *)
(* The ORM applies the UPDATE to the loaded objects that satisfy its WHERE *)
(* clause, evaluated in Python: a string never equals the UUID of the row, *)
(* so that the object of such a caller stays as it is, version included.   *)
(* A UUID matches although the database changed nothing.  check_and_reserve*)
(* then rolls back its savepoint, which expires the whole object;          *)
(* release_reserved keeps the object, reduced by the amount already, and   *)
(* only the version, which Python cannot evaluate, is read again.          *)
Retried(sn) ==
    IF ~ sn.uuid THEN sn.snap
    ELSE IF sn.op = "reserve" THEN account
    ELSE [sn.snap EXCEPT !.reserved = FloorZero(@ - sn.amt), !.version = account.version]

-----------------------------------------------------------------------------
(* check_and_reserve                                                       *)

Begin(s, op, j, amt, user, uuid) ==
    /\ sess[s].op = "idle"
    /\ account.version < MaxVersion
    /\ sess' = [sess EXCEPT ![s] = [op |-> op, job |-> j, amt |-> amt, user |-> user,
                                    uuid |-> uuid, snap |-> account, tries |-> 0]]
    /\ UNCHANGED <<account, daily, granted>>

End(s) == sess' = [sess EXCEPT ![s] = NoSession]

(* rowcount = 0: the operation tries again, or ends after the third time.  *)
Retry(s) ==
    IF sess[s].tries < MaxRetries - 1
    THEN sess' = [sess EXCEPT ![s].snap = Retried(sess[s]), ![s].tries = @ + 1]
    ELSE End(s)

(* The first attempt of process_job_task names the user, its retries do    *)
(* not, both pass a string; generate_estimate names the user, by UUID.     *)
BeginReserve(s, j, c, user, uuid) ==
    /\ uuid => user
    /\ Begin(s, "reserve", j, c, user, uuid)

ReserveDenied(s) ==
    /\ sess[s].op = "reserve"
    /\ \/ ~ Admits(sess[s].snap, sess[s].amt)
       \/ ~ WithinDaily(sess[s].user, sess[s].amt)
    /\ End(s)
    /\ UNCHANGED <<account, daily, granted>>

Reserve(s) ==
    LET c == sess[s].amt IN
    /\ sess[s].op = "reserve"
    /\ Admits(sess[s].snap, c)
    /\ WithinDaily(sess[s].user, c)
    /\ VersionMatches(account, sess[s].snap)
    /\ account' = ReserveWrite(account, sess[s].snap, c)
    /\ daily' = IF sess[s].user THEN daily + c ELSE daily
    /\ granted' = [granted EXCEPT ![sess[s].job] = @ \cup {c}]
    /\ End(s)

(* After the third conflict the caller is told CONCURRENCY_LIMIT.          *)
ReserveConflict(s) ==
    /\ sess[s].op = "reserve"
    /\ Admits(sess[s].snap, sess[s].amt)
    /\ WithinDaily(sess[s].user, sess[s].amt)
    /\ ~ VersionMatches(account, sess[s].snap)
    /\ Retry(s)
    /\ UNCHANGED <<account, daily, granted>>

-----------------------------------------------------------------------------
(* release_reserved                                                        *)

(* process_job_task gives back what its delivery believes it reserved: an  *)
(* amount of some delivery of the job, possibly given back before.         *)
BeginRelease(s, c) ==
    /\ \E j \in Jobs : c \in granted[j]
    /\ Begin(s, "release", "none", c, FALSE, FALSE)

(* cleanup_stale_jobs gives back all that the COMPANY has reserved, for    *)
(* one stuck job.  (Neither release has use for a job: the row knows none.)*)
BeginSweep(s) ==
    /\ account.reserved > 0
    /\ Begin(s, "release", "none", account.reserved, FALSE, TRUE)

Release(s) ==
    /\ sess[s].op = "release"
    /\ VersionMatches(account, sess[s].snap)
    /\ account' = ReleaseWrite(account, sess[s].snap, sess[s].amt)
    /\ End(s)
    /\ UNCHANGED <<daily, granted>>

(* After the third conflict the loop simply ends: the row is unchanged and *)
(* the caller is told nothing.                                             *)
GiveBackConflict(s) ==
    /\ sess[s].op = "release"
    /\ ~ VersionMatches(account, sess[s].snap)
    /\ Retry(s)
    /\ UNCHANGED <<account, daily, granted>>

-----------------------------------------------------------------------------
(* Every variable has its type.                                            *)
TypeOK ==
    /\ account \in Account
    /\ daily \in Nat
    /\ sess \in [Sessions -> Session]
    /\ granted \in [Jobs -> SUBSET Costs]

(* The user's daily usage stays within the user's daily limit.             *)
DailyLimitHolds == daily <= DailyLimit
=============================================================================
