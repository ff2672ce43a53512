--------------------------- MODULE BillingLedger ---------------------------
(***************************************************************************)
(* Everything that writes one company's billing_accounts row, together:    *)
(* the quota engine's compare-and-swap operations (QuotaEngine) and the    *)
(* writers that do NOT bump the row's version: reconcile_cost,             *)
(* grant_credit, the stale-reservation cleanups, the monthly quota reset,  *)
(* and the webhook handlers that switch AI off and on.                     *)
(*                                                                         *)
(* A writer that holds the row with SELECT ... FOR UPDATE from its read to *)
(* its commit is one step.  reconcile_cost is two: it owns the             *)
(* transaction-level advisory lock on (company, job) before it waits for   *)
(* the row.  The cleanups read without a lock and write later.             *)
(*                                                                         *)
(* acu_debt is no variable: reconcile_cost raises before it subtracts more *)
(* than the locked row has reserved (reconciliation.py:66), so that the    *)
(* branch that books debt (:85) and the collectors of debt never act.      *)
(***************************************************************************)
EXTENDS QuotaEngine

CONSTANTS
    Reasons,       \* credit_reason values
    MaxPeriods     \* bound: number of monthly resets

ASSUME LedgerAssumption ==
    /\ Reasons \cap {"none", "charge"} = {}
    /\ MaxPeriods \in Nat

VARIABLES
    hb,            \* reservation_heartbeat_at: NULL, recent, or past the cutoff
    period,        \* billing_period_start, as the number of resets
    ledger,        \* usage_ledger row of each job (unique on company_id, job_id)
    recon,         \* advisory lock of each job: the reconciliation that owns it
    cleaning,      \* a cleanup has selected the row and not written it yet
    overtaken,     \* history: sessions whose snapshot a writer without version outran
    charges        \* history: how often each job changed used_acu

ledgerVars == <<hb, period, ledger, recon, cleaning, overtaken, charges>>
vars == <<engineVars, ledgerVars>>

Free == [on |-> FALSE, reserved |-> 0, actual |-> 0]

LedgerInit ==
    /\ EngineInit
    /\ hb = "none"
    /\ period = 0
    /\ ledger = [j \in Jobs |-> "none"]
    /\ recon = [j \in Jobs |-> Free]
    /\ cleaning = FALSE
    /\ overtaken = {}
    /\ charges = [j \in Jobs |-> 0]

-----------------------------------------------------------------------------
(* A writer that leaves the version alone: whoever has read the row and    *)
(* not written yet will not notice.                                        *)
Outrun == overtaken' = {s \in Sessions : sess[s].op # "idle"}

(* The engine's operations; process_job_task commits a reservation         *)
(* together with a heartbeat.  A session that takes a step has read the    *)
(* row anew, is done, or holds a version that is gone for good.            *)
EngineStep(s) ==
    /\ \/ /\ \/ \E j \in Jobs, c \in Costs, u, id \in BOOLEAN : BeginReserve(s, j, c, u, id)
             \/ ReserveDenied(s)
             \/ ReserveConflict(s)
             \/ \E c \in Costs : BeginRelease(s, c)
             \/ BeginSweep(s)
             \/ Release(s)
             \/ GiveBackConflict(s)
          /\ UNCHANGED hb
       \/ Reserve(s) /\ hb' = IF sess[s].uuid THEN hb ELSE "fresh"
    /\ overtaken' = overtaken \ {s}
    /\ UNCHANGED <<period, ledger, recon, cleaning, charges>>

-----------------------------------------------------------------------------
(* reconcile_cost                                                          *)

(* pg_try_advisory_xact_lock: a caller that does not get it returns        *)
(* "lock_contention" and changes nothing.  The caller passes the amount    *)
(* its own delivery believes it reserved, which another delivery, a        *)
(* cleanup or a reset may have given back, or 0 if it reserved nothing.    *)
BeginReconcile(j, r, actual) ==
    /\ ~ recon[j].on
    /\ r \in {0} \cup granted[j]
    /\ recon' = [recon EXCEPT ![j] = [on |-> TRUE, reserved |-> r, actual |-> actual]]
    /\ UNCHANGED <<engineVars, hb, period, ledger, cleaning, overtaken, charges>>

(* Mutant: the existing ledger row is not looked for.                      *)
FirstReconciliation_Always(j) == TRUE

FirstReconciliation(j) == ledger[j] = "none"

ReservationCovers(a, r) == a.reserved >= r

ReconcileWrite(a, r, actual) ==
    [a EXCEPT !.reserved = FloorZero(a.reserved - r), !.used = a.used + actual]

(* The balance changes only on the first reconciliation of the job; a      *)
(* later one rewrites the ledger row's cost columns (not modelled) only.   *)
EndReconcile(j) ==
    LET r == recon[j].reserved
        actual == recon[j].actual
    IN
    /\ recon[j].on
    /\ recon' = [recon EXCEPT ![j] = Free]
    /\ \/ /\ FirstReconciliation(j)
          /\ ReservationCovers(account, r)
          /\ account' = ReconcileWrite(account, r, actual)
          /\ ledger' = [ledger EXCEPT ![j] = "charge"]
          /\ charges' = [charges EXCEPT ![j] = @ + 1]
          /\ Outrun
       \/ /\ ~ FirstReconciliation(j)
          /\ UNCHANGED <<account, ledger, charges, overtaken>>
    /\ UNCHANGED <<daily, sess, granted, hb, period, cleaning>>

(* BillingIntegrityError, or the transaction is rolled back for any other  *)
(* reason: nothing of it stays.                                            *)
AbortReconcile(j) ==
    /\ recon[j].on
    /\ recon' = [recon EXCEPT ![j] = Free]
    /\ UNCHANGED <<engineVars, hb, period, ledger, cleaning, overtaken, charges>>

-----------------------------------------------------------------------------
(* grant_credit                                                            *)

DuplicateCredit(j, reason) == ledger[j] = reason

(* Mutant: used_acu is not floored at zero.                                *)
CreditWrite_NoFloor(a, amt) == [a EXCEPT !.used = a.used - amt]

CreditWrite(a, amt) == [a EXCEPT !.used = FloorZero(a.used - amt)]

(* INSERT ... ON CONFLICT (job_id, company_id) DO NOTHING.                 *)
CreditRow(j, reason) == IF ledger[j] = "none" THEN reason ELSE ledger[j]

GrantCredit(j, amt, reason) ==
    /\ ~ DuplicateCredit(j, reason)
    /\ account' = CreditWrite(account, amt)
    /\ ledger' = [ledger EXCEPT ![j] = CreditRow(j, reason)]
    /\ Outrun
    /\ UNCHANGED <<daily, sess, granted, hb, period, recon, cleaning, charges>>

-----------------------------------------------------------------------------
(* Stale reservations.  cleanup_stale_reservations and the orphan pass of  *)
(* cleanup_stale_jobs select accounts with an old heartbeat, without a     *)
(* lock, and then write reserved_acu = 0.                                  *)

StaleReservation == hb = "stale" /\ account.reserved > 0

CleanupSelect ==
    /\ ~ cleaning
    /\ StaleReservation
    /\ cleaning' = TRUE
    /\ UNCHANGED <<engineVars, hb, period, ledger, recon, overtaken, charges>>

CleanupWrite ==
    /\ cleaning
    /\ cleaning' = FALSE
    /\ account' = [account EXCEPT !.reserved = 0]
    /\ hb' = "none"
    /\ Outrun
    /\ UNCHANGED <<daily, sess, granted, period, ledger, recon, charges>>

(* transition_job_state sets the heartbeat to NULL; time makes it old.     *)
Heartbeat ==
    /\ hb' \in (CASE hb = "none"  -> {"fresh"}
                  [] hb = "fresh" -> {"none", "stale"}
                  [] hb = "stale" -> {"none", "fresh"})
    /\ UNCHANGED <<engineVars, period, ledger, recon, cleaning, overtaken, charges>>

(* reset_billing_quotas on a due account without a recent heartbeat; its   *)
(* second pass takes a stale one on its own.  Both read FOR UPDATE NOWAIT: *)
(* when the row is locked nothing is reset.                                *)
ResetDue == period < MaxPeriods /\ hb # "fresh"

ResetStaleDue == period < MaxPeriods /\ hb = "stale"

ResetWrite(a) == [a EXCEPT !.used = 0, !.reserved = 0]

ResetQuotas ==
    /\ ResetDue \/ ResetStaleDue
    /\ account' = ResetWrite(account)
    /\ hb' = "none"
    /\ period' = period + 1
    /\ Outrun
    /\ UNCHANGED <<daily, sess, granted, ledger, recon, cleaning, charges>>

(* invoice.payment_failed and invoice.payment_succeeded.                   *)
SetAI(ai) ==
    /\ account.ai # ai
    /\ account' = [account EXCEPT !.ai = ai]
    /\ Outrun
    /\ UNCHANGED <<daily, sess, granted, hb, period, ledger, recon, cleaning, charges>>

-----------------------------------------------------------------------------
LedgerNext ==
    \/ \E s \in Sessions : EngineStep(s)
    \/ \E j \in Jobs, r \in Costs \cup {0}, act \in Costs : BeginReconcile(j, r, act)
    \/ \E j \in Jobs : EndReconcile(j) \/ AbortReconcile(j)
    \/ \E j \in Jobs, c \in Costs, reason \in Reasons : GrantCredit(j, c, reason)
    \/ CleanupSelect
    \/ CleanupWrite
    \/ Heartbeat
    \/ ResetQuotas
    \/ \E ai \in {"enabled", "disabled"} : SetAI(ai)

LedgerSpec == LedgerInit /\ [][LedgerNext]_vars

-----------------------------------------------------------------------------
(* Every variable has its type.                                            *)
LedgerTypeOK ==
    /\ TypeOK
    /\ hb \in {"none", "fresh", "stale"}
    /\ period \in 0 .. MaxPeriods
    /\ ledger \in [Jobs -> {"none", "charge"} \cup Reasons]
    /\ recon \in [Jobs -> [on : BOOLEAN, reserved : Nat, actual : Nat]]
    /\ cleaning \in BOOLEAN
    /\ overtaken \in SUBSET Sessions
    /\ charges \in [Jobs -> Nat]

(* However many deliveries of a job reach reconcile_cost, and whatever     *)
(* credits, resets and cleanups run in between, used_acu is charged for    *)
(* the job at most once, and only with the job's ledger row to show for it *)
(* (reconciliation.py:32, :64).                                            *)
ChargedAtMostOnce ==
    \A j \in Jobs : charges[j] = IF ledger[j] = "charge" THEN 1 ELSE 0

(* check_and_reserve decides on a row it read without a lock and writes    *)
(* absolute values.  Whatever reservations, releases, retries and sweeps   *)
(* ran since, unless a writer that leaves the version alone came in        *)
(* between, the reservation adds its own amount to the row it replaces,    *)
(* fits in what the quota has left then, and is not made for a company     *)
(* whose AI is off (quota_engine.py:70, :145, :149).                       *)
ReservationSound ==
    [][\A s \in Sessions \ overtaken :
         /\ sess[s].op = "reserve"
         /\ sess'[s].op = "idle"
         /\ account'.version # account.version
         => /\ account'.reserved = account.reserved + sess[s].amt
            /\ account'.used + account'.reserved <= Quota
            /\ account.ai = "enabled"]_vars

(* The jobs that were charged, as the usage ledger shows them.             *)
Charged == {j \in Jobs : ledger[j] = "charge"}

Charging == INSTANCE JobCharging
            WITH Jobs <- Jobs, Amounts <- Costs, used <- account.used, charged <- Charged

(* The ledger, with its reservations, retries, cleanups and rollbacks,     *)
(* implements the promise of JobCharging: no interleaving charges a job    *)
(* twice, loses or halves a charge, or moves used_acu in any other way     *)
(* (reconciliation.py:82, credits.py:53, billing_tasks.py:305).            *)
ImplementsCharging == Charging!Spec
=============================================================================
