------------------------------ MODULE AIAccess ------------------------------
(***************************************************************************)
(* Who may switch AI processing off and on for a company: the abuse        *)
(* detector's risk score, the administrators' endpoints and the payment    *)
(* webhooks all write ai_disabled of the same billing account.  Only the   *)
(* detector locks the account.  The others read it, assign, and flush an   *)
(* UPDATE of the columns whose value differs from the one they read.       *)
(***************************************************************************)
EXTENDS Integers

VARIABLES
    risk,        \* billing_accounts.risk_score
    multiplier,  \* temp_quota_multiplier: 1.0 or 0.5
    disabled,    \* ai_disabled
    reason,      \* ai_disabled_reason
    admin,       \* the administrator's request under way: what it read
    hook,        \* the webhook handler that holds the company row: what it read
    unpaid       \* history: a payment failed, not recovered nor overruled since

accessVars == <<risk, multiplier, disabled, reason, admin, hook, unpaid>>

NoAdmin == [op |-> "none", disabled |-> FALSE, risky |-> FALSE]
NoHook == [op |-> "none", disabled |-> FALSE, overruled |-> FALSE]

AccessInit ==
    /\ risk = 0
    /\ multiplier = "full"
    /\ disabled = FALSE
    /\ reason = "none"
    /\ admin = NoAdmin
    /\ hook = NoHook
    /\ unpaid = FALSE

SpikePoints == 20
FailurePoints == 10
DisableAbove == 70
HalveAbove == 50
RestoreUpTo == 20
DecayRate == 5

-----------------------------------------------------------------------------
(* check_and_update_risk, called by process_job for every AI request.      *)

NewRisk(spike, failures) ==
    risk + (IF spike THEN SpikePoints ELSE 0) + (IF failures THEN FailurePoints ELSE 0)

NewMultiplier(r) ==
    IF r > HalveAbove THEN "half" ELSE IF r <= RestoreUpTo THEN "full" ELSE multiplier

(* Above the limit the detector sets ai_disabled and process_job answers   *)
(* 403, on which get_db rolls the transaction back, assignments included:  *)
(* only a request that stays within the limit changes the account.         *)
Request(spike, failures) ==
    LET r == NewRisk(spike, failures) IN
    /\ r <= DisableAbove
    /\ risk' = r
    /\ multiplier' = NewMultiplier(r)
    /\ UNCHANGED <<disabled, reason, admin, hook, unpaid>>

(* decay_risk_scores: one UPDATE of every account above min_score = 0.     *)
Decay ==
    /\ risk > 0
    /\ risk' = risk - DecayRate
    /\ UNCHANGED <<multiplier, disabled, reason, admin, hook, unpaid>>

-----------------------------------------------------------------------------
(* POST /disable-ai and /enable-ai: the reason is left as it is.           *)

AdminRead(op) ==
    /\ admin.op = "none"
    /\ admin' = [op |-> op, disabled |-> disabled,
                 risky |-> op = "enable" /\ risk # 0]
    /\ UNCHANGED <<risk, multiplier, disabled, reason, hook, unpaid>>

DisableCompany ==
    /\ admin.op = "disable"
    /\ disabled' = (disabled \/ ~ admin.disabled)
    /\ admin' = NoAdmin
    /\ UNCHANGED <<risk, multiplier, reason, hook, unpaid>>

EnableCompany ==
    /\ admin.op = "enable"
    /\ disabled' = (disabled /\ ~ admin.disabled)
    /\ risk' = IF admin.risky THEN 0 ELSE risk
    /\ admin' = NoAdmin
    /\ hook' = [hook EXCEPT !.overruled = hook.op = "failed"]
    /\ unpaid' = FALSE
    /\ UNCHANGED <<multiplier, reason>>

-----------------------------------------------------------------------------
(* The webhook handlers, which take the company row with NOWAIT, hold it   *)
(* until they commit and read the account without a lock: a failure        *)
(* whether AI is off, a success whether it is off for a failed payment.    *)

SeenBy(op) ==
    [op |-> op,
     disabled |-> disabled /\ (op = "succeeded" => reason = "payment_failed"),
     overruled |-> FALSE]

(* Mutant: the company row is not locked.                                  *)
PaymentRead_Unlocked(op) ==
    /\ hook' = SeenBy(op)
    /\ IF op = "failed"
       THEN disabled' = TRUE /\ reason' = "payment_failed" /\ unpaid' = TRUE
       ELSE UNCHANGED <<disabled, reason, unpaid>>
    /\ UNCHANGED <<risk, multiplier, admin>>

PaymentRead(op) ==
    /\ hook.op = "none"
    /\ hook' = SeenBy(op)
    /\ unpaid' = (unpaid /\ op = "failed")
    /\ UNCHANGED <<risk, multiplier, disabled, reason, admin>>

PaymentFailed ==
    /\ hook.op = "failed"
    /\ disabled' = (disabled \/ ~ hook.disabled)
    /\ reason' = "payment_failed"
    /\ unpaid' = ~ hook.overruled
    /\ hook' = NoHook
    /\ UNCHANGED <<risk, multiplier, admin>>

PaymentSucceeded ==
    /\ hook.op = "succeeded"
    /\ IF hook.disabled
       THEN disabled' = FALSE /\ reason' = "none"
       ELSE UNCHANGED <<disabled, reason>>
    /\ hook' = NoHook
    /\ UNCHANGED <<risk, multiplier, admin, unpaid>>

-----------------------------------------------------------------------------
(* Between a failed payment and its recovery, or an administrator's        *)
(* decision that overlapped or followed it, AI stays off whatever else     *)
(* writes the account and however the unlocked reads and writes of the     *)
(* handlers interleave (invoice_routes.py:645, "disabling AI access").     *)
UnpaidIsDisabled == unpaid => disabled

=============================================================================
