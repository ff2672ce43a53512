---------------------------- MODULE StripeWebhook ----------------------------
(***************************************************************************)
(* The Stripe webhook endpoint: the concurrency slot, the three layers of  *)
(* deduplication (a PostgreSQL row, a Redis key, an advisory lock) and the *)
(* handlers that move one company between plans; the checkout that makes   *)
(* Stripe send events, and the change of plan by an administrator, which   *)
(* reads the subscription from Stripe or from the cache the handlers keep. *)
(*                                                                         *)
(* Stripe delivers an event as often as it likes and in any order; each    *)
(* delivery is a request of its own, processed by any replica.  A request  *)
(* runs in one database transaction, committed when the handler returns    *)
(* and rolled back when it raises; Redis is outside the transaction.       *)
(* Redis may fail at any call, a replica may die at any point.             *)
(*                                                                         *)
(* A checkout loads the company and its account before it locks the        *)
(* company; the locked SELECT returns the object the session already has   *)
(* as it was, and an assignment of the value that was loaded is no UPDATE. *)
(* The other handlers load both under the lock; only a plan change, which  *)
(* takes no lock, could come in between.                                   *)
(***************************************************************************)
EXTENDS Integers, FiniteSets

CONSTANTS
    Deliveries,      \* the HTTP requests that carry events
    Events,          \* the events Stripe sends about one company
    Kind,            \* the type of each event
    SubOf,           \* the subscription each event is about
    NoSub,           \* stripe_subscription_id IS NULL
    MaxConcurrent    \* _WEBHOOK_GLOBAL_MAX_CONCURRENT

ASSUME WebhookAssumption ==
    /\ Kind \in [Events -> {"checkout", "deleted", "failed", "succeeded", "other"}]
    /\ \A e \in Events : SubOf[e] # NoSub
    /\ \A e, f \in Events :
         Kind[e] = "checkout" /\ Kind[f] = "checkout" /\ SubOf[e] = SubOf[f] => e = f
    /\ MaxConcurrent \in Nat \ {0}

VARIABLES
    req,        \* each request: where it is, its event, how it will end
    slots,      \* Redis counter stripe:webhook:concurrent
    dedupRows,  \* committed rows of stripe_webhook_events
    dedupKeys,  \* Redis keys stripe:dedup:<event>
    company,    \* subscription_plan, stripe_subscription_id
    account,    \* plan and ai_disabled_reason of the billing account
    applied,    \* history: committed applications of each event
    clean,      \* history: no Redis call failed, no counter expired
    torn,       \* history: the last plan was sold on rows that had changed since
    sessions,   \* events of the checkout sessions that were created
    cache,      \* subscriptions with a Redis key stripe:sub:<id>, all of plan pro
    change      \* a request to change the plan to pro: where it is, what it read

Plans == <<torn, sessions, cache, change>>

vars == <<req, slots, dedupRows, dedupKeys, company, account, applied, clean,
          torn, sessions, cache, change>>

(* What a checkout has loaded of the company and of its billing account.   *)
Unread == [plan |-> "none", sub |-> NoSub, account |-> "none"]

Stored == [plan |-> company.plan, sub |-> company.sub, account |-> account.plan]

(* row: its transaction holds an uncommitted stripe_webhook_events row;    *)
(* lock: it holds the advisory lock of the event, or the company as well.  *)
Idle == [pc |-> "idle", event |-> "none", end |-> "none", row |-> FALSE, lock |-> "none",
         seen |-> Unread]

NoChange == [pc |-> "idle", sub |-> NoSub, plan |-> "none", account |-> "none"]

Init ==
    /\ req = [d \in Deliveries |-> Idle]
    /\ slots = 0
    /\ dedupRows = {}
    /\ dedupKeys = {}
    /\ company = [plan |-> "free", sub |-> NoSub]
    /\ account = [plan |-> "free", ai |-> "on"]
    /\ applied = [e \in Events |-> 0]
    /\ clean = TRUE /\ torn = FALSE
    /\ sessions = {} /\ cache = {} /\ change = NoChange

Goto(d, pc) == req' = [req EXCEPT ![d].pc = pc]

(* The handler is over: the finally clause releases the slot, then get_db  *)
(* commits, which needs what was loaded, or rolls back.                    *)
Finish(d, end) ==
    req' = [req EXCEPT ![d].pc = "release", ![d].end = end,
                       ![d].seen = IF end = "commit" THEN @ ELSE Unread]

(* The transaction is over and so are its locks.                           *)
Close(d) == req' = [req EXCEPT ![d].pc = "done", ![d].row = FALSE, ![d].lock = "none",
                                   ![d].seen = Unread]

-----------------------------------------------------------------------------
(* create_checkout_session: a new session, and key, for every request; an  *)
(* open circuit or an error of Stripe creates none.                        *)
CreateCheckoutSession(e) ==
    /\ Kind[e] = "checkout" /\ e \notin sessions
    /\ sessions' = sessions \cup {e}
    /\ UNCHANGED <<req, slots, dedupRows, dedupKeys, company, account, applied, clean, torn,
                   cache, change>>

-----------------------------------------------------------------------------
(* _acquire_webhook_slot.  A Redis error lets the request through.         *)

SlotFree(count) == count <= MaxConcurrent

Arrive(d, e) ==
    /\ req[d].pc = "idle"
    /\ Kind[e] = "checkout" => e \in sessions
    /\ \/ /\ slots' = slots + 1
          /\ req' = [req EXCEPT ![d].event = e,
                       ![d].pc = IF SlotFree(slots + 1) THEN "slot" ELSE "over"]
          /\ UNCHANGED clean
       \/ /\ req' = [req EXCEPT ![d].event = e, ![d].pc = "slot"]
          /\ clean' = FALSE
          /\ UNCHANGED slots
    /\ UNCHANGED <<dedupRows, dedupKeys, company, account, applied, Plans>>

(* The DECR of a request that found too many others, answered 429.         *)
TooMany(d) ==
    /\ req[d].pc = "over"
    /\ slots' = slots - 1
    /\ Goto(d, "done")
    /\ UNCHANGED <<dedupRows, dedupKeys, company, account, applied, clean, Plans>>

(* Rate limits, source address, body size, signature and age of the event: *)
(* answered 4xx before anything is stored.                                 *)
Refuse(d) ==
    /\ req[d].pc = "slot"
    /\ Finish(d, "rollback")
    /\ UNCHANGED <<slots, dedupRows, dedupKeys, company, account, applied, clean, Plans>>

-----------------------------------------------------------------------------
(* Deduplication.                                                          *)

(* Mutant: the INSERT does not wait for a concurrent one of the same key.  *)
InsertDedupRow_NoWait(d) ==
    /\ req[d].pc = "slot"
    /\ IF req[d].event \in dedupRows
       THEN Finish(d, "duplicate")
       ELSE req' = [req EXCEPT ![d].pc = "inserted", ![d].row = TRUE]
    /\ UNCHANGED <<slots, dedupRows, dedupKeys, company, account, applied, clean, Plans>>

(* INSERT ... ON CONFLICT DO NOTHING: waits while another transaction has  *)
(* the key uncommitted.                                                    *)
InsertDedupRow(d) ==
    /\ req[d].pc = "slot"
    /\ \A o \in Deliveries : ~ (req[o].event = req[d].event /\ req[o].row)
    /\ IF req[d].event \in dedupRows
       THEN Finish(d, "duplicate")
       ELSE req' = [req EXCEPT ![d].pc = "inserted", ![d].row = TRUE]
    /\ UNCHANGED <<slots, dedupRows, dedupKeys, company, account, applied, clean, Plans>>

(* SET NX with a TTL of seven days.  A hit ends the request as a duplicate *)
(* whose transaction, with the row just inserted, is committed.  A Redis   *)
(* error, before or after the key was set, is ignored.                     *)
SetDedupKey(d) ==
    LET e == req[d].event IN
    /\ req[d].pc = "inserted"
    /\ \/ /\ e \in dedupKeys
          /\ Finish(d, "skip")
          /\ UNCHANGED <<dedupKeys, clean>>
       \/ /\ e \notin dedupKeys
          /\ dedupKeys' = dedupKeys \cup {e}
          /\ Goto(d, "marked")
          /\ UNCHANGED clean
       \/ /\ dedupKeys' \in {dedupKeys, dedupKeys \cup {e}}
          /\ Goto(d, "marked")
          /\ clean' = FALSE
    /\ UNCHANGED <<slots, dedupRows, company, account, applied, Plans>>

(* pg_try_advisory_xact_lock on the event: free unless another transaction *)
(* that got past the key has it.                                           *)
AdvisoryLockFree(d) ==
    \A o \in Deliveries \ {d} :
        ~ (req[o].event = req[d].event /\ req[o].lock # "none")

LockEvent(d) ==
    /\ req[d].pc = "marked"
    /\ AdvisoryLockFree(d)
    /\ req' = [req EXCEPT ![d].pc = "checked", ![d].lock = "event"]
    /\ UNCHANGED <<slots, dedupRows, dedupKeys, company, account, applied, clean, Plans>>

-----------------------------------------------------------------------------
(* The handlers.                                                           *)

(* A checkout that Stripe confirms is compared with the billing period of  *)
(* its company: two SELECTs without a lock, whose rows stay in the session.*)
ReadCompany(d) ==
    /\ req[d].pc = "checked" /\ Kind[req[d].event] = "checkout"
    /\ req' = [req EXCEPT ![d].pc = "company",
                 ![d].seen = [Unread EXCEPT !.plan = company.plan, !.sub = company.sub]]
    /\ UNCHANGED <<slots, dedupRows, dedupKeys, company, account, applied, clean, Plans>>

ReadAccount(d) ==
    /\ req[d].pc = "company"
    /\ req' = [req EXCEPT ![d].pc = "account", ![d].seen.account = account.plan]
    /\ UNCHANGED <<slots, dedupRows, dedupKeys, company, account, applied, clean, Plans>>

(* SELECT company FOR UPDATE NOWAIT: held until the transaction ends.      *)
CompanyLocked(d) == \E o \in Deliveries \ {d} : req[o].lock = "company"

(* What a handler requires of the company row.                             *)
Accepts(e) ==
    Kind[e] = "deleted" => company.sub \in {NoSub, SubOf[e]}

(* Where a handler comes to the lock.                                      *)
BeforeLock(kind) == IF kind = "checkout" THEN "account" ELSE "checked"

LockCompany(d) ==
    LET e == req[d].event IN
    /\ e \in Events /\ Kind[e] # "other"
    /\ req[d].pc = BeforeLock(Kind[e])
    /\ ~ CompanyLocked(d)
    /\ Accepts(e)
    /\ req' = [req EXCEPT ![d].pc = "locked", ![d].lock = "company"]
    /\ UNCHANGED <<slots, dedupRows, dedupKeys, company, account, applied, clean, Plans>>

(* The handler raises: lock contention (409), a subscription that does not *)
(* match (400), a checkout Stripe cannot confirm or of a past billing      *)
(* period (502, 400), a missing or unknown id (400), any other error (503).*)
Raise(d) ==
    /\ req[d].pc \in {"inserted", "marked", "checked", "company", "account", "locked"}
    /\ Finish(d, "rollback")
    /\ UNCHANGED <<slots, dedupRows, dedupKeys, company, account, applied, clean, Plans>>

(* set_cached_subscription of a checkout, before its transaction commits.  *)
Cached(sub) == cache \cup {sub}

FillCache(d) ==
    LET e == req[d].event IN
    /\ req[d].pc = "locked" /\ Kind[e] = "checkout"
    /\ Goto(d, "filled")
    /\ \/ cache' = Cached(SubOf[e]) /\ UNCHANGED clean
       \/ cache' \in {cache, Cached(SubOf[e])} /\ clean' = FALSE
    /\ UNCHANGED <<slots, dedupRows, dedupKeys, company, account, applied, torn, sessions,
                   change>>

(* Mutant: the checkout does not invalidate what it has just set.          *)
Invalidated_NotByCheckout(e) == IF Kind[e] = "checkout" THEN cache ELSE cache \ {SubOf[e]}

(* invalidate_subscription_cache: the keys of the subscription and of the  *)
(* one the customer's index names (the expiry of any other is CacheExpires)*)
Invalidated(e) == cache \ {SubOf[e]}

(* The last statement before a handler returns.                            *)
BeforeReturn(kind) ==
    IF kind = "checkout" THEN "filled" ELSE IF kind = "other" THEN "checked" ELSE "locked"

(* The handler returns; its assignments are visible at the commit.         *)
Return(d) ==
    LET e == req[d].event IN
    /\ e \in Events /\ req[d].pc = BeforeReturn(Kind[e])
    /\ Finish(d, "commit")
    /\ \/ Kind[e] = "other" /\ UNCHANGED <<cache, clean>>
       \/ Kind[e] # "other" /\ cache' = Invalidated(e) /\ UNCHANGED clean
       \/ Kind[e] # "other" /\ UNCHANGED cache /\ clean' = FALSE
    /\ UNCHANGED <<slots, dedupRows, dedupKeys, company, account, applied, torn, sessions,
                   change>>

-----------------------------------------------------------------------------
(* _release_webhook_slot: never below zero; a Redis error leaves the       *)
(* counter as it is.                                                       *)
Decremented == IF slots > 1 THEN slots - 1 ELSE 0

ReleaseSlot(d) ==
    /\ req[d].pc = "release"
    /\ \/ slots' = Decremented /\ UNCHANGED clean
       \/ UNCHANGED slots /\ clean' = FALSE
    /\ Goto(d, "close")
    /\ UNCHANGED <<dedupRows, dedupKeys, company, account, applied, Plans>>

(* An assignment writes the column when the value differs from the one the *)
(* session has loaded.                                                     *)
Assigned(stored, loaded, value) == IF value = loaded THEN stored ELSE value

(* What each handler leaves of the company and of its billing account      *)
(* (other reasons for ai_disabled: module AIAccess).                       *)
NewCompany(e, seen) ==
    CASE Kind[e] = "checkout" -> [plan |-> Assigned(company.plan, seen.plan, "pro"),
                                  sub |-> Assigned(company.sub, seen.sub, SubOf[e])]
      [] Kind[e] = "deleted"  -> [plan |-> "free", sub |-> NoSub]
      [] OTHER                -> company

(* Mutant: a checkout that has moved the company forgets the account.      *)
NewAccount_Forgotten(e, seen) ==
    CASE Kind[e] = "deleted"   -> [account EXCEPT !.plan = "free"]
      [] Kind[e] = "failed"    -> [account EXCEPT !.ai = "payment_failed"]
      [] Kind[e] = "succeeded" -> [account EXCEPT !.ai = "on"]
      [] OTHER                 -> account

NewAccount(e, seen) ==
    CASE Kind[e] = "checkout"  ->
           [account EXCEPT !.plan = Assigned(account.plan, seen.account, "pro")]
      [] Kind[e] = "deleted"   -> [account EXCEPT !.plan = "free"]
      [] Kind[e] = "failed"    -> [account EXCEPT !.ai = "payment_failed"]
      [] Kind[e] = "succeeded" -> [account EXCEPT !.ai = "on"]
      [] OTHER                 -> account

(* get_db commits, and only then is the response sent.                     *)
Commit(d) ==
    LET e == req[d].event
        seen == req[d].seen IN
    /\ req[d].pc = "close"
    /\ req[d].end \in {"commit", "skip", "duplicate"}
    /\ Close(d)
    /\ dedupRows' = dedupRows \cup {e}
    /\ IF req[d].end = "commit"
       THEN /\ company' = NewCompany(e, seen)
            /\ account' = NewAccount(e, seen)
            /\ applied' = [applied EXCEPT ![e] = @ + 1]
            /\ torn' = IF Kind[e] \in {"checkout", "deleted"}
                       THEN Kind[e] = "checkout" /\ seen # Stored
                       ELSE torn
       ELSE UNCHANGED <<company, account, applied, torn>>
    /\ UNCHANGED <<slots, dedupKeys, clean, sessions, cache, change>>

(* The transaction is rolled back: the handler raised, or the commit fails.*)
Rollback(d) ==
    /\ req[d].pc = "close"
    /\ Close(d)
    /\ UNCHANGED <<slots, dedupRows, dedupKeys, company, account, applied, clean, Plans>>

-----------------------------------------------------------------------------
(* change_plan: two unlocked reads, a call to Stripe, and a write of what  *)
(* differs from what was read.                                             *)

(* A company without a subscription is refused.                            *)
ReadSubscription ==
    /\ change.pc = "idle" /\ company.sub # NoSub
    /\ change' = [NoChange EXCEPT !.pc = "company", !.sub = company.sub, !.plan = company.plan]
    /\ UNCHANGED <<req, slots, dedupRows, dedupKeys, company, account, applied, clean, torn,
                   sessions, cache>>

ReadPlan ==
    /\ change.pc = "company"
    /\ change' = [change EXCEPT !.pc = "account", !.account = account.plan]
    /\ UNCHANGED <<req, slots, dedupRows, dedupKeys, company, account, applied, clean, torn,
                   sessions, cache>>

(* Stripe's answer is never accepted: a subscription object is a dict, its *)
(* "items" the method, and reading the plan from it raises (500).          *)
FromStripe == {}

(* When Stripe fails, or its circuit is open, the cache decides.           *)
FromCache == cache

VerifyPlan ==
    /\ change.pc = "account"
    /\ \/ change.sub \in FromStripe \cup FromCache /\ change' = [change EXCEPT !.pc = "write"]
       \/ change' = NoChange
    /\ UNCHANGED <<req, slots, dedupRows, dedupKeys, company, account, applied, clean, torn,
                   sessions, cache>>

(* The status of the subscription is not looked at.                        *)
WritePlan ==
    /\ change.pc = "write"
    /\ company' = IF change.plan = "pro" THEN company ELSE [company EXCEPT !.plan = "pro"]
    /\ account' = IF change.account = "pro" THEN account ELSE [account EXCEPT !.plan = "pro"]
    /\ change' = NoChange
    /\ UNCHANGED <<req, slots, dedupRows, dedupKeys, applied, clean, torn, sessions, cache>>

(* Five minutes after it was set a key expires.                            *)
CacheExpires(sub) ==
    /\ sub \in cache
    /\ cache' = cache \ {sub}
    /\ UNCHANGED <<req, slots, dedupRows, dedupKeys, company, account, applied, clean, torn,
                   sessions, change>>

-----------------------------------------------------------------------------
(* The replica dies: its transaction is rolled back, its slot stays taken. *)
Crash(d) ==
    /\ req[d].pc \in {"slot", "over", "inserted", "marked", "checked", "company", "account",
                      "locked", "filled", "release", "close"}
    /\ Close(d)
    /\ UNCHANGED <<slots, dedupRows, dedupKeys, company, account, applied, clean, Plans>>

(* Thirty seconds after the last acquire the counter expires.              *)
SlotsExpire ==
    /\ slots # 0
    /\ slots' = 0
    /\ clean' = FALSE
    /\ UNCHANGED <<req, dedupRows, dedupKeys, company, account, applied, Plans>>

Next ==
    \/ \E d \in Deliveries, e \in Events : Arrive(d, e)
    \/ \E d \in Deliveries :
         \/ TooMany(d) \/ Refuse(d) \/ InsertDedupRow(d) \/ SetDedupKey(d)
         \/ LockEvent(d) \/ ReadCompany(d) \/ ReadAccount(d) \/ LockCompany(d)
         \/ FillCache(d) \/ Raise(d) \/ Return(d) \/ ReleaseSlot(d)
         \/ Commit(d) \/ Rollback(d) \/ Crash(d)
    \/ SlotsExpire
    \/ \E e \in Events : CreateCheckoutSession(e)
    \/ ReadSubscription \/ ReadPlan \/ VerifyPlan \/ WritePlan
    \/ \E sub \in {SubOf[e] : e \in Events} : CacheExpires(sub)

Spec == Init /\ [][Next]_vars

-----------------------------------------------------------------------------
(* No event is applied twice, however often and however concurrently it is *)
(* delivered, with Redis failing and replicas dying at any point           *)
(* (docs/adr/005-triple-dedup-webhooks.md).                                *)
AppliedAtMostOnce == \A e \in Events : applied[e] <= 1

(* While Redis answers, nobody has the pro plan, in the company or in its  *)
(* billing account, without a stored subscription, whichever events arrive *)
(* in whichever order; and a company with a subscription has it in both,   *)
(* but for one case: another event wrote the rows of the checkout that     *)
(* sold it after that checkout had loaded them (invoice_routes.py:462-485).*)
(* The next deletion, or checkout that is not overtaken, repairs them.     *)
PlansAgree ==
    clean =>
        /\ company.sub = NoSub => company.plan = "free" /\ account.plan = "free"
        /\ company.sub # NoSub /\ ~ torn => company.plan = "pro" /\ account.plan = "pro"

(* No change of plan is decided from the cache while Redis answers: the    *)
(* key a checkout sets is of a subscription the company does not have yet, *)
(* gone before the checkout commits and, if the replica dies in between,   *)
(* of one it never gets.  (So the cache that is to serve when Stripe does  *)
(* not, stripe_cache.py:3, never does.)                                    *)
NoChangeFromCache == change.pc = "write" => ~ clean
=============================================================================
