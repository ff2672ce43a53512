# WorkTicket: a TLA+ verification project

WorkTicket is a FastAPI service with Celery workers, PostgreSQL and Redis: field
technicians record jobs on a phone, an AI pipeline turns them into estimates, and
Stripe subscriptions pay for the AI units (ACU) that are used. This directory holds
TLA+ models of the parts of it that are concurrent, retried or money-related, the TLC
runs that check them and the TLAPS proofs of what matters most. Backend paths below are
relative to `src/backend/`, mobile paths to `src/mobile-app/`, documents to `docs/`.

Run a model with `tlc -config X.cfg M`, check a proof module with `tlapm M.tla`.
`PROJECT.json` lists components, runs, the source lines of every definition, hazards
and theorems.

**Parsing errors of this commit.** Four files contain a mis-indented `pass  # nosec B110`
and cannot be imported: `app/middleware/priority.py:90`, `app/billing/concurrency.py:149`,
`app/billing/tasks.py:43`, `app/tasks/beat_lock.py:76`. `main.py:498` imports the first
and `ai/router.py:248` the second. The models describe the code without those four
lines; the line does nothing where it was meant to be.

## 1. Inventory

### Modelled parts

| Part | State | Operations | Interacts with | Module |
|------|-------|------------|----------------|--------|
| Quota engine (`app/billing/quota_engine.py`) | `billing_accounts` row with a `version`, `user_daily_usage` | `check_and_reserve`, `release_reserved`: an unlocked SELECT, then a compare-and-swap UPDATE, three attempts with what the session has loaded | job task, estimates, cleanups | `QuotaEngine` |
| Billing ledger (`reconciliation.py`, `credits.py`, `billing_tasks.py`, `state_machine.py`) | the same row, `usage_ledger` (unique per job) | `reconcile_cost`, `grant_credit`, stale-reservation cleanup, heartbeat, monthly reset | writes the row without bumping `version` | `BillingLedger` (EXTENDS `QuotaEngine`), implements `JobCharging` |
| Stripe webhook, checkout, plan change, Stripe cache (`app/billing/invoice_routes.py`, `account_routes.py`, `stripe_cache.py`) | `stripe_webhook_events`, Redis dedup keys and slot counter, plan columns, cached subscriptions | one handler per event type in one transaction; `change_plan` | at-least-once, unordered deliveries from Stripe | `StripeWebhook` |
| AI access (`app/billing/abuse.py`, `account_routes.py`) | `risk_score`, `temp_quota_multiplier`, `ai_disabled` and its reason | risk update per request, decay, admin switches, payment webhooks | the same account row | `AIAccess` |
| Companies and users (`app/auth/`) | companies, billing accounts, users with `token_version`, Redis session blacklist | registration, deactivation, erasure, tenant deletion, token check | opens the way to `AIAccess` | `TenantAccess` (EXTENDS `AIAccess`) |
| AI job pipeline (`app/ai/router.py`, `tasks/job_tasks.py`, `app/tasks/heartbeat.py`) | `jobs.ai_processing_state`, Redis lock, `ai_output`, reservation | request, three task phases, retry, dead-lettering, cleanup, output recovery | quota engine, ledger, broker | `JobPipeline` |
| AI gateway and concurrency limits (`app/ai/gateway.py`, `app/ai/concurrency.py`, `app/billing/concurrency.py`, model services) | Redis counters with TTL, semaphores per process | company slots, limiter enter/exit, the audio, vision and text step with retries and fallbacks | pipeline, circuit breaker | `AIGateway` |
| AI circuit breaker (`app/ai/circuit_breaker.py`, `gateway._route`) | per replica: state, counters, cooldown; shared: Redis hash `cb:<name>` | `is_available`, `record_success`, `record_failure` | every AI call | `CircuitBreaker` |
| Job-status WebSocket (`app/ai/router.py`, `app/redis.py`) | global and per-user connection sets, auth caches, queues, pub/sub connections | admission, replay, streaming, polling, re-authentication, cleanup | pipeline's messages | `JobSocket` |
| Task runtime (`celery_config/`, `tasks/maintenance.py`, `app/tasks/`, `app/billing/dlq_*.py`, `dead_letter.py`) | beat locks, retry counters, poison counters, `dead_letter_jobs`, fallback file | schedule, lock, retry, redelivery, dead-lettering, replay, purge | every task | `TaskRuntime` |
| Request gate (`app/main.py`, `app/database.py`, `app/billing/idempotency_service.py`, `app/sync_redis_pool.py`) | DB circuit (Redis hash, local fallback), active-request count, idempotency records | shutdown guard, circuit, session, idempotency, probes, drain, start-up | every request | `RequestGate` |
| Imports (`app/integrations/`) | connections, import jobs, import log with a unique key | background import, rollback, connections, metrics | providers | `ImportPipeline` |
| Office (`app/jobs/`, `app/quotes/`, `app/estimates/`, `app/pricing/`) | customers, jobs, audit log, quotes, estimates, price settings | every request that changes one of them; price arithmetic | pipeline's changes of the job | `WorkOrders` |
| Offline queue (`src/utils/offlineQueue.ts`, `start-job.tsx`) | two SQLite tables, replay counter | `enqueue*`, `processQueue`, `markComplete`, `markFailed`, `updateQueueJobId` | timer, app state, API | `OfflineQueue` |

What makes each of them hard, and what makes it correct:

- **Quota engine.** Sessions of many workers read the row without a lock and write
  absolute values later; a retry works with an object that is refreshed in part or not at
  all. Correct: a reservation that no writer without version overtook adds exactly its
  amount and fits in what is left when it is written. (Releases promise less: section 6.)
- **Ledger.** Writers that ignore `version` interleave with writers that rely on it;
  deliveries are repeated; cleanups act on what they read earlier. Correct: usage moves
  only as `JobCharging` says, a job is charged once, however often it is delivered.
- **Webhook and plans.** Deliveries are duplicated, reordered and concurrent; Redis is
  outside the transaction; replicas die; handlers and plan changes write what they read
  earlier, also under a lock. Correct: an event takes effect at most once, the plan columns
  agree but for one known race, no change is made from a cached copy.
- **AI access and users.** Several writers of one flag with different reasons; Redis is
  written before the database commits. Correct: an unpaid company stays off, a company has
  its account and every user a company, access follows what was committed.
- **Job pipeline.** Redelivery while the first worker still runs, retries that meet their
  own lock, crashes between phases, cleanups. Correct: one charge, never without a
  stored output; every message ends.
- **Gateway and limits.** Counters in Redis, commands that fail halfway, workers that die.
  Correct: a counter never stands for work that is over for longer than its TTL, and never
  for less than nothing.
- **Circuit breaker.** Outcomes arrive late; each replica has its own state and all share
  a hash that is written by several commands. Correct: counters and state agree, a
  tripped circuit lets requests pass again.
- **WebSocket.** Handler and sender are two tasks, one of which cancels the other; caches
  outlive what they cache. The shared connection set is counted and entered by all replicas.
  Correct: nobody is told of an output that is not there, a revoked client is cut, limits
  are overrun by a known amount only, a full set has room again.
- **Task runtime.** Locks that only expire, schedules with the same period, retries under
  the lock of the first attempt, processes with their own fallback. Correct: no two
  executions while Redis answers, rows are purged in their window, retry storms are
  bounded, a counted replay was sent.
- **Request gate.** Two replicas share a circuit whose probes anybody can spend; requests
  and shutdown race; the idempotency record is part of the transaction it protects,
  and tasks are sent before it is committed. Correct: a key's task is sent again only
  after a rollback, a drained replica is idle, circuit and readiness recover.
- **Imports.** One long transaction per import, a unique key without the result, rollbacks
  that overwrite each other. Correct: counts agree with the log, rolled back is final,
  every import ends.
- **Office.** Every request writes from rows it read earlier. Correct: rows that speak of
  each other agree, an estimate that is no longer open is not edited, concurrent changes of
  different settings both survive, recomputed prices pass the validation that follows.
- **Offline queue.** Nothing keeps two calls of `processQueue` apart; answers get lost;
  job ids change under a running call; a start of a job fails, is killed or is made again.
  Correct: no row is lost or stranded, a temporary id that was replaced does not come back.

### Parts that are not modelled

`PROJECT.json` lists each with its reason. In short: user interfaces (web dashboard,
mobile screens), input and output only (notifications, telemetry, whisper service),
read-only or stateless code (routing, policies, analytics queries), cryptography and
operator tools (`secrets/`, `security/`, `deploy/canary.py`), infrastructure (`ops/`,
`k8s`, Terraform, Alembic migrations, `chaos/`), Prometheus metrics and SLO reports, which
no decision reads, and the token buckets of the rate limiters, whose keys are shared by
all users (section 6) so that they promise nothing a model could check. Code without a
caller is named in section 6 and not modelled.

## 2. Plan

Done, most important behaviour first: the money path (`QuotaEngine`, `BillingLedger`,
`JobCharging`, `StripeWebhook`, `AIAccess`, `JobPipeline`), what protects the AI services
(`CircuitBreaker`, `AIGateway`), the phone (`OfflineQueue`), what every task and request
passes (`TaskRuntime`, `RequestGate`, `TenantAccess`), and the features on top
(`JobSocket`, `WorkOrders`, `ImportPipeline`).

Composition: `BillingLedger` extends `QuotaEngine`, `TenantAccess` extends `AIAccess`,
`WorkOrders`, `JobSocket` and `AIGateway` contain the steps of the pipeline that they can
observe.

Proved: every safety property that a run checks, invariants and action properties alike,
except the second half of `MetricsAddUp` and `RecomputedIsAccepted` (section 5 says why).
Nothing of the plan is left open but liveness, which stays with TLC.

## 3. Modules and their correspondence to the code

Comments in each module say what a step stands for; the general rules are:

- PostgreSQL runs READ COMMITTED. A SELECT without a lock is a step of its own; a
  transaction that holds the row from SELECT FOR UPDATE (or from its single UPDATE) to
  the commit is one step. `get_db` commits before the response is sent and rolls back
  when the handler raises.
- SQLAlchemy writes the columns whose value differs from what the session read: an object
  changed back and forth, or assigned what it had, overwrites nothing.
- Each Redis command is a step where another actor can tell the difference, and may fail.
- In asyncio code a step reaches from one `await` that can yield to the next.
- Amounts, events, plans and messages are small sets; wording, logging, metrics and
  audit records that nothing reads are left out.
- Operators whose names carry a suffix (`Assigned_WholeRow`) and a comment
  "Mutation" or "Mutant" are not part of the specification: each is the definition it is
  named after with a plausible error, used to show that a property notices it.

| Module | State | Actions and code |
|--------|-------|------------------|
| `QuotaEngine` | `account` (used, reserved, version), `daily`, `sess` (the row as each session has it, attempt, amount, type of its company id), history `granted` | `BeginReserve`/`Reserve`/`ReserveDenied`/`ReserveConflict` = `check_and_reserve`; `BeginRelease` (job task), `BeginSweep` (stale-job cleanup), `Release`, `GiveBackConflict` = `release_reserved`; `Retried` = what a session works with after a conflict (`finalize_usage` has no caller and is not modelled) |
| `BillingLedger` | adds `hb`, `period`, `ledger`, `recon`, `cleaning`, history `overtaken`, `charges` | `BeginReconcile`/`EndReconcile`/`AbortReconcile` = `reconcile_cost` under its advisory lock; `GrantCredit`; `CleanupSelect`/`CleanupWrite`; `Heartbeat`; `ResetQuotas`; `SetAI`; `EngineStep` = the quota engine |
| `JobCharging` | `used`, `charged` | abstract: `Charge`, `Credit`, `Reset`; `BillingLedger!Charging` maps `used` to `account.used` and `charged` to the jobs with a charge in the ledger |
| `StripeWebhook` | `req` per delivery with the rows it loaded, `slots`, `dedupRows`, `dedupKeys`, `company`, `account`, `sessions`, `cache`, `change`, history `torn` | `Arrive`, `TooMany`, `Refuse` (slot, limits, signature), `InsertDedupRow`, `SetDedupKey`, `LockEvent` (advisory lock); the handlers: `ReadCompany`, `ReadAccount`, `LockCompany`, `Raise`, `FillCache` and `Return` (the Redis commands at the end); `ReleaseSlot`, `Commit`, `Rollback`, `Crash`; `CreateCheckoutSession`; `ReadSubscription`, `ReadPlan`, `VerifyPlan`, `WritePlan` = `change_plan`; expiry of counter and cache |
| `AIAccess` | risk, multiplier, flag, reason | `UserAccess` = `check_and_update_risk` inside `process_job` and the administrators' endpoints, `SystemAccess` = decay and the payment handlers, which read and write in two steps |
| `TenantAccess` | `company`, `account`, `users`, `blacklist`, `req`, history `left` | `Register` ... `CommitRegister` = registration in one transaction; `DeactivateUser`, `DeleteMyData`, `BlacklistSession`, `CommitDeactivate`; `DeleteTenant`; `Abandon` = any failure; the operations of `AIAccess`, reachable for signed-in users |
| `JobPipeline` | job state, message and worker, Redis lock by age, reservation, output, charge | `LoadJob`, `RefuseRequest`, `Request`, `RequestDone` = `process_job`; `Drop`, `Load`, `AcquireLock`, `Reserve`, `Gateway`, `Reload`, `Unlock`, `StoreOutput`, `StoreFails`, `Fail`, `Crash`, `Redeliver`, `Cleanup`; a request and a worker decide by the state they loaded first (`seen`), because FOR UPDATE does not refresh a loaded object |
| `AIGateway` | `job` (request, task, call), `conc`, `locked`, `lim`, `sem` | `Post` = the slot of the request; `Proceed` = one step of the task: company slot, each limiter command, the call, its release; `CircuitOpen`, `Fails` (retry, fallback), `Crash`; TTLs and outages |
| `CircuitBreaker` | `cb` per replica, `pc` per request, `hash` | `RedisAdmits`, `RedisSilent`, `LocalCheck` = `is_available`; `Succeed`, `DeleteOpen`, `DeleteRest` = `record_success`; `Fail`, `SetOpen`, `SetRest`, `SetExpiry` = `record_failure` under the lock; the status endpoints; `RedisFails`, `RedisIsBack`, `Restart`, `KeyExpires` |
| `JobSocket` | `conn` (handler and sender), the shared set as `slots`, `other`, `stray` with its `ttl`, `recent`, `local`, `pool`, `user`, `cached`, `shared`, `job`, `traces` | `Open`, `VerifyToken`; `Admission` = `Admit` (semaphore), `CountGlobal` (SCARD), `AddGlobal` (SADD), `RenewSlots` (EXPIRE), `AddUser`; `Other` = the same three commands and the end of a connection in another process; `AgeSlots`, `ExpireSlots`; `Handler` (replay, pub/sub, polling), `SendOne`, `Reauthenticate`, `ReceiveTimeout`, `Disconnect` and the end of a handler; `PublishComplete`, `CommitOutput`, `CommitFails` of the task |
| `TaskRuntime` | `msg`, `lock`, `local`, `due`, `window`, `guard`, `poison`, `rows`, `lines`, `replay`, `broker` | `BeatNext`: schedule, `Execute`, `Skip`, `Complete`, `Error`, `WorkerLost`, ticks; `QueueNext`: send, retry guard, dead letter, poison counter, fallback file and its merge, replay endpoint, purge |
| `RequestGate` | `hash`, `circ`, `redis`, `knows`, `req`, `records`, `mode`, `active`, history `sent`, `lost` | `Arrive` (shutdown guard), `Admit`/`Deny` (circuit), `Lookup`, `InsertRecord`, `Work` (sends the Celery task), `Commit`, `Abandon`, `TimeOut`, `DbError`; `Cleanup`; `Ready`, `Health`; `Shutdown`, `Drained`, `Exit`, `Crash`, `Startup` |
| `ImportPipeline` | `connection`, `task`, `jobs`, `logs` (with visibility), `roller` | `CreateConnection`, `DeleteConnection`, `StartImport`, `TaskStep` (`BeginImport`, `CreateImportJob`, `Fetch`, `Check`, `Insert`, `NextType`, `Commit`) = `run_import`, `RollbackReadJob`/`RollbackReadLogs`/`RollbackWrite`, `Crash` |
| `WorkOrders` | `customers`, `job`, `audit`, `output`, `quotes`, `est` (with its items and the client's amounts), `brain`, `req` | a read and a write step for each request that changes one of them, an update of an estimate reads the items in a second (`ReadItems`); `AIStarts`, `AIEnds`; operators `RoundCurrency` ... `ValidateEstimate` = `pricing/engine.py` |
| `OfflineQueue` | `row`, `run` per call, `delivered`, `start` per call, `screen` | `StartJob`, `EnqueueTemporary`, `JobCreated`, `StartFails`, `updateQueueJobId` = `handleStartJob`; `Enqueue`; `StartRun`, `ReadUploads`, `NextBatch`, `Accept`/`Error`, `markComplete`/`markFailed`, `ReadEvents`, `FinishRun` = `processQueue`; `Connectivity`, `Kill` |

## 4. Runs

| Run | Instance | Shows |
|-----|----------|-------|
| `billing_ledger` | 2 sessions, 1 job, 1 cost, 1 credit reason, 1 reset, 2 versions | a job is charged at most once by everything together; a reservation that is not overtaken is exact and within the quota; the ledger implements `JobCharging` |
| `stripe_webhook` | 3 deliveries of two checkouts, a cancellation and a failed payment, 2 slots, one plan change | nothing applied twice; while Redis answers the plan columns agree, unless a checkout was overtaken between its two reads; the plan change never acts on a cached copy, because the handlers have always invalidated it |
| `job_pipeline` | 2 messages, 1 retry, 3 faults | no charge and no completion without output; every message ends |
| `circuit_breaker` | 2 replicas, 3 requests, thresholds 2/1/2, 1 fault | counters agree with the state under late outcomes; the shared key has an owner; without faults it goes away |
| `offline_queue` | 1 upload, 1 event, 2 starts of a job, 2 calls, 2 retries, 3 replays, 1 kill | no row stranded, replaced ids stay gone, rows settle |
| `import_pipeline` | 2 imports of 4 records, 2 rollbacks, 1 fault | metrics and counts agree with the log; a rollback is final; every import ends |
| `job_socket` | 2 connections of this process and 1 of another, all limits 1, queue of 2, 1 event | nobody hears of an output that is not stored; the shared limit is overrun by fewer than the places of all semaphores; a revoked client is cut; a full set that has a TTL has room again |
| `work_orders` | 2 requests, 2 customers, 1 job, 1 quote, 1 estimate, 2 price columns | rows agree; a closed estimate stands; settings are kept; recomputed prices are accepted (over 2 items of 24 kinds) |
| `task_runtime` | every task of the schedule, 2 workers, 3 messages, 2 administrators, 2 faults, 1 outage | one execution at a time while Redis answers; rows purged in their window; storms bounded; counted replays were sent |
| `ai_gateway` | 2 jobs that meet at one limiter, 2 workers, plan limit 2, 1 retry, 1 fault | limiter and company counters are backed by running work or by a TTL |
| `request_gate` | 2 requests, 2 replicas, 1 key, threshold 2, 2 faults | a second task for a key only after a rollback; a drained replica is idle; the circuit closes; a replica that commits can be ready |
| `tenant_access` | 2 users, 2 requests, 1 token version | a company is complete; access follows the commit; unpaid stays off |

**Why the bounds are enough.** A run has two actors where they can overlap and a third step
that can come between (another session, a redelivery, a fault). In `job_socket` the accept
semaphore of a process has one place, so that its own connections are admitted one by one;
the SCARD and the SADD that overlap are those of this process and of the other one
(`Elsewhere`), which share nothing but the Redis set. `billing_ledger` has one job, because
the row knows none, and two versions, so that a session meets a conflict and then succeeds
with what it kept. The limits (`MaxRetries`, `MaxConcurrent`, quota, thresholds, replays) are
set so that each is reached and exceeded by one more attempt. `MaxVersion` (of the account
row and of a user's token), `MaxPeriods`, `MaxFaults`, `MaxBreakdowns`, `MaxKills`,
`MaxEvents`, `MaxOutages` only end the behaviours; `MaxFaults` of `RequestGate` also counts
the requests that are rolled back after they sent their task. `MaxTypes` bounds the list of
entity types of an import request.

Three runs have a constraint. `MCWorkOrders!OneDesk` looks at one group of rows at a time:
no request touches two groups. `MCOfflineQueue!SecondAfterFailure` makes a second start of a
job one that follows a failed or killed first, with no event in the queue.
`MCJobSocket!OneScene` has either two connections of one process, or one beside another
process while job and user rest; fair steps never leave a scene, so that liveness is not cut
short. The estimates of `WorkOrders` exist from the start, in any status, since none can be
made at this commit (section 6); those of before migration 021 had amounts as floats. Where
deadlock checking is off, the bounded environment may have nothing left to do. Symmetry is
used only in runs without liveness properties.

**Fairness.** `JobPipeline`: a worker goes on with a message it holds and takes queued ones
(`Work`, Celery), and an API request ends; nothing makes faults, redeliveries or cleanups
happen. `CircuitBreaker`: a request ends because `asyncio.wait_for` bounds it
(`gateway.py:227`), time passes (`CooldownPasses`) and Redis expires keys; Redis need not
come back. `OfflineQueue`: a call of `processQueue` goes on (requests fail or answer) and
the 30-second timer of `start-job.tsx:106` keeps starting it while the phone is online;
connectivity is never assumed, `RowsSettle` speaks of behaviours that stay online.
`ImportPipeline`: a background task goes on; PostgreSQL ends a wait by the lock timeout or
deadlock detection. `JobSocket`: only that time passes for Redis and for the process. The
set of connections expires an hour after its last EXPIRE (`AgeSlots`, `ExpireSlots`, weakly
fair: each admission renews the TTL and disables them, so nothing forces the key to expire
while admissions go on; a refused client renews nothing, and so a set that stays full
expires). The auth caches are filled again and again, so their expiry is strongly fair.
`RequestGate`: requests take their steps, a waiting INSERT is served among others that come
and go (strong fairness, PostgreSQL's lock queue), cooldowns and TTLs run out, Redis comes
back. Probes, crashes and shutdowns are never assumed.

## 5. Proofs

All are for every value of the constants under the assumption that each module states
(`QuotaAssumption`, `LedgerAssumption`, `WebhookAssumption`, `PipelineAssumption`,
`TenantAssumption`, `GateAssumption`, `GatewayAssumption`, `BreakerAssumption`,
`QueueAssumption`, `SocketAssumption`, `RuntimeAssumption`, `KindsAssumption`,
`StatusAssumption`, `ImportAssumption`, `KeysAssumption`), which TLC evaluates in the runs.
They say that limits are numbers (positive where the code has a positive default), that
names that must differ do, and, where something is counted, that there are finitely many
requests, jobs, rows, connections, workers, records or users. Four say more:
`RuntimeAssumption` that a task is retried no more often than a dead letter is replayed
(3 to 5 against `_MAX_DLQ_RETRIES` = 5: a dead letter starts with the retries of its task,
and the limit is tested before a replay only); `KindsAssumption` that the tasks of an
instance are those of the schedule and the queues; `ImportAssumption` that a provider is
one `start_import` knows (a connector, or a stub it refuses) and that a request names at
least one entity type; `StatusAssumption` that the statuses of a job include those the
code names.

Modules whose names do not clash share a proof module.

- `BillingLedgerProofs` (5 theorems, of `LedgerSpec`): type correctness,
  `ChargedAtMostOnce`, `ReservationSound`, `DailyLimitHolds`, and the refinement
  `ImplementsCharging`. A version that matches does not mean that a session has the row:
  releases retry with a stale object, and other writers do not bump the version. The
  invariant `LedgerInv` says what is left: a session that *reserves*, was not overtaken by
  such a writer and has the row's version, has the row itself (`Fresh`), because the
  savepoint it rolls back after a conflict expires the object or, with a string for the
  company, leaves it with its old version. That `reserved_acu` stays a natural number is
  due to the checks under the row lock alone. The refinement shows that every step of the
  ledger is a charge of a job not charged before, a credit, a reset, or leaves usage and
  charges alone.
- `StripeWebhookProofs` (4): `AppliedAtMostOnce`, `PlansAgree`, `NoChangeFromCache`, and
  that two handlers never hold the company at once. Of the three layers of deduplication
  only the first is used: a request that can still commit its handler holds the
  uncommitted row of its event, no other request holds it, and the row is not committed
  (`Sound`, `RowUnique`). `PlansAgree` needs what each handler has read and assigns
  (`PlanInv`): a column is written when its value differs from what was loaded, not from
  what is stored. Its one exception, `torn`, is a checkout that loaded a row another
  delivery then changed. `CacheInv`: while Redis answers, the cache holds no subscription
  that is sold or about to be, so that a plan change decides by what Stripe and the rows
  say.
- `JobPipelineProofs`, part one (3, of `JobPipeline`): `OutputBacksCharge`, the bound on
  retries, and that a charge is made once, together with
  its output, and never taken back (an action property). Nothing keeps two workers apart
  and each writes a state computed from one it loaded earlier, so the invariant speaks of
  what a worker has *seen*: a worker that saw the job completed did so after an output was
  stored, and outputs stay.
- `JobPipelineProofs`, part two (2, of `JobSocket`): `ToldMeansStored` and
  `OverrunBounded`. The task publishes "complete" before it commits, so the invariant
  follows the news from the row through the channel and the queue to the client
  (`Honest`): what comes from a read of the database is true, what comes from the channel
  never leaves the queue, because the handler that put it there cancels its sender first.
  The overrun, for any number of other processes, rests on counting claims instead of
  members (`Claimed`): members, those left behind, and the handlers that were told there
  is room and have not entered the set yet. A handler claims a place when fewer than the
  limit are members, and then all claims beyond the members are of handlers under
  admission (`RoomForPlaces`).
- `TenantAccessProofs` (4): `TenantComplete`, `AccessFollowsCommit`, `UnpaidIsDisabled`,
  and that a user who has left is never let in again (an action property). Requests rely
  on rows they read without a lock; `Sound` says what each step may still assume of the
  committed rows, `OneFounder` and `OneRegistration` what the unique indexes add.
  `AccessFollowsCommit` holds because a token without a version is read as version 0,
  which an active user has and the blacklist never does; `UnpaidIsDisabled` needs what a
  payment handler has read and whether an administrator came in between.
- `RequestGateProofs` (3): `RepeatedAfterRollback`, `DrainIsClean`, and that
  `_active_requests` is exact. The first rests on the uncommitted idempotency record, which
  one transaction holds (`RowUnique`), and on this: while a key is backed by nothing, no
  record and no request that has sent its task, every task sent was lost to a rollback
  (`SentInv`); the second on the exact counter: a counter that is only bounded would not show
  that zero means idle. The circuit is unconstrained in both.
- `AIGatewayProofs`, part one (3, of `AIGateway`): `LimiterBacked`, `LimiterHeals`,
  `SlotsBacked`. Each compares a number in Redis with a set of jobs; a step moves at most
  one job into or out of the set (`OneMoved`), and the number moves with it or falls
  behind (`CounterFollows`, `KeyFollows`, `SlotFollows`). The invariant adds that Redis
  answers until the first fault. `SlotsBacked` is proved for `DefaultLimit = 1`, the value
  in the code: with a larger one the second acquire of a task, whose answer nobody reads,
  could count a job twice.
- `AIGatewayProofs`, part two (5, of `CircuitBreaker`): type correctness,
  `TripsAtThreshold`, `StableIsReset`, `OpenKeyExpires`, `OpenKeyHasOwner`. One breaker:
  `Sound` is kept by `Asked`, `Succeeded`, `Failed` (one lemma each). The hash:
  `WriterIsOpen` says that a request about to write `open` has its breaker open; it is
  inductive only because the lock is held across the Redis writes of `record_failure`.
- `TaskRuntimeProofs` (5): `CountedMeansSent`, `StormsBounded`, `BeatExclusive`,
  `PurgedInTime`, and the types (`RuntimeInv`). A worker holds one message (`Staffed`);
  what a step does to its message is said once (`BeatMoves`, `QueueMoves`).
  `CountedMeansSent`: what an administrator read of a row without a lock stays backed by
  what was sent. `StormsBounded`: retries between the check and the increment are no more
  than the workers, whatever the number of messages (`GuardCounts`, `PoisonCounts`).
  `BeatExclusive`: a lock covers what is left of the run it was taken for when it is
  longer than the time limit (`LockCovers`); `recover_orphaned_outputs` has one that is
  only as long, and is safe because its message expires and its run ends long before the
  next is sent (`OneRecovery`); `cleanup_stale_jobs`, which has neither, is excepted by
  the property. `PurgedInTime`: two periods pass without a purge in any case, and two more
  per fault (`PurgePace`). It is proved under `2 * MaxFaults + 2 <= PurgeWindow`, that is
  for up to two faults within the seven periods of the window, which is what the run
  checks: with three the window can be missed.
- `RecordsProofs`, part one (3, of `OfflineQueue`): `NoRowIsStranded`,
  `CompletedWasDelivered`, `ReplacedIdsStayGone`. Added facts: what a call counts as
  accepted was delivered; a real job id that a call read is still the row's id; an upload
  is completed only under a real id, so that `markFailed` of a stale call never brings
  back a temporary id; a call that has not read its rows has sent nothing; a start that
  has not begun has queued nothing, and the server has only uploads that were queued.
- `RecordsProofs`, part two (3, of `WorkOrders`): `RowsAgree` and the action properties
  `ClosedEstimateStands` and `SettingsKept`. The invariant `OfficeInv` adds the shape of the
  rows and that a job about to be deleted is in the table (`DeletesRow`). `RowsAgree`
  survives stale reads because a status is written together with its audit entry, and the
  foreign keys look at the committed rows, not at what was read. `ClosedEstimateStands`: an
  estimate that a request is editing was open when it was read and still is, or is gone
  (`EditInv`); this is so only because no snapshot of an approval can be stored, and would
  fail with it. `SettingsKept` rests on SQLAlchemy's rule that only the columns that differ
  from what was read are written.
- `RecordsProofs`, part three (4, of `ImportPipeline`): `CountsMatchLogs`, the overview
  half of `MetricsAddUp` (`OverviewAddsUp`), the action property `RolledBackIsFinal`, and
  the invariant itself (`ImportInv`). An import is one transaction over many steps, so
  every row of `import_jobs` is described by where its task is (`JobSound`: blank before
  its type is reached, counting while it is, over after it, visible only when the task is
  done) and by the log (`CountSound`, `LogSound`). A record found in the log has a row
  that makes the INSERT fail (`TaskSound`), so that no visible import ever skipped one.
  Two rollback requests may both read and both write: what each has read is either all
  records of the job or, after the other was faster, none (`RollerSound`), and both write
  the same counters.

Only model-checked:

- the liveness properties (`MessagesSettle`, `RecoversWithRedis`, `RowsSettle`,
  `ImportsEnd`, `RevokedIsCut`, `RoomReturns`, `CircuitCloses`, `ReadyRecovers`): liveness
  under fairness is out of the prover's reach;
- `RecomputedIsAccepted`: it computes prices with folds over the items of an estimate, and
  what a fold returns for every input needs induction over data;
- `DuplicatesAddUp`, the half of `MetricsAddUp` that equates two sums over different sets,
  for the same reason.

## 6. Known divergences between code and documents

Most important first. None of the properties above depends on them being otherwise.

**Billing**

- `ai/router.py:338` says `check_and_reserve` uses FOR UPDATE; it does not, and
  `reconcile_cost` does not bump `version`: between a reservation's SELECT and its UPDATE
  it makes the reservation commit more than the quota has left.
- A credit's ledger row is skipped by the unique index after `used_acu` was lowered; one
  heartbeat column serves all jobs of a company, so that a transition of one clears what
  protects another's reservation from the monthly reset; `heartbeat.py` releases the whole
  `reserved_acu` of a company for one stuck job; a release that fails three times grants a
  credit and leaves the reservation.
- The retries of the quota engine do not read the row again: their SELECT finds the object
  that the session has (`quota_engine.py:216-244`). A release by UUID (`heartbeat.py`)
  retries with the balance it had, reduced already, and the new version: a reservation made
  in between is lost. A reservation or release by string (`job_tasks.py`) keeps the old
  version and fails all three times: the reservation is refused, the release ends silently
  and leaks. A delivery can release the same reservation twice (`job_tasks.py:478`, `:832`,
  `:863`).
- `acu_debt` stays 0: `reconcile_cost` refuses before its debt branch
  (`reconciliation.py:85`) can be reached, and `collect_billing_debt` finds nothing.
- `finalize_usage` and `auto_credit_failed_job` have no caller; `temp_quota_multiplier` is
  not used by `check_and_reserve` although `runbooks/tenant-abuse.md:73` says the quota is
  halved; the 403 of a risk above 70 rolls back the `ai_disabled` it announces
  (`tenant-abuse.md:74`); a recovered payment lifts an administrator's ban
  (`tenant-abuse.md:85`).
- Webhook: the Redis dedup key survives the rollback of a failed handler, and the retry is
  acknowledged as a duplicate (`adr/005-triple-dedup-webhooks.md:13` promises exactly once).
  The advisory lock of layer three never refuses anyone. A checkout overtaken by another
  delivery between `invoice_routes.py:462` and `:482` keeps the plan it loaded and may leave
  "free" beside a stored subscription (excused in `PlansAgree`). The status of a
  subscription is not looked at. Each checkout request makes a session under a fresh
  idempotency key.
- `change_plan`: `.items` of a Stripe object is the method of dict, so filling the cache
  raises and the request fails whenever Stripe answers; the checkout handler fills the
  cache and deletes it at once through the customer index, so that the offline cache
  (`stripe_cache.py:3`) never serves.

**AI jobs**

- A delivery without the Redis lock, or whose reservation was refused, goes on
  (`job_tasks.py:823-825` test a tuple; `future-ai/ai-architecture.md:148` says duplicates
  are prevented). A completed job may be processed again (`state_machine.py:72`), also by a
  request that loaded the job earlier (`ai/router.py:289`) and sets it back to "queued".
  `_compensate_failed_job` never commits. `scan_for_stalled_ai_jobs` raises a TypeError
  when it finds a job (`job_tasks.py:1021`). `recover_orphaned_outputs` may complete a job
  that is being processed again.
- The old signing key is never accepted (`_get_signing_key` lacks `global`): messages
  around a rotation are dead-lettered.
- Limits: `ConcurrencyLimiter.__aenter__` ignores a refusal, the call runs and its release
  gives back a slot it never had; the semaphore grows past its size; DECR and DELETE of a
  counter race; a fault between INCR and EXPIRE leaves a counter without TTL; the heartbeat
  of a limiter lives in the first task of a process only. `process_job_task` ignores the
  answer for the company's slot, asks for plan "default", and its release gives back the
  request's slot; jobs that fail before phase 2 leave it to its TTL. `_locked_companies`
  of the API is never cleared on success, so that without Redis it refuses.
- Circuit breaker: a fault between HSET and EXPIRE leaves an open key without TTL that
  keeps all replicas shut (`ai-architecture.md:122`); the script for a single half-open
  probe and `reset()` have no caller, so "exactly 1 probe" (`runbooks/ai-outage.md:71`,
  ADR 008) does not hold; status endpoints use probes up; without Redis a late success
  clears `_last_failure_time` and the breaker stays open; a failed probe does not double
  the cooldown (`ai-outage.md:73`); services swallow errors, so that only timeouts count.
- WebSocket: "complete" heard through pub/sub is never delivered, because the sender is
  cancelled first; waiting for it skips the rest of the cleanup, so that slot, user entry
  and pub/sub connection leak; `put(None)` on a full queue hangs; a subscription without a
  client is deaf; the local fallback of the global count raises UnboundLocalError; errors of
  re-authentication count as no objection. Each admission renews the TTL of the connection
  set (`ai/router.py:190`), so that leaked members stay while admissions go on; a fault
  between SADD and EXPIRE of the first leaves the set without one; when it does expire, open
  connections are no longer counted.

**Tasks**

- `reset_billing_quotas`: a lock of 3600 s under a schedule of 300 s, so that most
  executions are skipped; the branch for a period already reset cannot be reached; a retry
  is skipped by its own lock; pages advance over rows that left the selection; one locked
  row fails the task.
- Retries of beat tasks never work while Redis answers. With TTL and period equal, every
  other execution may be skipped. `decay_risk_scores` (30 min) has a lock of 3600 s,
  `detect_*` (2 min) one of 300 s. `collect_billing_debt` is not scheduled although
  `/readyz` reports it stale. `app/billing/tasks.py` and `tasks/ai_tasks.py` are imported
  by no worker.
- Dead letters without a job never fit the UUID column; `last_state` is too short for some
  states; the fallback file is written under one name and looked for under another.
  `RenewableBeatLock` and `consume_retry_budget` have no caller.

**Requests and tenants**

- Database circuit: a denial surfaces as TypeError and status 500; two half-open probes
  instead of one (`database.py:268`); probes of `/readyz` and `/health` spend them; the
  OPEN script compares with the wrong field; the local fallback stays shut once its probe
  was spent without a commit, and a replica that is not ready gets no traffic to commit
  (`k8s/api-deployment.yaml:245`). A Redis restart forgets the script hashes, and requests
  fail until the replica restarts (the models' outage is an unreachable server).
- The idempotency record disappears with a request that is rolled back, "processing" is
  never visible to others, and tasks are enqueued before the commit (`ai/router.py:381`):
  after a timeout or a failed commit the same key sends a second task; `JobPipeline` has
  what two deliveries of a job may do. `_shutting_down` is a local of `lifespan`. The
  row-level-security setting is made before authentication. Rate limit keys are shared by
  all users. Load shedding uses a stale utilisation.
- Tenants: the blacklist names a version no token carries; `delete_tenant` deletes nothing
  and answers 200; the last owner can be deactivated, two owners can delete themselves at
  once; the audit entry's old value is a constant; the RBAC middleware fails on its
  dependencies and lets requests pass. An enabling that overlaps a failed payment's handler
  may leave AI on (excused in `UnpaidIsDisabled`).

**Office, imports, phone**

- Estimates: snapshots with `Decimal` values cannot be stored (`estimates/audit.py:94-105`,
  no `json_serializer` at `database.py:213`), so that generating, reviewing, approving,
  sending and reopening always fail; `ClosedEstimateStands` holds for that reason only. Two
  concurrent updates leave the line items of both under the total of one; the client may set
  any amounts (`estimates/router.py:367-373`), and amounts equal to those that were read are
  not written. `update_job` reads the AI state unlocked although the comment at
  `jobs/router.py:141` says otherwise; an approval after sending resets the status; two
  drafts make `delete_job` fail; a quote can be made for a deleted job.
- Imports: the unique key has no result column, so that re-importing a rolled-back or
  duplicate record aborts the import; PARTIAL is never visible; dated records cannot be
  stored; the Stripe connector reports errors as 0 records; QuickBooks always raises;
  mapping rules and feature flags are never used.
- Offline queue: `markFailed` of an overlapping call turns a completed row back into a
  pending one; an empty call of `processQueue` counts as a replay, so that the 30-second
  timer exhausts `MAX_TOTAL_REPLAYS` in 25 minutes; `handleStartJob` both queues the photos
  and uploads them directly; rows of a start that failed or was killed keep its temporary id,
  are retried under it and given up, also when a second start creates the job. Rows left
  when the replays are used up wait until the app is started again.
- Notifications: the push cooldown never resets; the e-mail and SMS services have no
  caller.
