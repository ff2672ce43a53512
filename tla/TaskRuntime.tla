---------------------------- MODULE TaskRuntime ----------------------------
(***************************************************************************)
(* What surrounds a Celery task: the beat schedule and the beat locks, the *)
(* retries, the guard against retry storms, the dead-letter queue and its  *)
(* manual replay.                                                          *)
(*                                                                         *)
(* A behaviour follows the messages of one task, chosen at the start: the  *)
(* locks and counters of different tasks have different keys.  A worker is *)
(* a process that runs one message at a time and has its own local locks   *)
(* and counters, used while Redis does not answer.                         *)
(*                                                                         *)
(* Time passes in ticks that differ by task (60 s to 7200 s).              *)
(* A beat lock is never released, it only expires; lock = n says that it   *)
(* expires within the n-th tick from now, so that at 1 it may already be   *)
(* gone.                                                                   *)
(***************************************************************************)
EXTENDS Integers, FiniteSets

CONSTANTS
    Workers, Messages, Admins,
    Rows,            \* bound: rows of dead_letter_jobs
    NoWorker,
    Kinds,           \* the tasks to look at
    MaxRetries,      \* of the tasks that end in the dead-letter queue (3 to 5)
    GuardLimit,      \* _RETRY_MAX_PER_WINDOW (5)
    PoisonLimit,     \* total attempts before a dead letter is discarded (5)
    MaxReplays,      \* _MAX_DLQ_RETRIES (5)
    MaxFaults,       \* bound: errors, crashes and unattended messages
    MaxOutages       \* bound: outages of Redis

ASSUME RuntimeAssumption ==
    /\ GuardLimit \in Nat \ {0} /\ PoisonLimit \in Nat \ {0}
    /\ MaxRetries \in Nat /\ MaxReplays \in Nat /\ MaxRetries <= MaxReplays
    /\ MaxFaults \in Nat /\ MaxOutages \in Nat
    /\ NoWorker \notin Workers /\ IsFiniteSet(Workers)

VARIABLES
    kind, redis, outages, faults,
    msg,             \* each message and the process that runs it
    lock, local,     \* beat:lock:<task>, _beat_local_locks of each process
    due,             \* ticks until the schedule sends the next message
    window,          \* periods for which an old soft-deleted row has been waiting
    guard,           \* retry:<task>:<job>, the same per process, and who passed
    poison,          \* poison:<job>:<task> and the dead letters written
    rows, lines,     \* dead_letter_jobs; lines of the fallback file
    job,             \* ai_processing_state of the job
    replay,          \* POST /dlq/replay of each admin
    broker           \* is_broker_healthy of the API process

beatVars == <<lock, local, due, window>>
dlqVars == <<guard, poison, rows, lines, job, replay, broker>>
vars == <<kind, redis, outages, faults, msg, beatVars, dlqVars>>

-----------------------------------------------------------------------------
(* The tasks: TTL of the beat lock, schedule, expiry of a message and time *)
(* limit in ticks; retries; whether an error is retried (or only logged)   *)
(* and whether a message survives its worker.                              *)

Beat(ttl, period, expires, limit, retries, acksLate) ==
    [ttl |-> ttl, period |-> period, expires |-> expires, limit |-> limit,
     retries |-> retries, acksLate |-> acksLate]

cleanup_stale_reservations_task == Beat(5, 5, 2, 4, 2, TRUE)
alert_stuck_jobs                == Beat(5, 5, 2, 4, 0, TRUE)
cleanup_stale_jobs              == Beat(2, 2, 1, 4, 2, TRUE)
scan_for_stalled_ai_jobs        == Beat(5, 5, 2, 4, 3, TRUE)
detect_dropped_tasks            == Beat(5, 2, 1, 4, 0, TRUE)
detect_worker_crash_loops       == Beat(5, 2, 1, 4, 0, TRUE)
decay_risk_scores_task          == Beat(6, 3, 1, 1, 3, TRUE)
recover_orphaned_outputs        == Beat(1, 6, 1, 1, 0, TRUE)
purge_soft_deleted_records      == Beat(12, 12, 1, 1, 0, FALSE)
cleanup_old_estimates           == Beat(12, 12, 1, 1, 0, TRUE)
purge_expired_dlq_entries       == Beat(12, 12, 1, 1, 2, TRUE)
reset_billing_quotas            == Beat(12, 1, 1, 1, 3, TRUE)

BeatTask ==
    [cleanup_stale_reservations_task |-> cleanup_stale_reservations_task,
     alert_stuck_jobs |-> alert_stuck_jobs,
     cleanup_stale_jobs |-> cleanup_stale_jobs,
     scan_for_stalled_ai_jobs |-> scan_for_stalled_ai_jobs,
     detect_dropped_tasks |-> detect_dropped_tasks,
     detect_worker_crash_loops |-> detect_worker_crash_loops,
     decay_risk_scores_task |-> decay_risk_scores_task,
     recover_orphaned_outputs |-> recover_orphaned_outputs,
     purge_soft_deleted_records |-> purge_soft_deleted_records,
     cleanup_old_estimates |-> cleanup_old_estimates,
     purge_expired_dlq_entries |-> purge_expired_dlq_entries,
     reset_billing_quotas |-> reset_billing_quotas]

BeatTasks ==
    {"cleanup_stale_reservations_task", "alert_stuck_jobs", "cleanup_stale_jobs",
     "scan_for_stalled_ai_jobs", "detect_dropped_tasks", "detect_worker_crash_loops",
     "decay_risk_scores_task", "recover_orphaned_outputs", "purge_soft_deleted_records",
     "cleanup_old_estimates", "purge_expired_dlq_entries", "reset_billing_quotas"}

QueueTasks == {"process_job_task", "send_email_task", "refresh_stripe_ips_task"}

ASSUME KindsAssumption == Kinds \subseteq BeatTasks \cup QueueTasks

IsBeat == kind \notin QueueTasks
T == BeatTask[kind]

(* The one task that does not run under a local lock when Redis is away.   *)
NeedsRedis == kind = "reset_billing_quotas"

NoMsg == [pc |-> "idle", retries |-> 0, again |-> FALSE, age |-> 0, ran |-> 0, at |-> NoWorker]
NoRow == [count |-> -1, initial |-> 0, sent |-> 0]
GoneRow == [NoRow EXCEPT !.count = -2]
NoReplay == [pc |-> "idle", row |-> CHOOSE r \in Rows : TRUE, seen |-> 0]

Init ==
    /\ kind \in Kinds
    /\ redis = TRUE /\ outages = 0 /\ faults = 0
    /\ msg = [m \in Messages |-> NoMsg]
    /\ lock = 0 /\ local = [w \in Workers |-> 0]
    /\ due = 0 /\ window = 0
    /\ guard = [count |-> 0, local |-> [w \in Workers |-> 0], passed |-> 0]
    /\ poison = [count |-> 0, written |-> 0]
    /\ rows = [r \in Rows |-> NoRow] /\ lines = 0
    /\ job = "queued"
    /\ replay = [a \in Admins |-> NoReplay]
    /\ broker = [since |-> "never", fresh |-> FALSE]

Present(r) == rows[r].count >= 0
Working == {m \in Messages : msg[m].pc = "working"}
Free(w) == \A m \in Messages : msg[m].at # w
Fault == faults < MaxFaults /\ faults' = faults + 1
Floor(n) == IF n > 0 THEN n - 1 ELSE 0
Least(a, b) == IF a < b THEN a ELSE b

Outage ==
    /\ redis /\ outages < MaxOutages
    /\ redis' = FALSE /\ outages' = outages + 1
    /\ UNCHANGED <<kind, faults, msg, beatVars, dlqVars>>

Recovery ==
    /\ ~ redis
    /\ redis' = TRUE
    /\ UNCHANGED <<kind, outages, faults, msg, beatVars, dlqVars>>

-----------------------------------------------------------------------------
(* Beat tasks.                                                             *)

(* A message that waits or runs grows older, one that runs has run longer. *)
Older(x) ==
    IF x.pc = "queued" THEN [x EXCEPT !.age = Least(@ + 1, T.expires)]
    ELSE IF x.pc = "working" THEN [x EXCEPT !.age = Least(@ + 1, T.expires), !.ran = @ + 1]
    ELSE x

(* Time.  What has become urgent in this tick happens before it ends.      *)
Tick ==
    /\ IsBeat
    /\ due > 0 \/ \A m \in Messages : msg[m].pc # "idle"
    /\ \A m \in Messages :
         /\ msg[m].pc = "queued" /\ msg[m].retries = 0 /\ ~ msg[m].again => msg[m].age + 1 < T.expires
         /\ msg[m].pc = "working" => msg[m].ran < T.limit
    /\ due' = Floor(due)
    /\ lock' = Floor(lock)
    /\ local' = [w \in Workers |-> Floor(local[w])]
    /\ msg' = [m \in Messages |-> Older(msg[m])]
    /\ UNCHANGED <<kind, redis, outages, faults, window, dlqVars>>

LockExpires ==
    /\ IsBeat
    /\ \/ lock = 1 /\ lock' = 0 /\ UNCHANGED local
       \/ \E w \in Workers : local[w] = 1 /\ local' = [local EXCEPT ![w] = 0] /\ UNCHANGED lock
    /\ UNCHANGED <<kind, redis, outages, faults, msg, due, window, dlqVars>>

(* The beat scheduler sends the message of the period.                     *)
Dispatch(m) ==
    /\ IsBeat /\ due = 0 /\ msg[m].pc = "idle"
    /\ msg' = [msg EXCEPT ![m] = [NoMsg EXCEPT !.pc = "queued"]]
    /\ due' = T.period
    /\ window' = IF kind = "purge_soft_deleted_records" THEN window + 1 ELSE window
    /\ UNCHANGED <<kind, redis, outages, faults, lock, local, dlqVars>>

(* An expired message is revoked.  A first attempt expires only when no    *)
(* worker was there to take it.                                            *)
Revoke(m) ==
    /\ IsBeat /\ msg[m].pc = "queued"
    /\ msg' = [msg EXCEPT ![m] = NoMsg]
    /\ \/ msg[m].age = T.expires /\ UNCHANGED faults
       \/ msg[m].age + 1 = T.expires /\ Fault
    /\ UNCHANGED <<kind, redis, outages, beatVars, dlqVars>>

(* Mutations: the key is set without NX; without EX.                       *)
AcquireBeatLock_NoNX(w) ==
    IF redis THEN lock' = T.ttl + 1 /\ UNCHANGED local
    ELSE /\ ~ NeedsRedis /\ local[w] = 0
         /\ local' = [local EXCEPT ![w] = T.ttl + 1] /\ UNCHANGED lock
(* _acquire_beat_lock: SET NX EX, or the lock of the process when Redis    *)
(* does not answer.  The script of reset_billing_quotas also sets a key    *)
(* for the billing period, and runs whether or not that was there before.  *)
AcquireBeatLock(w) ==
    IF redis THEN lock = 0 /\ lock' = T.ttl + 1 /\ UNCHANGED local
    ELSE /\ ~ NeedsRedis /\ local[w] = 0
         /\ local' = [local EXCEPT ![w] = T.ttl + 1] /\ UNCHANGED lock

Locked(w) == IF redis THEN lock # 0 ELSE ~ NeedsRedis /\ local[w] # 0

Execute(m, w) ==
    /\ IsBeat /\ msg[m].pc = "queued" /\ msg[m].age < T.expires /\ Free(w)
    /\ AcquireBeatLock(w)
    /\ msg' = [msg EXCEPT ![m].pc = "working", ![m].ran = 0, ![m].at = w]
    /\ UNCHANGED <<kind, redis, outages, faults, due, window, dlqVars>>

(* "skipped": the message is done.                                         *)
Skip(m, w) ==
    /\ IsBeat /\ msg[m].pc = "queued" /\ msg[m].age < T.expires /\ Free(w)
    /\ Locked(w)
    /\ msg' = [msg EXCEPT ![m] = NoMsg]
    /\ UNCHANGED <<kind, redis, outages, faults, lock, local, due, window, dlqVars>>

(* Mutation: a window of one day.                                          *)
PurgeWindow_Short == 1

(* Rows deleted more than 90 and less than 97 days ago are purged, in      *)
(* periods of a day.                                                       *)
PurgeWindow == 7

(* A scan that finds a stalled job never completes: it raises at           *)
(* len(result_none) before anything is re-queued.                          *)
Complete(m) ==
    /\ IsBeat /\ m \in Working
    /\ kind # "scan_for_stalled_ai_jobs"
    /\ msg' = [msg EXCEPT ![m] = NoMsg]
    /\ window' = IF window <= PurgeWindow THEN 0 ELSE window
    /\ UNCHANGED <<kind, redis, outages, faults, lock, local, due, dlqVars>>

Retry(m) == [msg[m] EXCEPT !.pc = "queued", !.retries = @ + 1, !.at = NoWorker, !.ran = 0]

(* purge_expired_dlq_entries retries serialization failures only.          *)
Outcomes(m) ==
    (IF msg[m].retries < T.retries /\ msg[m].ran < T.limit THEN {Retry(m)} ELSE {NoMsg})
      \cup (IF kind = "purge_expired_dlq_entries" THEN {NoMsg} ELSE {})

(* The task raises, or its time limit kills it: retried, or given up.  A   *)
(* retry keeps the expiry time of its message.                             *)
Error(m) ==
    /\ IsBeat /\ m \in Working
    /\ IF kind = "scan_for_stalled_ai_jobs" THEN UNCHANGED faults ELSE Fault
    /\ \E after \in Outcomes(m) : msg' = [msg EXCEPT ![m] = after]
    /\ UNCHANGED <<kind, redis, outages, beatVars, dlqVars>>

(* reset_billing_quotas without Redis: retried, then a dead letter, which  *)
(* has no job and is never stored (see WriteDeadLetter).                   *)
LockUnreachable(m, w) ==
    /\ IsBeat /\ NeedsRedis /\ ~ redis
    /\ msg[m].pc = "queued" /\ msg[m].age < T.expires /\ Free(w)
    /\ msg' = [msg EXCEPT ![m] = IF @.retries < T.retries THEN Retry(m) ELSE NoMsg]
    /\ UNCHANGED <<kind, redis, outages, faults, beatVars, dlqVars>>

WorkerLost(m) ==
    /\ IsBeat /\ m \in Working
    /\ Fault
    /\ msg' = [msg EXCEPT ![m] = IF T.acksLate
                                 THEN [@ EXCEPT !.pc = "queued", !.again = TRUE,
                                                !.at = NoWorker, !.ran = 0]
                                 ELSE NoMsg]
    /\ local' = [local EXCEPT ![msg[m].at] = 0]
    /\ UNCHANGED <<kind, redis, outages, lock, due, window, dlqVars>>

-----------------------------------------------------------------------------
(* Tasks that end in the dead-letter queue.  All messages are about one    *)
(* job, or about no job (e-mail, Stripe addresses).                        *)

HasJob == kind = "process_job_task"

Send(m) ==
    /\ ~ IsBeat /\ msg[m].pc = "idle"
    /\ msg' = [msg EXCEPT ![m].pc = "queued"]
    /\ UNCHANGED <<kind, redis, outages, faults, beatVars, dlqVars>>

(* _get_signing_key reads the key once per process: during a rotation the  *)
(* process that signed a message and the worker may have different ones.   *)
(* Bound: a message refused for it takes the place of all other faults.    *)
KeysDiffer == HasJob /\ faults = 0 /\ faults' = MaxFaults

(* _verify_task_payload fails: a dead letter; the job stays queued.  The   *)
(* key before the rotation, which would also do, is never kept:            *)
(* _get_signing_key assigns it to a local variable.                        *)
Reject(m, w) ==
    /\ ~ IsBeat /\ msg[m].pc = "queued" /\ Free(w)
    /\ KeysDiffer
    /\ msg' = [msg EXCEPT ![m].pc = "poison", ![m].at = w]
    /\ UNCHANGED <<kind, redis, outages, beatVars, dlqVars>>

(* A retry of process_job_task is checked by check_retry_storm first.      *)
Start(m, w) ==
    /\ ~ IsBeat /\ msg[m].pc = "queued" /\ Free(w)
    /\ LET checked == HasJob /\ msg[m].retries > 0 IN
       /\ msg' = [msg EXCEPT ![m].pc = IF checked THEN "guard" ELSE "working", ![m].at = w]
       /\ job' = IF HasJob /\ ~ checked THEN "processing" ELSE job
    /\ UNCHANGED <<kind, redis, outages, faults, beatVars, guard, poison, rows, lines, replay, broker>>

Done(m) == [NoMsg EXCEPT !.pc = "done"]

(* _check_local: the counter of the process.                               *)
CheckLocal(m) ==
    LET w == msg[m].at IN
    IF guard.local[w] < GuardLimit
    THEN /\ guard' = [guard EXCEPT !.local[w] = @ + 1]
         /\ msg' = [msg EXCEPT ![m].pc = "working"]
         /\ job' = "processing"
    ELSE /\ msg' = [msg EXCEPT ![m] = Done(m)]
         /\ UNCHANGED <<guard, job>>

(* GET of the counter.                                                     *)
GuardGet(m) ==
    /\ msg[m].pc = "guard"
    /\ IF ~ redis THEN CheckLocal(m)
       ELSE /\ msg' = [msg EXCEPT ![m] = IF guard.count >= GuardLimit THEN Done(m)
                                         ELSE [@ EXCEPT !.pc = "guarded"]]
            /\ UNCHANGED <<guard, job>>
    /\ UNCHANGED <<kind, redis, outages, faults, beatVars, poison, rows, lines, replay, broker>>

(* Mutation: the counter is read and never written.                        *)
GuardIncr_NotCounted(m) ==
    /\ msg[m].pc = "guarded"
    /\ guard' = [guard EXCEPT !.passed = @ + 1]
    /\ msg' = [msg EXCEPT ![m].pc = "working"]
    /\ job' = "processing"
    /\ UNCHANGED <<kind, redis, outages, faults, beatVars, poison, rows, lines, replay, broker>>

(* INCR and EXPIRE in one pipeline.                                        *)
GuardIncr(m) ==
    /\ msg[m].pc = "guarded"
    /\ IF ~ redis THEN CheckLocal(m)
       ELSE /\ guard' = [guard EXCEPT !.count = @ + 1, !.passed = @ + 1]
            /\ msg' = [msg EXCEPT ![m].pc = "working"]
            /\ job' = "processing"
    /\ UNCHANGED <<kind, redis, outages, faults, beatVars, poison, rows, lines, replay, broker>>

GuardExpires ==
    /\ guard.count > 0
    /\ guard' = [guard EXCEPT !.count = 0, !.passed = 0]
    /\ UNCHANGED <<kind, redis, outages, faults, msg, beatVars, poison, rows, lines, job, replay, broker>>

Succeed(m) ==
    /\ ~ IsBeat /\ m \in Working
    /\ msg' = [msg EXCEPT ![m] = Done(m)]
    /\ job' = IF HasJob THEN "completed" ELSE job
    /\ UNCHANGED <<kind, redis, outages, faults, beatVars, guard, poison, rows, lines, replay, broker>>

(* self.retry, or _move_to_dead_letter.                                    *)
Raise(m) ==
    /\ ~ IsBeat /\ m \in Working
    /\ msg' = [msg EXCEPT ![m] =
                 IF msg[m].retries < MaxRetries THEN Retry(m)
                 ELSE [@ EXCEPT !.pc = IF HasJob THEN "poison" ELSE "write"]]
    /\ UNCHANGED <<kind, redis, outages, faults, beatVars, dlqVars>>

(* The poison counter: GET, then INCR and EXPIRE.                          *)
PoisonGet(m) ==
    /\ msg[m].pc = "poison"
    /\ msg' = [msg EXCEPT ![m] =
                 IF ~ redis THEN [@ EXCEPT !.pc = "write"]
                 ELSE IF poison.count >= PoisonLimit THEN Done(m)
                 ELSE [@ EXCEPT !.pc = "poisoned"]]
    /\ UNCHANGED <<kind, redis, outages, faults, beatVars, dlqVars>>

PoisonIncr(m) ==
    /\ msg[m].pc = "poisoned"
    /\ msg' = [msg EXCEPT ![m].pc = "write"]
    /\ poison' = IF redis THEN [poison EXCEPT !.count = @ + 1] ELSE poison
    /\ UNCHANGED <<kind, redis, outages, faults, beatVars, guard, rows, lines, job, replay, broker>>

(* The row, or a line of dlq_fallback_<pid>.jsonl, or neither.  A dead     *)
(* letter without a job has job_id "", which is no UUID: its row is always *)
(* refused.  No task reads the fallback files (_scan_dlq_fallback_files    *)
(* looks for other names).                                                 *)
WriteDeadLetter(m) ==
    /\ msg[m].pc = "write"
    /\ msg' = [msg EXCEPT ![m] = Done(m)]
    /\ \/ /\ HasJob
          /\ \E r \in Rows :
               /\ rows[r] = NoRow
               /\ rows' = [rows EXCEPT ![r] = [count |-> msg[m].retries,
                                              initial |-> msg[m].retries, sent |-> 0]]
          /\ UNCHANGED <<lines, faults>>
       \/ /\ IF HasJob THEN Fault ELSE UNCHANGED faults
          /\ lines' \in {lines, lines + 1}
          /\ UNCHANGED rows
    /\ poison' = [poison EXCEPT !.written = @ + 1]
    /\ UNCHANGED <<kind, redis, outages, beatVars, guard, job, replay, broker>>

(* cleanup_stale_jobs, see JobPipeline.                                    *)
JobTimesOut ==
    /\ job \in {"queued", "processing"} /\ HasJob
    /\ job' = "failed"
    /\ UNCHANGED <<kind, redis, outages, faults, msg, beatVars, guard, poison, rows, lines, replay, broker>>

(* purge_expired_dlq_entries and POST /dlq/cleanup-expired.                *)
PurgeExpired(r) ==
    /\ Present(r)
    /\ Fault
    /\ rows' = [rows EXCEPT ![r] = GoneRow]
    /\ UNCHANGED <<kind, redis, outages, msg, beatVars, guard, poison, lines, job, replay, broker>>

-----------------------------------------------------------------------------
(* POST /dlq/replay: _retry_dead_letter_job reads the row and the job      *)
(* without a lock, sends the message and writes retry_count last.          *)

(* A row at its limit, or whose job is not failed, is not sent.            *)
ReplayRead(a, r) ==
    /\ replay[a].pc = "idle" /\ Present(r)
    /\ rows[r].count < MaxReplays
    /\ job = "failed"
    /\ replay' = [replay EXCEPT ![a] = [pc |-> "dispatch", row |-> r, seen |-> rows[r].count]]
    /\ UNCHANGED <<kind, redis, outages, faults, msg, beatVars, guard, poison, rows, lines, job, broker>>

(* is_broker_healthy: a result is trusted for 5 s; a failing probe counts  *)
(* from the first failure.                                                 *)
Probed ==
    IF broker.fresh THEN broker
    ELSE [since |-> IF redis THEN "never" ELSE IF broker.since = "never" THEN "recent" ELSE broker.since,
          fresh |-> TRUE]

Healthy(b) == b.since # "long"

BrokerAges ==
    /\ broker.fresh \/ broker.since = "recent"
    /\ broker' \in {[since |-> broker.since, fresh |-> FALSE],
                    [since |-> IF broker.since = "never" THEN "never" ELSE "long", fresh |-> FALSE]}
    /\ UNCHANGED <<kind, redis, outages, faults, msg, beatVars, guard, poison, rows, lines, job, replay>>

(* enqueue_job_task, and apply_async of a broker that answers.             *)
ReplayDispatch(a, m) ==
    /\ replay[a].pc = "dispatch" /\ msg[m].pc = "idle"
    /\ broker' = Probed
    /\ Healthy(broker') /\ redis
    /\ msg' = [msg EXCEPT ![m].pc = "queued"]
    /\ rows' = IF Present(replay[a].row) THEN [rows EXCEPT ![replay[a].row].sent = @ + 1]
               ELSE rows
    /\ replay' = [replay EXCEPT ![a].pc = "commit"]
    /\ UNCHANGED <<kind, redis, outages, faults, beatVars, guard, poison, lines, job>>

(* Mutation: the refused message is counted.                               *)
ReplayRefused_Counts(a) ==
    /\ replay[a].pc = "dispatch"
    /\ broker' = Probed
    /\ ~ Healthy(broker') \/ ~ redis
    /\ replay' = [replay EXCEPT ![a].pc = "commit"]
    /\ UNCHANGED <<kind, redis, outages, faults, msg, beatVars, guard, poison, rows, lines, job>>

(* Backpressure, an unhealthy broker, or apply_async raise: rollback.      *)
ReplayRefused(a) ==
    /\ replay[a].pc = "dispatch"
    /\ broker' = Probed
    /\ ~ Healthy(broker') \/ ~ redis
    /\ replay' = [replay EXCEPT ![a] = NoReplay]
    /\ UNCHANGED <<kind, redis, outages, faults, msg, beatVars, guard, poison, rows, lines, job>>

(* The commit; an UPDATE of a row that was purged fails.                   *)
ReplayCommit(a) ==
    LET r == replay[a].row IN
    /\ replay[a].pc = "commit"
    /\ rows' = IF Present(r) THEN [rows EXCEPT ![r].count = replay[a].seen + 1] ELSE rows
    /\ replay' = [replay EXCEPT ![a] = NoReplay]
    /\ UNCHANGED <<kind, redis, outages, faults, msg, beatVars, guard, poison, lines, job, broker>>

-----------------------------------------------------------------------------
BeatNext ==
    \/ Tick \/ LockExpires
    \/ \E m \in Messages : Dispatch(m) \/ Revoke(m) \/ Complete(m) \/ Error(m) \/ WorkerLost(m)
    \/ \E m \in Messages, w \in Workers : Execute(m, w) \/ Skip(m, w) \/ LockUnreachable(m, w)

QueueNext ==
    \/ \E m \in Messages : \/ Send(m) \/ GuardGet(m) \/ GuardIncr(m) \/ Succeed(m) \/ Raise(m)
                            \/ PoisonGet(m) \/ PoisonIncr(m) \/ WriteDeadLetter(m)
    \/ \E m \in Messages, w \in Workers : Start(m, w) \/ Reject(m, w)
    \/ GuardExpires \/ JobTimesOut \/ BrokerAges
    \/ \E r \in Rows : PurgeExpired(r)
    \/ \E a \in Admins, r \in Rows : ReplayRead(a, r)
    \/ \E a \in Admins, m \in Messages : ReplayDispatch(a, m)
    \/ \E a \in Admins : ReplayRefused(a) \/ ReplayCommit(a)

Next == BeatNext \/ QueueNext \/ Outage \/ Recovery

Spec == Init /\ [][Next]_vars

-----------------------------------------------------------------------------
(* Two executions of a beat task overlap only when its lock is shorter     *)
(* than the time limit of 300 s (cleanup_stale_jobs) or Redis has failed.  *)
BeatExclusive ==
    IsBeat /\ Cardinality(Working) > 1 => outages > 0 \/ T.ttl < T.limit

(* A soft-deleted row is purged before it is too old to be seen by         *)
(* purge_soft_deleted_records (maintenance.py:166), with MaxFaults failed  *)
(* or lost executions on the way.                                          *)
PurgedInTime == window <= PurgeWindow

(* Retries that pass the storm guard, and dead letters that pass the       *)
(* poison counter, exceed their limits by at most one per process that     *)
(* read the counter before another wrote it (retry_guard.py:53,            *)
(* broker.py:410).                                                         *)
StormsBounded ==
    /\ guard.passed <= GuardLimit + Cardinality(Workers) - 1
    /\ HasJob /\ outages = 0 => poison.written <= PoisonLimit + Cardinality(Workers) - 1

(* A replay that is counted was sent, and the counter of a dead letter     *)
(* stays within _MAX_DLQ_RETRIES, although concurrent replays overwrite    *)
(* each other's count (app/billing/tasks.py:79-97).                        *)
CountedMeansSent ==
    \A r \in Rows : Present(r) =>
      /\ rows[r].count - rows[r].initial <= rows[r].sent
      /\ rows[r].count <= MaxReplays
=============================================================================
