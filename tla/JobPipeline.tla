---------------------------- MODULE JobPipeline ----------------------------
(***************************************************************************)
(* AI processing of one job: POST /process-job, the Celery task            *)
(* process_job_task with its three phases, its retries and its Redis lock, *)
(* and the periodic cleanup of stuck jobs.                                 *)
(*                                                                         *)
(* A task message may be delivered again while it is still being processed *)
(* (visibility timeout), after its worker died (acks_late), or because the *)
(* user asked again.  Phase 1 and phase 3 are each one database            *)
(* transaction in a session of its own, and so is the request.  A session  *)
(* loads the job without a lock; the later SELECT ... FOR UPDATE does not  *)
(* refresh an object the session already has, so every decision in the     *)
(* transaction uses the state that was loaded first (seen).                *)
(*                                                                         *)
(* Quantities are in units of one reservation; module BillingLedger has    *)
(* the account row in detail.                                              *)
(***************************************************************************)
EXTENDS Integers, FiniteSets

CONSTANTS
    Deliveries,    \* task messages
    MaxRetries,    \* max_retries of process_job_task (3 in the code)
    MaxFaults      \* bound: workers that die, requests of the user, cleanups

ASSUME PipelineAssumption == MaxRetries \in Nat /\ MaxFaults \in Nat

VARIABLES
    state,         \* jobs.ai_processing_state, committed
    task,          \* each message and the worker that runs it
    lock,          \* Redis job:lock:<id>, by age; its heartbeat key lives while "young"
    request,       \* the POST /process-job under way: where it is, the state it loaded
    output,        \* a committed ai_output row
    reserved,      \* billing_accounts.reserved_acu of this job's reservations
    charged,       \* how often the job was charged
    faults         \* faults so far

vars == <<state, task, lock, request, output, reserved, charged, faults>>

NoRequest == [pc |-> "idle", seen |-> "none"]

NoTask == [pc |-> "idle", retries |-> 0, seen |-> "none", locked |-> FALSE, own |-> 0,
           fatal |-> FALSE]

Init ==
    /\ state = "none"
    /\ task = [d \in Deliveries |-> NoTask]
    /\ lock = "none"
    /\ request = NoRequest
    /\ output = FALSE
    /\ reserved = 0
    /\ charged = 0
    /\ faults = 0

Running == {d \in Deliveries :
              task[d].pc \in {"loaded", "body", "gateway", "store", "insert", "commit",
                              "raised1", "raised"}}

FloorZero(n) == IF n > 0 THEN n ELSE 0

-----------------------------------------------------------------------------
(* The state machine.                                                      *)

AllowedTransitions ==
    [none        |-> {"queued", "failed"},
     queued      |-> {"reserved", "processing", "failed"},
     reserved    |-> {"processing", "failed"},
     processing  |-> {"completed", "failed"},
     completed   |-> {"none"},
     failed      |-> {"compensated", "queued", "reserved"},
     compensated |-> {"none"}]

(* _reconcile_job_state: the state it leaves, or "inconsistent".           *)
Reconcile(current, expected, target) ==
    CASE current = target -> current
      [] current # target /\ current \in {expected, "queued"} ->
           IF target \in AllowedTransitions[current] THEN target ELSE "inconsistent"
      [] current # target /\ current \notin {expected, "queued"} ->
           CASE current = "processing" /\ target = "reserved" -> "processing"
             [] current = "completed" -> "completed"
             [] current = "failed" -> "queued"
             [] OTHER -> "inconsistent"

(* queued -> reserved -> processing, in one transaction.                   *)
StartState(seen) ==
    LET r == Reconcile(seen, "queued", "reserved") IN
    IF r = "inconsistent" THEN r ELSE Reconcile(r, "reserved", "processing")

(* processing -> completed; an inconsistent state is only logged.          *)
EndState(seen) ==
    LET r == Reconcile(seen, "processing", "completed") IN
    IF r = "inconsistent" THEN seen ELSE r

(* The UPDATE writes the column only when the loaded object changed.       *)
Stored(seen, new) == IF new = seen THEN state ELSE new

-----------------------------------------------------------------------------
(* POST /process-job loads the job; rate limits, the daily budget and the  *)
(* like may end it.  Then transition_job_state locks the row, without      *)
(* loading it again, and the message is sent, then comes the commit.       *)

LoadJob ==
    /\ request.pc = "idle"
    /\ faults < MaxFaults
    /\ faults' = faults + 1
    /\ request' = [pc |-> "loaded", seen |-> state]
    /\ UNCHANGED <<state, task, lock, output, reserved, charged>>

RefuseRequest ==
    /\ request.pc = "loaded"
    /\ request' = NoRequest
    /\ UNCHANGED <<state, task, lock, output, reserved, charged, faults>>

(* The row of the job is locked until the commit.                          *)
Requesting == request.pc = "sent"

Request(d) ==
    /\ request.pc = "loaded"
    /\ task[d].pc = "idle"
    /\ \A o \in Deliveries : task[o].pc # "commit"
    /\ request' = [request EXCEPT !.pc = "sent"]
    /\ task' = [task EXCEPT ![d].pc = "queued"]
    /\ UNCHANGED <<state, lock, output, reserved, charged, faults>>

(* transition_job_state decides on the state that was loaded first.  It is *)
(* not allowed or in its backoff time, which is ignored, or the commit     *)
(* fails: the message is out all the same.                                 *)
RequestDone ==
    /\ Requesting
    /\ request' = NoRequest
    /\ state' \in {state} \cup
         (IF "queued" \in AllowedTransitions[request.seen] THEN {"queued"} ELSE {})
    /\ UNCHANGED <<task, lock, output, reserved, charged, faults>>

-----------------------------------------------------------------------------
(* process_job_task, before phase 1: an invalid message, a retry storm or  *)
(* the feature flag end it.                                                *)
Drop(d) ==
    /\ task[d].pc = "queued"
    /\ task' = [task EXCEPT ![d].pc = "done"]
    /\ UNCHANGED <<state, lock, request, output, reserved, charged, faults>>

Load(d) ==
    /\ task[d].pc = "queued"
    /\ task' = [task EXCEPT ![d].pc = "loaded", ![d].seen = state]
    /\ UNCHANGED <<state, lock, request, output, reserved, charged, faults>>

(* The heartbeat key is written with the lock and lives for 30 s; the lock *)
(* lives for 300 s.                                                        *)
HeartbeatAlive == lock = "young"

ShortTTL == lock = "old"

(* A first attempt sets the key if it is absent.  A retry looks only at an *)
(* existing lock, and takes it over when its heartbeat key exists and its  *)
(* TTL is at most 30 s.                                                    *)
Acquires(d) ==
    IF task[d].retries = 0 THEN lock = "none" ELSE HeartbeatAlive /\ ShortTTL

(* Without the lock _phase1_pre_ai returns a tuple whose first element is  *)
(* None; _run tests the tuple itself and goes on to phase 2.  A Redis      *)
(* error is raised.                                                        *)
AcquireLock(d) ==
    /\ task[d].pc = "loaded"
    /\ \/ /\ Acquires(d)
          /\ lock' = "young"
          /\ task' = [task EXCEPT ![d].pc = "body", ![d].locked = TRUE]
       \/ /\ ~ Acquires(d)
          /\ task' = [task EXCEPT ![d].pc = "gateway"]
          /\ UNCHANGED lock
       \/ /\ task' = [task EXCEPT ![d].pc = "raised1"]
          /\ UNCHANGED lock
    /\ UNCHANGED <<state, request, output, reserved, charged, faults>>

(* The rest of phase 1: state transitions, reservation and commit.  When   *)
(* the quota is exhausted the tuple's first element is a dict: nothing is  *)
(* committed and phase 2 runs.                                             *)
Reserve(d) ==
    /\ task[d].pc = "body"
    /\ ~ Requesting
    /\ \/ /\ StartState(task[d].seen) = "inconsistent"
          /\ task' = [task EXCEPT ![d].pc = "raised1"]
          /\ UNCHANGED <<state, reserved>>
       \/ /\ StartState(task[d].seen) # "inconsistent"
          /\ state' = Stored(task[d].seen, StartState(task[d].seen))
          /\ reserved' = reserved + 1
          /\ task' = [task EXCEPT ![d].pc = "gateway", ![d].own = 1]
       \/ /\ StartState(task[d].seen) # "inconsistent"
          /\ task' = [task EXCEPT ![d].pc = "gateway"]
          /\ UNCHANGED <<state, reserved>>
    /\ UNCHANGED <<lock, request, output, charged, faults>>

-----------------------------------------------------------------------------
(* _release_reservation_with_retry: after three failed attempts a credit   *)
(* is granted instead, on used_acu, and the reservation stays.             *)
Released(d) == {FloorZero(reserved - task[d].own), reserved}

(* Phase 2: an output; none that can be used, on which the reservation is  *)
(* released and a NON_RECOVERABLE error raised; or another error.          *)
Gateway(d) ==
    /\ task[d].pc = "gateway"
    /\ \/ /\ task' = [task EXCEPT ![d].pc = "store"]
          /\ UNCHANGED reserved
       \/ /\ task' = [task EXCEPT ![d].pc = "raised", ![d].fatal = TRUE]
          /\ reserved' \in Released(d)
       \/ /\ task' = [task EXCEPT ![d].pc = "raised"]
          /\ UNCHANGED reserved
    /\ UNCHANGED <<state, lock, request, output, charged, faults>>

-----------------------------------------------------------------------------
(* Phase 3.  The INSERT of the output waits for a concurrent one; the lock *)
(* is deleted before the commit, whoever holds it.                         *)

Reload(d) ==
    /\ task[d].pc = "store"
    /\ task' = [task EXCEPT ![d].pc = "insert", ![d].seen = state]
    /\ UNCHANGED <<state, lock, request, output, reserved, charged, faults>>

Unlock(d) ==
    /\ task[d].pc = "insert"
    /\ \A o \in Deliveries : task[o].pc # "commit"
    /\ ~ Requesting
    /\ lock' = "none"
    /\ task' = [task EXCEPT ![d].pc = "commit"]
    /\ UNCHANGED <<state, request, output, reserved, charged, faults>>

(* reconcile_cost charges a job once, and only while the account covers    *)
(* the reservation; its errors are swallowed.                              *)
Charges(d) == charged = 0 /\ reserved >= task[d].own

StoreOutput(d) ==
    /\ task[d].pc = "commit"
    /\ task' = [task EXCEPT ![d].pc = "done"]
    /\ output' = TRUE
    /\ state' = Stored(task[d].seen, EndState(task[d].seen))
    /\ IF Charges(d)
       THEN charged' = charged + 1 /\ reserved' = reserved - task[d].own
       ELSE UNCHANGED <<charged, reserved>>
    /\ UNCHANGED <<lock, request, faults>>

(* The commit, or any statement of phase 3, fails.                         *)
StoreFails(d) ==
    /\ task[d].pc \in {"insert", "commit"}
    /\ task' = [task EXCEPT ![d].pc = "raised"]
    /\ UNCHANGED <<state, lock, request, output, reserved, charged, faults>>

-----------------------------------------------------------------------------
(* The except clauses.  The variables of _run that hold the lock and the   *)
(* reservation are set only once phase 1 has returned.                     *)

(* Mutant: a retry does not count.                                         *)
Retried_NoCount(d) == [NoTask EXCEPT !.pc = "queued", !.retries = task[d].retries]

Retried(d) == [NoTask EXCEPT !.pc = "queued", !.retries = task[d].retries + 1]

(* Mutant: the session of the compensation commits.                        *)
Compensated_Commits(d) == output /\ task[d].retries >= MaxRetries

(* _compensate_failed_job, before the last retry, deletes the outputs whose*)
(* confidence is low, in a session that is closed without a commit.        *)
Compensated(d) == output

Fail(d) ==
    /\ task[d].pc \in {"raised1", "raised"}
    /\ IF task[d].pc = "raised"
       THEN lock' = "none" /\ reserved' \in Released(d)
       ELSE UNCHANGED <<lock, reserved>>
    /\ output' = Compensated(d)
    /\ task' = [task EXCEPT ![d] =
                  IF task[d].fatal \/ task[d].retries >= MaxRetries
                  THEN [NoTask EXCEPT !.pc = "dlq", !.retries = task[d].retries]
                  ELSE Retried(d)]
    /\ UNCHANGED <<state, request, charged, faults>>

-----------------------------------------------------------------------------
(* The environment.                                                        *)

(* The worker dies; the message goes back to the queue.                    *)
Crash(d) ==
    /\ d \in Running
    /\ faults < MaxFaults
    /\ faults' = faults + 1
    /\ task' = [task EXCEPT ![d] = [NoTask EXCEPT !.pc = "queued", !.retries = task[d].retries]]
    /\ UNCHANGED <<state, lock, request, output, reserved, charged>>

(* The visibility timeout of the broker passes while a worker still runs.  *)
Redeliver(d, o) ==
    /\ d \in Running
    /\ task[o].pc = "idle"
    /\ task' = [task EXCEPT ![o].pc = "queued", ![o].retries = task[d].retries]
    /\ UNCHANGED <<state, lock, request, output, reserved, charged, faults>>

(* After 30 s the heartbeat key expires, after 270 s the TTL is below 30 s,*)
(* after 300 s the lock is gone.                                           *)
Age ==
    /\ lock # "none"
    /\ lock' = CASE lock = "young" -> "mid" [] lock = "mid" -> "old" [] lock = "old" -> "none"
    /\ UNCHANGED <<state, task, request, output, reserved, charged, faults>>

(* cleanup_stale_jobs: a job that has been queued, reserved or processing  *)
(* too long and whose row is not locked fails, and the whole reserved_acu  *)
(* is released.                                                            *)
Cleanup ==
    /\ state \in {"queued", "reserved", "processing"}
    /\ ~ Requesting
    /\ \A d \in Deliveries : task[d].pc # "commit"
    /\ faults < MaxFaults
    /\ faults' = faults + 1
    /\ state' = "failed"
    /\ reserved' = 0
    /\ UNCHANGED <<task, lock, request, output, charged>>

(* recover_orphaned_outputs: a job that is processing and has an output,   *)
(* of whichever run, is completed unless its row is locked; a reserved job *)
(* may not be completed, so nothing comes of it.                           *)
RecoverOrphanedOutputs ==
    /\ output
    /\ "completed" \in AllowedTransitions[state]
    /\ ~ Requesting
    /\ \A d \in Deliveries : task[d].pc # "commit"
    /\ state' = "completed"
    /\ UNCHANGED <<task, lock, request, output, reserved, charged, faults>>

(* POST /dlq/replay: a dead-lettered job that has failed meanwhile is sent *)
(* again; TaskRuntime has the counting.                                    *)
Replay(o) ==
    /\ task[o].pc = "idle"
    /\ \E d \in Deliveries : task[d].pc = "dlq"
    /\ state \in {"failed", "reserved"}
    /\ faults < MaxFaults
    /\ faults' = faults + 1
    /\ task' = [task EXCEPT ![o].pc = "queued"]
    /\ UNCHANGED <<state, lock, request, output, reserved, charged>>

-----------------------------------------------------------------------------
Work(d) ==
    \/ Load(d) \/ AcquireLock(d) \/ Reserve(d) \/ Gateway(d)
    \/ Reload(d) \/ Unlock(d) \/ StoreOutput(d) \/ StoreFails(d) \/ Fail(d)

Next ==
    \/ \E d \in Deliveries : Request(d) \/ Drop(d) \/ Work(d) \/ Crash(d) \/ Replay(d)
    \/ \E d, o \in Deliveries : Redeliver(d, o)
    \/ LoadJob \/ RefuseRequest \/ RequestDone
    \/ Age
    \/ Cleanup
    \/ RecoverOrphanedOutputs

(* Workers keep taking messages and finish their steps; the API request    *)
(* ends.                                                                   *)
Fairness ==
    /\ \A d \in Deliveries : WF_vars(Work(d))
    /\ WF_vars(RequestDone)

Spec == Init /\ [][Next]_vars

FairSpec == Spec /\ Fairness

-----------------------------------------------------------------------------
(* GET /output: decided by the stored row, whatever the state of the job.  *)
AIOutputStatus == IF output THEN "complete" ELSE "pending"

(* Nothing is charged, and no job is completed, without an output that its *)
(* user can read.                                                          *)
OutputBacksCharge == (charged > 0 \/ state = "completed") => AIOutputStatus = "complete"

(* Every message is acknowledged in the end, or moved to the dead-letter   *)
(* queue: no delivery is retried for ever.                                 *)
MessagesSettle ==
    \A d \in Deliveries : task[d].pc = "queued" ~> task[d].pc \in {"done", "dlq"}

=============================================================================
