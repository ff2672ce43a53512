------------------------- MODULE TaskRuntimeProofs -------------------------
(***************************************************************************)
(* TaskRuntime for any number of workers, messages, administrators and     *)
(* dead letters, any limits, and every task of the schedule.               *)
(*                                                                         *)
(* A step concerns one message (BeatStep, QueueStep), all of them (Tick)   *)
(* or none (Elsewhere), and a worker holds one message (Staffed); what a   *)
(* step does to its message is said once (BeatMoves, QueueMoves).  On this *)
(* rest four arguments:                                                    *)
(*                                                                         *)
(* Replays are counted from a row read without a lock.  What was read      *)
(* stays backed by what was sent, since sent only grows (Reading,          *)
(* RowsCounted).                                                           *)
(*                                                                         *)
(* The counters lag behind the workers that have read them (Crew).  Those  *)
(* are no more than there are workers, whatever the number of messages.    *)
(*                                                                         *)
(* A beat lock covers what is left of the run it was taken for, if it is   *)
(* longer than the time limit (LockCovers).  The lock of                   *)
(* recover_orphaned_outputs is not: its message expires, and its run ends, *)
(* long before the schedule sends the next (OneRecovery).                  *)
(*                                                                         *)
(* A day without a purge is paid for by a fault, or by a lock that was     *)
(* taken in the period before (PurgePace).                                 *)
(***************************************************************************)
EXTENDS TaskRuntime, FiniteSetTheorems, TLAPS

Steps == {"idle", "queued", "working", "guard", "guarded", "poison", "poisoned", "write", "done"}

Message == [pc : Steps, retries : Nat, again : BOOLEAN, age : Nat, ran : Nat,
            at : Workers \union {NoWorker}]

Row == [count : Int, initial : Nat, sent : Nat]

Replay == [pc : {"idle", "dispatch", "commit"}, row : Rows \union {CHOOSE r \in Rows : TRUE}, seen : Nat]

RuntimeTypes ==
    /\ kind \in BeatTasks \union QueueTasks
    /\ redis \in BOOLEAN /\ outages \in Nat /\ (outages = 0 => redis)
    /\ faults \in 0..MaxFaults
    /\ msg \in [Messages -> Message]
    /\ lock \in Nat /\ local \in [Workers -> Nat] /\ due \in Nat /\ window \in Nat
    /\ guard \in [count : Nat, local : [Workers -> Nat], passed : Nat]
    /\ poison \in [count : Nat, written : Nat]
    /\ rows \in [Rows -> Row]
    /\ replay \in [Admins -> Replay]

-----------------------------------------------------------------------------
(* The tasks.                                                              *)

BeatRecord == [ttl : Nat, period : Nat, expires : Nat, limit : Nat, retries : Nat, acksLate : BOOLEAN]

LEMMA BeatTaskIs ==
  /\ BeatTask["cleanup_stale_reservations_task"] = cleanup_stale_reservations_task
  /\ BeatTask["alert_stuck_jobs"] = alert_stuck_jobs
  /\ BeatTask["cleanup_stale_jobs"] = cleanup_stale_jobs
  /\ BeatTask["scan_for_stalled_ai_jobs"] = scan_for_stalled_ai_jobs
  /\ BeatTask["detect_dropped_tasks"] = detect_dropped_tasks
  /\ BeatTask["detect_worker_crash_loops"] = detect_worker_crash_loops
  /\ BeatTask["decay_risk_scores_task"] = decay_risk_scores_task
  /\ BeatTask["recover_orphaned_outputs"] = recover_orphaned_outputs
  /\ BeatTask["purge_soft_deleted_records"] = purge_soft_deleted_records
  /\ BeatTask["cleanup_old_estimates"] = cleanup_old_estimates
  /\ BeatTask["purge_expired_dlq_entries"] = purge_expired_dlq_entries
  /\ BeatTask["reset_billing_quotas"] = reset_billing_quotas
  BY Zenon DEF BeatTask

(* A task that is over before its lock expires.                            *)
Covered(t) == t.ttl > t.limit

LEMMA CoveredTasks ==
  /\ cleanup_stale_reservations_task \in BeatRecord /\ Covered(cleanup_stale_reservations_task)
  /\ alert_stuck_jobs \in BeatRecord /\ Covered(alert_stuck_jobs)
  /\ scan_for_stalled_ai_jobs \in BeatRecord /\ Covered(scan_for_stalled_ai_jobs)
  /\ detect_dropped_tasks \in BeatRecord /\ Covered(detect_dropped_tasks)
  /\ detect_worker_crash_loops \in BeatRecord /\ Covered(detect_worker_crash_loops)
  /\ decay_risk_scores_task \in BeatRecord /\ Covered(decay_risk_scores_task)
  /\ purge_soft_deleted_records \in BeatRecord /\ Covered(purge_soft_deleted_records)
  /\ cleanup_old_estimates \in BeatRecord /\ Covered(cleanup_old_estimates)
  /\ purge_expired_dlq_entries \in BeatRecord /\ Covered(purge_expired_dlq_entries)
  /\ reset_billing_quotas \in BeatRecord /\ Covered(reset_billing_quotas)
  /\ cleanup_stale_jobs \in BeatRecord
  /\ recover_orphaned_outputs \in BeatRecord
  BY DEF Beat, BeatRecord, Covered, cleanup_stale_reservations_task, alert_stuck_jobs, cleanup_stale_jobs,
         scan_for_stalled_ai_jobs, detect_dropped_tasks, detect_worker_crash_loops,
         decay_risk_scores_task, recover_orphaned_outputs, purge_soft_deleted_records,
         cleanup_old_estimates, purge_expired_dlq_entries, reset_billing_quotas

(* Every task of the schedule but two is over before its lock expires.     *)
LEMMA BeatTaskFacts ==
  ASSUME NEW k \in BeatTasks
  PROVE  /\ BeatTask[k] \in BeatRecord
         /\ k = "cleanup_stale_jobs" \/ k = "recover_orphaned_outputs" \/ Covered(BeatTask[k])
  BY BeatTaskIs, CoveredTasks, Zenon DEF BeatTasks

LEMMA TheTask ==
  ASSUME RuntimeTypes, IsBeat
  PROVE  /\ T \in BeatRecord
         /\ kind = "cleanup_stale_jobs" \/ kind = "recover_orphaned_outputs" \/ Covered(T)
  <1>1. kind \in BeatTasks
    BY Zenon DEF RuntimeTypes, IsBeat
  <1> QED
    BY <1>1, BeatTaskFacts, Zenon DEF T

-----------------------------------------------------------------------------
(* Types.                                                                  *)

LEMMA NoMsgType == NoMsg \in Message
  <1>1. 0 \in Nat /\ "idle" \in Steps /\ FALSE \in BOOLEAN /\ NoWorker \in Workers \union {NoWorker}
    BY DEF Steps
  <1> QED
    BY <1>1, Zenon DEF NoMsg, Message

LEMMA RowTypes ==
  /\ NoRow \in Row /\ NoRow.count = -1
  /\ GoneRow \in Row /\ GoneRow.count = -2
  <1>1. NoRow \in Row /\ NoRow.count = -1
    BY DEF NoRow, Row
  <1>2. -2 \in Int
    OBVIOUS
  <1> QED
    BY <1>1, <1>2 DEF GoneRow, Row

LEMMA NoReplayType == NoReplay \in Replay /\ NoReplay.pc = "idle"
  <1>1. 0 \in Nat
    OBVIOUS
  <1> QED
    BY <1>1, Zenon DEF NoReplay, Replay

(* A message goes on, from where it is or taken up by worker w.            *)
LEMMA MovedType ==
  ASSUME NEW x \in Message, NEW p \in Steps, NEW w \in Workers \union {NoWorker}
  PROVE  /\ [x EXCEPT !.pc = p] \in Message
         /\ [x EXCEPT !.pc = p, !.at = w] \in Message
         /\ [x EXCEPT !.pc = p, !.ran = 0, !.at = w] \in Message
         /\ [x EXCEPT !.pc = p, !.again = TRUE, !.at = w, !.ran = 0] \in Message
  <1>1. 0 \in Nat /\ TRUE \in BOOLEAN
    OBVIOUS
  <1> QED
    BY <1>1, Zenon DEF Message

LEMMA RetryType ==
  ASSUME RuntimeTypes, NEW m \in Messages
  PROVE  /\ Retry(m) \in Message /\ Retry(m).pc = "queued" /\ Retry(m).at = NoWorker
         /\ Retry(m).retries = msg[m].retries + 1 /\ Retry(m).age = msg[m].age
  <1>1. PICK x \in Message : x = msg[m]
    BY DEF RuntimeTypes
  <1>2. PICK n \in Nat : n = x.retries + 1
    BY DEF Message
  <1>3. "queued" \in Steps /\ NoWorker \in Workers \union {NoWorker} /\ 0 \in Nat
    BY DEF Steps
  <1>4. Retry(m) = [x EXCEPT !.pc = "queued", !.retries = n, !.at = NoWorker, !.ran = 0]
    BY <1>1, <1>2, Zenon DEF Retry
  <1>5. [x EXCEPT !.pc = "queued", !.retries = n, !.at = NoWorker, !.ran = 0] \in Message
    BY <1>3, Zenon DEF Message
  <1> QED
    BY <1>1, <1>2, <1>4, <1>5 DEF Message

LEMMA DoneType == ASSUME NEW m PROVE Done(m) \in Message /\ Done(m).pc = "done" /\ Done(m).at = NoWorker
  <1>1. "done" \in Steps
    BY DEF Steps
  <1>2. NoMsg.at = NoWorker
    BY DEF NoMsg
  <1> QED
    BY <1>1, <1>2, NoMsgType, Zenon DEF Done, Message

LEMMA OlderType ==
  ASSUME RuntimeTypes, IsBeat, NEW x \in Message
  PROVE  /\ Older(x) \in Message /\ Older(x).pc = x.pc /\ Older(x).at = x.at
         /\ Older(x).retries = x.retries /\ Older(x).again = x.again
         /\ x.pc = "working" => Older(x).ran = x.ran + 1
         /\ x.pc \in {"queued", "working"} => Older(x).age = Least(x.age + 1, T.expires)
         /\ x.pc \notin {"queued", "working"} => Older(x) = x
  <1>1. T.expires \in Nat
    BY TheTask DEF BeatRecord
  <1>2. x.age \in Nat /\ x.ran \in Nat
    BY DEF Message
  <1>3. PICK n \in Nat : n = Least(x.age + 1, T.expires)
    BY <1>1, <1>2 DEF Least
  <1>4. PICK k \in Nat : k = x.ran + 1
    BY <1>2
  <1>5. CASE x.pc = "queued"
    <2>1. Older(x) = [x EXCEPT !.age = n]
      BY <1>3, <1>5, Zenon DEF Older
    <2> QED
      BY <1>3, <1>5, <2>1 DEF Message
  <1>6. CASE x.pc = "working"
    <2>1. Older(x) = [x EXCEPT !.age = n, !.ran = k]
      BY <1>3, <1>4, <1>6 DEF Older
    <2>2. [x EXCEPT !.age = n, !.ran = k] \in Message
      BY Zenon DEF Message
    <2> QED
      BY <1>3, <1>4, <1>6, <2>1, <2>2 DEF Message
  <1>7. CASE x.pc \notin {"queued", "working"}
    BY <1>7 DEF Older
  <1> QED
    BY <1>5, <1>6, <1>7

LEMMA RuntimeInitTypes == Init => RuntimeTypes
  <1> SUFFICES ASSUME Init PROVE RuntimeTypes
    OBVIOUS
  <1>1. kind \in BeatTasks \union QueueTasks
    BY KindsAssumption DEF KindsAssumption, Init
  <1>2. msg \in [Messages -> Message] /\ rows \in [Rows -> Row]
    BY NoMsgType, RowTypes DEF Init
  <1>3. faults \in 0..MaxFaults
    BY RuntimeAssumption DEF RuntimeAssumption, Init
  <1>4. replay \in [Admins -> Replay]
    BY NoReplayType DEF Init
  <1> QED
    BY <1>1, <1>2, <1>3, <1>4 DEF Init, RuntimeTypes

-----------------------------------------------------------------------------
(* A worker process runs one message at a time.                            *)

Off == {"idle", "queued", "done"}

Staffed ==
    /\ \A m \in Messages : msg[m].pc \in Off <=> msg[m].at = NoWorker
    /\ \A m, n \in Messages : msg[m].at = msg[n].at /\ msg[m].at # NoWorker => m = n

(* The ways a message may change: it leaves its worker, a free worker      *)
(* takes it up, or the same worker goes on with it.                        *)
Parked(x) == x.pc \in Off /\ x.at = NoWorker
TakenUp(x) == x.pc \notin Off /\ x.at \in Workers /\ Free(x.at)
GoesOn(x, old) == x.pc \notin Off /\ old.pc \notin Off /\ x.at = old.at

LEMMA StaffedStep ==
  ASSUME RuntimeTypes, Staffed, NEW m \in Messages, NEW x \in Message,
         msg' = [msg EXCEPT ![m] = x],
         Parked(x) \/ TakenUp(x) \/ GoesOn(x, msg[m])
  PROVE  Staffed' /\ msg' \in [Messages -> Message]
  <1>1. msg \in [Messages -> Message] /\ NoWorker \notin Workers
    BY RuntimeAssumption DEF RuntimeTypes, RuntimeAssumption
  <1>2. \A n \in Messages : msg'[n] = IF n = m THEN x ELSE msg[n]
    BY <1>1
  <1>3. msg' \in [Messages -> Message]
    BY <1>1
  <1>4. x.pc \in Off <=> x.at = NoWorker
    BY <1>1 DEF Parked, TakenUp, GoesOn, Staffed
  <1>5. x.at # NoWorker => \A n \in Messages : n # m => msg[n].at # x.at
    BY <1>1 DEF Parked, TakenUp, GoesOn, Staffed, Free
  <1>6. (\A n \in Messages : msg[n].pc \in Off <=> msg[n].at = NoWorker)'
    BY <1>2, <1>4 DEF Staffed
  <1>7. (\A n, k \in Messages : msg[n].at = msg[k].at /\ msg[n].at # NoWorker => n = k)'
    BY <1>2, <1>5 DEF Staffed
  <1> QED
    BY <1>3, <1>6, <1>7 DEF Staffed

(* What the actions do to the message they are about.                      *)
BeatStep(m, w) ==
    \/ Dispatch(m) \/ Revoke(m) \/ Complete(m) \/ Error(m) \/ WorkerLost(m)
    \/ w \in Workers /\ (Execute(m, w) \/ Skip(m, w) \/ LockUnreachable(m, w))

LEMMA BeatMoves ==
  ASSUME RuntimeTypes, Staffed, NEW m \in Messages, NEW w, BeatStep(m, w)
  PROVE  \E x \in Message :
           /\ msg' = [msg EXCEPT ![m] = x]
           /\ \/ Parked(x) /\ x.pc \in {"idle", "queued"}
              \/ TakenUp(x) /\ x.pc = "working" /\ Execute(m, w) /\ x.ran = 0 /\ x.age = msg[m].age
  <1>1. PICK y \in Message : y = msg[m]
    BY DEF RuntimeTypes
  <1>2. {"queued", "working"} \subseteq Steps /\ NoWorker \in Workers \union {NoWorker}
    BY DEF Steps
  <1>3. NoMsg \in Message /\ Parked(NoMsg) /\ NoMsg.pc = "idle"
    BY NoMsgType DEF NoMsg, Parked, Off
  <1>4. Retry(m) \in Message /\ Parked(Retry(m)) /\ Retry(m).pc = "queued"
    BY RetryType DEF Parked, Off
  <1>5. CASE Dispatch(m)
    <2>1. msg' = [msg EXCEPT ![m] = [NoMsg EXCEPT !.pc = "queued"]]
      BY <1>5, Zenon DEF Dispatch
    <2>2. PICK x \in Message : x = [NoMsg EXCEPT !.pc = "queued"]
      BY <1>2, <1>3, MovedType
    <2>3. x.pc = "queued" /\ x.at = NoWorker
      BY <1>3, <2>2 DEF Message, Parked
    <2> QED
      BY <2>1, <2>2, <2>3 DEF Parked, Off
  <1>6. CASE Revoke(m) \/ Complete(m) \/ Skip(m, w)
    <2>1. msg' = [msg EXCEPT ![m] = NoMsg]
      BY <1>6, Zenon DEF Revoke, Complete, Skip
    <2> QED
      BY <1>3, <2>1
  <1>7. CASE Error(m)
    <2>1. PICK x \in Outcomes(m) : msg' = [msg EXCEPT ![m] = x]
      BY <1>7, Zenon DEF Error
    <2>2. x = NoMsg \/ x = Retry(m)
      BY <2>1 DEF Outcomes
    <2> QED
      BY <1>3, <1>4, <2>1, <2>2
  <1>8. CASE LockUnreachable(m, w)
    <2>1. msg' = [msg EXCEPT ![m] = NoMsg] \/ msg' = [msg EXCEPT ![m] = Retry(m)]
      BY <1>8 DEF LockUnreachable
    <2> QED
      BY <1>3, <1>4, <2>1
  <1>9. CASE WorkerLost(m)
    <2>1. PICK x \in Message : x = [y EXCEPT !.pc = "queued", !.again = TRUE, !.at = NoWorker, !.ran = 0]
      BY <1>2, MovedType
    <2>2. x.pc = "queued" /\ x.at = NoWorker
      BY <2>1 DEF Message
    <2>3. msg' = [msg EXCEPT ![m] = x] \/ msg' = [msg EXCEPT ![m] = NoMsg]
      BY <1>1, <1>9, <2>1 DEF WorkerLost
    <2> QED
      BY <1>3, <2>2, <2>3 DEF Parked, Off
  <1>10. CASE w \in Workers /\ Execute(m, w)
    <2>1. PICK x \in Message : x = [y EXCEPT !.pc = "working", !.ran = 0, !.at = w]
      BY <1>2, <1>10, MovedType
    <2>2. x.pc = "working" /\ x.at = w /\ x.ran = 0 /\ x.age = msg[m].age
      BY <1>1, <2>1 DEF Message
    <2>3. msg' = [msg EXCEPT ![m].pc = "working", ![m].ran = 0, ![m].at = w] /\ Free(w)
      BY <1>10, Zenon DEF Execute
    <2>4. msg' = [msg EXCEPT ![m] = x]
      BY <1>1, <2>1, <2>3 DEF RuntimeTypes
    <2> QED
      BY <1>10, <2>2, <2>3, <2>4 DEF TakenUp, Off
  <1> QED
    BY <1>5, <1>6, <1>7, <1>8, <1>9, <1>10 DEF BeatStep

(* Why a message of a queue task came to x, for the counters.              *)
Reasons(m, x) ==
    /\ x.pc = "guarded" => GuardGet(m) /\ guard.count < GuardLimit
    /\ x.pc = "poisoned" => PoisonGet(m) /\ poison.count < PoisonLimit
    /\ x.pc = "write" => ~ HasJob \/ ~ redis \/ PoisonIncr(m)
    /\ \/ x.retries = 0 \/ x.retries = msg[m].retries
       \/ msg[m].retries < MaxRetries /\ x.retries = msg[m].retries + 1

QueueStep(m, w, a) ==
    \/ Send(m) \/ GuardGet(m) \/ GuardIncr(m) \/ Succeed(m) \/ Raise(m) \/ PoisonGet(m)
    \/ PoisonIncr(m) \/ WriteDeadLetter(m)
    \/ w \in Workers /\ (Start(m, w) \/ Reject(m, w))
    \/ a \in Admins /\ ReplayDispatch(a, m)

LEMMA QueueMoves ==
  ASSUME RuntimeTypes, Staffed, NEW m \in Messages, NEW w, NEW a, QueueStep(m, w, a)
  PROVE  \E x \in Message :
           /\ msg' = [msg EXCEPT ![m] = x]
           /\ Parked(x) \/ TakenUp(x) \/ GoesOn(x, msg[m])
           /\ Reasons(m, x)
  <1>1. PICK y \in Message : y = msg[m]
    BY DEF RuntimeTypes
  <1>2. msg \in [Messages -> Message]
    BY DEF RuntimeTypes
  <1>3. /\ Done(m) \in Message /\ Parked(Done(m)) /\ Done(m).pc = "done" /\ Done(m).retries = 0
    BY DoneType, Zenon DEF Parked, Off, Done, NoMsg
  <1>4. ASSUME msg' = [msg EXCEPT ![m] = Done(m)]
        PROVE  \E x \in Message :
                 /\ msg' = [msg EXCEPT ![m] = x]
                 /\ Parked(x) \/ TakenUp(x) \/ GoesOn(x, msg[m])
                 /\ Reasons(m, x)
    <2>1. Reasons(m, Done(m))
      BY <1>3 DEF Reasons
    <2> QED
      BY <1>3, <1>4, <2>1
  <1>5. ASSUME NEW p \in Steps, msg' = [msg EXCEPT ![m].pc = p], p \notin Off, y.pc \notin Off,
               /\ p = "guarded" => GuardGet(m) /\ guard.count < GuardLimit
               /\ p = "poisoned" => PoisonGet(m) /\ poison.count < PoisonLimit
               /\ p = "write" => ~ HasJob \/ ~ redis \/ PoisonIncr(m)
        PROVE  \E x \in Message :
                 /\ msg' = [msg EXCEPT ![m] = x]
                 /\ Parked(x) \/ TakenUp(x) \/ GoesOn(x, msg[m])
                 /\ Reasons(m, x)
    <2>1. PICK x \in Message : x = [y EXCEPT !.pc = p]
      BY MovedType
    <2>2. x.pc = p /\ x.at = y.at /\ x.retries = y.retries
      BY <2>1 DEF Message
    <2>3. msg' = [msg EXCEPT ![m] = x]
      BY <1>1, <1>2, <1>5, <2>1
    <2>4. GoesOn(x, msg[m])
      BY <1>1, <1>5, <2>2 DEF GoesOn
    <2>5. Reasons(m, x)
      BY <1>1, <1>5, <2>2, Zenon DEF Reasons
    <2> QED
      BY <2>3, <2>4, <2>5
  <1>6. ASSUME NEW p \in {"guard", "working", "poison"}, w \in Workers, Free(w),
               msg' = [msg EXCEPT ![m].pc = p, ![m].at = w]
        PROVE  \E x \in Message :
                 /\ msg' = [msg EXCEPT ![m] = x]
                 /\ Parked(x) \/ TakenUp(x) \/ GoesOn(x, msg[m])
                 /\ Reasons(m, x)
    <2>1. p \in Steps /\ p \notin Off
      BY <1>6 DEF Steps, Off
    <2>2. PICK x \in Message : x = [y EXCEPT !.pc = p, !.at = w]
      BY <1>6, <2>1, MovedType
    <2>3. x.pc = p /\ x.at = w /\ x.retries = y.retries
      BY <2>2 DEF Message
    <2>4. msg' = [msg EXCEPT ![m] = x]
      BY <1>1, <1>2, <1>6, <2>2
    <2>5. TakenUp(x)
      BY <1>6, <2>1, <2>3 DEF TakenUp
    <2>6. Reasons(m, x)
      BY <1>1, <1>6, <2>3 DEF Reasons
    <2> QED
      BY <2>4, <2>5, <2>6
  <1>7. CASE Send(m) \/ ReplayDispatch(a, m)
    <2>1. msg' = [msg EXCEPT ![m].pc = "queued"] /\ y.pc = "idle"
      BY <1>1, <1>7, Zenon DEF Send, ReplayDispatch
    <2>2. "queued" \in Steps
      BY DEF Steps
    <2>3. PICK x \in Message : x = [y EXCEPT !.pc = "queued"]
      BY <2>2, MovedType
    <2>4. x.pc = "queued" /\ x.at = y.at /\ x.retries = y.retries
      BY <2>3 DEF Message
    <2>5. msg' = [msg EXCEPT ![m] = x]
      BY <1>1, <1>2, <2>1, <2>3
    <2>6. Parked(x)
      BY <1>1, <2>1, <2>4 DEF Parked, Staffed, Off
    <2>7. Reasons(m, x)
      BY <1>1, <2>4 DEF Reasons
    <2> QED
      BY <2>5, <2>6, <2>7
  <1>8. CASE w \in Workers /\ (Start(m, w) \/ Reject(m, w))
    <2>1. Free(w) /\ \E p \in {"guard", "working", "poison"} : msg' = [msg EXCEPT ![m].pc = p, ![m].at = w]
      BY <1>8 DEF Start, Reject
    <2> QED
      BY <1>6, <1>8, <2>1
  <1>9. CASE GuardGet(m) \/ GuardIncr(m)
    <2>1. y.pc \in {"guard", "guarded"}
      BY <1>1, <1>9 DEF GuardGet, GuardIncr
    <2>2. \/ msg' = [msg EXCEPT ![m] = Done(m)]
          \/ msg' = [msg EXCEPT ![m].pc = "working"]
          \/ GuardGet(m) /\ ~ (guard.count >= GuardLimit) /\ msg' = [msg EXCEPT ![m].pc = "guarded"]
      BY <1>9 DEF GuardGet, GuardIncr, CheckLocal
    <2>3. GuardLimit \in Nat /\ guard.count \in Nat
      BY RuntimeAssumption DEF RuntimeAssumption, RuntimeTypes
    <2>4. {"working", "guarded"} \subseteq Steps \ Off /\ y.pc \notin Off
      BY <2>1 DEF Steps, Off
    <2> QED
      BY <1>4, <1>5, <2>2, <2>3, <2>4
  <1>10. CASE Succeed(m) \/ WriteDeadLetter(m)
    <2>1. msg' = [msg EXCEPT ![m] = Done(m)]
      BY <1>10, Zenon DEF Succeed, WriteDeadLetter
    <2> QED
      BY <1>4, <2>1
  <1>11. CASE Raise(m)
    <2>1. y.pc = "working"
      BY <1>1, <1>11 DEF Raise, Working
    <2>2. CASE msg[m].retries < MaxRetries
      <3>1. msg' = [msg EXCEPT ![m] = Retry(m)]
        BY <1>11, <2>2 DEF Raise
      <3>2. PICK x \in Message : /\ x = Retry(m) /\ x.pc = "queued" /\ x.at = NoWorker
                                 /\ x.retries = msg[m].retries + 1
        BY RetryType
      <3>3. Parked(x) /\ Reasons(m, x)
        BY <2>2, <3>2 DEF Parked, Off, Reasons
      <3> QED
        BY <3>1, <3>2, <3>3
    <2>3. CASE ~ (msg[m].retries < MaxRetries)
      <3>1. \/ HasJob /\ msg' = [msg EXCEPT ![m].pc = "poison"]
            \/ ~ HasJob /\ msg' = [msg EXCEPT ![m].pc = "write"]
        BY <1>11, <2>3 DEF Raise
      <3>2. {"poison", "write"} \subseteq Steps \ Off /\ y.pc \notin Off
        BY <2>1 DEF Steps, Off
      <3> QED
        BY <1>5, <3>1, <3>2
    <2> QED
      BY <2>2, <2>3
  <1>12. CASE PoisonGet(m)
    <2>1. y.pc = "poison"
      BY <1>1, <1>12 DEF PoisonGet
    <2>2. \/ msg' = [msg EXCEPT ![m] = Done(m)]
          \/ ~ redis /\ msg' = [msg EXCEPT ![m].pc = "write"]
          \/ ~ (poison.count >= PoisonLimit) /\ msg' = [msg EXCEPT ![m].pc = "poisoned"]
      BY <1>12 DEF PoisonGet
    <2>3. PoisonLimit \in Nat /\ poison.count \in Nat
      BY RuntimeAssumption DEF RuntimeAssumption, RuntimeTypes
    <2>4. {"write", "poisoned"} \subseteq Steps \ Off /\ y.pc \notin Off
      BY <2>1 DEF Steps, Off
    <2> QED
      BY <1>4, <1>5, <1>12, <2>2, <2>3, <2>4
  <1>13. CASE PoisonIncr(m)
    <2>1. y.pc = "poisoned" /\ msg' = [msg EXCEPT ![m].pc = "write"]
      BY <1>1, <1>13, Zenon DEF PoisonIncr
    <2>2. "write" \in Steps \ Off /\ y.pc \notin Off
      BY <2>1 DEF Steps, Off
    <2> QED
      BY <1>5, <1>13, <2>1, <2>2
  <1> QED
    BY <1>7, <1>8, <1>9, <1>10, <1>11, <1>12, <1>13 DEF QueueStep

(* The steps that leave every message alone.                               *)
Elsewhere ==
    \/ LockExpires \/ GuardExpires \/ JobTimesOut \/ BrokerAges
    \/ \E r \in Rows : PurgeExpired(r)
    \/ \E a \in Admins, r \in Rows : ReplayRead(a, r)
    \/ \E a \in Admins : ReplayRefused(a) \/ ReplayCommit(a)
    \/ Outage \/ Recovery \/ UNCHANGED vars

LEMMA StepsOf ==
  ASSUME [Next]_vars
  PROVE  \/ Tick
         \/ \E m \in Messages : \E w : BeatStep(m, w)
         \/ \E m \in Messages : \E w, a : QueueStep(m, w, a)
         \/ Elsewhere
  <1>1. CASE BeatNext
    BY <1>1, Zenon DEF BeatNext, BeatStep, Elsewhere
  <1>2. CASE QueueNext
    <2>1. CASE \E m \in Messages : \/ Send(m) \/ GuardGet(m) \/ GuardIncr(m) \/ Succeed(m) \/ Raise(m)
                                   \/ PoisonGet(m) \/ PoisonIncr(m) \/ WriteDeadLetter(m)
      BY <2>1, Zenon DEF QueueStep
    <2>2. CASE \E m \in Messages, w \in Workers : Start(m, w) \/ Reject(m, w)
      BY <2>2, Zenon DEF QueueStep
    <2>3. CASE \E a \in Admins, m \in Messages : ReplayDispatch(a, m)
      BY <2>3, Zenon DEF QueueStep
    <2>4. CASE \/ GuardExpires \/ JobTimesOut \/ BrokerAges
               \/ \E r \in Rows : PurgeExpired(r)
               \/ \E a \in Admins, r \in Rows : ReplayRead(a, r)
               \/ \E a \in Admins : ReplayRefused(a) \/ ReplayCommit(a)
      BY <2>4, Zenon DEF Elsewhere
    <2> QED
      BY <1>2, <2>1, <2>2, <2>3, <2>4, Zenon DEF QueueNext
  <1>3. CASE Outage \/ Recovery \/ UNCHANGED vars
    BY <1>3, Zenon DEF Elsewhere
  <1> QED
    BY <1>1, <1>2, <1>3, Zenon DEF Next

LEMMA ElsewhereMsg == ASSUME Elsewhere PROVE msg' = msg
  BY DEF Elsewhere, LockExpires, GuardExpires, JobTimesOut, BrokerAges, PurgeExpired, ReplayRead,
         ReplayRefused, ReplayCommit, Outage, Recovery, vars

(* Messages of queue tasks are retried at most MaxRetries times.           *)
RetriesInLimit == ~ IsBeat => \A m \in Messages : msg[m].retries <= MaxRetries

(* No step changes the task a behaviour is about.                          *)
LEMMA KindStays == [Next]_vars => kind' = kind
  <1> SUFFICES ASSUME [Next]_vars PROVE kind' = kind
    OBVIOUS
  <1>1. ASSUME NEW m, NEW w, BeatStep(m, w) PROVE kind' = kind
    BY <1>1 DEF BeatStep, Dispatch, Revoke, Complete, Error, WorkerLost, Execute, Skip, LockUnreachable
  <1>2. ASSUME NEW m, NEW w, NEW a, QueueStep(m, w, a) PROVE kind' = kind
    BY <1>2 DEF QueueStep, Send, GuardGet, GuardIncr, Succeed, Raise, PoisonGet, PoisonIncr,
                WriteDeadLetter, Start, Reject, ReplayDispatch
  <1>3. CASE Elsewhere
    BY <1>3 DEF Elsewhere, LockExpires, GuardExpires, JobTimesOut, BrokerAges, PurgeExpired, ReplayRead,
         ReplayRefused, ReplayCommit, Outage, Recovery, vars
  <1>4. CASE Tick
    BY <1>4 DEF Tick
  <1> QED
    BY <1>1, <1>2, <1>3, <1>4, StepsOf

LEMMA TickStaffed ==
  ASSUME RuntimeTypes, Staffed, Tick
  PROVE  msg' \in [Messages -> Message] /\ Staffed'
  <1>1. IsBeat /\ msg' = [m \in Messages |-> Older(msg[m])]
    BY Zenon DEF Tick
  <1>2. \A m \in Messages : msg[m] \in Message
    BY DEF RuntimeTypes
  <1>3. \A m \in Messages : /\ msg'[m] \in Message /\ msg'[m].pc = msg[m].pc /\ msg'[m].at = msg[m].at
    BY <1>1, <1>2, OlderType
  <1> QED
    BY <1>1, <1>3 DEF Staffed

LEMMA StaffedStepInv ==
  ASSUME RuntimeTypes, Staffed, RetriesInLimit, [Next]_vars
  PROVE  msg' \in [Messages -> Message] /\ Staffed' /\ RetriesInLimit'
  <1>1. kind' = kind /\ (IsBeat' <=> IsBeat)
    BY KindStays DEF IsBeat
  <1>2. CASE Tick
    BY <1>1, <1>2, TickStaffed DEF RetriesInLimit, Tick
  <1>3. ASSUME NEW m \in Messages, NEW w, BeatStep(m, w)
        PROVE  msg' \in [Messages -> Message] /\ Staffed' /\ RetriesInLimit'
    <2>1. PICK x \in Message : /\ msg' = [msg EXCEPT ![m] = x]
                               /\ Parked(x) \/ TakenUp(x)
      BY <1>3, BeatMoves
    <2>2. IsBeat
      BY <1>3, Zenon DEF BeatStep, Dispatch, Revoke, Complete, Error, WorkerLost, Execute, Skip,
                         LockUnreachable
    <2> QED
      BY <1>1, <2>1, <2>2, StaffedStep DEF RetriesInLimit
  <1>4. ASSUME NEW m \in Messages, NEW w, NEW a, QueueStep(m, w, a)
        PROVE  msg' \in [Messages -> Message] /\ Staffed' /\ RetriesInLimit'
    <2>1. PICK x \in Message : /\ msg' = [msg EXCEPT ![m] = x]
                               /\ Parked(x) \/ TakenUp(x) \/ GoesOn(x, msg[m])
                               /\ Reasons(m, x)
      BY <1>4, QueueMoves
    <2>2. msg' \in [Messages -> Message] /\ Staffed'
      BY <2>1, StaffedStep
    <2>3. RetriesInLimit'
      <3> SUFFICES ASSUME ~ IsBeat, NEW n \in Messages PROVE msg'[n].retries <= MaxRetries
        BY <1>1 DEF RetriesInLimit
      <3>1. msg[n].retries \in Nat /\ msg[m].retries \in Nat /\ MaxRetries \in Nat
        BY RuntimeAssumption DEF RuntimeTypes, Message, RuntimeAssumption
      <3>2. msg[n].retries <= MaxRetries /\ msg[m].retries <= MaxRetries
        BY DEF RetriesInLimit
      <3>3. msg'[n] = IF n = m THEN x ELSE msg[n]
        BY <2>1 DEF RuntimeTypes
      <3>4. \/ x.retries = 0 \/ x.retries = msg[m].retries
            \/ msg[m].retries < MaxRetries /\ x.retries = msg[m].retries + 1
        BY <2>1, Zenon DEF Reasons
      <3> QED
        BY <3>1, <3>2, <3>3, <3>4
    <2> QED
      BY <2>2, <2>3
  <1>5. CASE Elsewhere
    <2>1. msg' = msg
      BY <1>5, ElsewhereMsg
    <2> QED
      BY <1>1, <2>1 DEF RuntimeTypes, Staffed, RetriesInLimit
  <1> QED
    BY <1>2, <1>3, <1>4, <1>5, StepsOf

(* The variables other than msg: which steps change them, and to what.     *)

LEMMA RedisStep ==
  ASSUME RuntimeTypes, [Next]_vars
  PROVE  /\ redis' \in BOOLEAN /\ outages' \in Nat
         /\ outages' = 0 => outages = 0 /\ redis'
         /\ ~ Outage /\ ~ Recovery => redis' = redis
  <1>1. outages \in Nat /\ redis \in BOOLEAN /\ (outages = 0 => redis)
    BY DEF RuntimeTypes
  <1>2. CASE Outage
    <2>1. redis' = FALSE /\ outages' = outages + 1
      BY <1>2, Zenon DEF Outage
    <2>2. outages' \in Nat /\ outages' # 0
      BY <1>1, <2>1
    <2> QED
      BY <1>2, <2>1, <2>2, Zenon
  <1>3. CASE Recovery
    <2>1. redis' = TRUE /\ outages' = outages
      BY <1>3 DEF Recovery
    <2> QED
      BY <1>1, <1>3, <2>1, Zenon
  <1>4. CASE ~ Outage /\ ~ Recovery
    <2>1. ASSUME NEW m, NEW w, BeatStep(m, w) PROVE <<redis, outages>>' = <<redis, outages>>
      BY <2>1 DEF BeatStep, Dispatch, Revoke, Complete, Error, WorkerLost, Execute, Skip, LockUnreachable
    <2>2. ASSUME NEW m, NEW w, NEW a, QueueStep(m, w, a) PROVE <<redis, outages>>' = <<redis, outages>>
      BY <2>2 DEF QueueStep, Send, GuardGet, GuardIncr, Succeed, Raise, PoisonGet, PoisonIncr,
                  WriteDeadLetter, Start, Reject, ReplayDispatch
    <2>3. ASSUME Elsewhere PROVE <<redis, outages>>' = <<redis, outages>>
      <3>1. \/ LockExpires \/ GuardExpires \/ JobTimesOut \/ BrokerAges
            \/ \E r \in Rows : PurgeExpired(r)
            \/ \E a \in Admins, r \in Rows : ReplayRead(a, r)
            \/ \E a \in Admins : ReplayRefused(a) \/ ReplayCommit(a)
            \/ UNCHANGED vars
        BY <1>4, <2>3, Zenon DEF Elsewhere
      <3> QED
        BY <3>1 DEF LockExpires, GuardExpires, JobTimesOut, BrokerAges, PurgeExpired,
                    ReplayRead, ReplayRefused, ReplayCommit, vars
    <2>4. ASSUME Tick PROVE <<redis, outages>>' = <<redis, outages>>
      BY <2>4 DEF Tick
    <2>5. <<redis, outages>>' = <<redis, outages>>
      BY <2>1, <2>2, <2>3, <2>4, StepsOf, Zenon
    <2>6. redis' = redis /\ outages' = outages
      BY <2>5
    <2> QED
      BY <1>1, <2>6, Zenon
  <1> QED
    BY <1>2, <1>3, <1>4, Zenon

(* The beat schedule and the locks.                                        *)
LEMMA BeatTypes ==
  ASSUME RuntimeTypes, Staffed, [Next]_vars
  PROVE  lock' \in Nat /\ local' \in [Workers -> Nat] /\ due' \in Nat /\ window' \in Nat
  <1>1. lock \in Nat /\ local \in [Workers -> Nat] /\ due \in Nat /\ window \in Nat
    BY DEF RuntimeTypes
  <1>2. \A n \in Nat : Floor(n) \in Nat
    BY DEF Floor
  <1>3. CASE Tick
    BY <1>1, <1>2, <1>3 DEF Tick
  <1>4. CASE LockExpires
    BY <1>1, <1>4 DEF LockExpires
  <1>5. ASSUME NEW m \in Messages, NEW w, BeatStep(m, w)
        PROVE  lock' \in Nat /\ local' \in [Workers -> Nat] /\ due' \in Nat /\ window' \in Nat
    <2>1. IsBeat
      BY <1>5, Zenon DEF BeatStep, Dispatch, Revoke, Complete, Error, WorkerLost, Execute, Skip,
                         LockUnreachable
    <2>2. T.period \in Nat /\ T.ttl + 1 \in Nat
      BY <2>1, TheTask DEF BeatRecord
    <2>3. CASE Dispatch(m)
      BY <1>1, <2>2, <2>3 DEF Dispatch
    <2>4. CASE Revoke(m) \/ Error(m) \/ Skip(m, w) \/ LockUnreachable(m, w)
      BY <1>1, <2>4 DEF Revoke, Error, Skip, LockUnreachable, beatVars
    <2>5. CASE Complete(m)
      BY <1>1, <2>5 DEF Complete
    <2>6. CASE WorkerLost(m)
      BY <1>1, <2>6 DEF WorkerLost
    <2>7. CASE Execute(m, w)
      <3>1. AcquireBeatLock(w) /\ UNCHANGED <<due, window>>
        BY <2>7, Zenon DEF Execute
      <3> QED
        BY <1>1, <2>2, <3>1 DEF AcquireBeatLock
    <2> QED
      BY <1>5, <2>3, <2>4, <2>5, <2>6, <2>7 DEF BeatStep
  <1>6. ASSUME NEW m, NEW w, NEW a, QueueStep(m, w, a) PROVE UNCHANGED beatVars
    BY <1>6 DEF QueueStep, Send, GuardGet, GuardIncr, Succeed, Raise, PoisonGet, PoisonIncr,
                WriteDeadLetter, Start, Reject, ReplayDispatch
  <1>7. CASE Elsewhere /\ ~ LockExpires
    <2>1. UNCHANGED beatVars
      BY <1>7 DEF Elsewhere, GuardExpires, JobTimesOut, BrokerAges, PurgeExpired,
                  ReplayRead, ReplayRefused, ReplayCommit, Outage, Recovery, vars
    <2> QED
      BY <1>1, <2>1 DEF beatVars
  <1> QED
    BY <1>1, <1>3, <1>4, <1>5, <1>6, <1>7, StepsOf DEF beatVars

(* Errors and crashes are counted, up to the bound.                        *)
LEMMA FaultStep ==
  ASSUME RuntimeTypes, [Next]_vars
  PROVE  faults' \in 0..MaxFaults
  <1>1. faults \in 0..MaxFaults /\ MaxFaults \in Nat
    BY RuntimeAssumption DEF RuntimeTypes, RuntimeAssumption
  <1>2. faults' = faults \/ Fault \/ KeysDiffer
    <2>1. ASSUME NEW m, NEW w, BeatStep(m, w) PROVE faults' = faults \/ Fault
      BY <2>1 DEF BeatStep, Dispatch, Revoke, Complete, Error, WorkerLost, Execute, Skip, LockUnreachable
    <2>2. ASSUME NEW m, NEW w, NEW a, QueueStep(m, w, a) PROVE faults' = faults \/ Fault \/ KeysDiffer
      BY <2>2 DEF QueueStep, Send, GuardGet, GuardIncr, Succeed, Raise, PoisonGet, PoisonIncr,
                  WriteDeadLetter, Start, Reject, ReplayDispatch
    <2>3. CASE Elsewhere
      BY <2>3 DEF Elsewhere, LockExpires, GuardExpires, JobTimesOut, BrokerAges, PurgeExpired,
                  ReplayRead, ReplayRefused, ReplayCommit, Outage, Recovery, vars
    <2>4. CASE Tick
      BY <2>4 DEF Tick
    <2> QED
      BY <2>1, <2>2, <2>3, <2>4, StepsOf
  <1> QED
    BY <1>1, <1>2 DEF Fault, KeysDiffer

(* The counters of the storm guard and of dead letters.                    *)
LEMMA CounterTypes ==
  ASSUME RuntimeTypes, Staffed, [Next]_vars
  PROVE  /\ guard' \in [count : Nat, local : [Workers -> Nat], passed : Nat]
         /\ poison' \in [count : Nat, written : Nat]
  <1>1. /\ guard \in [count : Nat, local : [Workers -> Nat], passed : Nat]
        /\ poison \in [count : Nat, written : Nat]
    BY DEF RuntimeTypes
  <1>2. \/ UNCHANGED <<guard, poison>>
        \/ \E m \in Messages : GuardGet(m) \/ GuardIncr(m) \/ PoisonIncr(m) \/ WriteDeadLetter(m)
        \/ GuardExpires
    <2>1. ASSUME NEW m, NEW w, BeatStep(m, w) PROVE UNCHANGED <<guard, poison>>
      BY <2>1 DEF BeatStep, Dispatch, Revoke, Complete, Error, WorkerLost, Execute, Skip,
                  LockUnreachable, dlqVars
    <2>2. ASSUME NEW m, NEW w, NEW a, QueueStep(m, w, a)
          PROVE  \/ UNCHANGED <<guard, poison>>
                 \/ GuardGet(m) \/ GuardIncr(m) \/ PoisonIncr(m) \/ WriteDeadLetter(m)
      BY <2>2 DEF QueueStep, Send, Succeed, Raise, PoisonGet, Start, Reject, ReplayDispatch, dlqVars
    <2>3. CASE Elsewhere
      BY <2>3 DEF Elsewhere, LockExpires, JobTimesOut, BrokerAges, PurgeExpired,
                  ReplayRead, ReplayRefused, ReplayCommit, Outage, Recovery, vars, dlqVars
    <2>4. CASE Tick
      BY <2>4 DEF Tick, dlqVars
    <2> QED
      BY <2>1, <2>2, <2>3, <2>4, StepsOf
  <1>3. ASSUME NEW m \in Messages, GuardGet(m) \/ GuardIncr(m)
        PROVE  guard' \in [count : Nat, local : [Workers -> Nat], passed : Nat] /\ poison' = poison
    <2>1. \/ guard' = guard
          \/ guard' = [guard EXCEPT !.local[msg[m].at] = @ + 1]
          \/ guard' = [guard EXCEPT !.count = @ + 1, !.passed = @ + 1]
      BY <1>3 DEF GuardGet, GuardIncr, CheckLocal
    <2>2. poison' = poison
      BY <1>3 DEF GuardGet, GuardIncr
    <2>3. msg[m].at \in Workers
      <3>1. msg[m].pc \in {"guard", "guarded"}
        BY <1>3 DEF GuardGet, GuardIncr
      <3>2. msg[m].at # NoWorker
        BY <3>1 DEF Staffed, Off
      <3> QED
        BY <3>2 DEF RuntimeTypes, Message
    <2>4. CASE guard' = [guard EXCEPT !.local[msg[m].at] = @ + 1]
      <3> DEFINE l == [guard.local EXCEPT ![msg[m].at] = @ + 1]
      <3>1. l \in [Workers -> Nat]
        BY <1>1, <2>3
      <3>2. guard' = [guard EXCEPT !.local = l]
        BY <1>1, <2>3, <2>4
      <3> HIDE DEF l
      <3> QED
        BY <1>1, <2>2, <3>1, <3>2
    <2>5. CASE guard' = [guard EXCEPT !.count = @ + 1, !.passed = @ + 1]
      <3> DEFINE g == [guard EXCEPT !.count = @ + 1]
      <3>1. /\ g \in [count : Nat, local : [Workers -> Nat], passed : Nat]
            /\ guard' = [g EXCEPT !.passed = @ + 1]
        BY <1>1, <2>5
      <3> HIDE DEF g
      <3> QED
        BY <2>2, <3>1
    <2> QED
      BY <1>1, <2>1, <2>2, <2>4, <2>5
  <1>4. ASSUME NEW m \in Messages, PoisonIncr(m) \/ WriteDeadLetter(m)
        PROVE  poison' \in [count : Nat, written : Nat] /\ guard' = guard
    <2>1. guard' = guard
      BY <1>4 DEF PoisonIncr, WriteDeadLetter
    <2>2. \/ poison' = poison
          \/ poison' = [poison EXCEPT !.count = @ + 1]
          \/ poison' = [poison EXCEPT !.written = @ + 1]
      BY <1>4 DEF PoisonIncr, WriteDeadLetter
    <2> QED
      BY <1>1, <2>1, <2>2
  <1>5. CASE GuardExpires
    BY <1>1, <1>5 DEF GuardExpires
  <1> QED
    BY <1>1, <1>2, <1>3, <1>4, <1>5

-----------------------------------------------------------------------------
(* Dead letters and their replay.                                          *)

(* What a replay has read: a row that was stored; its count, of which at   *)
(* most as many were replays as were sent.  Once it has sent its message,  *)
(* one more was.                                                           *)
Reading(p) ==
    p.pc # "idle" =>
      /\ p.row \in Rows /\ p.seen \in Nat /\ p.seen < MaxReplays
      /\ rows[p.row].count # -1
      /\ Present(p.row) => p.seen - rows[p.row].initial <= rows[p.row].sent
      /\ Present(p.row) /\ p.pc = "commit" => p.seen + 1 - rows[p.row].initial <= rows[p.row].sent

RowsCounted ==
    /\ CountedMeansSent
    /\ \A a \in Admins : Reading(replay[a])

(* Which steps touch the rows or a replay.                                 *)
LEMMA RowSteps ==
  ASSUME [Next]_vars
  PROVE  \/ UNCHANGED <<rows, replay>>
         \/ \E m \in Messages : WriteDeadLetter(m)
         \/ \E a \in Admins, m \in Messages : ReplayDispatch(a, m)
         \/ \E r \in Rows : PurgeExpired(r)
         \/ \E a \in Admins, r \in Rows : ReplayRead(a, r)
         \/ \E a \in Admins : ReplayRefused(a) \/ ReplayCommit(a)
  <1>1. ASSUME NEW m, NEW w, BeatStep(m, w) PROVE UNCHANGED <<rows, replay>>
    BY <1>1 DEF BeatStep, Dispatch, Revoke, Complete, Error, WorkerLost, Execute, Skip,
                LockUnreachable, dlqVars
  <1>2. ASSUME NEW m \in Messages, NEW w, NEW a, QueueStep(m, w, a)
        PROVE  \/ UNCHANGED <<rows, replay>> \/ WriteDeadLetter(m)
               \/ a \in Admins /\ ReplayDispatch(a, m)
    BY <1>2 DEF QueueStep, Send, GuardGet, GuardIncr, Succeed, Raise, PoisonGet, PoisonIncr, Start,
                Reject, dlqVars
  <1>3. ASSUME Elsewhere
        PROVE  \/ UNCHANGED <<rows, replay>>
               \/ \E r \in Rows : PurgeExpired(r)
               \/ \E a \in Admins, r \in Rows : ReplayRead(a, r)
               \/ \E a \in Admins : ReplayRefused(a) \/ ReplayCommit(a)
    BY <1>3 DEF Elsewhere, LockExpires, GuardExpires, JobTimesOut, BrokerAges, Outage, Recovery,
                vars, dlqVars
  <1>4. ASSUME Tick PROVE UNCHANGED <<rows, replay>>
    BY <1>4 DEF Tick, dlqVars
  <1> QED
    BY <1>1, <1>2, <1>3, <1>4, StepsOf

(* A row that a replay has read is never taken for a new one, and what was *)
(* sent for it only grows.                                                 *)
Grows(old, new) ==
    old.count # -1 =>
      /\ new.count # -1
      /\ new.count >= 0 => old.count >= 0 /\ new.initial = old.initial /\ new.sent >= old.sent

LEMMA ReadingStep ==
  ASSUME RuntimeTypes, rows' \in [Rows -> Row], \A r \in Rows : Grows(rows[r], rows'[r]),
         NEW p \in Replay, Reading(p)
  PROVE  Reading(p)'
  <1>1. CASE p.pc = "idle"
    BY <1>1 DEF Reading
  <1>2. CASE p.pc # "idle"
    <2>1. p.row \in Rows /\ p.seen \in Nat /\ p.seen < MaxReplays
      BY <1>2 DEF Reading
    <2>2. PICK r \in Rows : r = p.row
      BY <2>1
    <2>3. rows[r] \in Row /\ rows'[r] \in Row /\ Grows(rows[r], rows'[r])
      BY DEF RuntimeTypes
    <2>4. rows[r].count # -1 /\ rows'[r].count # -1
      BY <1>2, <2>2, <2>3 DEF Reading, Grows
    <2>5. ASSUME rows'[r].count >= 0
          PROVE  /\ p.seen - rows'[r].initial <= rows'[r].sent
                 /\ p.pc = "commit" => p.seen + 1 - rows'[r].initial <= rows'[r].sent
      <3>1. rows[r].count >= 0 /\ rows'[r].initial = rows[r].initial /\ rows'[r].sent >= rows[r].sent
        BY <2>3, <2>4, <2>5 DEF Grows
      <3>2. p.seen - rows[r].initial <= rows[r].sent
        BY <1>2, <2>2, <3>1 DEF Reading, Present
      <3>3. p.pc = "commit" => p.seen + 1 - rows[r].initial <= rows[r].sent
        BY <1>2, <2>2, <3>1 DEF Reading, Present
      <3>4. /\ rows[r].sent \in Nat /\ rows'[r].sent \in Nat /\ rows[r].initial \in Nat
        BY <2>3 DEF Row
      <3> QED
        BY <2>1, <3>1, <3>2, <3>3, <3>4
    <2> QED
      BY <2>1, <2>2, <2>4, <2>5, Zenon DEF Reading, Present
  <1> QED
    BY <1>1, <1>2

(* A row whose count is within the limit and backed by what was sent.      *)
Backed(x) == x.count >= 0 => x.count - x.initial <= x.sent /\ x.count <= MaxReplays

LEMMA OneRowStep ==
  ASSUME RuntimeTypes, RowsCounted, NEW r \in Rows, NEW x \in Row,
         rows' = [rows EXCEPT ![r] = x], Grows(rows[r], x), Backed(x)
  PROVE  /\ rows' \in [Rows -> Row] /\ CountedMeansSent'
         /\ \A p \in Replay : Reading(p) => Reading(p)'
  <1>1. rows \in [Rows -> Row]
    BY DEF RuntimeTypes
  <1>2. rows' \in [Rows -> Row]
    BY <1>1
  <1>3. \A s \in Rows : rows'[s] = IF s = r THEN x ELSE rows[s]
    BY <1>1
  <1>4. \A s \in Rows : Grows(rows[s], rows'[s])
    <2> SUFFICES ASSUME NEW s \in Rows, s # r PROVE Grows(rows[s], rows[s])
      BY <1>3
    <2>1. rows[s] \in Row
      BY <1>1
    <2> QED
      BY <2>1 DEF Grows, Row
  <1>5. CountedMeansSent'
    BY <1>3 DEF RowsCounted, CountedMeansSent, Backed, Present
  <1> QED
    BY <1>2, <1>4, <1>5, ReadingStep

(* One row and one replay change, or neither.                              *)
LEMMA ReplayStep ==
  ASSUME RuntimeTypes, RowsCounted,
         \/ rows' = rows
         \/ \E r \in Rows, x \in Row :
               rows' = [rows EXCEPT ![r] = x] /\ Grows(rows[r], x) /\ Backed(x),
         \/ replay' = replay
         \/ \E a \in Admins, q \in Replay : replay' = [replay EXCEPT ![a] = q] /\ Reading(q)'
  PROVE  rows' \in [Rows -> Row] /\ replay' \in [Admins -> Replay] /\ RowsCounted'
  <1>1. rows \in [Rows -> Row] /\ replay \in [Admins -> Replay] /\ \A a \in Admins : Reading(replay[a])
    BY DEF RuntimeTypes, RowsCounted
  <1>2. /\ rows' \in [Rows -> Row] /\ CountedMeansSent'
        /\ \A p \in Replay : Reading(p) => Reading(p)'
    <2>1. CASE rows' = rows
      BY <1>1, <2>1 DEF RowsCounted, CountedMeansSent, Present, Reading
    <2>2. ASSUME NEW r \in Rows, NEW x \in Row,
                 rows' = [rows EXCEPT ![r] = x], Grows(rows[r], x), Backed(x)
          PROVE  /\ rows' \in [Rows -> Row] /\ CountedMeansSent'
                 /\ \A p \in Replay : Reading(p) => Reading(p)'
      BY <2>2, OneRowStep
    <2> QED
      BY <2>1, <2>2
  <1>3. CASE replay' = replay
    BY <1>1, <1>2, <1>3 DEF RowsCounted
  <1>4. ASSUME NEW a \in Admins, NEW q \in Replay, replay' = [replay EXCEPT ![a] = q], Reading(q)'
        PROVE  replay' \in [Admins -> Replay] /\ \A b \in Admins : Reading(replay[b])'
    <2>1. \A b \in Admins : replay'[b] = IF b = a THEN q ELSE replay[b]
      BY <1>1, <1>4
    <2>2. replay' \in [Admins -> Replay]
      BY <1>1, <1>4
    <2>3. ASSUME NEW b \in Admins PROVE Reading(replay[b])'
      <3>1. PICK p \in Replay : p = replay'[b]
        BY <2>2
      <3>2. Reading(p)'
        BY <1>1, <1>2, <1>4, <2>1, <3>1
      <3> QED
        BY <3>1, <3>2
    <2> QED
      BY <2>2, <2>3
  <1> QED
    BY <1>2, <1>3, <1>4 DEF RowsCounted

LEMMA RowsStep ==
  ASSUME RuntimeTypes, RetriesInLimit, RowsCounted, [Next]_vars
  PROVE  rows' \in [Rows -> Row] /\ replay' \in [Admins -> Replay] /\ RowsCounted'
  <1>1. rows \in [Rows -> Row] /\ replay \in [Admins -> Replay] /\ \A a \in Admins : Reading(replay[a])
    BY DEF RuntimeTypes, RowsCounted
  <1>2. MaxReplays \in Nat /\ MaxRetries \in Nat /\ MaxRetries <= MaxReplays
    BY RuntimeAssumption DEF RuntimeAssumption
  <1>3. CASE UNCHANGED <<rows, replay>>
    BY <1>3, ReplayStep
  <1>4. ASSUME NEW m \in Messages, WriteDeadLetter(m)
        PROVE  rows' \in [Rows -> Row] /\ replay' \in [Admins -> Replay] /\ RowsCounted'
    <2>1. replay' = replay
      BY <1>4 DEF WriteDeadLetter
    <2>2. CASE rows' = rows
      BY <2>1, <2>2, ReplayStep
    <2>3. ASSUME HasJob, NEW r \in Rows, rows[r] = NoRow,
                 rows' = [rows EXCEPT ![r] = [count |-> msg[m].retries,
                                              initial |-> msg[m].retries, sent |-> 0]]
          PROVE  rows' \in [Rows -> Row] /\ replay' \in [Admins -> Replay] /\ RowsCounted'
      <3>1. PICK n \in Nat : n = msg[m].retries /\ n <= MaxRetries
        <4>1. ~ IsBeat
          BY <2>3 DEF HasJob, IsBeat, QueueTasks
        <4> QED
          BY <4>1 DEF RuntimeTypes, Message, RetriesInLimit
      <3> DEFINE x == [count |-> n, initial |-> n, sent |-> 0]
      <3>2. x \in Row /\ x.count = n /\ x.initial = n /\ x.sent = 0
        BY DEF Row
      <3>3. rows' = [rows EXCEPT ![r] = x]
        BY <2>3, <3>1
      <3> HIDE DEF x
      <3>4. Backed(x)
        BY <1>2, <3>1, <3>2 DEF Backed
      <3>5. Grows(rows[r], x)
        BY <2>3, RowTypes DEF Grows
      <3> QED
        BY <2>1, <3>2, <3>3, <3>4, <3>5, ReplayStep
    <2> QED
      BY <1>4, <2>2, <2>3 DEF WriteDeadLetter
  <1>5. ASSUME NEW r \in Rows, PurgeExpired(r)
        PROVE  rows' \in [Rows -> Row] /\ replay' \in [Admins -> Replay] /\ RowsCounted'
    <2>1. replay' = replay /\ rows' = [rows EXCEPT ![r] = GoneRow]
      BY <1>5 DEF PurgeExpired
    <2>2. GoneRow \in Row /\ Backed(GoneRow) /\ Grows(rows[r], GoneRow)
      BY RowTypes DEF Backed, Grows
    <2> QED
      BY <2>1, <2>2, ReplayStep
  <1>6. ASSUME NEW a \in Admins, NEW r \in Rows, ReplayRead(a, r)
        PROVE  rows' \in [Rows -> Row] /\ replay' \in [Admins -> Replay] /\ RowsCounted'
    <2>1. /\ Present(r) /\ rows[r].count < MaxReplays /\ rows' = rows
          /\ replay' = [replay EXCEPT ![a] = [pc |-> "dispatch", row |-> r, seen |-> rows[r].count]]
      BY <1>6 DEF ReplayRead
    <2>2. PICK n \in Nat : n = rows[r].count
      BY <1>1, <2>1 DEF Present, Row
    <2> DEFINE q == [pc |-> "dispatch", row |-> r, seen |-> n]
    <2>3. q \in Replay /\ q.pc = "dispatch" /\ q.row = r /\ q.seen = n
      BY DEF Replay
    <2>4. replay' = [replay EXCEPT ![a] = q]
      BY <2>1, <2>2
    <2> HIDE DEF q
    <2>5. n - rows[r].initial <= rows[r].sent /\ rows[r].count # -1
      BY <2>1, <2>2 DEF RowsCounted, CountedMeansSent
    <2>6. Reading(q)'
      BY <2>1, <2>2, <2>3, <2>5 DEF Reading
    <2> QED
      BY <2>1, <2>3, <2>4, <2>6, ReplayStep
  <1>7. ASSUME NEW a \in Admins, ReplayRefused(a)
        PROVE  rows' \in [Rows -> Row] /\ replay' \in [Admins -> Replay] /\ RowsCounted'
    <2>1. rows' = rows /\ replay' = [replay EXCEPT ![a] = NoReplay]
      BY <1>7 DEF ReplayRefused
    <2>2. Reading(NoReplay)'
      BY NoReplayType DEF Reading
    <2> QED
      BY <2>1, <2>2, NoReplayType, ReplayStep
  <1>8. ASSUME NEW a \in Admins, NEW m \in Messages, ReplayDispatch(a, m)
        PROVE  rows' \in [Rows -> Row] /\ replay' \in [Admins -> Replay] /\ RowsCounted'
    <2>1. PICK p \in Replay : p = replay[a] /\ Reading(p)
      BY <1>1
    <2>2. p.pc = "dispatch" /\ replay' = [replay EXCEPT ![a].pc = "commit"]
      BY <1>8, <2>1 DEF ReplayDispatch
    <2>3. rows' = IF Present(p.row) THEN [rows EXCEPT ![p.row].sent = @ + 1] ELSE rows
      BY <1>8, <2>1, Zenon DEF ReplayDispatch
    <2> DEFINE q == [p EXCEPT !.pc = "commit"]
    <2>4. q \in Replay /\ q.pc = "commit" /\ q.row = p.row /\ q.seen = p.seen
      BY DEF Replay
    <2>5. replay' = [replay EXCEPT ![a] = q]
      BY <1>1, <2>1, <2>2
    <2> HIDE DEF q
    <2>6. PICK r \in Rows : r = p.row /\ rows[r].count # -1
      BY <2>1, <2>2 DEF Reading
    <2>7. p.seen \in Nat /\ p.seen < MaxReplays
      BY <2>1, <2>2 DEF Reading
    <2>8. CASE ~ Present(r)
      <3>1. rows' = rows /\ ~ Present(r)'
        BY <2>3, <2>6, <2>8 DEF Present
      <3>2. Reading(q)'
        BY <2>4, <2>6, <2>7, <3>1 DEF Reading
      <3> QED
        BY <2>4, <2>5, <3>1, <3>2, ReplayStep
    <2>9. CASE Present(r)
      <3>1. rows[r] \in Row /\ Backed(rows[r])
        BY <1>1 DEF RowsCounted, CountedMeansSent, Backed, Present
      <3> DEFINE x == [rows[r] EXCEPT !.sent = @ + 1]
      <3>2. /\ x \in Row /\ x.count = rows[r].count /\ x.initial = rows[r].initial
            /\ x.sent = rows[r].sent + 1
        BY <3>1 DEF Row
      <3>3. rows' = [rows EXCEPT ![r] = x]
        BY <1>1, <2>3, <2>6, <2>9
      <3> HIDE DEF x
      <3>4. rows[r].count \in Int /\ rows[r].initial \in Nat /\ rows[r].sent \in Nat
        BY <3>1 DEF Row
      <3>5. Grows(rows[r], x)
        BY <3>2, <3>4 DEF Grows
      <3>6. Backed(x)
        BY <3>1, <3>2, <3>4 DEF Backed
      <3>7. p.seen - rows[r].initial <= rows[r].sent
        BY <2>1, <2>2, <2>6, <2>9 DEF Reading
      <3>8. rows'[r] = x
        BY <1>1, <3>3
      <3>9. p.seen + 1 - x.initial <= x.sent /\ p.seen - x.initial <= x.sent
        BY <2>7, <3>2, <3>4, <3>7
      <3>10. Reading(q)'
        BY <2>4, <2>6, <2>7, <3>2, <3>8, <3>9 DEF Reading
      <3>11. \E s \in Rows, y \in Row :
                rows' = [rows EXCEPT ![s] = y] /\ Grows(rows[s], y) /\ Backed(y)
        BY <3>2, <3>3, <3>5, <3>6
      <3> QED
        BY <2>4, <2>5, <3>10, <3>11, ReplayStep
    <2> QED
      BY <2>8, <2>9
  <1>9. ASSUME NEW a \in Admins, ReplayCommit(a)
        PROVE  rows' \in [Rows -> Row] /\ replay' \in [Admins -> Replay] /\ RowsCounted'
    <2>1. PICK p \in Replay : p = replay[a] /\ Reading(p)
      BY <1>1
    <2>2. p.pc = "commit" /\ replay' = [replay EXCEPT ![a] = NoReplay]
      BY <1>9, <2>1 DEF ReplayCommit
    <2>3. rows' = IF Present(p.row) THEN [rows EXCEPT ![p.row].count = p.seen + 1] ELSE rows
      BY <1>9, <2>1, Zenon DEF ReplayCommit
    <2>4. NoReplay \in Replay /\ Reading(NoReplay)'
      BY NoReplayType DEF Reading
    <2>5. PICK r \in Rows : r = p.row /\ rows[r].count # -1
      BY <2>1, <2>2 DEF Reading
    <2>6. p.seen \in Nat /\ p.seen < MaxReplays
      BY <2>1, <2>2 DEF Reading
    <2>7. CASE ~ Present(r)
      BY <2>2, <2>3, <2>4, <2>5, <2>7, ReplayStep
    <2>8. CASE Present(r)
      <3>1. rows[r] \in Row
        BY <1>1
      <3>2. PICK n \in Nat : n = p.seen + 1 /\ n <= MaxReplays
        BY <1>2, <2>6
      <3> DEFINE x == [rows[r] EXCEPT !.count = n]
      <3>3. /\ x \in Row /\ x.count = n /\ x.initial = rows[r].initial /\ x.sent = rows[r].sent
        BY <3>1 DEF Row
      <3>4. rows' = [rows EXCEPT ![r] = x]
        BY <1>1, <2>3, <2>5, <2>8, <3>2
      <3> HIDE DEF x
      <3>5. p.seen + 1 - rows[r].initial <= rows[r].sent
        <4>1. p.pc # "idle" /\ Present(p.row)
          BY <2>2, <2>5, <2>8
        <4> QED
          BY <2>1, <2>2, <2>5, <4>1 DEF Reading
      <3>6. Backed(x)
        <4>1. n - rows[r].initial <= rows[r].sent
          BY <2>6, <3>1, <3>2, <3>5 DEF Row
        <4> QED
          BY <3>2, <3>3, <4>1 DEF Backed
      <3>7. rows[r].sent \in Nat /\ rows[r].count >= 0
        BY <2>8, <3>1 DEF Row, Present
      <3>8. Grows(rows[r], x)
        BY <3>2, <3>3, <3>7 DEF Grows
      <3>9. \E s \in Rows, y \in Row :
                rows' = [rows EXCEPT ![s] = y] /\ Grows(rows[s], y) /\ Backed(y)
        BY <3>3, <3>4, <3>6, <3>8
      <3> QED
        BY <2>2, <2>4, <3>9, ReplayStep
    <2> QED
      BY <2>7, <2>8
  <1> QED
    BY <1>3, <1>4, <1>5, <1>6, <1>7, <1>8, <1>9, RowSteps

-----------------------------------------------------------------------------
(* The invariant so far: what the messages, rows and replays are.          *)

RuntimeInv == RuntimeTypes /\ Staffed /\ RetriesInLimit /\ RowsCounted

LEMMA RuntimeInitInv == Init => RuntimeInv
  <1> SUFFICES ASSUME Init PROVE RuntimeInv
    OBVIOUS
  <1>1. \A m \in Messages : msg[m] = NoMsg
    BY DEF Init
  <1>2. NoMsg.pc = "idle" /\ NoMsg.at = NoWorker /\ NoMsg.retries = 0
    BY DEF NoMsg
  <1>3. Staffed
    BY <1>1, <1>2 DEF Staffed, Off
  <1>4. RetriesInLimit
    BY <1>1, <1>2, RuntimeAssumption DEF RetriesInLimit, RuntimeAssumption
  <1>5. \A r \in Rows : rows[r].count = -1
    BY RowTypes DEF Init
  <1>6. CountedMeansSent
    BY <1>5 DEF CountedMeansSent, Present
  <1>7. \A a \in Admins : Reading(replay[a])
    BY NoReplayType DEF Init, Reading
  <1> QED
    BY <1>3, <1>4, <1>6, <1>7, RuntimeInitTypes DEF RuntimeInv, RowsCounted

LEMMA RuntimeStepInv == RuntimeInv /\ [Next]_vars => RuntimeInv'
  <1> SUFFICES ASSUME RuntimeInv, [Next]_vars PROVE RuntimeInv'
    OBVIOUS
  <1>1. RuntimeTypes /\ Staffed /\ RetriesInLimit /\ RowsCounted
    BY DEF RuntimeInv
  <1>2. msg' \in [Messages -> Message] /\ Staffed' /\ RetriesInLimit'
    BY <1>1, StaffedStepInv
  <1>3. rows' \in [Rows -> Row] /\ replay' \in [Admins -> Replay] /\ RowsCounted'
    BY <1>1, RowsStep
  <1>4. kind' \in BeatTasks \union QueueTasks
    BY <1>1, KindStays, Zenon DEF RuntimeTypes
  <1>5. redis' \in BOOLEAN /\ outages' \in Nat /\ (outages' = 0 => redis')
    BY <1>1, RedisStep, Zenon
  <1>6. lock' \in Nat /\ local' \in [Workers -> Nat] /\ due' \in Nat /\ window' \in Nat
    BY <1>1, BeatTypes
  <1>7. /\ guard' \in [count : Nat, local : [Workers -> Nat], passed : Nat]
        /\ poison' \in [count : Nat, written : Nat]
    BY <1>1, CounterTypes
  <1>8. faults' \in 0..MaxFaults
    BY <1>1, FaultStep
  <1> QED
    BY <1>2, <1>3, <1>4, <1>5, <1>6, <1>7, <1>8, Zenon DEF RuntimeInv, RuntimeTypes

(* Every worker runs one message at most; the counters, locks and rows have*)
(* their types.                                                            *)
THEOREM RuntimeInvariant == Spec => []RuntimeInv
  BY RuntimeInitInv, RuntimeStepInv, PTL DEF Spec

(* A replay that is counted was sent, and the counter of a dead letter     *)
(* stays within _MAX_DLQ_RETRIES, although replays of two administrators   *)
(* read and write retry_count without a lock (app/billing/tasks.py).       *)
THEOREM CountedMeansSentTheorem == Spec => []CountedMeansSent
  <1>1. RuntimeInv => CountedMeansSent
    BY DEF RuntimeInv, RowsCounted
  <1> QED
    BY <1>1, RuntimeInvariant, PTL

-----------------------------------------------------------------------------
(* The storm guard and the poison counter.                                 *)

(* The workers that run a message at p.                                    *)
Crew(p) == {w \in Workers : \E m \in Messages : msg[m].at = w /\ msg[m].pc = p}

LEMMA CrewFinite ==
  ASSUME NEW p
  PROVE  /\ IsFiniteSet(Crew(p)) /\ Cardinality(Crew(p)) \in Nat
         /\ Cardinality(Workers) \in Nat /\ Cardinality(Crew(p)) <= Cardinality(Workers)
  <1>1. Crew(p) \subseteq Workers /\ IsFiniteSet(Workers)
    BY RuntimeAssumption DEF Crew, RuntimeAssumption
  <1> QED
    BY <1>1, FS_Subset, FS_CardinalityType

LEMMA CrewFinitePrime ==
  ASSUME NEW p
  PROVE  /\ IsFiniteSet(Crew(p)') /\ Cardinality(Crew(p)') \in Nat
         /\ Cardinality(Crew(p)') <= Cardinality(Workers)
  <1>1. Crew(p)' \subseteq Workers /\ IsFiniteSet(Workers)
    BY RuntimeAssumption DEF Crew, RuntimeAssumption
  <1> QED
    BY <1>1, FS_Subset, FS_CardinalityType

(* When one message moves, it leaves the crew it was in and joins at most  *)
(* one other.                                                              *)
LEMMA CrewStep ==
  ASSUME RuntimeTypes, Staffed, NEW m \in Messages, NEW x \in Message,
         msg' = [msg EXCEPT ![m] = x], NEW p, p \notin Off
  PROVE  /\ x.pc # p => Cardinality(Crew(p)') <= Cardinality(Crew(p))
         /\ x.pc # p /\ msg[m].pc = p => Cardinality(Crew(p)') = Cardinality(Crew(p)) - 1
         /\ Cardinality(Crew(p)') <= Cardinality(Crew(p)) + 1
  <1>1. msg \in [Messages -> Message]
    BY DEF RuntimeTypes
  <1>2. \A n \in Messages : msg'[n] = IF n = m THEN x ELSE msg[n]
    BY <1>1
  <1>3. IsFiniteSet(Crew(p)) /\ Cardinality(Crew(p)) \in Nat /\ Cardinality(Crew(p)') \in Nat
    BY CrewFinite, CrewFinitePrime
  <1>4. ASSUME x.pc # p PROVE Cardinality(Crew(p)') <= Cardinality(Crew(p))
    <2>1. Crew(p)' \subseteq Crew(p)
      BY <1>2, <1>4 DEF Crew
    <2> QED
      BY <1>3, <2>1, FS_Subset
  <1>5. ASSUME x.pc # p, msg[m].pc = p PROVE Cardinality(Crew(p)') = Cardinality(Crew(p)) - 1
    <2>1. msg[m].at \in Workers /\ \A n \in Messages : msg[n].at = msg[m].at => n = m
      BY <1>1, <1>5 DEF Staffed, Message
    <2>2. Crew(p)' = Crew(p) \ {msg[m].at} /\ msg[m].at \in Crew(p)
      BY <1>2, <1>5, <2>1 DEF Crew
    <2> QED
      BY <1>3, <2>2, FS_RemoveElement
  <1>6. Cardinality(Crew(p)') <= Cardinality(Crew(p)) + 1
    <2>1. Crew(p)' \subseteq Crew(p) \union {x.at}
      BY <1>2 DEF Crew
    <2>2. /\ IsFiniteSet(Crew(p) \union {x.at})
          /\ \/ Cardinality(Crew(p) \union {x.at}) = Cardinality(Crew(p))
             \/ Cardinality(Crew(p) \union {x.at}) = Cardinality(Crew(p)) + 1
      BY <1>3, FS_AddElement
    <2>3. Cardinality(Crew(p)') <= Cardinality(Crew(p) \union {x.at})
      BY <2>1, <2>2, FS_Subset
    <2> QED
      BY <1>3, <2>2, <2>3
  <1> QED
    BY <1>4, <1>5, <1>6

(* Each worker that is past the check has been or will be counted.         *)
GuardCounts ==
    /\ guard.passed <= guard.count
    /\ guard.count + Cardinality(Crew("guarded")) <= GuardLimit + Cardinality(Workers) - 1

PoisonCounts ==
    HasJob /\ outages = 0 =>
      /\ poison.count + Cardinality(Crew("poisoned")) <= PoisonLimit + Cardinality(Workers) - 1
      /\ poison.written + Cardinality(Crew("write")) <= poison.count

(* What a step does to the counters.                                       *)
LEMMA CounterSteps ==
  ASSUME RuntimeTypes, NEW m \in Messages, NEW w, NEW a, QueueStep(m, w, a)
  PROVE  /\ \/ guard'.count = guard.count /\ guard'.passed = guard.passed
            \/ /\ msg[m].pc = "guarded" /\ msg'[m].pc # "guarded"
               /\ guard'.count = guard.count + 1 /\ guard'.passed = guard.passed + 1
         /\ GuardGet(m) => guard'.count = guard.count
         /\ \/ poison' = poison /\ ~ PoisonIncr(m)
            \/ /\ PoisonIncr(m) /\ msg[m].pc = "poisoned" /\ msg'[m].pc = "write"
               /\ poison'.written = poison.written
               /\ poison'.count = IF redis THEN poison.count + 1 ELSE poison.count
            \/ /\ msg[m].pc = "write" /\ msg'[m].pc = "done" /\ ~ PoisonIncr(m)
               /\ poison'.count = poison.count /\ poison'.written = poison.written + 1
  <1>1. /\ guard \in [count : Nat, local : [Workers -> Nat], passed : Nat]
        /\ poison \in [count : Nat, written : Nat]
        /\ msg \in [Messages -> Message]
    BY DEF RuntimeTypes
  <1>2. ASSUME CheckLocal(m) PROVE guard'.count = guard.count /\ guard'.passed = guard.passed
    BY <1>1, <1>2 DEF CheckLocal
  <1>3. CASE GuardGet(m)
    <2>1. msg[m].pc = "guard" /\ poison' = poison /\ ~ PoisonIncr(m)
      BY <1>3 DEF GuardGet, PoisonIncr
    <2>2. CheckLocal(m) \/ guard' = guard
      BY <1>3 DEF GuardGet
    <2> QED
      BY <1>2, <2>1, <2>2
  <1>4. CASE GuardIncr(m)
    <2>1. msg[m].pc = "guarded" /\ poison' = poison /\ ~ PoisonIncr(m) /\ ~ GuardGet(m)
      BY <1>4 DEF GuardIncr, GuardGet, PoisonIncr
    <2>2. CASE CheckLocal(m)
      BY <1>2, <2>1, <2>2
    <2>3. CASE /\ guard' = [guard EXCEPT !.count = @ + 1, !.passed = @ + 1]
               /\ msg' = [msg EXCEPT ![m].pc = "working"]
      <3>1. msg'[m].pc = "working"
        BY <1>1, <2>3 DEF Message
      <3>2. guard'.count = guard.count + 1 /\ guard'.passed = guard.passed + 1
        BY <1>1, <2>3
      <3> QED
        BY <2>1, <3>1, <3>2
    <2> QED
      BY <1>4, <2>2, <2>3 DEF GuardIncr
  <1>5. CASE PoisonIncr(m)
    <2>1. msg[m].pc = "poisoned" /\ guard' = guard /\ msg' = [msg EXCEPT ![m].pc = "write"]
      BY <1>5 DEF PoisonIncr
    <2>2. poison' = IF redis THEN [poison EXCEPT !.count = @ + 1] ELSE poison
      BY <1>5, Zenon DEF PoisonIncr
    <2>3. msg'[m].pc = "write"
      BY <1>1, <2>1 DEF Message
    <2> QED
      BY <1>1, <1>5, <2>1, <2>2, <2>3
  <1>6. CASE WriteDeadLetter(m)
    <2>1. msg[m].pc = "write" /\ guard' = guard /\ msg' = [msg EXCEPT ![m] = Done(m)]
      BY <1>6 DEF WriteDeadLetter
    <2>2. poison' = [poison EXCEPT !.written = @ + 1] /\ ~ PoisonIncr(m)
      BY <1>6, <2>1 DEF WriteDeadLetter, PoisonIncr
    <2>3. msg'[m].pc = "done"
      BY <1>1, <2>1, DoneType
    <2> QED
      BY <1>1, <2>1, <2>2, <2>3
  <1>7. ASSUME ~ GuardGet(m), ~ GuardIncr(m), ~ PoisonIncr(m), ~ WriteDeadLetter(m)
        PROVE  guard' = guard /\ poison' = poison
    BY <1>7 DEF QueueStep, Send, Succeed, Raise, PoisonGet, Start, Reject, ReplayDispatch, dlqVars
  <1> QED
    BY <1>3, <1>4, <1>5, <1>6, <1>7

(* Steps that do not touch the counters, or a message that is counted.     *)
LEMMA QuietCounts ==
  ASSUME RuntimeTypes, GuardCounts, PoisonCounts, [Next]_vars,
         guard' = guard, poison' = poison,
         \A p \in {"guarded", "poisoned", "write"} :
            Cardinality(Crew(p)') <= Cardinality(Crew(p))
  PROVE  GuardCounts' /\ PoisonCounts'
  <1>1. /\ guard.count \in Nat /\ poison.count \in Nat /\ poison.written \in Nat
        /\ GuardLimit \in Nat /\ PoisonLimit \in Nat
    BY RuntimeAssumption DEF RuntimeTypes, RuntimeAssumption
  <1>2. \A p : Cardinality(Crew(p)) \in Nat /\ Cardinality(Crew(p)') \in Nat /\ Cardinality(Workers) \in Nat
    BY CrewFinite, CrewFinitePrime
  <1>3. GuardCounts'
    BY <1>1, <1>2 DEF GuardCounts
  <1>4. HasJob' /\ outages' = 0 => HasJob /\ outages = 0
    BY KindStays, RedisStep DEF HasJob
  <1>5. PoisonCounts'
    BY <1>1, <1>2, <1>4 DEF PoisonCounts
  <1> QED
    BY <1>3, <1>5

LEMMA CountsStep ==
  ASSUME RuntimeTypes, Staffed, GuardCounts, PoisonCounts, [Next]_vars
  PROVE  GuardCounts' /\ PoisonCounts'
  <1>1. /\ guard.count \in Nat /\ guard.passed \in Nat /\ poison.count \in Nat /\ poison.written \in Nat
        /\ GuardLimit \in Nat \ {0} /\ PoisonLimit \in Nat \ {0}
    BY RuntimeAssumption DEF RuntimeTypes, RuntimeAssumption
  <1>2. /\ \A p : Cardinality(Crew(p)) \in Nat /\ Cardinality(Crew(p)') \in Nat
        /\ \A p : Cardinality(Crew(p)') <= Cardinality(Workers)
        /\ Cardinality(Workers) \in Nat
    BY CrewFinite, CrewFinitePrime
  <1>3. "guarded" \notin Off /\ "poisoned" \notin Off /\ "write" \notin Off
    BY DEF Off
  <1>4. CASE Tick
    <2>1. guard' = guard /\ poison' = poison /\ IsBeat /\ msg' = [m \in Messages |-> Older(msg[m])]
      BY <1>4, Zenon DEF Tick, dlqVars
    <2>2. \A m \in Messages : msg[m] \in Message
      BY DEF RuntimeTypes
    <2>3. \A m \in Messages : msg'[m].pc = msg[m].pc /\ msg'[m].at = msg[m].at
      BY <2>1, <2>2, OlderType
    <2>4. \A p : Crew(p)' = Crew(p)
      BY <2>3 DEF Crew
    <2> QED
      BY <1>2, <2>1, <2>4, QuietCounts
  <1>5. ASSUME NEW m \in Messages, NEW w, BeatStep(m, w) PROVE GuardCounts' /\ PoisonCounts'
    <2>1. PICK x \in Message : msg' = [msg EXCEPT ![m] = x] /\ x.pc \in {"idle", "queued", "working"}
      BY <1>5, BeatMoves
    <2>2. guard' = guard /\ poison' = poison
      BY <1>5, Zenon DEF BeatStep, Dispatch, Revoke, Complete, Error, WorkerLost, Execute, Skip,
                  LockUnreachable, dlqVars
    <2>3. \A p \in {"guarded", "poisoned", "write"} : Cardinality(Crew(p)') <= Cardinality(Crew(p))
      <3> SUFFICES ASSUME NEW p \in {"guarded", "poisoned", "write"}
                   PROVE  Cardinality(Crew(p)') <= Cardinality(Crew(p))
        OBVIOUS
      <3>1. p \notin Off /\ x.pc # p
        BY <2>1 DEF Off
      <3> QED
        BY <2>1, <3>1, CrewStep
    <2> QED
      BY <2>2, <2>3, QuietCounts
  <1>6. ASSUME NEW m \in Messages, NEW w, NEW a, QueueStep(m, w, a)
        PROVE  GuardCounts' /\ PoisonCounts'
    <2>1. PICK x \in Message : msg' = [msg EXCEPT ![m] = x] /\ Reasons(m, x)
      BY <1>6, QueueMoves
    <2>2. msg'[m] = x
      BY <2>1 DEF RuntimeTypes
    <2>3. GuardCounts'
      <3>1. CASE x.pc = "guarded"
        <4>1. GuardGet(m) /\ guard.count < GuardLimit
          BY <2>1, <3>1, Zenon DEF Reasons
        <4>2. guard'.count = guard.count /\ guard'.passed = guard.passed
          BY <1>6, <2>2, <3>1, <4>1, CounterSteps
        <4> QED
          BY <1>1, <1>2, <4>1, <4>2 DEF GuardCounts
      <3>2. CASE x.pc # "guarded"
        <4>1. /\ Cardinality(Crew("guarded")') <= Cardinality(Crew("guarded"))
              /\ msg[m].pc = "guarded" =>
                   Cardinality(Crew("guarded")') = Cardinality(Crew("guarded")) - 1
          BY <1>3, <2>1, <3>2, CrewStep
        <4>2. \/ guard'.count = guard.count /\ guard'.passed = guard.passed
              \/ /\ msg[m].pc = "guarded"
                 /\ guard'.count = guard.count + 1 /\ guard'.passed = guard.passed + 1
          BY <1>6, CounterSteps
        <4> QED
          BY <1>1, <1>2, <4>1, <4>2 DEF GuardCounts
      <3> QED
        BY <3>1, <3>2
    <2>4. PoisonCounts'
      <3> SUFFICES ASSUME HasJob', outages' = 0
                   PROVE  /\ poison'.count + Cardinality(Crew("poisoned")')
                               <= PoisonLimit + Cardinality(Workers) - 1
                          /\ poison'.written + Cardinality(Crew("write")') <= poison'.count
        BY DEF PoisonCounts
      <3>1. HasJob /\ outages = 0
        BY KindStays, RedisStep DEF HasJob
      <3>2. redis
        BY <3>1, Zenon DEF RuntimeTypes
      <3>3. /\ poison.count + Cardinality(Crew("poisoned")) <= PoisonLimit + Cardinality(Workers) - 1
            /\ poison.written + Cardinality(Crew("write")) <= poison.count
        BY <3>1 DEF PoisonCounts
      <3>4. \/ poison' = poison /\ ~ PoisonIncr(m)
            \/ /\ PoisonIncr(m) /\ msg[m].pc = "poisoned" /\ x.pc = "write"
               /\ poison'.written = poison.written /\ poison'.count = poison.count + 1
            \/ /\ msg[m].pc = "write" /\ x.pc = "done" /\ ~ PoisonIncr(m)
               /\ poison'.count = poison.count /\ poison'.written = poison.written + 1
        BY <1>6, <2>2, <3>2, CounterSteps, Zenon
      <3>5. /\ x.pc # "poisoned" => Cardinality(Crew("poisoned")') <= Cardinality(Crew("poisoned"))
            /\ x.pc # "poisoned" /\ msg[m].pc = "poisoned" =>
                   Cardinality(Crew("poisoned")') = Cardinality(Crew("poisoned")) - 1
        BY <1>3, <2>1, CrewStep
      <3>6. /\ x.pc # "write" => Cardinality(Crew("write")') <= Cardinality(Crew("write"))
            /\ x.pc # "write" /\ msg[m].pc = "write" =>
                   Cardinality(Crew("write")') = Cardinality(Crew("write")) - 1
            /\ Cardinality(Crew("write")') <= Cardinality(Crew("write")) + 1
        BY <1>3, <2>1, CrewStep
      <3>7. x.pc = "write" => PoisonIncr(m)
        BY <2>1, <3>1, <3>2, Zenon DEF Reasons
      <3>8. CASE x.pc = "poisoned"
        <4>1. PoisonGet(m) /\ poison.count < PoisonLimit
          BY <2>1, <3>8, Zenon DEF Reasons
        <4>2. poison' = poison
          BY <4>1 DEF PoisonGet, dlqVars
        <4> QED
          BY <1>1, <1>2, <3>3, <3>6, <3>8, <4>1, <4>2
      <3>9. CASE x.pc # "poisoned"
        BY <1>1, <1>2, <3>3, <3>4, <3>5, <3>6, <3>7, <3>9
      <3> QED
        BY <3>8, <3>9
    <2> QED
      BY <2>3, <2>4
  <1>7. CASE Elsewhere
    <2>1. \A p : Crew(p)' = Crew(p)
      BY <1>7, ElsewhereMsg DEF Crew
    <2>2. poison' = poison /\ (guard' = guard \/ GuardExpires)
      BY <1>7 DEF Elsewhere, LockExpires, GuardExpires, JobTimesOut, BrokerAges, PurgeExpired,
                  ReplayRead, ReplayRefused, ReplayCommit, Outage, Recovery, vars, dlqVars
    <2>3. CASE guard' = guard
      BY <1>2, <2>1, <2>2, <2>3, QuietCounts
    <2>4. CASE GuardExpires
      <3>1. guard'.count = 0 /\ guard'.passed = 0
        BY <2>4 DEF GuardExpires, RuntimeTypes
      <3>2. GuardCounts'
        BY <1>1, <1>2, <3>1 DEF GuardCounts
      <3>3. HasJob' /\ outages' = 0 => HasJob /\ outages = 0
        BY KindStays, RedisStep DEF HasJob
      <3>4. PoisonCounts'
        BY <2>1, <2>2, <3>3 DEF PoisonCounts
      <3> QED
        BY <3>2, <3>4
    <2> QED
      BY <2>2, <2>3, <2>4
  <1> QED
    BY <1>4, <1>5, <1>6, <1>7, StepsOf

LEMMA CountsInit == Init => GuardCounts /\ PoisonCounts
  <1> SUFFICES ASSUME Init PROVE GuardCounts /\ PoisonCounts
    OBVIOUS
  <1>1. \A p : p \notin Off => Crew(p) = {}
    <2>1. \A m \in Messages : msg[m].pc = "idle"
      BY DEF Init, NoMsg
    <2> QED
      BY <2>1 DEF Crew, Off
  <1>2. Crew("guarded") = {} /\ Crew("poisoned") = {} /\ Crew("write") = {}
    BY <1>1 DEF Off
  <1>3. Cardinality({}) = 0 /\ Cardinality(Workers) \in Nat
    BY CrewFinite, FS_EmptySet
  <1>4. GuardLimit \in Nat \ {0} /\ PoisonLimit \in Nat \ {0}
    BY RuntimeAssumption DEF RuntimeAssumption
  <1>5. guard.count = 0 /\ guard.passed = 0 /\ poison.count = 0 /\ poison.written = 0
    BY DEF Init
  <1>6. /\ 0 + 0 <= 0
        /\ 0 + 0 <= GuardLimit + Cardinality(Workers) - 1
        /\ 0 + 0 <= PoisonLimit + Cardinality(Workers) - 1
    BY <1>3, <1>4
  <1>7. GuardCounts
    BY <1>2, <1>3, <1>5, <1>6 DEF GuardCounts
  <1>8. PoisonCounts
    <2>1. Cardinality(Crew("poisoned")) = 0 /\ Cardinality(Crew("write")) = 0
      BY <1>2, <1>3, Zenon
    <2> QED
      BY <1>5, <1>6, <2>1 DEF PoisonCounts
  <1> QED
    BY <1>7, <1>8

(* Retries that pass check_retry_storm (retry_guard.py), and dead letters  *)
(* that pass the poison counter of _move_to_dead_letter (broker.py),       *)
(* exceed their limits by at most one per worker that read the counter     *)
(* before another wrote it, however many messages there are.               *)
THEOREM StormsBoundedTheorem == Spec => []StormsBounded
  <1>1. RuntimeInv /\ GuardCounts /\ PoisonCounts /\ [Next]_vars => GuardCounts' /\ PoisonCounts'
    BY CountsStep DEF RuntimeInv
  <1>2. RuntimeInv /\ GuardCounts /\ PoisonCounts => StormsBounded
    <2> SUFFICES ASSUME RuntimeTypes, GuardCounts, PoisonCounts PROVE StormsBounded
      BY DEF RuntimeInv
    <2>1. /\ \A p : Cardinality(Crew(p)) \in Nat
          /\ Cardinality(Workers) \in Nat /\ GuardLimit \in Nat /\ PoisonLimit \in Nat
          /\ guard.count \in Nat /\ guard.passed \in Nat /\ poison.count \in Nat /\ poison.written \in Nat
      BY CrewFinite, RuntimeAssumption DEF RuntimeAssumption, RuntimeTypes
    <2>2. guard.passed <= GuardLimit + Cardinality(Workers) - 1
      BY <2>1 DEF GuardCounts
    <2>3. HasJob /\ outages = 0 => poison.written <= PoisonLimit + Cardinality(Workers) - 1
      BY <2>1 DEF PoisonCounts
    <2> QED
      BY <2>2, <2>3 DEF StormsBounded
  <1> QED
    BY <1>1, <1>2, CountsInit, RuntimeInvariant, PTL DEF Spec

-----------------------------------------------------------------------------
(* Beat tasks.                                                             *)

(* A beat task has no guard, no dead letter and no replay.                 *)
BeatOnly ==
    IsBeat =>
      /\ \A m \in Messages : msg[m].pc \in {"idle", "queued", "working"}
      /\ \A r \in Rows : ~ Present(r)
      /\ \A a \in Admins : replay[a].pc = "idle"

Quiet == UNCHANGED <<faults, msg, lock, local, due, window>>

LEMMA NoQueueStep ==
  ASSUME IsBeat, BeatOnly, NEW m \in Messages, NEW w, NEW a
  PROVE  ~ QueueStep(m, w, a)
  <1>1. /\ msg[m].pc \notin {"guard", "guarded", "poison", "poisoned", "write"}
        /\ a \in Admins => replay[a].pc # "dispatch"
    BY DEF BeatOnly
  <1>2. ~ Send(m) /\ ~ Succeed(m) /\ ~ Raise(m) /\ ~ Start(m, w) /\ ~ Reject(m, w)
    BY Zenon DEF Send, Succeed, Raise, Start, Reject
  <1>3. /\ ~ GuardGet(m) /\ ~ GuardIncr(m) /\ ~ PoisonGet(m) /\ ~ PoisonIncr(m) /\ ~ WriteDeadLetter(m)
    BY <1>1 DEF GuardGet, GuardIncr, PoisonGet, PoisonIncr, WriteDeadLetter
  <1>4. a \in Admins => ~ ReplayDispatch(a, m)
    BY <1>1, Zenon DEF ReplayDispatch
  <1> QED
    BY <1>2, <1>3, <1>4, Zenon DEF QueueStep

LEMMA BeatSteps ==
  ASSUME IsBeat, BeatOnly, [Next]_vars
  PROVE  /\ \/ Tick \/ LockExpires
            \/ \E m \in Messages : \E w : BeatStep(m, w)
            \/ Quiet
         /\ UNCHANGED <<rows, replay>>
  <1>1. CASE Tick
    <2>1. UNCHANGED <<rows, replay>>
      BY <1>1 DEF Tick, dlqVars
    <2> QED
      BY <1>1, <2>1
  <1>2. ASSUME NEW m \in Messages, NEW w, BeatStep(m, w) PROVE UNCHANGED <<rows, replay>>
    BY <1>2, Zenon DEF BeatStep, Dispatch, Revoke, Complete, Error, WorkerLost, Execute, Skip,
                       LockUnreachable, dlqVars
  <1>3. CASE Elsewhere
    <2>1. /\ ~ \E r \in Rows : PurgeExpired(r)
          /\ ~ \E a \in Admins, r \in Rows : ReplayRead(a, r)
      BY Zenon DEF BeatOnly, PurgeExpired, ReplayRead
    <2>2. ~ \E a \in Admins : ReplayRefused(a) \/ ReplayCommit(a)
      BY DEF BeatOnly, ReplayRefused, ReplayCommit
    <2>3. \/ LockExpires \/ GuardExpires \/ JobTimesOut \/ BrokerAges \/ Outage \/ Recovery
          \/ UNCHANGED vars
      BY <1>3, <2>1, <2>2, Zenon DEF Elsewhere
    <2>4. CASE LockExpires
      BY <2>4 DEF LockExpires, dlqVars
    <2>5. CASE ~ LockExpires
      BY <2>3, <2>5 DEF GuardExpires, JobTimesOut, BrokerAges, Outage, Recovery, vars,
                        beatVars, dlqVars, Quiet
    <2> QED
      BY <2>4, <2>5
  <1> QED
    BY <1>1, <1>2, <1>3, StepsOf, NoQueueStep

LEMMA BeatOnlyStep ==
  ASSUME RuntimeTypes, Staffed, BeatOnly, [Next]_vars
  PROVE  BeatOnly'
  <1> SUFFICES ASSUME IsBeat PROVE BeatOnly'
    BY KindStays DEF BeatOnly, IsBeat
  <1>1. UNCHANGED <<rows, replay>>
    BY BeatSteps
  <1>2. /\ (\A r \in Rows : ~ Present(r))'
        /\ (\A a \in Admins : replay[a].pc = "idle")'
    BY <1>1 DEF BeatOnly, Present
  <1>3. \A m \in Messages : msg'[m].pc \in {"idle", "queued", "working"}
    <2>1. CASE Tick
      <3>1. msg' = [m \in Messages |-> Older(msg[m])]
        BY <2>1, Zenon DEF Tick
      <3>2. \A m \in Messages : msg[m] \in Message
        BY DEF RuntimeTypes
      <3>3. \A m \in Messages : msg'[m].pc = msg[m].pc
        BY <3>1, <3>2, OlderType
      <3> QED
        BY <3>3 DEF BeatOnly
    <2>2. CASE LockExpires \/ Quiet
      <3>1. msg' = msg
        BY <2>2 DEF LockExpires, Quiet
      <3> QED
        BY <3>1 DEF BeatOnly
    <2>3. ASSUME NEW m \in Messages, NEW w, BeatStep(m, w)
          PROVE  \A n \in Messages : msg'[n].pc \in {"idle", "queued", "working"}
      <3>1. PICK x \in Message : msg' = [msg EXCEPT ![m] = x] /\ x.pc \in {"idle", "queued", "working"}
        BY <2>3, BeatMoves
      <3>2. \A n \in Messages : msg'[n] = IF n = m THEN x ELSE msg[n]
        BY <3>1 DEF RuntimeTypes
      <3> QED
        BY <3>1, <3>2 DEF BeatOnly
    <2> QED
      BY <2>1, <2>2, <2>3, BeatSteps
  <1> QED
    BY <1>2, <1>3 DEF BeatOnly

(* While a task runs whose lock outlives it, its lock is held for at least *)
(* as long as it may still run.                                            *)
LockCovers ==
    IsBeat /\ Covered(T) /\ outages = 0 =>
      /\ \A m \in Working : msg[m].ran <= T.limit /\ lock + msg[m].ran >= T.ttl + 1
      /\ \A m, n \in Working : m = n

LEMMA SameTask ==
  ASSUME [Next]_vars
  PROVE  T' = T /\ (IsBeat' <=> IsBeat) /\ kind' = kind
  BY KindStays DEF T, IsBeat

LEMMA LockCoversStep ==
  ASSUME RuntimeTypes, Staffed, BeatOnly, LockCovers, [Next]_vars
  PROVE  LockCovers'
  <1> SUFFICES ASSUME IsBeat, Covered(T), outages' = 0
               PROVE  /\ \A m \in Working' : msg'[m].ran <= T.limit /\ lock' + msg'[m].ran >= T.ttl + 1
                      /\ \A m, n \in Working' : m = n
    BY SameTask, Zenon DEF LockCovers, Covered
  <1>1. outages = 0 /\ redis
    BY RedisStep, Zenon DEF RuntimeTypes
  <1>2. PICK t \in BeatRecord : t = T
    BY TheTask
  <1>3. /\ \A m \in Working : msg[m].ran <= t.limit /\ lock + msg[m].ran >= t.ttl + 1
        /\ \A m, n \in Working : m = n
    BY <1>1, <1>2, Zenon DEF LockCovers
  <1>4. t.limit \in Nat /\ t.ttl \in Nat /\ t.ttl > t.limit
    BY <1>2 DEF BeatRecord, Covered
  <1>5. lock \in Nat /\ msg \in [Messages -> Message] /\ \A m \in Working : m \in Messages /\ msg[m].ran \in Nat
    BY DEF RuntimeTypes, Working, Message
  <1>6. \A m \in Working : lock >= 2
    BY <1>3, <1>4, <1>5
  <1>7. ASSUME \A m \in Working' : m \in Working /\ msg'[m] = msg[m], lock' = lock
        PROVE  /\ \A m \in Working' : msg'[m].ran <= T.limit /\ lock' + msg'[m].ran >= T.ttl + 1
               /\ \A m, n \in Working' : m = n
    BY <1>2, <1>3, <1>7
  <1>8. CASE Tick
    <2>1. /\ msg' = [m \in Messages |-> Older(msg[m])] /\ lock' = Floor(lock)
          /\ \A m \in Messages : msg[m].pc = "working" => msg[m].ran < T.limit
      BY <1>8, Zenon DEF Tick
    <2>2. \A m \in Messages : msg[m] \in Message
      BY <1>5
    <2>3. \A m \in Working' : m \in Working /\ msg'[m].ran = msg[m].ran + 1 /\ msg[m].ran < t.limit
      BY <1>2, <2>1, <2>2, OlderType DEF Working
    <2>4. \A m \in Working : lock' = lock - 1
      BY <1>5, <1>6, <2>1 DEF Floor
    <2> QED
      BY <1>2, <1>3, <1>4, <1>5, <2>3, <2>4
  <1>9. CASE LockExpires
    <2>1. msg' = msg /\ (lock' = lock \/ lock = 1)
      BY <1>9 DEF LockExpires
    <2>2. Working' = Working
      BY <2>1 DEF Working
    <2> QED
      BY <1>6, <1>7, <2>1, <2>2
  <1>10. CASE Quiet
    <2>1. msg' = msg /\ lock' = lock
      BY <1>10 DEF Quiet
    <2> QED
      BY <1>7, <2>1 DEF Working
  <1>11. ASSUME NEW m \in Messages, NEW w, BeatStep(m, w)
         PROVE  /\ \A k \in Working' : msg'[k].ran <= T.limit /\ lock' + msg'[k].ran >= T.ttl + 1
                /\ \A k, n \in Working' : k = n
    <2>1. PICK x \in Message : /\ msg' = [msg EXCEPT ![m] = x]
                               /\ \/ x.pc \in {"idle", "queued"}
                                  \/ x.pc = "working" /\ Execute(m, w) /\ x.ran = 0
      BY <1>11, BeatMoves
    <2>2. \A n \in Messages : msg'[n] = IF n = m THEN x ELSE msg[n]
      BY <1>5, <2>1
    <2>3. CASE Execute(m, w)
      <3>1. lock = 0 /\ lock' = T.ttl + 1
        BY <1>1, <2>3, Zenon DEF Execute, AcquireBeatLock
      <3>2. Working = {}
        BY <1>6, <3>1
      <3>3. \A k \in Working' : k = m
        BY <2>2, <3>2 DEF Working
      <3>4. \A k \in Working' : msg'[k].ran = 0
        <4>1. msg[m].pc = "queued" /\ msg' = [msg EXCEPT ![m].pc = "working", ![m].ran = 0, ![m].at = w]
          BY <2>3, Zenon DEF Execute
        <4>2. msg'[m].ran = 0
          BY <1>5, <4>1 DEF Message
        <4> QED
          BY <3>3, <4>2
      <3> QED
        BY <1>2, <1>4, <3>1, <3>3, <3>4
    <2>4. CASE ~ Execute(m, w)
      <3>1. \A k \in Working' : k \in Working /\ msg'[k] = msg[k]
        BY <2>1, <2>2, <2>4 DEF Working
      <3>2. lock' = lock
        BY <1>11, <2>4 DEF BeatStep, Dispatch, Revoke, Complete, Error, WorkerLost, Skip,
                           LockUnreachable, beatVars
      <3> QED
        BY <1>7, <3>1, <3>2
    <2> QED
      BY <2>3, <2>4
  <1> QED
    BY <1>8, <1>9, <1>10, <1>11, BeatSteps

(* A task that runs for one tick and is not retried: its steps.            *)
Short(t) == t.retries = 0 /\ t.expires = 1 /\ t.limit = 1

Ended(m, w) ==
    Revoke(m) \/ Complete(m) \/ Error(m) \/ (WorkerLost(m) /\ ~ T.acksLate) \/ (w \in Workers /\ Skip(m, w))

LEMMA ShortSteps ==
  ASSUME RuntimeTypes, Staffed, IsBeat, Short(T), ~ NeedsRedis,
         NEW m \in Messages, NEW w, BeatStep(m, w)
  PROVE  \E x \in Message :
           /\ msg' = [msg EXCEPT ![m] = x]
           /\ \/ Ended(m, w) /\ x.pc = "idle" /\ msg[m].pc # "idle" /\ due' = due
              \/ /\ Dispatch(m) /\ due = 0 /\ due' = T.period /\ msg[m].pc = "idle"
                 /\ x.pc = "queued" /\ x.age = 0 /\ x.retries = 0 /\ x.again = FALSE
              \/ /\ w \in Workers /\ Execute(m, w) /\ due' = due
                 /\ msg[m].pc = "queued" /\ msg[m].age = 0 /\ x.pc = "working" /\ x.age = 0 /\ x.ran = 0
              \/ /\ T.acksLate /\ due' = due
                 /\ msg[m].pc = "working" /\ x.pc = "queued" /\ x.age = msg[m].age
  <1>1. PICK y \in Message : y = msg[m]
    BY DEF RuntimeTypes
  <1>2. msg \in [Messages -> Message] /\ y.retries \in Nat /\ y.age \in Nat
    BY DEF RuntimeTypes, Message
  <1>3. {"queued", "working"} \subseteq Steps /\ NoWorker \in Workers \union {NoWorker}
    BY DEF Steps
  <1>4. /\ NoMsg \in Message /\ NoMsg.pc = "idle" /\ NoMsg.age = 0 /\ NoMsg.retries = 0
        /\ NoMsg.again = FALSE
    BY NoMsgType DEF NoMsg
  <1>5. ASSUME Ended(m, w), msg' = [msg EXCEPT ![m] = NoMsg], msg[m].pc # "idle"
        PROVE  due' = due
    BY <1>5, Zenon DEF Ended, Revoke, Complete, Error, WorkerLost, Skip, beatVars
  <1>6. CASE Dispatch(m)
    <2>1. /\ msg' = [msg EXCEPT ![m] = [NoMsg EXCEPT !.pc = "queued"]]
          /\ due = 0 /\ due' = T.period /\ msg[m].pc = "idle"
      BY <1>6, Zenon DEF Dispatch
    <2>2. PICK x \in Message : x = [NoMsg EXCEPT !.pc = "queued"]
      BY <1>3, <1>4, MovedType
    <2>3. x.pc = "queued" /\ x.age = 0 /\ x.retries = 0 /\ x.again = FALSE
      BY <1>4, <2>2 DEF Message
    <2> QED
      BY <1>6, <2>1, <2>2, <2>3
  <1>7. CASE Revoke(m) \/ Complete(m) \/ (w \in Workers /\ Skip(m, w))
    <2>1. msg' = [msg EXCEPT ![m] = NoMsg] /\ msg[m].pc # "idle" /\ Ended(m, w)
      BY <1>7, Zenon DEF Revoke, Complete, Skip, Working, Ended
    <2> QED
      BY <1>4, <1>5, <2>1
  <1>8. CASE Error(m)
    <2>1. PICK x \in Outcomes(m) : msg' = [msg EXCEPT ![m] = x]
      BY <1>8, Zenon DEF Error
    <2>2. ~ (msg[m].retries < T.retries)
      BY <1>1, <1>2 DEF Short
    <2>3. x = NoMsg
      BY <2>1, <2>2 DEF Outcomes
    <2>4. msg[m].pc # "idle" /\ Ended(m, w)
      BY <1>8 DEF Error, Working, Ended
    <2> QED
      BY <1>4, <1>5, <2>1, <2>3, <2>4
  <1>9. CASE WorkerLost(m)
    <2>1. msg[m].pc = "working" /\ due' = due
      BY <1>9, Zenon DEF WorkerLost, Working
    <2>2. CASE ~ T.acksLate
      <3>1. msg' = [msg EXCEPT ![m] = NoMsg] /\ Ended(m, w)
        BY <1>9, <2>2 DEF WorkerLost, Ended
      <3> QED
        BY <1>4, <2>1, <3>1
    <2>3. CASE T.acksLate
      <3>1. PICK x \in Message : x = [y EXCEPT !.pc = "queued", !.again = TRUE, !.at = NoWorker, !.ran = 0]
        BY <1>3, MovedType
      <3>2. x.pc = "queued" /\ x.age = msg[m].age
        BY <1>1, <3>1 DEF Message
      <3>3. msg' = [msg EXCEPT ![m] = x]
        BY <1>1, <1>9, <2>3, <3>1 DEF WorkerLost
      <3> QED
        BY <2>1, <2>3, <3>2, <3>3
    <2> QED
      BY <2>2, <2>3
  <1>10. CASE w \in Workers /\ Execute(m, w)
    <2>1. PICK x \in Message : x = [y EXCEPT !.pc = "working", !.ran = 0, !.at = w]
      BY <1>3, <1>10, MovedType
    <2>2. /\ msg[m].pc = "queued" /\ msg[m].age < T.expires /\ due' = due
          /\ msg' = [msg EXCEPT ![m].pc = "working", ![m].ran = 0, ![m].at = w]
      BY <1>10, Zenon DEF Execute
    <2>3. msg[m].age = 0
      BY <1>1, <1>2, <2>2 DEF Short
    <2>4. x.pc = "working" /\ x.ran = 0 /\ x.age = 0
      BY <1>1, <2>1, <2>3 DEF Message
    <2>5. msg' = [msg EXCEPT ![m] = x]
      BY <1>1, <1>2, <2>1, <2>2
    <2> QED
      BY <1>10, <2>2, <2>3, <2>4, <2>5
  <1> QED
    BY <1>6, <1>7, <1>8, <1>9, <1>10, Zenon DEF BeatStep, LockUnreachable

LEMMA ShortTick ==
  ASSUME RuntimeTypes, IsBeat, Short(T), Tick, NEW m \in Messages
  PROVE  /\ msg'[m].pc = msg[m].pc
         /\ msg[m].pc = "queued" =>
              /\ msg[m].age # 0 \/ msg[m].retries # 0 \/ msg[m].again # FALSE
              /\ msg'[m].age = 1
         /\ msg[m].pc = "working" => msg[m].ran = 0 /\ msg'[m].ran = 1 /\ msg'[m].age = 1
  <1>1. PICK y \in Message : y = msg[m]
    BY DEF RuntimeTypes
  <1>2. y.age \in Nat /\ y.ran \in Nat
    BY DEF Message
  <1>3. msg'[m] = Older(y)
    BY <1>1, Zenon DEF Tick
  <1>4. /\ Older(y).pc = y.pc
        /\ y.pc = "working" => Older(y).ran = y.ran + 1
        /\ y.pc \in {"queued", "working"} => Older(y).age = Least(y.age + 1, T.expires)
    BY OlderType
  <1>5. Least(y.age + 1, T.expires) = 1
    BY <1>2 DEF Least, Short
  <1>6. ASSUME y.pc = "queued", y.age = 0, y.retries = 0, y.again = FALSE PROVE FALSE
    <2>1. y.age + 1 < T.expires
      BY <1>1, <1>6, Zenon DEF Tick
    <2> QED
      BY <1>6, <2>1 DEF Short
  <1>7. y.pc = "working" => y.ran = 0
    BY <1>1, <1>2 DEF Tick, Short
  <1>8. y.pc = "queued" => y.age # 0 \/ y.retries # 0 \/ y.again # FALSE
    BY <1>6, Zenon
  <1>9. /\ msg'[m].pc = y.pc
        /\ y.pc = "queued" => msg'[m].age = 1
        /\ y.pc = "working" => msg'[m].ran = 1 /\ msg'[m].age = 1
    BY <1>3, <1>4, <1>5, <1>7
  <1> QED
    BY <1>1, <1>7, <1>8, <1>9, Zenon

(* The task whose lock expires within its time limit is safe for another   *)
(* reason: its message has expired or is over long before the next one.    *)
Live(x) == (x.pc = "queued" /\ x.age = 0) \/ x.pc = "working"

Recent(x, d) ==
    /\ x.pc = "queued" => d = 6
    /\ x.pc = "working" => x.ran \in 0..1 /\ x.age = x.ran /\ d = 6 - x.ran

OneRecovery ==
    kind = "recover_orphaned_outputs" =>
      /\ \A m, n \in Messages : Live(msg[m]) /\ Live(msg[n]) => m = n
      /\ \A m \in Messages : Live(msg[m]) => Recent(msg[m], due)

LEMMA RecoveryTask ==
  ASSUME kind = "recover_orphaned_outputs"
  PROVE  /\ IsBeat /\ ~ NeedsRedis /\ Short(T) /\ T.period = 6
  <1>1. IsBeat /\ ~ NeedsRedis
    BY DEF IsBeat, NeedsRedis, QueueTasks
  <1>2. T = recover_orphaned_outputs
    BY BeatTaskIs, Zenon DEF T
  <1>3. Short(T) /\ T.period = 6
    BY <1>2 DEF recover_orphaned_outputs, Beat, Short
  <1> QED
    BY <1>1, <1>3

LEMMA OneRecoveryStep ==
  ASSUME RuntimeTypes, Staffed, BeatOnly, OneRecovery, [Next]_vars
  PROVE  OneRecovery'
  <1> SUFFICES ASSUME kind = "recover_orphaned_outputs"
               PROVE  /\ \A m, n \in Messages : Live(msg'[m]) /\ Live(msg'[n]) => m = n
                      /\ \A m \in Messages : Live(msg'[m]) => Recent(msg'[m], due')
    BY KindStays DEF OneRecovery
  <1>1. /\ IsBeat /\ ~ NeedsRedis /\ Short(T) /\ T.period = 6
    BY RecoveryTask
  <1>2. /\ \A m, n \in Messages : Live(msg[m]) /\ Live(msg[n]) => m = n
        /\ \A m \in Messages : Live(msg[m]) => Recent(msg[m], due)
    BY DEF OneRecovery
  <1>3. /\ \A m \in Messages : msg[m] \in Message /\ msg[m].age \in Nat /\ msg[m].ran \in Nat
        /\ msg \in [Messages -> Message] /\ due \in Nat
    BY DEF RuntimeTypes, Message
  <1>4. CASE Tick
    <2>1. due' = Floor(due)
      BY <1>4 DEF Tick
    <2>2. ASSUME NEW m \in Messages, Live(msg'[m])
          PROVE  Live(msg[m]) /\ Recent(msg'[m], due')
      <3>1. /\ msg'[m].pc = msg[m].pc
            /\ msg[m].pc = "queued" => msg'[m].age = 1
            /\ msg[m].pc = "working" => msg[m].ran = 0 /\ msg'[m].ran = 1 /\ msg'[m].age = 1
        BY <1>1, <1>4, ShortTick
      <3>2. msg[m].pc = "working" /\ msg'[m].pc = "working"
        BY <2>2, <3>1 DEF Live
      <3>3. Live(msg[m]) /\ Recent(msg[m], due)
        BY <1>2, <3>2 DEF Live
      <3>4. due = 6
        BY <3>1, <3>2, <3>3 DEF Recent
      <3>5. due' = 5
        BY <2>1, <3>4 DEF Floor
      <3> QED
        BY <3>1, <3>2, <3>3, <3>5 DEF Recent
    <2> QED
      BY <1>2, <2>2
  <1>5. CASE LockExpires \/ Quiet
    <2>1. msg' = msg /\ due' = due
      BY <1>5 DEF LockExpires, Quiet
    <2> QED
      BY <1>2, <2>1
  <1>6. ASSUME NEW k \in Messages, NEW w, BeatStep(k, w)
        PROVE  /\ \A m, n \in Messages : Live(msg'[m]) /\ Live(msg'[n]) => m = n
               /\ \A m \in Messages : Live(msg'[m]) => Recent(msg'[m], due')
    <2>1. PICK x \in Message :
           /\ msg' = [msg EXCEPT ![k] = x]
           /\ \/ x.pc = "idle" /\ due' = due
              \/ due = 0 /\ due' = T.period /\ x.pc = "queued" /\ x.age = 0
              \/ /\ due' = due
                 /\ msg[k].pc = "queued" /\ msg[k].age = 0 /\ x.pc = "working" /\ x.age = 0 /\ x.ran = 0
              \/ due' = due /\ msg[k].pc = "working" /\ x.pc = "queued" /\ x.age = msg[k].age
      BY <1>1, <1>6, ShortSteps, Zenon
    <2>2. \A n \in Messages : msg'[n] = IF n = k THEN x ELSE msg[n]
      BY <1>3, <2>1
    <2>3. ASSUME due' = due, Live(x) => Live(msg[k]) /\ Recent(x, due)
          PROVE  /\ \A m, n \in Messages : Live(msg'[m]) /\ Live(msg'[n]) => m = n
                 /\ \A m \in Messages : Live(msg'[m]) => Recent(msg'[m], due')
      BY <1>2, <2>2, <2>3
    <2>4. CASE x.pc = "idle" /\ due' = due
      BY <2>3, <2>4 DEF Live
    <2>5. CASE due = 0 /\ due' = T.period /\ x.pc = "queued" /\ x.age = 0
      <3>1. \A n \in Messages : ~ Live(msg[n])
        <4> SUFFICES ASSUME NEW n \in Messages, Live(msg[n]) PROVE FALSE
          OBVIOUS
        <4>1. Recent(msg[n], due)
          BY <1>2
        <4>2. due = 6 \/ (msg[n].ran \in 0..1 /\ due = 6 - msg[n].ran)
          BY <4>1 DEF Recent, Live
        <4> QED
          BY <2>5, <4>2
      <3>2. Recent(x, due')
        BY <1>1, <2>5 DEF Recent
      <3> QED
        BY <2>2, <3>1, <3>2
    <2>6. CASE /\ due' = due
               /\ msg[k].pc = "queued" /\ msg[k].age = 0 /\ x.pc = "working" /\ x.age = 0 /\ x.ran = 0
      <3>1. Live(msg[k]) /\ Recent(msg[k], due)
        BY <1>2, <2>6 DEF Live
      <3>2. due = 6
        BY <2>6, <3>1 DEF Recent
      <3>3. Recent(x, due)
        BY <2>6, <3>2 DEF Recent
      <3> QED
        BY <2>3, <2>6, <3>1, <3>3
    <2>7. CASE due' = due /\ msg[k].pc = "working" /\ x.pc = "queued" /\ x.age = msg[k].age
      <3>1. Live(msg[k]) /\ Recent(msg[k], due)
        BY <1>2, <2>7 DEF Live
      <3>2. x.age = 0 => due = 6
        BY <1>3, <2>7, <3>1 DEF Recent
      <3>3. Live(x) => Recent(x, due)
        BY <2>7, <3>2 DEF Live, Recent
      <3> QED
        BY <2>3, <2>7, <3>1, <3>3
    <2> QED
      BY <2>1, <2>4, <2>5, <2>6, <2>7
  <1> QED
    BY <1>1, <1>4, <1>5, <1>6, BeatSteps

LEMMA BeatInitInv == Init => BeatOnly /\ LockCovers /\ OneRecovery
  <1> SUFFICES ASSUME Init PROVE BeatOnly /\ LockCovers /\ OneRecovery
    OBVIOUS
  <1>1. \A m \in Messages : msg[m].pc = "idle"
    BY DEF Init, NoMsg
  <1>2. \A r \in Rows : ~ Present(r)
    BY RowTypes DEF Init, Present
  <1>3. \A a \in Admins : replay[a].pc = "idle"
    BY NoReplayType DEF Init
  <1>4. BeatOnly
    BY <1>1, <1>2, <1>3 DEF BeatOnly
  <1>5. Working = {} /\ \A m \in Messages : ~ Live(msg[m])
    BY <1>1 DEF Working, Live
  <1> QED
    BY <1>4, <1>5 DEF LockCovers, OneRecovery

(* The three invariants about the locks of beat tasks.                     *)
THEOREM BeatInvariant == Spec => [](BeatOnly /\ LockCovers /\ OneRecovery)
  <1>1. RuntimeInv /\ (BeatOnly /\ LockCovers /\ OneRecovery) /\ [Next]_vars
          => (BeatOnly /\ LockCovers /\ OneRecovery)'
    BY BeatOnlyStep, LockCoversStep, OneRecoveryStep DEF RuntimeInv
  <1> QED
    BY <1>1, BeatInitInv, RuntimeInvariant, PTL DEF Spec

(* Two executions of a beat task overlap only when its lock is shorter     *)
(* than its time limit (cleanup_stale_jobs) or Redis has failed, for any   *)
(* number of workers and messages (broker.py, _acquire_beat_lock).         *)
THEOREM BeatExclusiveTheorem == Spec => []BeatExclusive
  <1>1. RuntimeInv /\ BeatOnly /\ LockCovers /\ OneRecovery => BeatExclusive
    <2> SUFFICES ASSUME RuntimeTypes, BeatOnly, LockCovers, OneRecovery,
                        IsBeat, Cardinality(Working) > 1
                 PROVE  outages > 0 \/ T.ttl < T.limit
      BY DEF RuntimeInv, BeatExclusive
    <2>1. ASSUME \A m, n \in Working : m = n PROVE FALSE
      <3>1. CASE Working = {}
        BY <3>1, FS_EmptySet
      <3>2. CASE Working # {}
        <4>1. PICK m \in Working : TRUE
          BY <3>2
        <4>2. Working = {m}
          BY <2>1, <4>1
        <4> QED
          BY <4>2, FS_Singleton
      <3> QED
        BY <3>1, <3>2
    <2>2. CASE kind = "cleanup_stale_jobs"
      <3>1. T = cleanup_stale_jobs
        BY <2>2, BeatTaskIs, Zenon DEF T
      <3> QED
        BY <3>1 DEF cleanup_stale_jobs, Beat
    <2>3. CASE kind = "recover_orphaned_outputs"
      <3>1. \A m \in Working : m \in Messages /\ Live(msg[m])
        BY DEF Working, Live
      <3> QED
        BY <2>1, <2>3, <3>1 DEF OneRecovery
    <2>4. CASE Covered(T)
      <3>1. outages \in Nat /\ outages # 0
        BY <2>1, <2>4 DEF LockCovers, RuntimeTypes
      <3> QED
        BY <3>1
    <2> QED
      BY <2>2, <2>3, <2>4, TheTask
  <1> QED
    BY <1>1, BeatInvariant, RuntimeInvariant, PTL

-----------------------------------------------------------------------------
(* The purge of soft-deleted rows: each fault and the lock it leaves behind*)
(* cost two days at most, and every second day may be skipped because the  *)
(* lock of the day before is still there.                                  *)

Purging == kind = "purge_soft_deleted_records"

LocksInPeriod == lock <= due + 1 /\ \A w \in Workers : local[w] <= due + 1

(* A lock was taken in this period; a lock is held at all.                 *)
Hot == lock = due + 1 \/ \E w \in Workers : local[w] = due + 1
AnyLock == lock # 0 \/ \E w \in Workers : local[w] # 0

Waiting(x) ==
    /\ due = 12 /\ x.age = 0 /\ x.retries = 0 /\ x.again = FALSE
    /\ window <= 2 * faults + 2 /\ (AnyLock => window <= 2 * faults + 1)
    /\ ~ Hot

AtWork(x) ==
    /\ window <= 2 * faults + 2
    /\ (x.ran = 0 /\ due = 12) \/ (x.ran = 1 /\ due = 11)

Idling == window <= 2 * faults + 1 /\ (Hot => window <= 2 * faults)

PurgePace ==
    /\ LocksInPeriod
    /\ \A m, n \in Messages : msg[m].pc # "idle" /\ msg[n].pc # "idle" => m = n
    /\ (\A m \in Messages : msg[m].pc = "idle") => Idling
    /\ \A m \in Messages : /\ msg[m].pc = "queued" => Waiting(msg[m])
                           /\ msg[m].pc = "working" => AtWork(msg[m])

PurgeInv ==
    /\ Purging => PurgePace
    /\ ~ Purging => window = 0

LEMMA PurgeTask ==
  ASSUME Purging
  PROVE  IsBeat /\ ~ NeedsRedis /\ Short(T) /\ T.period = 12 /\ T.ttl = 12 /\ ~ T.acksLate
  <1>1. IsBeat /\ ~ NeedsRedis
    BY DEF Purging, IsBeat, NeedsRedis, QueueTasks
  <1>2. T = purge_soft_deleted_records
    BY BeatTaskIs, Zenon DEF T, Purging
  <1>3. Short(T) /\ T.period = 12 /\ T.ttl = 12
    BY <1>2 DEF purge_soft_deleted_records, Beat, Short
  <1>4. ~ T.acksLate
    BY <1>2, Zenon DEF purge_soft_deleted_records, Beat
  <1> QED
    BY <1>1, <1>3, <1>4

LEMMA PurgeTick ==
  ASSUME RuntimeTypes, BeatOnly, Purging, PurgePace, Tick
  PROVE  PurgePace'
  <1>1. Short(T) /\ IsBeat
    BY PurgeTask
  <1>2. /\ due' = Floor(due) /\ lock' = Floor(lock) /\ local' = [w \in Workers |-> Floor(local[w])]
        /\ window' = window /\ faults' = faults
    BY Zenon DEF Tick
  <1>3. due \in Nat /\ lock \in Nat /\ local \in [Workers -> Nat] /\ window \in Nat /\ faults \in Nat
    BY RuntimeAssumption DEF RuntimeTypes, RuntimeAssumption
  <1>4. \A n \in Nat : n <= due + 1 =>
          /\ Floor(n) \in Nat /\ Floor(n) <= Floor(due) + 1
          /\ Floor(n) = Floor(due) + 1 => n = due + 1
    BY <1>3 DEF Floor
  <1>5. LocksInPeriod' /\ (Hot' => Hot)
    BY <1>2, <1>3, <1>4 DEF PurgePace, LocksInPeriod, Hot
  <1>6. \A m \in Messages : msg'[m].pc = msg[m].pc
    BY <1>1, ShortTick
  <1>7. (\A m, n \in Messages : msg[m].pc # "idle" /\ msg[n].pc # "idle" => m = n)'
    BY <1>6 DEF PurgePace
  <1>8. ((\A m \in Messages : msg[m].pc = "idle") => Idling)'
    BY <1>2, <1>5, <1>6 DEF PurgePace, Idling
  <1>9. ASSUME NEW m \in Messages
        PROVE  /\ msg'[m].pc = "queued" => Waiting(msg[m])'
               /\ msg'[m].pc = "working" => AtWork(msg[m])'
    <2>1. msg[m].pc # "queued"
      <3>1. msg[m].pc = "queued" => msg[m].age = 0 /\ msg[m].retries = 0 /\ msg[m].again = FALSE
        BY Zenon DEF PurgePace, Waiting
      <3>2. msg[m].pc = "queued" => msg[m].age # 0 \/ msg[m].retries # 0 \/ msg[m].again # FALSE
        BY <1>1, ShortTick, Zenon
      <3> QED
        BY <3>1, <3>2, Zenon
    <2>2. ASSUME msg[m].pc = "working" PROVE AtWork(msg[m])'
      <3>1. msg[m].ran = 0 /\ msg'[m].ran = 1
        BY <1>1, <2>2, ShortTick
      <3>2. window <= 2 * faults + 2 /\ due = 12
        BY <2>2, <3>1 DEF PurgePace, AtWork
      <3>3. due' = 11
        BY <1>2, <3>2 DEF Floor
      <3> QED
        BY <1>2, <3>1, <3>2, <3>3 DEF AtWork
    <2> QED
      BY <1>6, <2>1, <2>2
  <1> QED
    BY <1>5, <1>7, <1>8, <1>9 DEF PurgePace

(* The locks only expire, nothing else happens.                            *)
LEMMA PurgeExpiry ==
  ASSUME RuntimeTypes, BeatOnly, Purging, PurgePace, LockExpires \/ Quiet
  PROVE  PurgePace'
  <1>1. /\ due' = due /\ window' = window /\ faults' = faults /\ msg' = msg
        /\ \/ lock' = 0 /\ local' = local
           \/ lock' = lock /\ \E w \in Workers : local' = [local EXCEPT ![w] = 0]
           \/ lock' = lock /\ local' = local
    BY DEF LockExpires, Quiet
  <1>2. due \in Nat /\ lock \in Nat /\ local \in [Workers -> Nat]
    BY DEF RuntimeTypes
  <1>3. /\ lock' = 0 \/ lock' = lock
        /\ \A w \in Workers : local'[w] = 0 \/ local'[w] = local[w]
    BY <1>1, <1>2
  <1>4. LocksInPeriod' /\ (Hot' => Hot) /\ (AnyLock' => AnyLock)
    BY <1>1, <1>2, <1>3 DEF PurgePace, LocksInPeriod, Hot, AnyLock
  <1>5. \A m \in Messages : /\ msg[m].pc = "queued" => Waiting(msg[m])'
                            /\ msg[m].pc = "working" => AtWork(msg[m])'
    BY <1>1, <1>4, Zenon DEF PurgePace, Waiting, AtWork
  <1>6. Idling => Idling'
    BY <1>1, <1>4, Zenon DEF Idling
  <1> QED
    BY <1>1, <1>4, <1>5, <1>6, Zenon DEF PurgePace

(* A message that is over: completed, or skipped, or at the price of a     *)
(* fault.                                                                  *)
LEMMA PurgeEnded ==
  ASSUME RuntimeTypes, BeatOnly, Purging, PurgePace, 2 * MaxFaults + 2 <= PurgeWindow,
         NEW m \in Messages, NEW w, Ended(m, w), msg[m].pc # "idle"
  PROVE  LocksInPeriod' /\ Idling'
  <1>1. Short(T) /\ IsBeat
    BY PurgeTask
  <1>2. /\ due \in Nat /\ lock \in Nat /\ local \in [Workers -> Nat] /\ window \in Nat
        /\ faults \in Nat /\ MaxFaults \in Nat /\ faults <= MaxFaults
    BY RuntimeAssumption DEF RuntimeTypes, RuntimeAssumption
  <1>3. window <= 2 * faults + 2
    <2>1. msg[m].pc = "queued" \/ msg[m].pc = "working"
      BY <1>1 DEF BeatOnly
    <2> QED
      BY <2>1 DEF PurgePace, Waiting, AtWork
  <1>4. LocksInPeriod
    BY DEF PurgePace
  <1>5. ASSUME faults' = faults + 1, window' = window PROVE Idling'
    BY <1>2, <1>3, <1>5 DEF Idling
  <1>6. CASE Revoke(m)
    <2>1. UNCHANGED <<lock, local, due, window>>
      BY <1>6 DEF Revoke, beatVars
    <2>2. msg[m].pc = "queued"
      BY <1>6 DEF Revoke
    <2>3. msg[m].age = 0
      BY <2>2 DEF PurgePace, Waiting
    <2>4. Fault
      BY <1>1, <1>6, <2>3 DEF Revoke, Short
    <2> QED
      BY <1>4, <1>5, <2>1, <2>4 DEF Fault, LocksInPeriod
  <1>7. CASE Error(m)
    <2>1. UNCHANGED <<lock, local, due, window>> /\ Fault
      BY <1>7 DEF Error, beatVars, Purging
    <2> QED
      BY <1>4, <1>5, <2>1 DEF Fault, LocksInPeriod
  <1>8. CASE WorkerLost(m)
    <2>1. /\ UNCHANGED <<lock, due, window>> /\ Fault
          /\ local' = [local EXCEPT ![msg[m].at] = 0]
      BY <1>8, Zenon DEF WorkerLost
    <2>2. \A v \in Workers : local'[v] = 0 \/ local'[v] = local[v]
      BY <1>2, <2>1
    <2> QED
      BY <1>2, <1>4, <1>5, <2>1, <2>2 DEF Fault, LocksInPeriod
  <1>9. CASE Complete(m)
    <2>1. /\ UNCHANGED <<lock, local, due, faults>>
          /\ window' = IF window <= PurgeWindow THEN 0 ELSE window
      BY <1>9, Zenon DEF Complete
    <2>2. window <= PurgeWindow
      BY <1>2, <1>3 DEF PurgeWindow
    <2> QED
      BY <1>2, <1>4, <2>1, <2>2 DEF Idling, LocksInPeriod
  <1>10. CASE w \in Workers /\ Skip(m, w)
    <2>1. /\ UNCHANGED <<lock, local, due, window, faults>>
          /\ msg[m].pc = "queued" /\ Locked(w)
      BY <1>10, Zenon DEF Skip
    <2>2. Waiting(msg[m]) /\ AnyLock
      BY <1>10, <2>1 DEF PurgePace, Locked, AnyLock
    <2>3. ~ Hot' /\ LocksInPeriod'
      BY <1>4, <2>1, <2>2 DEF Waiting, Hot, LocksInPeriod
    <2> QED
      BY <2>1, <2>2, <2>3 DEF Waiting, Idling
  <1> QED
    BY <1>6, <1>7, <1>8, <1>9, <1>10 DEF Ended

LEMMA PurgeBeat ==
  ASSUME RuntimeTypes, Staffed, BeatOnly, Purging, PurgePace, 2 * MaxFaults + 2 <= PurgeWindow,
         NEW m \in Messages, NEW w, BeatStep(m, w)
  PROVE  PurgePace'
  <1>1. IsBeat /\ ~ NeedsRedis /\ Short(T) /\ T.period = 12 /\ T.ttl = 12 /\ ~ T.acksLate
    BY PurgeTask
  <1>2. /\ due \in Nat /\ lock \in Nat /\ local \in [Workers -> Nat] /\ window \in Nat /\ faults \in Nat
        /\ msg \in [Messages -> Message]
    BY RuntimeAssumption DEF RuntimeTypes, RuntimeAssumption
  <1>3. PICK x \in Message :
           /\ msg' = [msg EXCEPT ![m] = x]
           /\ \/ Ended(m, w) /\ x.pc = "idle" /\ msg[m].pc # "idle" /\ due' = due
              \/ /\ Dispatch(m) /\ due = 0 /\ due' = T.period /\ msg[m].pc = "idle"
                 /\ x.pc = "queued" /\ x.age = 0 /\ x.retries = 0 /\ x.again = FALSE
              \/ /\ w \in Workers /\ Execute(m, w) /\ due' = due
                 /\ msg[m].pc = "queued" /\ msg[m].age = 0 /\ x.pc = "working" /\ x.age = 0 /\ x.ran = 0
    BY <1>1, ShortSteps, Zenon
  <1>4. \A n \in Messages : msg'[n] = IF n = m THEN x ELSE msg[n]
    BY <1>2, <1>3
  <1>5. CASE Ended(m, w) /\ x.pc = "idle" /\ msg[m].pc # "idle" /\ due' = due
    <2>1. LocksInPeriod' /\ Idling'
      BY <1>5, PurgeEnded
    <2>2. \A n \in Messages : msg'[n].pc = "idle"
      BY <1>4, <1>5 DEF PurgePace
    <2> QED
      BY <2>1, <2>2 DEF PurgePace
  <1>6. CASE /\ Dispatch(m) /\ due = 0 /\ due' = T.period /\ msg[m].pc = "idle"
             /\ x.pc = "queued" /\ x.age = 0 /\ x.retries = 0 /\ x.again = FALSE
    <2>1. UNCHANGED <<lock, local, faults>> /\ window' = window + 1 /\ due' = 12
      BY <1>1, <1>6 DEF Dispatch, Purging
    <2>2. \A n \in Messages : msg[n].pc = "idle"
      BY <1>1, <1>6 DEF BeatOnly, PurgePace, Waiting, AtWork
    <2>3. Idling /\ LocksInPeriod
      BY <2>2 DEF PurgePace
    <2>4. lock <= 1 /\ \A v \in Workers : local[v] <= 1
      BY <1>6, <2>3 DEF LocksInPeriod
    <2>5. LocksInPeriod' /\ ~ Hot'
      BY <1>2, <2>1, <2>4 DEF LocksInPeriod, Hot
    <2>6. AnyLock' => Hot
      BY <1>2, <1>6, <2>1, <2>4 DEF AnyLock, Hot
    <2>7. window' <= 2 * faults' + 2 /\ (AnyLock' => window' <= 2 * faults' + 1)
      BY <1>2, <2>1, <2>3, <2>6 DEF Idling
    <2>8. Waiting(x)'
      BY <1>6, <2>1, <2>5, <2>7, Zenon DEF Waiting
    <2>9. \A n \in Messages : /\ msg'[n].pc = "queued" => Waiting(msg[n])'
                              /\ msg'[n].pc = "working" => AtWork(msg[n])'
      BY <1>4, <1>6, <2>2, <2>8
    <2>10. (\A n, k \in Messages : msg[n].pc # "idle" /\ msg[k].pc # "idle" => n = k)'
      BY <1>4, <2>2
    <2>11. ~ \A n \in Messages : msg'[n].pc = "idle"
      BY <1>4, <1>6
    <2> QED
      BY <2>5, <2>9, <2>10, <2>11, Zenon DEF PurgePace
  <1>7. CASE /\ w \in Workers /\ Execute(m, w) /\ due' = due
             /\ msg[m].pc = "queued" /\ msg[m].age = 0 /\ x.pc = "working" /\ x.age = 0 /\ x.ran = 0
    <2>1. AcquireBeatLock(w) /\ window' = window /\ faults' = faults
      BY <1>7, Zenon DEF Execute
    <2>2. Waiting(msg[m]) /\ LocksInPeriod
      BY <1>7 DEF PurgePace
    <2>3. due = 12 /\ window <= 2 * faults + 2
      BY <2>2 DEF Waiting
    <2>4. /\ lock' = lock \/ lock' = 13
          /\ local' = local \/ local' = [local EXCEPT ![w] = 13]
      BY <1>1, <2>1 DEF AcquireBeatLock
    <2>5. LocksInPeriod'
      BY <1>2, <1>7, <2>2, <2>3, <2>4 DEF LocksInPeriod
    <2>6. AtWork(x)'
      BY <1>7, <2>1, <2>3 DEF AtWork
    <2>7. \A n \in Messages : n # m => msg[n].pc = "idle"
      BY <1>7 DEF PurgePace
    <2>8. \A n \in Messages : /\ msg'[n].pc = "queued" => Waiting(msg[n])'
                              /\ msg'[n].pc = "working" => AtWork(msg[n])'
      BY <1>4, <1>7, <2>6, <2>7
    <2>9. (\A n, k \in Messages : msg[n].pc # "idle" /\ msg[k].pc # "idle" => n = k)'
      BY <1>4, <2>7
    <2>10. ~ \A n \in Messages : msg'[n].pc = "idle"
      BY <1>4, <1>7
    <2> QED
      BY <2>5, <2>8, <2>9, <2>10, Zenon DEF PurgePace
  <1> QED
    BY <1>3, <1>5, <1>6, <1>7

(* Other tasks do not count days.                                          *)
LEMMA NoWindow ==
  ASSUME ~ Purging, window = 0, [Next]_vars
  PROVE  window' = 0
  <1>1. ASSUME NEW m, NEW w, BeatStep(m, w) PROVE window' = window \/ window' = 0
    BY <1>1 DEF BeatStep, Dispatch, Revoke, Complete, Error, WorkerLost, Execute, Skip,
                LockUnreachable, beatVars, Purging
  <1>2. ASSUME NEW m, NEW w, NEW a, QueueStep(m, w, a) PROVE window' = window
    BY <1>2 DEF QueueStep, Send, GuardGet, GuardIncr, Succeed, Raise, PoisonGet, PoisonIncr,
                WriteDeadLetter, Start, Reject, ReplayDispatch, beatVars
  <1>3. ASSUME Elsewhere PROVE window' = window
    BY <1>3 DEF Elsewhere, LockExpires, GuardExpires, JobTimesOut, BrokerAges, PurgeExpired,
                ReplayRead, ReplayRefused, ReplayCommit, Outage, Recovery, vars, beatVars
  <1>4. ASSUME Tick PROVE window' = window
    BY <1>4 DEF Tick
  <1> QED
    BY <1>1, <1>2, <1>3, <1>4, StepsOf

LEMMA PurgeStep ==
  ASSUME RuntimeTypes, Staffed, BeatOnly, PurgeInv, 2 * MaxFaults + 2 <= PurgeWindow, [Next]_vars
  PROVE  PurgeInv'
  <1>1. Purging' <=> Purging
    BY KindStays DEF Purging
  <1>2. CASE Purging
    <2>1. IsBeat /\ PurgePace
      BY <1>2, PurgeTask DEF PurgeInv
    <2>2. PurgePace'
      BY <1>2, <2>1, BeatSteps, PurgeTick, PurgeExpiry, PurgeBeat
    <2> QED
      BY <1>1, <1>2, <2>2 DEF PurgeInv
  <1>3. CASE ~ Purging
    BY <1>1, <1>3, NoWindow DEF PurgeInv
  <1> QED
    BY <1>2, <1>3

LEMMA PurgeInitInv == Init => PurgeInv
  <1> SUFFICES ASSUME Init PROVE PurgeInv
    OBVIOUS
  <1>1. \A m \in Messages : msg[m].pc = "idle"
    BY DEF Init, NoMsg
  <1>2. lock = 0 /\ due = 0 /\ window = 0 /\ faults = 0 /\ \A w \in Workers : local[w] = 0
    BY DEF Init
  <1>3. LocksInPeriod /\ Idling
    BY <1>2 DEF LocksInPeriod, Idling, Hot
  <1> QED
    BY <1>1, <1>2, <1>3 DEF PurgeInv, PurgePace

(* A soft-deleted row is purged before it is too old to be seen by         *)
(* purge_soft_deleted_records, as long as the failed and lost executions   *)
(* on the way leave room for it in the window of a week: each may cost two *)
(* days, and two more are lost without any (maintenance.py).               *)
THEOREM PurgedInTimeTheorem ==
  ASSUME 2 * MaxFaults + 2 <= PurgeWindow
  PROVE  Spec => []PurgedInTime
  <1>1. RuntimeInv /\ BeatOnly /\ PurgeInv /\ [Next]_vars => PurgeInv'
    BY PurgeStep DEF RuntimeInv
  <1>2. RuntimeInv /\ BeatOnly /\ PurgeInv => PurgedInTime
    <2> SUFFICES ASSUME RuntimeTypes, BeatOnly, PurgeInv PROVE window <= PurgeWindow
      BY DEF RuntimeInv, PurgedInTime
    <2>1. window \in Nat /\ faults \in Nat /\ MaxFaults \in Nat /\ faults <= MaxFaults
      BY RuntimeAssumption DEF RuntimeTypes, RuntimeAssumption
    <2>2. CASE ~ Purging
      BY <2>2 DEF PurgeInv, PurgeWindow
    <2>3. CASE Purging
      <3>1. window <= 2 * faults + 2
        <4>1. CASE \A m \in Messages : msg[m].pc = "idle"
          BY <2>1, <2>3, <4>1 DEF PurgeInv, PurgePace, Idling
        <4>2. ASSUME NEW m \in Messages, msg[m].pc # "idle" PROVE window <= 2 * faults + 2
          <5>1. msg[m].pc = "queued" \/ msg[m].pc = "working"
            BY <2>3, <4>2, PurgeTask DEF BeatOnly
          <5> QED
            BY <2>3, <5>1 DEF PurgeInv, PurgePace, Waiting, AtWork
        <4> QED
          BY <4>1, <4>2
      <3> QED
        BY <2>1, <3>1 DEF PurgeWindow
    <2> QED
      BY <2>2, <2>3
  <1> QED
    BY <1>1, <1>2, PurgeInitInv, BeatInvariant, RuntimeInvariant, PTL DEF Spec
=============================================================================
