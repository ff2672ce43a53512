------------------------- MODULE JobPipelineProofs -------------------------
(***************************************************************************)
(* JobPipeline for any number of deliveries, retries and faults: neither a *)
(* charge nor the state "completed" is ever without the output.            *)
(*                                                                         *)
(* Nothing keeps two workers apart, and each of them writes a state that   *)
(* it computed from the one it loaded earlier.  The invariant therefore    *)
(* speaks of what a worker has seen: a worker that saw the job completed   *)
(* did so after an output was stored (SeenIsBacked), and outputs stay.     *)
(*                                                                         *)
(* The second part is about JobSocket, which reports the state of the job, *)
(* for any number of connections and any limits.  What a client is         *)
(* told is traced from the row through the channel and the queue of its    *)
(* handler (Honest); the limits follow from who is between the count and   *)
(* the entry of a connection, and those are no more than the accept        *)
(* semaphore lets in.                                                      *)
(***************************************************************************)
EXTENDS JobPipeline, JobSocket, FiniteSetTheorems, TLAPS

States == {"none", "queued", "reserved", "processing", "completed", "failed", "compensated"}

Task == [pc : {"idle", "queued", "loaded", "body", "gateway", "store", "insert", "commit",
               "raised1", "raised", "done", "dlq"},
         retries : 0..MaxRetries, seen : States, locked : BOOLEAN, own : 0..1,
         fatal : BOOLEAN]

Types ==
    /\ state \in States
    /\ task \in [Deliveries -> Task]
    /\ output \in BOOLEAN
    /\ reserved \in Nat
    /\ charged \in Nat
    /\ request.seen \in States

(* A worker that has seen the job completed may write a state computed     *)
(* from that at any later time.                                            *)
SeenIsBacked == \A d \in Deliveries : task[d].seen = "completed" => output

StateIsBacked == state = "completed" => output

ChargeIsBacked == charged > 0 => output

IInv ==
    /\ Types
    /\ SeenIsBacked
    /\ StateIsBacked
    /\ ChargeIsBacked

-----------------------------------------------------------------------------
(* The state machine: both phases leave a state of the machine.  Only the  *)
(* end of phase 3 completes a job, phase 1 merely leaves a completed one.  *)

LEMMA StartStateFacts ==
  ASSUME NEW s \in States
  PROVE  /\ StartState(s) \in States \union {"inconsistent"}
         /\ StartState(s) = "completed" => s = "completed"
  BY DEF States, StartState, Reconcile, AllowedTransitions

LEMMA EndStateFacts ==
  ASSUME NEW s \in States
  PROVE  EndState(s) \in States
  BY DEF States, EndState, Reconcile, AllowedTransitions

(* A transition of the API leads to "queued", never to "completed".        *)
LEMMA TransitionFacts ==
  ASSUME NEW s \in States
  PROVE  AllowedTransitions[s] \subseteq States
  BY DEF States, AllowedTransitions

(* What a failed delivery leaves behind is a message or a dead letter of   *)
(* which nothing has been seen.                                            *)
LEMMA FreshTask ==
  ASSUME NEW p \in {"queued", "dlq"}, NEW n \in 0..MaxRetries
  PROVE  /\ [NoTask EXCEPT !.pc = p, !.retries = n] \in Task
         /\ [NoTask EXCEPT !.pc = p, !.retries = n].seen = "none"
  <1> DEFINE a == [NoTask EXCEPT !.pc = p]
             b == [a EXCEPT !.retries = n]
  <1>1. NoTask \in Task /\ NoTask.seen = "none"
    BY PipelineAssumption DEF PipelineAssumption, NoTask, Task, States
  <1>2. a \in Task /\ a.seen = "none"
    BY <1>1 DEF Task
  <1> HIDE DEF a
  <1>3. b \in Task /\ b.seen = "none"
    BY <1>2 DEF Task
  <1> QED
    BY <1>3 DEF a

(* Releasing a reservation floors the account at zero.                     *)
LEMMA ReleasedNat ==
  ASSUME Types, NEW d \in Deliveries, NEW n \in Released(d)
  PROVE  n \in Nat
  BY DEF Types, Task, Released, FloorZero

-----------------------------------------------------------------------------
(* The first message has not been sent, the job has no output.             *)
LEMMA InitInv == Init => IInv
  <1> SUFFICES ASSUME Init PROVE IInv
    OBVIOUS
  <1>1. NoTask \in Task /\ NoTask.seen = "none"
    BY PipelineAssumption DEF PipelineAssumption, NoTask, Task, States
  <1>2. Types
    BY <1>1 DEF Init, Types, States, NoRequest
  <1> QED
    BY <1>1, <1>2 DEF Init, IInv, SeenIsBacked, StateIsBacked, ChargeIsBacked

(* A step that changes only the task of one delivery, to one that has seen *)
(* nothing new, keeps the invariant.                                       *)
LEMMA TaskStep ==
  ASSUME IInv, NEW d \in Deliveries, NEW t \in Task,
         t.seen = "completed" => output,
         task' = [task EXCEPT ![d] = t],
         state' \in States, state' = "completed" => output,
         output' = output, reserved' \in Nat, charged' = charged, request'.seen \in States
  PROVE  IInv'
  BY DEF IInv, Types, SeenIsBacked, StateIsBacked, ChargeIsBacked

(* A step that leaves the tasks alone and completes no job without output. *)
LEMMA StateStep ==
  ASSUME IInv, state' \in States, state' = "completed" => output,
         reserved' \in Nat, UNCHANGED <<task, output, charged>>, request'.seen \in States
  PROVE  IInv'
  BY DEF IInv, Types, SeenIsBacked, StateIsBacked, ChargeIsBacked

-----------------------------------------------------------------------------
(* Phase 1 writes a state computed from the one it saw.                    *)
LEMMA ReserveInv == ASSUME IInv, NEW d \in Deliveries, Reserve(d) PROVE IInv'
  <1> DEFINE s == task[d].seen
  <1>1. s \in States /\ task[d] \in Task /\ reserved \in Nat /\ state \in States
    BY DEF IInv, Types, Task
  <1>2. state = "completed" => output
    BY DEF IInv, StateIsBacked
  <1>3. s = "completed" => output
    BY DEF IInv, SeenIsBacked
  <1>4. UNCHANGED <<output, charged>> /\ request'.seen \in States
    BY DEF Reserve, IInv, Types
  <1>5. CASE /\ StartState(s) = "inconsistent"
             /\ task' = [task EXCEPT ![d].pc = "raised1"]
             /\ UNCHANGED <<state, reserved>>
    <2> DEFINE t == [task[d] EXCEPT !.pc = "raised1"]
    <2>1. t \in Task /\ t.seen = s
      BY <1>1 DEF Task
    <2>2. task' = [task EXCEPT ![d] = t]
      BY <1>5
    <2> QED
      BY <1>1, <1>2, <1>3, <1>4, <1>5, <2>1, <2>2, TaskStep
  <1>6. CASE /\ StartState(s) # "inconsistent"
             /\ state' = Stored(s, StartState(s))
             /\ reserved' = reserved + 1
             /\ task' = [task EXCEPT ![d].pc = "gateway", ![d].own = 1]
    <2> DEFINE m == [task[d] EXCEPT !.pc = "gateway"]
               t == [m EXCEPT !.own = 1]
    <2>1. task' = [task EXCEPT ![d] = t]
      BY <1>6, <1>1 DEF IInv, Types
    <2>2. m \in Task /\ m.seen = s
      BY <1>1 DEF Task
    <2> HIDE DEF m
    <2>3. t \in Task /\ t.seen = s
      BY <2>2 DEF Task
    <2>4. state' \in States /\ (state' = "completed" => output)
      BY <1>1, <1>2, <1>3, <1>6, StartStateFacts DEF Stored
    <2>5. reserved' \in Nat
      BY <1>1, <1>6
    <2> QED
      BY <1>3, <1>4, <2>1, <2>3, <2>4, <2>5, TaskStep
  <1>7. CASE /\ task' = [task EXCEPT ![d].pc = "gateway"]
             /\ UNCHANGED <<state, reserved>>
    <2> DEFINE t == [task[d] EXCEPT !.pc = "gateway"]
    <2>1. t \in Task /\ t.seen = s
      BY <1>1 DEF Task
    <2>2. task' = [task EXCEPT ![d] = t]
      BY <1>7
    <2> QED
      BY <1>1, <1>2, <1>3, <1>4, <1>7, <2>1, <2>2, TaskStep
  <1> QED
    BY <1>5, <1>6, <1>7 DEF Reserve

(* Phase 3 stores the output in the transaction that charges and completes.*)
LEMMA StoreOutputInv == ASSUME IInv, NEW d \in Deliveries, StoreOutput(d) PROVE IInv'
  <1> DEFINE s == task[d].seen
             t == [task[d] EXCEPT !.pc = "done"]
  <1>1. s \in States /\ task[d] \in Task /\ reserved \in Nat /\ state \in States
    BY DEF IInv, Types, Task
  <1>2. t \in Task
    BY <1>1 DEF Task
  <1>3. task' \in [Deliveries -> Task]
    BY <1>2 DEF StoreOutput, IInv, Types
  <1>4. state' \in States
    BY <1>1, EndStateFacts DEF StoreOutput, Stored
  <1>5. output'
    BY DEF StoreOutput
  <1>6. reserved' \in Nat /\ charged' \in Nat
    BY <1>1 DEF StoreOutput, Charges, IInv, Types, Task
  <1>7. output' \in BOOLEAN /\ request'.seen \in States
    BY DEF StoreOutput, IInv, Types
  <1> QED
    BY <1>3, <1>4, <1>5, <1>6, <1>7
    DEF IInv, Types, SeenIsBacked, StateIsBacked, ChargeIsBacked

(* The except clauses send the message again or give it up.                *)
LEMMA FailInv == ASSUME IInv, NEW d \in Deliveries, Fail(d) PROVE IInv'
  <1> DEFINE t == IF task[d].fatal \/ task[d].retries >= MaxRetries
                  THEN [NoTask EXCEPT !.pc = "dlq", !.retries = task[d].retries]
                  ELSE Retried(d)
  <1>1. task[d] \in Task /\ state \in States /\ reserved \in Nat
    BY DEF IInv, Types
  <1>2. task[d].retries \in 0..MaxRetries
    BY <1>1 DEF Task
  <1>3. t \in Task /\ t.seen = "none"
    <2>1. CASE task[d].fatal \/ task[d].retries >= MaxRetries
      BY <1>2, <2>1, FreshTask
    <2>2. CASE ~(task[d].fatal \/ task[d].retries >= MaxRetries)
      <3>1. task[d].retries + 1 \in 0..MaxRetries
        BY <1>2, <2>2, PipelineAssumption DEF PipelineAssumption
      <3> QED
        BY <2>2, <3>1, FreshTask DEF Retried
    <2> QED
      BY <2>1, <2>2
  <1>4. task' = [task EXCEPT ![d] = t]
    BY DEF Fail
  <1>5. reserved' \in Nat
    BY <1>1, ReleasedNat DEF Fail, IInv
  <1>6. state' = state /\ output' = output /\ charged' = charged /\ request'.seen \in States
    BY DEF Fail, Compensated, IInv, Types
  <1>7. state = "completed" => output
    BY DEF IInv, StateIsBacked
  <1> HIDE DEF t
  <1> QED
    BY <1>1, <1>3, <1>4, <1>5, <1>6, <1>7, TaskStep

(* The other steps of a worker: they move it on, and what it loads is the  *)
(* committed state.                                                        *)
LEMMA MoveInv ==
  ASSUME IInv, NEW d \in Deliveries,
         \/ Request(d) \/ Drop(d) \/ Load(d) \/ AcquireLock(d) \/ Gateway(d) \/ Reload(d)
         \/ Unlock(d) \/ StoreFails(d) \/ Replay(d)
  PROVE  IInv'
  <1>1. task[d] \in Task /\ state \in States /\ reserved \in Nat
    BY DEF IInv, Types
  <1>2. /\ state = "completed" => output
        /\ task[d].seen = "completed" => output
    BY DEF IInv, StateIsBacked, SeenIsBacked
  <1>3. UNCHANGED <<state, output, charged>> /\ request'.seen \in States
    <2>1. request' = [request EXCEPT !.pc = "sent"] \/ request' = request
      BY DEF Request, Drop, Load, AcquireLock, Gateway, Reload, Unlock, StoreFails, Replay
    <2>2. request'.seen = request.seen
      <3>1. [request EXCEPT !.pc = "sent"].seen = request.seen
        BY DEF IInv, Types
      <3> QED
        BY <2>1, <3>1
    <2> QED
      BY <2>2 DEF Request, Drop, Load, AcquireLock, Gateway, Reload, Unlock, StoreFails, Replay,
                  IInv, Types
  <1>4. reserved' \in Nat
    BY <1>1, ReleasedNat
    DEF IInv, Request, Drop, Load, AcquireLock, Gateway, Reload, Unlock, StoreFails, Replay
  <1>5. PICK p \in {"queued", "done", "loaded", "body", "gateway", "raised1", "raised", "store",
                    "insert", "commit"}, s \in {task[d].seen, state}, l \in BOOLEAN, f \in BOOLEAN :
          task' = [task EXCEPT ![d] =
                     [task[d] EXCEPT !.pc = p, !.seen = s, !.locked = l, !.fatal = f]]
    <2> DEFINE To(p, s, l, f) ==
          task' = [task EXCEPT ![d] =
                     [task[d] EXCEPT !.pc = p, !.seen = s, !.locked = l, !.fatal = f]]
    <2>1. task \in [Deliveries -> Task]
      BY DEF IInv, Types
    <2>2. /\ task[d].locked \in BOOLEAN /\ task[d].fatal \in BOOLEAN
      BY <1>1 DEF Task
    <2>3. CASE Request(d) \/ Replay(d)
      <3>1. To("queued", task[d].seen, task[d].locked, task[d].fatal)
        BY <1>1, <2>1, <2>3 DEF Request, Replay, Task
      <3> QED
        BY <2>2, <3>1
    <2>4. CASE Drop(d)
      <3>1. To("done", task[d].seen, task[d].locked, task[d].fatal)
        BY <1>1, <2>1, <2>4 DEF Drop, Task
      <3> QED
        BY <2>2, <3>1
    <2>5. CASE Load(d)
      <3>1. To("loaded", state, task[d].locked, task[d].fatal)
        BY <1>1, <2>1, <2>5 DEF Load, Task
      <3> QED
        BY <2>2, <3>1
    <2>6. CASE AcquireLock(d)
      <3>1. \/ To("body", task[d].seen, TRUE, task[d].fatal)
            \/ To("gateway", task[d].seen, task[d].locked, task[d].fatal)
            \/ To("raised1", task[d].seen, task[d].locked, task[d].fatal)
        BY <1>1, <2>1, <2>6 DEF AcquireLock, Task
      <3> QED
        BY <2>2, <3>1
    <2>7. CASE Gateway(d)
      <3>1. \/ To("store", task[d].seen, task[d].locked, task[d].fatal)
            \/ To("raised", task[d].seen, task[d].locked, TRUE)
            \/ To("raised", task[d].seen, task[d].locked, task[d].fatal)
        BY <1>1, <2>1, <2>7 DEF Gateway, Task
      <3> QED
        BY <2>2, <3>1
    <2>8. CASE Reload(d)
      <3>1. To("insert", state, task[d].locked, task[d].fatal)
        BY <1>1, <2>1, <2>8 DEF Reload, Task
      <3> QED
        BY <2>2, <3>1
    <2>9. CASE Unlock(d)
      <3>1. To("commit", task[d].seen, task[d].locked, task[d].fatal)
        BY <1>1, <2>1, <2>9 DEF Unlock, Task
      <3> QED
        BY <2>2, <3>1
    <2>10. CASE StoreFails(d)
      <3>1. To("raised", task[d].seen, task[d].locked, task[d].fatal)
        BY <1>1, <2>1, <2>10 DEF StoreFails, Task
      <3> QED
        BY <2>2, <3>1
    <2> QED
      BY <2>3, <2>4, <2>5, <2>6, <2>7, <2>8, <2>9, <2>10
  <1> DEFINE t == [task[d] EXCEPT !.pc = p, !.seen = s, !.locked = l, !.fatal = f]
  <1>6. t \in Task /\ t.seen = s
    BY <1>1, <1>5 DEF Task
  <1>7. task' = [task EXCEPT ![d] = t]
    BY <1>5
  <1> HIDE DEF t
  <1> QED
    BY <1>1, <1>2, <1>3, <1>4, <1>5, <1>6, <1>7, TaskStep

(* A dead worker's message and a second delivery start anew.               *)
LEMMA DeliveryInv ==
  ASSUME IInv, NEW d \in Deliveries, Crash(d) \/ \E o \in Deliveries : Redeliver(d, o)
  PROVE  IInv'
  <1>1. /\ task \in [Deliveries -> Task] /\ state \in States /\ reserved \in Nat
        /\ request.seen \in States
    BY DEF IInv, Types
  <1>2. task[d].retries \in 0..MaxRetries
    BY <1>1 DEF Task
  <1>3. state = "completed" => output
    BY DEF IInv, StateIsBacked
  <1>4. CASE Crash(d)
    <2> DEFINE t == [NoTask EXCEPT !.pc = "queued", !.retries = task[d].retries]
    <2>1. t \in Task /\ t.seen = "none"
      BY <1>2, FreshTask
    <2>2. task' = [task EXCEPT ![d] = t] /\ UNCHANGED <<state, output, reserved, charged, request>>
      BY <1>4 DEF Crash
    <2> HIDE DEF t
    <2> QED
      BY <1>1, <1>3, <2>1, <2>2, TaskStep
  <1>5. ASSUME NEW o \in Deliveries, Redeliver(d, o) PROVE IInv'
    <2> DEFINE t == [task[o] EXCEPT !.pc = "queued", !.retries = task[d].retries]
    <2>1. t \in Task /\ t.seen = task[o].seen
      BY <1>1, <1>2 DEF Task
    <2>2. task' = [task EXCEPT ![o] = t] /\ UNCHANGED <<state, output, reserved, charged, request>>
      BY <1>1, <1>5 DEF Redeliver
    <2>3. task[o].seen = "completed" => output
      BY DEF IInv, SeenIsBacked
    <2> HIDE DEF t
    <2> QED
      BY <1>1, <1>3, <2>1, <2>2, <2>3, TaskStep
  <1> QED
    BY <1>4, <1>5

(* The API and the periodic tasks change the state of the job alone; what  *)
(* the request decides on is a state it loaded before.                     *)
LEMMA SystemInv ==
  ASSUME IInv,
         LoadJob \/ RefuseRequest \/ RequestDone \/ Age \/ Cleanup \/ RecoverOrphanedOutputs
  PROVE  IInv'
  <1>1. state \in States /\ reserved \in Nat /\ request.seen \in States
    BY DEF IInv, Types
  <1>2. state = "completed" => output
    BY DEF IInv, StateIsBacked
  <1>3. UNCHANGED <<task, output, charged>> /\ reserved' \in Nat
    BY <1>1 DEF LoadJob, RefuseRequest, RequestDone, Age, Cleanup, RecoverOrphanedOutputs
  <1>4. state' \in States /\ (state' = "completed" => output)
    BY <1>1, <1>2 DEF LoadJob, RefuseRequest, RequestDone, Age, Cleanup, RecoverOrphanedOutputs,
                      States
  <1>5. request'.seen \in States
    BY <1>1 DEF LoadJob, RefuseRequest, RequestDone, Age, Cleanup, RecoverOrphanedOutputs,
                NoRequest, States
  <1> QED
    BY <1>3, <1>4, <1>5, StateStep

(* Every step keeps the invariant.                                         *)
LEMMA StepInv == IInv /\ [Next]_vars => IInv'
  <1> SUFFICES ASSUME IInv, [Next]_vars PROVE IInv'
    OBVIOUS
  <1>1. CASE UNCHANGED vars
    BY <1>1 DEF vars, IInv, Types, SeenIsBacked, StateIsBacked, ChargeIsBacked
  <1>2. CASE Next
    BY <1>2, ReserveInv, StoreOutputInv, FailInv, MoveInv, DeliveryInv, SystemInv
    DEF Next, Work
  <1> QED
    BY <1>1, <1>2

(* The invariant holds of every behaviour of the pipeline.                 *)
THEOREM PipelineInvariant == Spec => []IInv
  BY InitInv, StepInv, PTL DEF Spec

(* Nothing is charged and no job completed without an output that GET      *)
(* /output returns, however stale the state that a worker writes.          *)
THEOREM OutputBacksChargeTheorem == Spec => []OutputBacksCharge
  <1>1. IInv => OutputBacksCharge
    BY DEF IInv, StateIsBacked, ChargeIsBacked, OutputBacksCharge, AIOutputStatus
  <1> QED
    BY <1>1, PipelineInvariant, PTL

(* The retries of a delivery never exceed max_retries of the task, also    *)
(* when it is delivered twice or its worker dies: the safety half of       *)
(* MessagesSettle.                                                         *)
THEOREM RetriesBounded == Spec => [](\A d \in Deliveries : task[d].retries <= MaxRetries)
  <1>1. IInv => \A d \in Deliveries : task[d].retries <= MaxRetries
    BY PipelineAssumption DEF PipelineAssumption, IInv, Types, Task
  <1> QED
    BY <1>1, PipelineInvariant, PTL

(* No step takes an output away or takes a charge back, and a charge is    *)
(* made only by the step that leaves the output stored.                    *)
ChargeIsFinal == charged' # charged => charged = 0 /\ charged' = 1 /\ output'

(* A charge is made once, with its output, and stands (reconcile_cost in   *)
(* phase 3, and the compensation that is never committed).                 *)
THEOREM ChargeIsFinalTheorem == Spec => [][(output => output') /\ ChargeIsFinal]_vars
  <1>1. IInv /\ [Next]_vars => [(output => output') /\ ChargeIsFinal]_vars
    <2> SUFFICES ASSUME IInv, Next PROVE (output => output') /\ ChargeIsFinal
      OBVIOUS
    <2>1. charged \in Nat
      BY DEF IInv, Types
    <2>2. ASSUME NEW d \in Deliveries,
                 \/ Request(d) \/ Drop(d) \/ Load(d) \/ AcquireLock(d) \/ Reserve(d) \/ Gateway(d)
                 \/ Reload(d) \/ Unlock(d) \/ StoreFails(d) \/ Crash(d) \/ Replay(d)
          PROVE  UNCHANGED <<output, charged>>
      BY <2>2 DEF Request, Drop, Load, AcquireLock, Reserve, Gateway, Reload, Unlock, StoreFails,
                  Crash, Replay
    <2>3. ASSUME NEW d \in Deliveries, Fail(d) PROVE UNCHANGED <<output, charged>>
      BY <2>3 DEF Fail, Compensated
    <2>4. ASSUME NEW d \in Deliveries, StoreOutput(d)
          PROVE  output' /\ ChargeIsFinal
      BY <2>1, <2>4 DEF StoreOutput, Charges, ChargeIsFinal
    <2>5. ASSUME NEW d \in Deliveries, NEW o \in Deliveries, Redeliver(d, o)
          PROVE  UNCHANGED <<output, charged>>
      BY <2>5 DEF Redeliver
    <2>6. CASE \/ LoadJob \/ RefuseRequest \/ RequestDone \/ Age \/ Cleanup
               \/ RecoverOrphanedOutputs
      BY <2>6 DEF LoadJob, RefuseRequest, RequestDone, Age, Cleanup, RecoverOrphanedOutputs, ChargeIsFinal
    <2> QED
      BY <2>2, <2>3, <2>4, <2>5, <2>6 DEF Next, Work, ChargeIsFinal
  <1> QED
    BY <1>1, PipelineInvariant, PTL DEF Spec

-----------------------------------------------------------------------------
(* The job-status WebSocket.                                               *)

Places == {"idle", "wait", "auth", "count", "add", "renew", "user", "accepted", "subscribe",
           "receive", "message", "yield", "pubsub", "poll", "jammed"}

Outside == {"idle", "wait"}
Moves == Places \ {"add"}

Conn == [pc : Places, sender : {"none", "running", "ended"}, queue : Seq(Messages), ver : Nat,
         sub : {"none", "on", "failed"}, inbox : BOOLEAN, poll : BOOLEAN, errs : 0..2,
         told : BOOLEAN]

OtherConn == [pc : {"free", "add", "renew", "served"}, in : BOOLEAN]

(* Who holds a place in the accept semaphore, and who has been told that   *)
(* there is room in the global set and has not entered it yet.             *)
Inside == {c \in Conns : conn[c].pc \notin {"idle", "wait"}}
Adding == {c \in Conns : conn[c].pc = "add"}

(* The members of the other processes, and those that are about to be.     *)
Entered == {p \in Elsewhere : other[p].in}
Claims  == {p \in Elsewhere : other[p].in \/ other[p].pc = "add"}

Claimed == Cardinality(slots \union Adding) + Cardinality(Claims) + stray

SocketTypes ==
    /\ conn \in [Conns -> Conn]
    /\ slots \subseteq Conns
    /\ other \in [Elsewhere -> OtherConn] /\ stray \in Nat
    /\ user \in [active : BOOLEAN, version : Nat]

(* A completion that waits to be sent is one that was stored, except in a  *)
(* handler that will never send again.                                     *)
Honest(r) ==
    /\ r.told => job = "completed"
    /\ r.pc # "jammed" => \A i \in 1..Len(r.queue) : r.queue[i] = "complete" => job = "completed"

SocketInv ==
    /\ SocketTypes
    /\ \A c \in Conns : Honest(conn[c])
    /\ Cardinality(Inside) <= AcceptLimit
    /\ Claimed < MaxGlobal + AcceptLimit + Cardinality(Elsewhere)

(* Sets of connections are finite, smaller ones have fewer elements.       *)
LEMMA FewerConns ==
  ASSUME NEW S \in SUBSET Conns, NEW R \in SUBSET Conns, S \subseteq R
  PROVE  /\ IsFiniteSet(S) /\ IsFiniteSet(R)
         /\ Cardinality(S) \in Nat /\ Cardinality(R) \in Nat
         /\ Cardinality(S) <= Cardinality(R)
  <1>1. IsFiniteSet(Conns)
    BY SocketAssumption DEF SocketAssumption
  <1>2. IsFiniteSet(S) /\ IsFiniteSet(R)
    BY <1>1, FS_Subset
  <1> QED
    BY <1>2, FS_Subset, FS_CardinalityType

(* The same of connections here and places elsewhere.                      *)
LEMMA FewerClaims ==
  ASSUME NEW S \in SUBSET Conns, NEW R \in SUBSET Conns, S \subseteq R,
         NEW P \in SUBSET Elsewhere, NEW Q \in SUBSET Elsewhere, P \subseteq Q
  PROVE  /\ Cardinality(S) \in Nat /\ Cardinality(R) \in Nat
         /\ Cardinality(P) \in Nat /\ Cardinality(Q) \in Nat
         /\ Cardinality(S) <= Cardinality(R) /\ Cardinality(P) <= Cardinality(Q)
         /\ IsFiniteSet(S) /\ IsFiniteSet(P)
  <1>1. IsFiniteSet(Elsewhere)
    BY SocketAssumption DEF SocketAssumption
  <1>2. IsFiniteSet(P) /\ IsFiniteSet(Q)
    BY <1>1, FS_Subset
  <1>3. Cardinality(P) \in Nat /\ Cardinality(Q) \in Nat /\ Cardinality(P) <= Cardinality(Q)
    BY <1>2, FS_Subset, FS_CardinalityType
  <1> QED
    BY <1>2, <1>3, FewerConns

(* While there is room, whoever is about to enter holds a place in one of  *)
(* the semaphores.                                                         *)
LEMMA RoomForPlaces ==
  ASSUME NEW S \in SUBSET Conns, NEW A \in SUBSET Conns, NEW I \in SUBSET Elsewhere,
         NEW C \in SUBSET Elsewhere, NEW n \in Nat,
         Cardinality(S) + Cardinality(I) + n < MaxGlobal, Cardinality(A) <= AcceptLimit
  PROVE  Cardinality(S \union A) + Cardinality(I \union C) + n
           < MaxGlobal + AcceptLimit + Cardinality(Elsewhere)
  <1>1. /\ IsFiniteSet(S) /\ IsFiniteSet(A) /\ IsFiniteSet(I) /\ IsFiniteSet(C)
        /\ Cardinality(S) \in Nat /\ Cardinality(A) \in Nat
        /\ Cardinality(I) \in Nat /\ Cardinality(C) \in Nat /\ Cardinality(Elsewhere) \in Nat
        /\ Cardinality(C) <= Cardinality(Elsewhere)
    BY FewerClaims
  <1>2. S \intersect A \in SUBSET Conns /\ I \intersect C \in SUBSET Elsewhere
    OBVIOUS
  <1>3. Cardinality(S \intersect A) \in Nat /\ Cardinality(I \intersect C) \in Nat
    BY <1>2, FewerClaims
  <1>4. Cardinality(S \union A) = Cardinality(S) + Cardinality(A) - Cardinality(S \intersect A)
    BY <1>1, FS_Union
  <1>5. Cardinality(I \union C) = Cardinality(I) + Cardinality(C) - Cardinality(I \intersect C)
    BY <1>1, FS_Union
  <1>6. MaxGlobal \in Nat /\ AcceptLimit \in Nat
    BY SocketAssumption DEF SocketAssumption
  <1> QED
    BY <1>1, <1>3, <1>4, <1>5, <1>6

(* A step that admits nobody and claims no more than was claimed.          *)
LEMMA NobodyEnters ==
  ASSUME SocketInv, SocketTypes', Inside' \subseteq Inside,
         slots' \union Adding' \subseteq slots \union Adding, Claims' \subseteq Claims, stray' <= stray
  PROVE  /\ (Cardinality(Inside) <= AcceptLimit)'
         /\ (Claimed < MaxGlobal + AcceptLimit + Cardinality(Elsewhere))'
  <1>1. Inside \in SUBSET Conns /\ Inside' \in SUBSET Conns
    BY DEF Inside
  <1>2. slots \union Adding \in SUBSET Conns /\ slots' \union Adding' \in SUBSET Conns
    BY DEF SocketInv, SocketTypes, Adding
  <1>3. Claims \in SUBSET Elsewhere /\ Claims' \in SUBSET Elsewhere
    BY DEF Claims
  <1>4. Cardinality(Inside') \in Nat /\ Cardinality(Inside) \in Nat
        /\ Cardinality(Inside') <= Cardinality(Inside)
    BY <1>1, FewerConns
  <1>5. /\ Cardinality(slots' \union Adding') \in Nat /\ Cardinality(slots \union Adding) \in Nat
        /\ Cardinality(slots' \union Adding') <= Cardinality(slots \union Adding)
        /\ Cardinality(Claims') \in Nat /\ Cardinality(Claims) \in Nat
        /\ Cardinality(Claims') <= Cardinality(Claims)
    BY <1>2, <1>3, FewerClaims
  <1>6. AcceptLimit \in Nat /\ MaxGlobal \in Nat /\ stray \in Nat /\ stray' \in Nat
    BY SocketAssumption DEF SocketAssumption, SocketInv, SocketTypes
  <1>7. Cardinality(Elsewhere) \in Nat
    BY FewerClaims
  <1>8. Claimed' = Cardinality(slots' \union Adding') + Cardinality(Claims') + stray'
    BY DEF Claimed
  <1>9. /\ Cardinality(Inside) <= AcceptLimit
        /\ Cardinality(slots \union Adding) + Cardinality(Claims) + stray
              < MaxGlobal + AcceptLimit + Cardinality(Elsewhere)
    BY DEF SocketInv, Claimed
  <1>10. Cardinality(Inside') <= AcceptLimit
    BY <1>4, <1>6, <1>9
  <1>11. Claimed' < MaxGlobal + AcceptLimit + Cardinality(Elsewhere)
    BY <1>5, <1>6, <1>7, <1>8, <1>9
  <1> QED
    BY <1>10, <1>11

(* What a step of connection c does to the set: at most c enters, after it *)
(* was told that there is room, or the member of c is left behind.         *)
SlotsStep(c) ==
    /\ other' = other
    /\ \/ slots' \subseteq slots \union (IF conn[c].pc = "add" THEN {c} ELSE {}) /\ stray' = stray
       \/ c \in slots /\ slots' = slots \ {c} /\ stray' = stray + 1

LEMMA SlotsFacts ==
  ASSUME NEW c \in Conns, SlotFreed(c) \/ SlotLeaked(c) \/ UNCHANGED Global
  PROVE  SlotsStep(c)
  BY DEF SlotFreed, SlotLeaked, Global, SlotsStep

(* A step of connection c that enters neither the semaphore nor the set of *)
(* those about to claim a slot.                                            *)
LEMMA ConnStep ==
  ASSUME SocketInv, NEW c \in Conns, NEW r \in Conn, conn' = [conn EXCEPT ![c] = r],
         job' = job, user' = user, Honest(r),
         r.pc \notin Outside => conn[c].pc \notin Outside,
         r.pc = "add" => conn[c].pc = "add" /\ slots' = slots,
         SlotsStep(c)
  PROVE  SocketInv'
  <1>1. conn \in [Conns -> Conn] /\ slots \subseteq Conns /\ stray \in Nat
        /\ other \in [Elsewhere -> OtherConn]
    BY DEF SocketInv, SocketTypes
  <1>2. SocketTypes'
    <2>1. slots' \subseteq Conns /\ stray' \in Nat /\ other' = other
      BY <1>1 DEF SlotsStep
    <2> QED
      BY <1>1, <2>1 DEF SocketInv, SocketTypes
  <1>3. \A d \in Conns : conn'[d] = IF d = c THEN r ELSE conn[d]
    BY <1>1
  <1>4. Inside' \subseteq Inside
    BY <1>3 DEF Inside, Outside
  <1>5. Claims' = Claims
    BY DEF Claims, SlotsStep
  <1>6. (\A d \in Conns : Honest(conn[d]))'
    BY <1>3 DEF SocketInv, Honest
  <1>7. CASE slots' \subseteq slots \union (IF conn[c].pc = "add" THEN {c} ELSE {}) /\ stray' = stray
    <2>1. slots' \union Adding' \subseteq slots \union Adding
      BY <1>1, <1>3, <1>7 DEF Adding
    <2>2. stray' <= stray
      BY <1>1, <1>7
    <2> QED
      BY <1>2, <1>4, <1>5, <1>6, <2>1, <2>2, NobodyEnters DEF SocketInv
  <1>8. CASE c \in slots /\ slots' = slots \ {c} /\ stray' = stray + 1
    <2> DEFINE R == slots \union Adding
               S == R \ {c}
    <2>1. slots' \union Adding' \subseteq S
      BY <1>3, <1>8 DEF Adding
    <2>2. c \in R /\ R \in SUBSET Conns /\ S \in SUBSET Conns
          /\ slots' \union Adding' \in SUBSET Conns
      BY <1>1, <1>8 DEF Adding
    <2>3. Claims \in SUBSET Elsewhere
      BY DEF Claims
    <2>4. Claimed = Cardinality(R) + Cardinality(Claims) + stray
          /\ Claimed' = Cardinality(slots' \union Adding') + Cardinality(Claims) + (stray + 1)
      BY <1>5, <1>8 DEF Claimed
    <2>5. Inside \in SUBSET Conns /\ Inside' \in SUBSET Conns
      BY DEF Inside
    <2> HIDE DEF R
    <2>6. IsFiniteSet(R) /\ Cardinality(R) \in Nat
      BY <2>2, FewerConns
    <2>7. Cardinality(S) = Cardinality(R) - 1
      BY <2>2, <2>6, FS_RemoveElement
    <2> HIDE DEF S
    <2>8. /\ Cardinality(slots' \union Adding') \in Nat /\ Cardinality(S) \in Nat
          /\ Cardinality(slots' \union Adding') <= Cardinality(S)
      BY <2>1, <2>2, FewerConns
    <2>9. Cardinality(Claims) \in Nat /\ Cardinality(Elsewhere) \in Nat
      BY <2>3, FewerClaims
    <2>10. Claimed' \in Nat /\ Claimed \in Nat /\ Claimed' <= Claimed
      BY <1>1, <2>4, <2>6, <2>7, <2>8, <2>9
    <2>11. AcceptLimit \in Nat /\ MaxGlobal \in Nat
      BY SocketAssumption DEF SocketAssumption
    <2>12. Claimed < MaxGlobal + AcceptLimit + Cardinality(Elsewhere)
           /\ Cardinality(Inside) <= AcceptLimit
      BY DEF SocketInv
    <2>13. (Claimed < MaxGlobal + AcceptLimit + Cardinality(Elsewhere))'
      BY <2>9, <2>10, <2>11, <2>12
    <2>14. (Cardinality(Inside) <= AcceptLimit)'
      <3>1. Cardinality(Inside') \in Nat /\ Cardinality(Inside) \in Nat
            /\ Cardinality(Inside') <= Cardinality(Inside)
        BY <1>4, <2>5, FewerConns
      <3> QED
        BY <2>11, <2>12, <3>1
    <2> QED
      BY <1>2, <1>6, <2>13, <2>14 DEF SocketInv
  <1> QED
    BY <1>7, <1>8 DEF SlotsStep

(* A queue is extended by one message.                                     *)
LEMMA SendSafeFacts ==
  ASSUME NEW q \in Seq(Messages), NEW m \in Messages
  PROVE  /\ SendSafe(q, m) \in Seq(Messages)
         /\ \A i \in 1..Len(SendSafe(q, m)) :
               \/ SendSafe(q, m)[i] = m
               \/ \E k \in 1..Len(q) : SendSafe(q, m)[i] = q[k]
  <1>1. QueueCap \in Nat \ {0}
    BY SocketAssumption DEF SocketAssumption
  <1>2. CASE Len(q) < QueueCap
    BY <1>2 DEF SendSafe
  <1>3. CASE ~ (Len(q) < QueueCap)
    <2>1. q # <<>>
      BY <1>1, <1>3
    <2> DEFINE t == Tail(q)
    <2>2. t \in Seq(Messages) /\ Len(t) = Len(q) - 1 /\ \A i \in 1..Len(t) : t[i] = q[i + 1]
      BY <2>1
    <2>3. SendSafe(q, m) = Append(t, m)
      BY <1>3 DEF SendSafe
    <2>5. Len(q) \in Nat \ {0}
      BY <2>1
    <2> HIDE DEF t
    <2>4. \A i \in 1..Len(Append(t, m)) : Append(t, m)[i] = IF i <= Len(t) THEN t[i] ELSE m
      BY <2>2
    <2>6. ASSUME NEW i \in 1..Len(Append(t, m)), i <= Len(t)
          PROVE  i + 1 \in 1..Len(q) /\ Append(t, m)[i] = q[i + 1]
      BY <2>2, <2>4, <2>5, <2>6
    <2> QED
      BY <2>2, <2>3, <2>4, <2>6
  <1> QED
    BY <1>2, <1>3

(* A connection nobody has opened yet.                                     *)
LEMMA FreshConn == Fresh \in Conn /\ Fresh.queue = <<>> /\ Fresh.pc = "idle" /\ Fresh.told = FALSE
  <1>1. <<>> \in Seq(Messages)
    OBVIOUS
  <1>2. 0 \in 0..2 /\ 0 \in Nat
    OBVIOUS
  <1> QED
    BY <1>1, <1>2, Zenon DEF Fresh, Conn, Places

(* A handler that only moves on.                                           *)
LEMMA GotoStep ==
  ASSUME SocketInv, NEW c \in Conns, NEW p \in Places, Goto(c, p), conn[c].pc # "jammed",
         job' = job, user' = user,
         p \notin Outside => conn[c].pc \notin Outside, p # "add", SlotsStep(c)
  PROVE  SocketInv'
  <1> DEFINE r == [conn[c] EXCEPT !.pc = p]
  <1>1. conn[c] \in Conn /\ conn \in [Conns -> Conn] /\ Honest(conn[c])
    BY DEF SocketInv, SocketTypes
  <1>2. conn' = [conn EXCEPT ![c] = r]
    BY <1>1 DEF Goto
  <1>3. r \in Conn /\ r.pc = p /\ r.told = conn[c].told /\ r.queue = conn[c].queue
    BY <1>1 DEF Conn
  <1> HIDE DEF r
  <1>4. Honest(r)
    BY <1>1, <1>3 DEF Honest
  <1> QED
    BY <1>2, <1>3, <1>4, ConnStep

(* A handler that queues message m and moves on.                           *)
LEMMA QueueStep ==
  ASSUME SocketInv, NEW c \in Conns, NEW m \in Messages, NEW p \in Moves,
         Set(c, [conn[c] EXCEPT !.queue = SendSafe(@, m), !.pc = p]),
         conn[c].pc \notin Outside, conn[c].pc # "jammed",
         m = "complete" => job = "completed",
         job' = job, user' = user, SlotsStep(c)
  PROVE  SocketInv'
  <1>1. PICK r \in Conn : r = conn[c] /\ Honest(r)
    BY DEF SocketInv, SocketTypes
  <1>2. PICK q \in Seq(Messages) :
          /\ q = SendSafe(r.queue, m)
          /\ \A i \in 1..Len(q) : q[i] = m \/ \E k \in 1..Len(r.queue) : q[i] = r.queue[k]
    BY SendSafeFacts DEF Conn
  <1> DEFINE s == [r EXCEPT !.queue = q, !.pc = p]
  <1>3. s \in Conn /\ s.queue = q /\ s.pc = p /\ s.told = r.told
    BY <1>2 DEF Conn, Moves
  <1>4. conn' = [conn EXCEPT ![c] = s]
    BY <1>1, <1>2 DEF Set
  <1> HIDE DEF s
  <1>5. Honest(s)
    BY <1>1, <1>2, <1>3 DEF Honest
  <1> QED
    BY <1>3, <1>4, <1>5, ConnStep DEF Moves

(* The finally block.  What a jammed handler has queued is never sent, and *)
(* the queue of a cancelled sender is dropped.                             *)
LEMMA LeaveStep ==
  ASSUME SocketInv, NEW c \in Conns, NEW r \in Conn, r.told => job = "completed",
         conn[c].pc \notin Outside, Leave(c, r), job' = job, user' = user
  PROVE  SocketInv'
  <1> DEFINE j == [r EXCEPT !.pc = "jammed", !.sender = "ended"]
  <1>1. j \in Conn /\ j.pc = "jammed" /\ j.told = r.told
    BY DEF Conn, Places
  <1>2. Fresh \in Conn /\ Fresh.pc = "idle" /\ Fresh.told = FALSE /\ Fresh.queue = <<>>
    BY FreshConn
  <1>3. SlotsStep(c)
    BY SlotsFacts DEF Leave, Counters, Global
  <1>4. PICK s \in {j, Fresh} : conn' = [conn EXCEPT ![c] = s]
    BY DEF Leave, Set, Over
  <1> HIDE DEF j
  <1>5. s \in Conn /\ s.pc \in {"jammed", "idle"} /\ (s.told => r.told)
        /\ (s.pc = "idle" => s.queue = <<>>)
    BY <1>1, <1>2, <1>4
  <1>6. Honest(s)
    BY <1>5 DEF Honest
  <1> QED
    BY <1>3, <1>4, <1>5, <1>6, ConnStep DEF Outside

(* A handler that is refused is gone.                                      *)
LEMMA OverStep ==
  ASSUME SocketInv, NEW c \in Conns, Over(c), job' = job, user' = user, SlotsStep(c)
  PROVE  SocketInv'
  <1>1. Fresh \in Conn /\ Fresh.pc = "idle" /\ Fresh.told = FALSE /\ Fresh.queue = <<>>
    BY FreshConn
  <1>2. conn' = [conn EXCEPT ![c] = Fresh]
    BY DEF Over, Set
  <1>3. Honest(Fresh)
    BY <1>1 DEF Honest
  <1> QED
    BY <1>1, <1>2, <1>3, ConnStep DEF Outside

(* Admission: at most AcceptLimit handlers are inside at a time.           *)
LEMMA AdmitInv == ASSUME SocketInv, NEW c \in Conns, Admit(c) PROVE SocketInv'
  <1> DEFINE r == [conn[c] EXCEPT !.pc = "auth"]
  <1>1. conn[c] \in Conn /\ conn \in [Conns -> Conn] /\ Honest(conn[c]) /\ slots \subseteq Conns
    BY DEF SocketInv, SocketTypes
  <1>2. conn' = [conn EXCEPT ![c] = r] /\ conn[c].pc = "wait"
    BY <1>1 DEF Admit, Goto, At
  <1>3. r \in Conn /\ r.pc = "auth" /\ r.told = conn[c].told /\ r.queue = conn[c].queue
    BY <1>1 DEF Conn, Places
  <1>4. UNCHANGED <<slots, other, stray, user, job>>
    BY DEF Admit, Counters, Global, Auth, JobVars
  <1> HIDE DEF r
  <1>5. \A d \in Conns : conn'[d] = IF d = c THEN r ELSE conn[d]
    BY <1>1, <1>2
  <1>6. SocketTypes'
    BY <1>1, <1>2, <1>3, <1>4 DEF SocketInv, SocketTypes
  <1>7. (\A d \in Conns : Honest(conn[d]))'
    BY <1>1, <1>2, <1>3, <1>4, <1>5 DEF SocketInv, Honest
  <1>8. Inside' = Inside \union {c} /\ c \notin Inside
    BY <1>2, <1>3, <1>5 DEF Inside
  <1>9. (Cardinality(Inside) <= AcceptLimit)'
    <2>1. Inside \in SUBSET Conns
      BY DEF Inside
    <2>2. IsFiniteSet(Inside) /\ Cardinality(Inside) \in Nat
      BY <2>1, FewerConns
    <2>3. Cardinality(Inside) < AcceptLimit
      BY DEF Admit, Room, Inside
    <2>4. Cardinality(Inside') = Cardinality(Inside) + 1
      BY <1>8, <2>2, FS_AddElement
    <2> QED
      BY <2>2, <2>3, <2>4, SocketAssumption DEF SocketAssumption
  <1>10. slots' = slots /\ stray' = stray /\ Adding' = Adding /\ Claims' = Claims
    BY <1>2, <1>3, <1>4, <1>5 DEF Adding, Claims
  <1> QED
    BY <1>6, <1>7, <1>9, <1>10 DEF SocketInv, Claimed

(* SCARD: whoever is told that there is room adds at most itself to those  *)
(* who were told before, and they all hold a place in a semaphore.         *)
LEMMA CountGlobalInv == ASSUME SocketInv, NEW c \in Conns, CountGlobal(c) PROVE SocketInv'
  <1>1. conn[c] \in Conn /\ conn \in [Conns -> Conn] /\ Honest(conn[c]) /\ slots \subseteq Conns
        /\ stray \in Nat
    BY DEF SocketInv, SocketTypes
  <1>2. conn[c].pc = "count" /\ UNCHANGED <<slots, other, stray, user, job>>
    BY DEF CountGlobal, At, Counters, Global, Auth, JobVars
  <1>3. CASE ~ (Reach /\ HasRoom)
    <2>1. Over(c)
      BY <1>3 DEF CountGlobal
    <2>2. SlotsStep(c)
      BY <1>2 DEF SlotsStep
    <2> QED
      BY <1>2, <2>1, <2>2, OverStep
  <1>4. CASE Reach /\ HasRoom
    <2> DEFINE r == [conn[c] EXCEPT !.pc = "add"]
    <2>1. conn' = [conn EXCEPT ![c] = r]
      BY <1>1, <1>4 DEF CountGlobal, Goto
    <2>2. r \in Conn /\ r.pc = "add" /\ r.told = conn[c].told /\ r.queue = conn[c].queue
      BY <1>1 DEF Conn, Places
    <2> HIDE DEF r
    <2>3. \A d \in Conns : conn'[d] = IF d = c THEN r ELSE conn[d]
      BY <1>1, <2>1
    <2>4. SocketTypes'
      BY <1>1, <1>2, <2>1, <2>2 DEF SocketInv, SocketTypes
    <2>5. (\A d \in Conns : Honest(conn[d]))'
      BY <1>1, <1>2, <2>1, <2>2, <2>3 DEF SocketInv, Honest
    <2>6. Inside' = Inside
      BY <1>2, <2>2, <2>3 DEF Inside
    <2>7. (Claimed < MaxGlobal + AcceptLimit + Cardinality(Elsewhere))'
      <3>1. Adding' \in SUBSET Conns /\ Inside \in SUBSET Conns /\ slots \in SUBSET Conns
            /\ Entered \in SUBSET Elsewhere /\ Claims \in SUBSET Elsewhere
        BY <1>1 DEF Adding, Inside, Entered, Claims
      <3>2. Adding' \subseteq Inside
        BY <2>6 DEF Adding, Inside
      <3>3. Cardinality(Adding') \in Nat /\ Cardinality(Inside) \in Nat
            /\ Cardinality(Adding') <= Cardinality(Inside)
        BY <3>1, <3>2, FewerConns
      <3>4. Cardinality(Adding') <= AcceptLimit
        BY <3>3, SocketAssumption DEF SocketInv, SocketAssumption
      <3>5. Cardinality(slots) + Cardinality(Entered) + stray < MaxGlobal
        BY <1>4 DEF HasRoom, Members, Entered
      <3>6. Cardinality(slots \union Adding') + Cardinality(Entered \union Claims) + stray
              < MaxGlobal + AcceptLimit + Cardinality(Elsewhere)
        BY <1>1, <3>1, <3>4, <3>5, RoomForPlaces
      <3>7. Entered \union Claims = Claims /\ Claims' = Claims
        BY <1>2 DEF Entered, Claims
      <3> QED
        BY <1>2, <3>6, <3>7 DEF Claimed
    <2>8. (Cardinality(Inside) <= AcceptLimit)'
      BY <2>6 DEF SocketInv
    <2> QED
      BY <2>4, <2>5, <2>7, <2>8 DEF SocketInv
  <1> QED
    BY <1>3, <1>4

(* The rest of the admission.                                              *)
LEMMA AdmissionInv ==
  ASSUME SocketInv, NEW c \in Conns,
         \/ Open(c) \/ AddGlobal(c) \/ RenewSlots(c) \/ AddUser(c) \/ Subscribe(c)
         \/ ReplayMissed(c) \/ \E asked, v : VerifyToken(c, asked, v)
  PROVE  SocketInv'
  <1>1. conn[c] \in Conn /\ Honest(conn[c]) /\ user.version \in Nat
    BY DEF SocketInv, SocketTypes
  <1>2. UNCHANGED <<user, job>>
    BY DEF Open, AddGlobal, RenewSlots, AddUser, Subscribe, ReplayMissed, VerifyToken, Auth, JobVars
  <1>3. CASE Open(c)
    <2> DEFINE s == [Fresh EXCEPT !.pc = "wait"]
    <2>1. Set(c, s) /\ SlotsStep(c)
      BY <1>3, SlotsFacts DEF Open, Counters
    <2>2. s \in Conn /\ s.pc = "wait" /\ s.queue = <<>> /\ s.told = FALSE
      BY FreshConn DEF Conn, Places
    <2> HIDE DEF s
    <2>3. Honest(s) /\ conn' = [conn EXCEPT ![c] = s]
      BY <2>1, <2>2 DEF Honest, Set
    <2> QED
      BY <1>2, <2>1, <2>2, <2>3, ConnStep DEF Outside
  <1>4. CASE AddGlobal(c)
    <2>1. conn[c].pc = "add" /\ slots' \subseteq slots \union {c} /\ UNCHANGED <<other, stray>>
      BY <1>4 DEF AddGlobal, At
    <2>2. SlotsStep(c)
      BY <2>1 DEF SlotsStep
    <2>3. CASE Goto(c, "renew")
      BY <1>2, <2>1, <2>2, <2>3, GotoStep DEF Outside, Places
    <2> QED
      BY <1>2, <1>4, <2>2, <2>3, OverStep DEF AddGlobal
  <1>5. CASE RenewSlots(c) \/ AddUser(c)
    <2>1. conn[c].pc \in {"renew", "user"}
      BY <1>5 DEF RenewSlots, AddUser, At
    <2>2. SlotsStep(c)
      <3>1. SlotFreed(c) \/ SlotLeaked(c) \/ UNCHANGED <<slots, other, stray>>
        BY <1>5 DEF RenewSlots, AddUser, Global
      <3> QED
        BY <3>1, SlotsFacts DEF SlotsStep
    <2>3. CASE Over(c)
      BY <1>2, <2>2, <2>3, OverStep
    <2>4. ASSUME NEW p \in {"user", "accepted"}, Goto(c, p) PROVE SocketInv'
      BY <1>2, <2>1, <2>2, <2>4, GotoStep DEF Outside, Places
    <2> QED
      BY <1>5, <2>3, <2>4 DEF RenewSlots, AddUser
  <1>6. CASE \E asked, v : VerifyToken(c, asked, v)
    <2>1. conn[c].pc = "auth" /\ SlotsStep(c)
      BY <1>6, SlotsFacts DEF VerifyToken, At, Counters
    <2>2. CASE Over(c)
      BY <1>2, <2>1, <2>2, OverStep
    <2>3. CASE Set(c, [conn[c] EXCEPT !.pc = "count", !.ver = user.version])
      <3>1. PICK r \in Conn, n \in Nat : r = conn[c] /\ n = user.version /\ Honest(r)
        BY <1>1
      <3> DEFINE s == [r EXCEPT !.pc = "count", !.ver = n]
      <3>2. s \in Conn /\ s.pc = "count" /\ s.told = r.told /\ s.queue = r.queue
        BY <3>1 DEF Conn, Places
      <3>3. conn' = [conn EXCEPT ![c] = s]
        BY <2>3, <3>1 DEF Set
      <3> HIDE DEF s
      <3>4. Honest(s)
        BY <2>1, <3>1, <3>2 DEF Honest
      <3> QED
        BY <1>2, <2>1, <3>2, <3>3, <3>4, ConnStep DEF Outside
    <2> QED
      BY <1>6, <2>2, <2>3 DEF VerifyToken
  <1>7. CASE Subscribe(c)
    <2>1. conn[c].pc = "subscribe" /\ SlotsStep(c)
      BY <1>7, SlotsFacts DEF Subscribe, At, Counters
    <2>2. PICK r \in Conn : r = conn[c] /\ Honest(r)
      BY <1>1
    <2>3. PICK x \in {"on", "none", "failed"} :
            conn' = [conn EXCEPT ![c] = [r EXCEPT !.pc = "receive", !.sub = x]]
      BY <1>7, <2>2 DEF Subscribe, Set
    <2> DEFINE s == [r EXCEPT !.pc = "receive", !.sub = x]
    <2>4. s \in Conn /\ s.pc = "receive" /\ s.told = r.told /\ s.queue = r.queue
      BY <2>3 DEF Conn, Places
    <2>5. conn' = [conn EXCEPT ![c] = s]
      BY <2>3
    <2> HIDE DEF s
    <2>6. Honest(s)
      BY <2>1, <2>2, <2>4 DEF Honest
    <2> QED
      BY <1>2, <2>1, <2>4, <2>5, <2>6, ConnStep DEF Outside
  <1>8. CASE ReplayMissed(c)
    <2>1. conn[c].pc = "accepted" /\ SlotsStep(c)
      BY <1>8, SlotsFacts DEF ReplayMissed, At, Counters
    <2>2. PICK r \in Conn : r = conn[c] /\ Honest(r)
      BY <1>1
    <2>3. PICK q \in {<<>>, <<"replayed">>} :
            conn' = [conn EXCEPT ![c] = [r EXCEPT !.pc = "subscribe", !.sender = "running", !.queue = q]]
      BY <1>8, <2>2 DEF ReplayMissed, Set
    <2> DEFINE s == [r EXCEPT !.pc = "subscribe", !.sender = "running", !.queue = q]
    <2>4. q \in Seq(Messages) /\ \A i \in 1..Len(q) : q[i] # "complete"
      <3>1. CASE q = <<>>
        BY <3>1
      <3>2. CASE q = <<"replayed">>
        BY <3>2 DEF Messages
      <3> QED
        BY <2>3, <3>1, <3>2
    <2>5. s \in Conn /\ s.pc = "subscribe" /\ s.told = r.told /\ s.queue = q
      BY <2>4 DEF Conn, Places
    <2>6. conn' = [conn EXCEPT ![c] = s]
      BY <2>3
    <2> HIDE DEF s
    <2>7. Honest(s)
      BY <2>1, <2>2, <2>4, <2>5 DEF Honest
    <2> QED
      BY <1>2, <2>1, <2>5, <2>6, <2>7, ConnStep DEF Outside
  <1> QED
    BY <1>3, <1>4, <1>5, <1>6, <1>7, <1>8

(* The loop of the handler.                                                *)
LEMMA HandlerInv ==
  ASSUME SocketInv, NEW c \in Conns,
         \/ Message(c) \/ ReadPubSub(c) \/ SkipPoll(c) \/ PollDatabase(c) \/ LeaveAfterYield(c)
         \/ Disconnect(c) \/ Reauthenticate(c) \/ ReceiveTimeout(c)
  PROVE  SocketInv'
  <1>1. PICK r \in Conn : r = conn[c] /\ Honest(r)
    BY DEF SocketInv, SocketTypes
  <1>2. UNCHANGED <<user, job>>
    BY DEF Message, ReadPubSub, SkipPoll, PollDatabase, LeaveAfterYield, Disconnect, Reauthenticate,
           ReceiveTimeout, Auth, JobVars
  <1>3. {"receive", "message", "yield", "pubsub", "poll"} \subseteq Moves /\ Moves \subseteq Places
    BY DEF Moves, Places
  <1>4. r.told => job = "completed"
    BY <1>1 DEF Honest
  <1>5. CASE LeaveAfterYield(c) \/ Disconnect(c)
    <2>1. Leave(c, conn[c]) /\ conn[c].pc \in {"yield", "receive"}
      BY <1>5 DEF LeaveAfterYield, Disconnect, At
    <2> QED
      BY <1>1, <1>2, <1>4, <2>1, LeaveStep DEF Outside
  <1>6. CASE SkipPoll(c) \/ ReceiveTimeout(c) \/ Reauthenticate(c)
    <2>1. conn[c].pc \in {"poll", "receive"} /\ SlotsStep(c)
      BY <1>6, SlotsFacts DEF SkipPoll, ReceiveTimeout, Reauthenticate, At, Counters
    <2>2. PICK p \in {"receive", "pubsub", "yield", "message"} : Goto(c, p)
      BY <1>6 DEF SkipPoll, ReceiveTimeout, Reauthenticate
    <2>3. p \in Places /\ p # "add"
      BY <1>3, <2>2
    <2> QED
      BY <1>2, <2>1, <2>2, <2>3, GotoStep DEF Outside
  <1>7. CASE PollDatabase(c)
    <2>1. conn[c].pc = "poll" /\ SlotsStep(c)
      BY <1>7, SlotsFacts DEF PollDatabase, At, Counters
    <2>2. CASE OutputStored
      <3>1. Set(c, [conn[c] EXCEPT !.queue = SendSafe(@, "complete"), !.pc = "yield"])
        BY <1>7, <2>2 DEF PollDatabase
      <3>2. job = "completed" /\ "complete" \in Messages
        BY <2>2 DEF OutputStored, Messages
      <3> QED
        BY <1>2, <1>3, <2>1, <3>1, <3>2, QueueStep DEF Outside
    <2>3. CASE ~ OutputStored
      <3>1. Set(c, [conn[c] EXCEPT !.queue = SendSafe(@, "other"), !.pc = "receive"])
        BY <1>7, <2>3 DEF PollDatabase
      <3>2. "other" \in Messages
        BY DEF Messages
      <3> QED
        BY <1>2, <1>3, <2>1, <3>1, <3>2, QueueStep DEF Outside
    <2> QED
      BY <2>2, <2>3
  <1>8. CASE Message(c)
    <2>1. conn[c].pc \in {"receive", "message"}
      BY <1>8 DEF Message, At
    <2>2. CASE Leave(c, r)
      BY <1>2, <1>4, <2>1, <2>2, LeaveStep DEF Outside
    <2>3. ASSUME NEW p \in {"yield", "receive"}, SlotsStep(c),
                 Set(c, [conn[c] EXCEPT !.queue = SendSafe(@, "other"), !.pc = p])
          PROVE  SocketInv'
      <3>1. "other" \in Messages /\ p \in Moves
        BY <1>3 DEF Messages
      <3> QED
        BY <1>2, <2>1, <2>3, <3>1, QueueStep DEF Outside
    <2>4. CASE Goto(c, "pubsub") /\ SlotsStep(c)
      <3>1. "pubsub" \in Places
        BY <1>3
      <3> QED
        BY <1>2, <2>1, <2>4, <3>1, GotoStep DEF Outside
    <2> QED
      BY <1>1, <1>8, <2>2, <2>3, <2>4, SlotsFacts DEF Message, Counters
  <1>9. CASE ReadPubSub(c)
    <2>1. conn[c].pc = "pubsub"
      BY <1>9 DEF ReadPubSub, At
    <2>2. ASSUME NEW p \in {"poll", "receive"}, Goto(c, p), SlotsStep(c)
          PROVE  SocketInv'
      <3>1. p \in Places
        BY <1>3
      <3> QED
        BY <1>2, <2>1, <2>2, <3>1, GotoStep DEF Outside
    <2>3. CASE Leave(c, [r EXCEPT !.queue = SendSafe(@, "complete")])
      <3>1. r.queue \in Seq(Messages) /\ "complete" \in Messages
        BY DEF Conn, Messages
      <3>2. PICK q \in Seq(Messages) : q = SendSafe(r.queue, "complete")
        BY <3>1, SendSafeFacts
      <3> DEFINE s == [r EXCEPT !.queue = q]
      <3>3. s \in Conn /\ s.told = r.told
        BY <3>2 DEF Conn
      <3>4. Leave(c, s)
        BY <2>3, <3>2
      <3> HIDE DEF s
      <3> QED
        BY <1>2, <1>4, <2>1, <3>3, <3>4, LeaveStep DEF Outside
    <2>4. ASSUME NEW s \in Conn, s.pc \in {"poll", "receive"}, s.told = r.told, s.queue = r.queue,
                 Set(c, s), SlotsStep(c)
          PROVE  SocketInv'
      <3>1. Honest(s)
        BY <1>1, <2>1, <2>4 DEF Honest
      <3>2. conn' = [conn EXCEPT ![c] = s]
        BY <2>4 DEF Set
      <3> QED
        BY <1>2, <2>1, <2>4, <3>1, <3>2, ConnStep DEF Outside
    <2>5. CASE r.sub = "none" \/ r.poll
      <3>1. SlotsStep(c) /\ (Goto(c, "poll") \/ Goto(c, "receive"))
        BY <1>1, <1>9, <2>5, SlotsFacts DEF ReadPubSub, Counters
      <3> QED
        BY <2>2, <3>1
    <2>6. CASE ~ (r.sub = "none" \/ r.poll) /\ (r.sub = "failed" \/ redis = "down")
      <3> DEFINE s == [r EXCEPT !.errs = 0, !.poll = TRUE, !.sub = "none", !.inbox = FALSE, !.pc = "poll"]
                 u == [r EXCEPT !.errs = @ + 1, !.pc = "receive"]
      <3>1. SlotsStep(c) /\ Set(c, IF r.errs = 2 THEN s ELSE u)
        BY <1>1, <1>9, <2>6, SlotsFacts DEF ReadPubSub, Counters
      <3>2. s \in Conn /\ s.pc = "poll" /\ s.told = r.told /\ s.queue = r.queue
        <4>1. 0 \in 0..2 /\ "poll" \in Places
          BY DEF Places
        <4> QED
          BY <4>1, Zenon DEF Conn
      <3>3. ASSUME r.errs # 2
            PROVE  u \in Conn /\ u.pc = "receive" /\ u.told = r.told /\ u.queue = r.queue
        <4>1. r.errs + 1 \in 0..2
          BY <3>3 DEF Conn
        <4> QED
          BY <4>1 DEF Conn, Places
      <3> HIDE DEF s, u
      <3> QED
        BY <2>4, <3>1, <3>2, <3>3
    <2>7. CASE Set(c, [r EXCEPT !.errs = 0, !.pc = "receive"]) /\ SlotsStep(c)
      <3> DEFINE s == [r EXCEPT !.errs = 0, !.pc = "receive"]
      <3>1. s \in Conn /\ s.pc = "receive" /\ s.told = r.told /\ s.queue = r.queue
        <4>1. 0 \in 0..2 /\ "receive" \in Places
          BY DEF Places
        <4> QED
          BY <4>1, Zenon DEF Conn
      <3> HIDE DEF s
      <3> QED
        BY <2>4, <2>7, <3>1 DEF s
    <2> QED
      BY <1>1, <1>9, <2>3, <2>5, <2>6, <2>7, SlotsFacts DEF ReadPubSub, Counters
  <1> QED
    BY <1>5, <1>6, <1>7, <1>8, <1>9

(* The sender.                                                             *)
LEMMA SendOneInv == ASSUME SocketInv, NEW c \in Conns, SendOne(c) PROVE SocketInv'
  <1>1. PICK r \in Conn : r = conn[c] /\ Honest(r)
    BY DEF SocketInv, SocketTypes
  <1>2. UNCHANGED <<user, job, slots>> /\ SlotsStep(c) /\ r.queue # <<>> /\ r.pc # "jammed"
    BY <1>1, SlotsFacts DEF SendOne, Auth, JobVars, Counters, Global
  <1>3. PICK q \in Seq(Messages) :
          /\ q = Tail(r.queue) /\ \A i \in 1..Len(q) : \E k \in 1..Len(r.queue) : q[i] = r.queue[k]
    <2>1. r.queue \in Seq(Messages)
      BY DEF Conn
    <2>2. /\ Tail(r.queue) \in Seq(Messages) /\ Len(Tail(r.queue)) = Len(r.queue) - 1
          /\ Len(r.queue) \in Nat
          /\ \A i \in 1..Len(Tail(r.queue)) : Tail(r.queue)[i] = r.queue[i + 1]
      BY <1>2, <2>1
    <2>3. \A i \in 1..Len(Tail(r.queue)) : i + 1 \in 1..Len(r.queue)
      BY <2>2
    <2> QED
      BY <2>2, <2>3
  <1>4. Head(r.queue) = "complete" => job = "completed"
    <2>1. 1 \in 1..Len(r.queue) /\ Head(r.queue) = r.queue[1]
      BY <1>2 DEF Conn
    <2> QED
      BY <1>1, <1>2, <2>1 DEF Honest
  <1>5. PICK b \in BOOLEAN : b = (r.told \/ Head(r.queue) = "complete")
    OBVIOUS
  <1> DEFINE s == [r EXCEPT !.queue = q, !.told = b]
             u == [r EXCEPT !.queue = q, !.sender = "ended"]
  <1>6. s \in Conn /\ s.pc = r.pc /\ s.queue = q /\ s.told = b
    BY <1>3, <1>5 DEF Conn
  <1>7. u \in Conn /\ u.pc = r.pc /\ u.queue = q /\ u.told = r.told
    BY <1>3 DEF Conn
  <1>8. conn' = [conn EXCEPT ![c] = s] \/ conn' = [conn EXCEPT ![c] = u]
    <2>1. \/ conn' = [conn EXCEPT ![c] = [r EXCEPT !.queue = Tail(r.queue),
                                                  !.told = r.told \/ Head(r.queue) = "complete"]]
          \/ conn' = [conn EXCEPT ![c] = [r EXCEPT !.queue = Tail(r.queue), !.sender = "ended"]]
      BY <1>1, Zenon DEF SendOne, Set
    <2> QED
      BY <1>3, <1>5, <2>1, Zenon
  <1> HIDE DEF s, u
  <1>9. Honest(s)
    <2>1. s.told => job = "completed"
      BY <1>1, <1>4, <1>5, <1>6, Zenon DEF Honest
    <2>2. \A i \in 1..Len(s.queue) : s.queue[i] = "complete" => job = "completed"
      <3> HIDE <1>5
      <3> QED
        BY <1>1, <1>2, <1>3, <1>6 DEF Honest
    <2> QED
      BY <2>1, <2>2 DEF Honest
  <1>10. Honest(u)
    BY <1>1, <1>2, <1>3, <1>7 DEF Honest
  <1> QED
    BY <1>1, <1>2, <1>6, <1>7, <1>8, <1>9, <1>10, ConnStep

(* What happens around the connections.                                    *)
LEMMA AroundStep ==
  ASSUME SocketInv, conn' \in [Conns -> Conn],
         \A d \in Conns : /\ conn'[d].pc = conn[d].pc /\ conn'[d].told = conn[d].told
                           /\ conn'[d].queue = conn[d].queue,
         job = "completed" => job' = "completed", user' \in [active : BOOLEAN, version : Nat],
         slots' \subseteq slots, other' \in [Elsewhere -> OtherConn], Claims' \subseteq Claims,
         stray' \in Nat, stray' <= stray
  PROVE  SocketInv'
  <1>1. conn \in [Conns -> Conn] /\ slots \subseteq Conns
    BY DEF SocketInv, SocketTypes
  <1>2. SocketTypes'
    BY <1>1 DEF SocketTypes
  <1>3. Inside' = Inside /\ Adding' = Adding
    BY DEF Inside, Adding
  <1>4. (\A d \in Conns : Honest(conn[d]))'
    BY DEF SocketInv, Honest
  <1>5. Inside' \subseteq Inside /\ slots' \union Adding' \subseteq slots \union Adding
    BY <1>3
  <1> QED
    BY <1>2, <1>4, <1>5, NobodyEnters DEF SocketInv

(* The other processes.                                                    *)
LEMMA OtherCountsInv == ASSUME SocketInv, NEW p \in Elsewhere, OtherCounts(p) PROVE SocketInv'
  <1>1. UNCHANGED <<conn, slots, stray, user, job>>
    BY DEF OtherCounts, Home, Auth, JobVars
  <1>2. other \in [Elsewhere -> OtherConn] /\ stray \in Nat /\ slots \in SUBSET Conns
    BY DEF SocketInv, SocketTypes
  <1> DEFINE h == [pc |-> "add", in |-> FALSE]
  <1>3. h \in OtherConn /\ other' = [other EXCEPT ![p] = h]
    BY DEF OtherConn, OtherCounts, Place
  <1> HIDE DEF h
  <1>4. SocketTypes'
    BY <1>1, <1>2, <1>3 DEF SocketInv, SocketTypes
  <1>5. (\A c \in Conns : Honest(conn[c]))' /\ Inside' = Inside /\ Adding' = Adding
    BY <1>1 DEF SocketInv, Honest, Inside, Adding
  <1>6. /\ Inside \in SUBSET Conns /\ Adding \in SUBSET Conns /\ Adding \subseteq Inside
        /\ Entered \in SUBSET Elsewhere /\ Claims' \in SUBSET Elsewhere
    BY DEF Inside, Adding, Entered, Claims
  <1>7. Cardinality(Inside) <= AcceptLimit
    BY DEF SocketInv
  <1>8. Cardinality(Adding) <= AcceptLimit
    <2>1. Cardinality(Adding) \in Nat /\ Cardinality(Inside) \in Nat
          /\ Cardinality(Adding) <= Cardinality(Inside)
      BY <1>6, FewerConns
    <2> QED
      BY <1>7, <2>1, SocketAssumption DEF SocketAssumption
  <1>9. Cardinality(slots) + Cardinality(Entered) + stray < MaxGlobal
    BY DEF OtherCounts, HasRoom, Members, Entered
  <1> DEFINE C == Claims' \union Entered
  <1>10. C \in SUBSET Elsewhere /\ C = Entered \union Claims'
    BY <1>6
  <1>11. Cardinality(slots \union Adding) + Cardinality(C) + stray
           < MaxGlobal + AcceptLimit + Cardinality(Elsewhere)
    BY <1>2, <1>6, <1>8, <1>9, <1>10, RoomForPlaces
  <1>12. /\ Cardinality(Claims') \in Nat /\ Cardinality(C) \in Nat
         /\ Cardinality(Claims') <= Cardinality(C) /\ Cardinality(slots \union Adding) \in Nat
         /\ Cardinality(Elsewhere) \in Nat
    BY <1>2, <1>6, <1>10, FewerClaims
  <1>13. Claimed' = Cardinality(slots \union Adding) + Cardinality(Claims') + stray
    BY <1>1, <1>5 DEF Claimed
  <1> HIDE DEF C
  <1>14. MaxGlobal \in Nat /\ AcceptLimit \in Nat
    BY SocketAssumption DEF SocketAssumption
  <1>15. (Claimed < MaxGlobal + AcceptLimit + Cardinality(Elsewhere))'
    BY <1>2, <1>11, <1>12, <1>13, <1>14
  <1> QED
    BY <1>4, <1>5, <1>7, <1>15 DEF SocketInv

(* Whoever leaves a member behind has held it before.                      *)
LEMMA OtherInv ==
  ASSUME SocketInv, NEW p \in Elsewhere,
         OtherAdds(p) \/ OtherRenews(p) \/ OtherLeaves(p) \/ OtherLeaks(p)
  PROVE  SocketInv'
  <1>1. UNCHANGED <<conn, slots, user, job>>
    BY DEF OtherAdds, OtherRenews, OtherLeaves, OtherLeaks, Home, Auth, JobVars
  <1>2. other \in [Elsewhere -> OtherConn] /\ other[p] \in OtherConn /\ stray \in Nat
        /\ conn \in [Conns -> Conn] /\ user \in [active : BOOLEAN, version : Nat]
        /\ slots \in SUBSET Conns
    BY DEF SocketInv, SocketTypes
  <1>3. PICK h \in OtherConn : /\ other' = [other EXCEPT ![p] = h]
                               /\ h.in => p \in Claims
                               /\ h.pc # "add"
                               /\ OtherLeaks(p) => h = Nobody
    <2>1. Nobody \in OtherConn /\ Nobody.in = FALSE /\ Nobody.pc = "free"
      BY DEF Nobody, OtherConn
    <2>2. CASE OtherLeaves(p) \/ OtherLeaks(p)
      <3>1. other' = [other EXCEPT ![p] = Nobody]
        BY <2>2 DEF OtherLeaves, OtherLeaks, Place
      <3> QED
        BY <2>1, <3>1
    <2>3. CASE OtherAdds(p)
      <3> DEFINE g == [pc |-> "renew", in |-> TRUE]
      <3>1. p \in Claims /\ ~ OtherLeaks(p)
        BY <2>3 DEF OtherAdds, OtherLeaks, Claims
      <3>2. g \in OtherConn /\ g.pc = "renew"
        BY DEF OtherConn
      <3>3. other' = [other EXCEPT ![p] = g] \/ other' = [other EXCEPT ![p] = Nobody]
        BY <2>3 DEF OtherAdds, Place
      <3> HIDE DEF g
      <3> QED
        BY <2>1, <3>1, <3>2, <3>3
    <2>4. CASE OtherRenews(p)
      <3> DEFINE g == [other[p] EXCEPT !.pc = "served"]
      <3>1. g \in OtherConn /\ g.pc = "served" /\ g.in = other[p].in
        BY <1>2 DEF OtherConn
      <3>2. other' = [other EXCEPT ![p] = g] /\ other[p].pc = "renew"
        BY <2>4 DEF OtherRenews, Place
      <3>3. g.in => p \in Claims
        BY <3>1 DEF Claims
      <3> HIDE DEF g
      <3>4. CASE OtherLeaks(p)
        <4>1. other' = [other EXCEPT ![p] = Nobody]
          BY <3>4 DEF OtherLeaks, Place
        <4> QED
          BY <2>1, <4>1
      <3> QED
        BY <3>1, <3>2, <3>3, <3>4
    <2> QED
      BY <2>2, <2>3, <2>4
  <1>4. \A q \in Elsewhere : other'[q] = IF q = p THEN h ELSE other[q]
    BY <1>2, <1>3
  <1>5. other' \in [Elsewhere -> OtherConn]
    BY <1>2, <1>3
  <1>6. Claims' \subseteq Claims
    BY <1>3, <1>4 DEF Claims
  <1>7. CASE stray' = stray
    <2>1. stray' <= stray /\ stray' \in Nat /\ slots' \subseteq slots
      BY <1>1, <1>2, <1>7
    <2> QED
      BY <1>1, <1>2, <1>5, <1>6, <2>1, AroundStep
  <1>8. CASE OtherLeaks(p) /\ other[p].in /\ stray' = stray + 1
    <2>1. p \in Claims /\ Claims' = Claims \ {p} /\ Claims \in SUBSET Elsewhere
      BY <1>3, <1>4, <1>8 DEF Claims, Nobody
    <2>2. IsFiniteSet(Claims) /\ Cardinality(Claims) \in Nat /\ Cardinality(Claims') \in Nat
      BY <2>1, FewerClaims
    <2>3. Cardinality(Claims') = Cardinality(Claims) - 1
      BY <2>1, <2>2, FS_RemoveElement
    <2>4. Inside' = Inside /\ Adding' = Adding /\ (\A c \in Conns : Honest(conn[c]))'
      BY <1>1 DEF SocketInv, Honest, Inside, Adding
    <2>5. slots \union Adding \in SUBSET Conns
      BY <1>2 DEF Adding
    <2>6. Cardinality(slots \union Adding) \in Nat
      BY <2>5, FewerConns
    <2>7. Claimed = Cardinality(slots \union Adding) + Cardinality(Claims) + stray
          /\ Claimed' = Cardinality(slots \union Adding) + Cardinality(Claims') + (stray + 1)
      BY <1>1, <1>8, <2>4 DEF Claimed
    <2>8. Claimed' = Claimed
      BY <1>2, <2>2, <2>3, <2>6, <2>7
    <2>9. SocketTypes'
      BY <1>1, <1>2, <1>5, <1>8 DEF SocketTypes
    <2> QED
      BY <2>4, <2>8, <2>9 DEF SocketInv
  <1> QED
    BY <1>7, <1>8 DEF OtherAdds, OtherRenews, OtherLeaves, OtherLeaks

LEMMA AroundInv ==
  ASSUME SocketInv,
         \/ PublishComplete \/ CommitOutput \/ CommitFails \/ Revoke \/ Deactivate
         \/ AgeSlots \/ ExpireSlots \/ ExpireRecent \/ ExpireCached \/ ExpireShared
         \/ RedisFails \/ RedisReturns \/ UNCHANGED socketVars
  PROVE  SocketInv'
  <1>1. conn \in [Conns -> Conn] /\ user \in [active : BOOLEAN, version : Nat]
        /\ other \in [Elsewhere -> OtherConn] /\ stray \in Nat
    BY DEF SocketInv, SocketTypes
  <1>2. /\ slots' \subseteq slots /\ other' \in [Elsewhere -> OtherConn] /\ Claims' \subseteq Claims
        /\ stray' \in Nat /\ stray' <= stray
    <2>1. UNCHANGED <<slots, other, stray>> \/ ExpireSlots
      BY DEF PublishComplete, CommitOutput, CommitFails, Revoke, Deactivate, AgeSlots, ExpireRecent,
             ExpireCached, ExpireShared, RedisFails, RedisReturns, socketVars, Counters, Global, Home
    <2>2. CASE UNCHANGED <<slots, other, stray>>
      <3>1. stray' = stray /\ Claims' = Claims
        BY <2>2 DEF Claims
      <3> QED
        BY <1>1, <2>2, <3>1
    <2>3. CASE ExpireSlots
      <3>1. slots' = {} /\ stray' = 0
            /\ other' = [p \in Elsewhere |-> [other[p] EXCEPT !.in = FALSE]]
        BY <2>3 DEF ExpireSlots
      <3>2. \A p \in Elsewhere : [other[p] EXCEPT !.in = FALSE] \in OtherConn
        BY <1>1 DEF OtherConn
      <3>3. other' \in [Elsewhere -> OtherConn]
        BY <3>1, <3>2
      <3>4. \A p \in Elsewhere : other'[p].in = FALSE /\ other'[p].pc = other[p].pc
        BY <1>1, <3>1 DEF OtherConn
      <3>5. Claims' \subseteq Claims
        BY <3>4 DEF Claims
      <3> QED
        BY <1>1, <3>1, <3>3, <3>5
    <2> QED
      BY <2>1, <2>2, <2>3
  <1>3. job = "completed" => job' = "completed"
    BY DEF PublishComplete, CommitOutput, CommitFails, Revoke, Deactivate, AgeSlots, ExpireSlots, ExpireRecent,
           ExpireCached, ExpireShared, RedisFails, RedisReturns, socketVars, JobVars, Home
  <1>4. user' \in [active : BOOLEAN, version : Nat]
    <2>1. user' = user \/ Revoke \/ Deactivate
      BY DEF PublishComplete, CommitOutput, CommitFails, AgeSlots, ExpireSlots, ExpireRecent,
             ExpireCached, ExpireShared, RedisFails, RedisReturns, socketVars, Auth, Home
    <2>2. CASE Revoke
      BY <1>1, <2>2 DEF Revoke
    <2>3. CASE Deactivate
      BY <1>1, <2>3 DEF Deactivate
    <2> QED
      BY <1>1, <2>1, <2>2, <2>3
  <1>5. \/ conn' = conn
        \/ conn' = Published
        \/ conn' = [d \in Conns |-> [conn[d] EXCEPT !.inbox = FALSE]]
    BY DEF PublishComplete, CommitOutput, CommitFails, Revoke, Deactivate, AgeSlots, ExpireSlots, ExpireRecent,
           ExpireCached, ExpireShared, RedisFails, RedisReturns, socketVars, Home
  <1>6. \A d \in Conns : conn'[d] = conn[d] \/ \E b \in BOOLEAN : conn'[d] = [conn[d] EXCEPT !.inbox = b]
    BY <1>1, <1>5 DEF Published
  <1>7. \A d \in Conns : /\ conn'[d] \in Conn
                          /\ conn'[d].pc = conn[d].pc /\ conn'[d].told = conn[d].told
                          /\ conn'[d].queue = conn[d].queue
    <2> SUFFICES ASSUME NEW d \in Conns
                 PROVE  /\ conn'[d] \in Conn
                        /\ conn'[d].pc = conn[d].pc /\ conn'[d].told = conn[d].told
                        /\ conn'[d].queue = conn[d].queue
      OBVIOUS
    <2>1. conn[d] \in Conn
      BY <1>1
    <2>2. CASE conn'[d] = conn[d]
      BY <2>1, <2>2
    <2>3. ASSUME NEW b \in BOOLEAN, conn'[d] = [conn[d] EXCEPT !.inbox = b]
          PROVE  /\ conn'[d] \in Conn
                 /\ conn'[d].pc = conn[d].pc /\ conn'[d].told = conn[d].told
                 /\ conn'[d].queue = conn[d].queue
      BY <2>1, <2>3 DEF Conn
    <2> QED
      BY <1>6, <2>2, <2>3
  <1>8. conn' \in [Conns -> Conn]
    <2>1. conn' = [d \in Conns |-> conn'[d]]
      BY <1>1, <1>5 DEF Published
    <2> QED
      BY <1>7, <2>1
  <1> QED
    BY <1>2, <1>3, <1>4, <1>7, <1>8, AroundStep

LEMMA SocketInitInv == SocketInit => SocketInv
  <1> SUFFICES ASSUME SocketInit PROVE SocketInv
    OBVIOUS
  <1>1. /\ conn = [c \in Conns |-> Fresh] /\ slots = {} /\ user = [active |-> TRUE, version |-> 0]
        /\ other = [p \in Elsewhere |-> Nobody] /\ stray = 0
    BY DEF SocketInit
  <1>2. SocketTypes
    <2>1. Nobody \in OtherConn
      BY DEF Nobody, OtherConn
    <2> QED
      BY <1>1, <2>1, FreshConn DEF SocketTypes
  <1>3. \A c \in Conns : Honest(conn[c])
    BY <1>1, FreshConn DEF Honest
  <1>4. Inside = {} /\ slots \union Adding = {} /\ Claims = {}
    BY <1>1, FreshConn DEF Inside, Adding, Claims, Nobody
  <1>5. Cardinality({}) = 0
    BY FS_EmptySet
  <1>6. Claimed = 0 /\ Cardinality(Inside) = 0
    BY <1>1, <1>4, <1>5 DEF Claimed
  <1>7. Cardinality(Elsewhere) \in Nat
    BY FewerClaims
  <1> QED
    BY <1>2, <1>3, <1>6, <1>7, SocketAssumption DEF SocketInv, SocketAssumption

LEMMA SocketStepInv == SocketInv /\ [SocketNext]_socketVars => SocketInv'
  <1> SUFFICES ASSUME SocketInv, [SocketNext]_socketVars PROVE SocketInv'
    OBVIOUS
  <1>1. ASSUME NEW c \in Conns, Admission(c) PROVE SocketInv'
    BY <1>1, AdmitInv, CountGlobalInv, AdmissionInv DEF Admission
  <1>2. ASSUME NEW c \in Conns, Handler(c) PROVE SocketInv'
    BY <1>2, HandlerInv DEF Handler
  <1>3. ASSUME NEW p \in Elsewhere, Other(p) PROVE SocketInv'
    BY <1>3, OtherCountsInv, OtherInv DEF Other
  <1> QED
    BY <1>1, <1>2, <1>3, AdmissionInv, HandlerInv, SendOneInv, AroundInv DEF SocketNext

(* The types, the semaphore, the claims on slots and what waits to be sent *)
(* stay as SocketInv says.                                                 *)
THEOREM SocketInvariant == SocketSpec => []SocketInv
  <1> QED
    BY SocketInitInv, SocketStepInv, PTL DEF SocketSpec

(* With any number of connections, polls, outages and failing commits: a   *)
(* client told that its job is complete (_ws_sender, app/ai/router.py) can *)
(* read the output, although the task publishes before it commits.         *)
THEOREM ToldMeansStoredTheorem == SocketSpec => []ToldMeansStored
  <1>1. SocketInv => ToldMeansStored
    BY DEF SocketInv, Honest, ToldMeansStored
  <1> QED
    BY <1>1, SocketInvariant, PTL

(* For any limits and any number of processes: SCARD and SADD being two    *)
(* commands (_increment_ws_global), the set of connections outgrows its    *)
(* limit, but by fewer than the places of all the accept semaphores.       *)
THEOREM OverrunBoundedTheorem == SocketSpec => []OverrunBounded
  <1>1. ASSUME SocketInv PROVE OverrunBounded
    <2>1. /\ slots \in SUBSET Conns /\ slots \union Adding \in SUBSET Conns /\ stray \in Nat
          /\ Entered \in SUBSET Elsewhere /\ Claims \in SUBSET Elsewhere /\ Entered \subseteq Claims
      BY <1>1 DEF SocketInv, SocketTypes, Adding, Entered, Claims
    <2>2. /\ Cardinality(slots) \in Nat /\ Cardinality(slots \union Adding) \in Nat
          /\ Cardinality(Entered) \in Nat /\ Cardinality(Claims) \in Nat
          /\ Cardinality(slots) <= Cardinality(slots \union Adding)
          /\ Cardinality(Entered) <= Cardinality(Claims)
      BY <2>1, FewerClaims
    <2>3. MaxGlobal \in Nat /\ AcceptLimit \in Nat /\ Cardinality(Elsewhere) \in Nat
      BY SocketAssumption, FewerClaims DEF SocketAssumption
    <2>4. Members = Cardinality(slots) + Cardinality(Entered) + stray
      BY DEF Members, Entered
    <2>5. Cardinality(slots \union Adding) + Cardinality(Claims) + stray
            < MaxGlobal + AcceptLimit + Cardinality(Elsewhere)
      BY <1>1 DEF SocketInv, Claimed
    <2>6. Members < MaxGlobal + AcceptLimit + Cardinality(Elsewhere)
      BY <2>1, <2>2, <2>3, <2>4, <2>5
    <2> QED
      BY <2>6 DEF OverrunBounded
  <1> QED
    BY <1>1, SocketInvariant, PTL
=============================================================================
