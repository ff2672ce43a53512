--------------------------- MODULE RecordsProofs ----------------------------
(***************************************************************************)
(* Three stores of records that are written from what was read earlier, for*)
(* any number of rows and of requests: the tables of the phone             *)
(* (OfflineQueue), the office's jobs, estimates and settings (WorkOrders), *)
(* and the jobs and the log of the imports (ImportPipeline).               *)
(*                                                                         *)
(* OfflineQueue: the status and the retry count of a row agree, a completed*)
(* row was delivered, and no temporary job id comes back. None of the three*)
(* is inductive. The extra facts are about what a call carries from one    *)
(* await to the next: what it counts as accepted has been delivered        *)
(* (InFlightDelivered), and the job ids it read are still those of the     *)
(* table when they are real (ReadIdsCurrent), so that a row can be         *)
(* completed only under a real id; and a temporary id is in the table only *)
(* when its call of handleStartJob has begun (NothingQueuedYet).           *)
(*                                                                         *)
(* WorkOrders: RowsAgree is nearly inductive, because a request writes a   *)
(* value and what is said of it elsewhere in one step. What it has read    *)
(* matters only where it deletes (DeletesRow) and where it edits an        *)
(* estimate whose status it read before (EditInv).                         *)
(*                                                                         *)
(* ImportPipeline: an import is one long transaction, and the log forgets  *)
(* which rollback wrote last. So the invariant ties every row of the jobs  *)
(* table to its task (JobSound) and to the log (CountSound, LogSound), and *)
(* says what a rollback request has read (RollerSound): all records of the *)
(* job or, when another request was faster, none.                          *)
(***************************************************************************)
EXTENDS OfflineQueue, WorkOrders, ImportPipeline, FiniteSetTheorems, TLAPS

-----------------------------------------------------------------------------
(* OfflineQueue                                                            *)

RowType ==
    row \in [Rows -> [status : {"absent", "pending", "completed", "failed"},
                      retries : Nat, job : Starts \cup {"real"}]]

StartType == start \in [Starts -> {"none", "starting", "created", "done", "failed"}]

RunRecord ==
    [pc : {"idle", "read", "uploads", "events"}, real : SUBSET Rows, todo : SUBSET Rows,
     batch : SUBSET Rows, accepted : SUBSET Rows, erred : SUBSET Rows]

RunType == run \in [Runs -> RunRecord]

(* A row that was never queued has the values of a new one.                *)
AbsentIsNew == \A i \in Rows : row[i].status = "absent" => row[i].retries = 0 /\ row[i].job = "real"

(* A call that has not read its rows yet has no request out.               *)
NothingSentYet ==
    \A r \in Runs : run[r].pc \in {"idle", "read"} => run[r].batch = {} /\ run[r].accepted = {}

(* What a call counts as accepted has reached the server.                  *)
InFlightDelivered == \A r \in Runs : run[r].accepted \subseteq delivered

(* A real id that a call read is still the id of the row, and only such an *)
(* upload is accepted.                                                     *)
ReadIdsCurrent ==
    \A r \in Runs :
        /\ \A i \in run[r].real : row[i].status # "absent" /\ row[i].job = "real"
        /\ \A i \in run[r].accepted : i \in Uploads => i \in run[r].real

(* The server has only uploads that were queued.                           *)
DeliveredWasQueued == \A i \in Uploads : i \in delivered => row[i].status # "absent"

(* A call that has not begun has queued nothing.                           *)
NothingQueuedYet ==
    \A i \in Rows : row[i].job # "real" => i \in Uploads /\ start[row[i].job] # "none"

QueueInv ==
    /\ RowType /\ StartType /\ RunType /\ delivered \subseteq Rows
    /\ AbsentIsNew
    /\ NothingQueuedYet
    /\ DeliveredWasQueued
    /\ NothingSentYet
    /\ NoRowIsStranded
    /\ InFlightDelivered
    /\ CompletedWasDelivered
    /\ ReadIdsCurrent
    /\ ReplacedIdsStayGone

-----------------------------------------------------------------------------
(* A new installation of the app satisfies the invariant.                  *)
LEMMA InitQueue == Init => QueueInv
  BY QueueAssumption
  DEF Init, QueueInv, RowType, RunType, NoRow, NoRun, AbsentIsNew, NothingSentYet, NoRowIsStranded,
      InFlightDelivered, CompletedWasDelivered, ReadIdsCurrent, NothingQueuedYet,
      DeliveredWasQueued, StartType, RunRecord, ReplacedIdsStayGone, Rows, QueueAssumption

(* A failure keeps a row well-formed whatever its status was.              *)
LEMMA FailureKeepsRow ==
  ASSUME NEW x \in [status : {"absent", "pending", "completed", "failed"},
                    retries : Nat, job : Starts \cup {"real"}],
         x.status = "failed" => x.retries >= MaxRetries
  PROVE  /\ AfterFailure(x) \in [status : {"absent", "pending", "completed", "failed"},
                                 retries : Nat, job : Starts \cup {"real"}]
         /\ AfterFailure(x).job = x.job
         /\ AfterFailure(x).status = "pending" =>
                AfterFailure(x).retries < MaxRetries /\ x.status # "failed"
         /\ AfterFailure(x).status = "failed" => AfterFailure(x).retries >= MaxRetries
         /\ AfterFailure(x).status \in {"pending", "failed"}
  BY QueueAssumption DEF QueueAssumption, AfterFailure

(* Every step of the app keeps the invariant.                              *)
LEMMA StepQueue == QueueInv /\ [Next]_vars => QueueInv'
  <1> SUFFICES ASSUME QueueInv, [Next]_vars PROVE QueueInv'
    OBVIOUS
  <1> USE QueueAssumption DEF QueueAssumption, QueueInv, RowType, RunType, AbsentIsNew, NothingSentYet,
        NoRowIsStranded, InFlightDelivered, CompletedWasDelivered, ReadIdsCurrent,
        NothingQueuedYet, DeliveredWasQueued, StartType, ReplacedIdsStayGone, Rows
  <1>1. ASSUME NEW s \in Starts, StartJob(s) PROVE QueueInv'
    BY <1>1 DEF StartJob
  <1>2. ASSUME NEW s \in Starts, NEW i \in Uploads, EnqueueTemporary(s, i) PROVE QueueInv'
    BY <1>2 DEF EnqueueTemporary, Pending
  <1>3. ASSUME NEW s \in Starts, JobCreated(s) \/ StartFails(s) PROVE QueueInv'
    BY <1>3 DEF JobCreated, StartFails
  <1>4. ASSUME NEW s \in Starts, updateQueueJobId(s) PROVE QueueInv'
    <2>1. /\ UNCHANGED <<run, delivered>>
          /\ start[s] = "created" /\ start' = [start EXCEPT ![s] = "done"]
          /\ DOMAIN row' = Rows
          /\ \A i \in Rows :
                row'[i] = IF row[i].job = s /\ row[i].status = "pending"
                          THEN [row[i] EXCEPT !.job = "real"] ELSE row[i]
      BY <1>4 DEF updateQueueJobId
    <2>2. \A i \in Rows :
             /\ row'[i] \in [status : {"absent", "pending", "completed", "failed"},
                            retries : Nat, job : Starts \cup {"real"}]
             /\ row'[i].status = row[i].status /\ row'[i].retries = row[i].retries
             /\ row'[i].job # "real" => row'[i].job = row[i].job
             /\ row[i].job = "real" => row'[i].job = "real"
             /\ row'[i].status = "pending" => row'[i].job # s
      <3> SUFFICES ASSUME NEW i \in Rows
                   PROVE  /\ row'[i] \in [status : {"absent", "pending", "completed", "failed"},
                                          retries : Nat, job : Starts \cup {"real"}]
                          /\ row'[i].status = row[i].status /\ row'[i].retries = row[i].retries
                          /\ row'[i].job # "real" => row'[i].job = row[i].job
                          /\ row[i].job = "real" => row'[i].job = "real"
                          /\ row'[i].status = "pending" => row'[i].job # s
        OBVIOUS
      <3> row[i] \in [status : {"absent", "pending", "completed", "failed"},
                      retries : Nat, job : Starts \cup {"real"}]
        OBVIOUS
      <3> row'[i] = IF row[i].job = s /\ row[i].status = "pending"
                    THEN [row[i] EXCEPT !.job = "real"] ELSE row[i]
        BY <2>1
      <3> s \in Starts /\ "real" \notin Starts
        OBVIOUS
      <3> HIDE DEF QueueInv, QueueAssumption
      <3> QED
        OBVIOUS
    <2>3. RowType' /\ StartType'
      BY <1>4, <2>1, <2>2 DEF updateQueueJobId
    <2>4. RunType' /\ delivered' \subseteq Rows /\ AbsentIsNew' /\ DeliveredWasQueued'
      BY <2>1, <2>2
    <2>5. \A c \in Starts : start[c] # "none" => start'[c] # "none"
      BY <2>1
    <2>6. \A i \in Rows : row'[i].job # "real" =>
             /\ row'[i].job = row[i].job /\ row[i].job \in Starts
             /\ i \in Uploads /\ start[row[i].job] # "none"
      BY <2>2
    <2>7. NothingQueuedYet'
      <3> HIDE DEF QueueInv
      <3> QED
        BY <2>5, <2>6
    <2>8. NothingSentYet' /\ InFlightDelivered'
      BY <2>1
    <2>9. NoRowIsStranded' /\ CompletedWasDelivered'
      BY <2>1, <2>2
    <2>10. ReadIdsCurrent'
      <3>1. \A r \in Runs : run[r].real \subseteq Rows
        BY DEF RunRecord
      <3>2. \A r \in Runs : \A i \in run[r].real : row'[i].status # "absent" /\ row'[i].job = "real"
        BY <3>1, <2>2
      <3> QED
        BY <2>1, <3>2
    <2>11. ReplacedIdsStayGone'
      BY <2>1, <2>2
    <2> QED
      BY <2>3, <2>4, <2>7, <2>8, <2>9, <2>10, <2>11
  <1>5. ASSUME NEW i \in Rows, Enqueue(i) PROVE QueueInv'
    BY <1>5 DEF Enqueue, Pending
  <1>6. ASSUME NEW r \in Runs, StartRun(r) PROVE QueueInv'
    BY <1>6 DEF StartRun, RunRecord
  <1>7. ASSUME NEW r \in Runs, ReadUploads(r) PROVE QueueInv'
    <2> DEFINE rows == Readable(Uploads)
               ids  == {i \in rows : row[i].job = "real"}
               new  == [run[r] EXCEPT !.pc = "uploads", !.todo = rows, !.real = ids]
    <2>1. rows \in SUBSET Rows /\ ids \in SUBSET Rows
      BY DEF Readable
    <2>2. \A i \in ids : row[i].status # "absent" /\ row[i].job = "real"
      BY DEF Readable
    <2>3. /\ run' = [run EXCEPT ![r] = new]
          /\ UNCHANGED <<row, delivered, start>>
      BY <1>7 DEF ReadUploads
    <2>4. run[r] \in RunRecord
      OBVIOUS
    <2> HIDE DEF QueueInv
    <2>5. /\ new \in RunRecord
          /\ new.accepted = run[r].accepted /\ new.real = ids /\ new.pc = "uploads"
      BY <2>1, <2>4 DEF RunRecord
    <2> USE DEF QueueInv
    <2>6. run[r].accepted = {}
      BY <1>7 DEF ReadUploads
    <2> HIDE DEF rows, ids, new
    <2> QED
      BY <1>7, <2>2, <2>3, <2>5, <2>6
  <1>8. ASSUME NEW r \in Runs, ReadEvents(r) PROVE QueueInv'
    <2> DEFINE rows == Readable(Events)
               new  == [run[r] EXCEPT !.pc = "events", !.todo = rows]
    <2>1. rows \in SUBSET Rows
      BY DEF Readable
    <2>2. /\ run' = [run EXCEPT ![r] = new]
          /\ UNCHANGED <<row, delivered, start>>
      BY <1>8 DEF ReadEvents
    <2>3. run[r] \in RunRecord
      OBVIOUS
    <2> HIDE DEF QueueInv
    <2>4. /\ new \in RunRecord
          /\ new.accepted = run[r].accepted /\ new.real = run[r].real /\ new.pc = "events"
      BY <2>1, <2>3 DEF RunRecord
    <2> USE DEF QueueInv
    <2> HIDE DEF rows, new
    <2> QED
      BY <1>8, <2>2, <2>4
  <1>9. ASSUME NEW r \in Runs, NextBatch(r) PROVE QueueInv'
    BY <1>9 DEF NextBatch, RunRecord
  <1>10. ASSUME NEW r \in Runs, FinishRun(r) PROVE QueueInv'
    BY <1>10 DEF FinishRun, NoRun, RunRecord
  <1>11. ASSUME NEW r \in Runs, NEW i \in Rows, Accept(r, i) PROVE QueueInv'
    BY <1>11 DEF Accept, Waiting, RunRecord
  <1>12. ASSUME NEW r \in Runs, NEW i \in Rows, Error(r, i) PROVE QueueInv'
    <2> DEFINE new == [run[r] EXCEPT !.accepted = @ \ {i}, !.erred = @ \cup {i}]
    <2>1. /\ run' = [run EXCEPT ![r] = new]
          /\ UNCHANGED <<row, delivered, start>>
      BY <1>12 DEF Error
    <2>2. run[r] \in RunRecord
      OBVIOUS
    <2> HIDE DEF QueueInv
    <2>3. /\ new \in RunRecord
          /\ new.accepted \subseteq run[r].accepted /\ new.real = run[r].real
          /\ new.pc = run[r].pc /\ new.batch = run[r].batch
      BY <2>2 DEF RunRecord
    <2> USE DEF QueueInv
    <2> HIDE DEF new
    <2> QED
      BY <1>12, <2>1, <2>3
  <1>13. ASSUME NEW r \in Runs, NEW i \in Rows, markComplete(r, i) PROVE QueueInv'
    BY <1>13 DEF markComplete, Settled, RunRecord
  <1>14. ASSUME NEW r \in Runs, NEW i \in Rows, markFailed(r, i) PROVE QueueInv'
    BY <1>14, FailureKeepsRow DEF markFailed, Settled, RunRecord
  <1>15. CASE Connectivity
    BY <1>15 DEF Connectivity
  <1>16. CASE Kill
    BY <1>16 DEF Kill, NoRun, RunRecord
  <1>17. CASE UNCHANGED vars
    BY <1>17 DEF vars
  <1> QED
    BY <1>1, <1>2, <1>3, <1>4, <1>5, <1>6, <1>7, <1>8, <1>9, <1>10, <1>11, <1>12, <1>13, <1>14, <1>15, <1>16, <1>17 DEF Next, Work, Answer

(* The invariant holds in every reachable state.                           *)
LEMMA QueueInvariant == Spec => []QueueInv
  BY InitQueue, StepQueue, PTL DEF Spec

(* markFailed and markComplete write the status of a row without reading   *)
(* it, from calls that overlap; still a pending row is always one that the *)
(* next call of processQueue reads, and a row is given up only after       *)
(* MAX_RETRIES failures.                                                   *)
THEOREM NoStrandedRows == Spec => []NoRowIsStranded
  <1>1. QueueInv => NoRowIsStranded
    BY DEF QueueInv
  <1> QED
    BY <1>1, QueueInvariant, PTL

(* markComplete is reached only after the server accepted the request of   *)
(* the row, in whatever order answers and failures of overlapping calls    *)
(* arrive.                                                                 *)
THEOREM CompletedDelivered == Spec => []CompletedWasDelivered
  <1>1. QueueInv => CompletedWasDelivered
    BY DEF QueueInv
  <1> QED
    BY <1>1, QueueInvariant, PTL

(* Once updateQueueJobId has run, no pending upload has the temporary id   *)
(* of that call of handleStartJob, although calls of processQueue that read*)
(* the id are still under way and put their rows back to pending, and      *)
(* although handleStartJob runs again after a failure; what still has a    *)
(* temporary id has not been taken by the server.                          *)
THEOREM ReplacedIdsTheorem == Spec => []ReplacedIdsStayGone
  <1>1. QueueInv => ReplacedIdsStayGone
    BY DEF QueueInv
  <1> QED
    BY <1>1, QueueInvariant, PTL

-----------------------------------------------------------------------------
(* WorkOrders                                                              *)

(* The shape of the rows, and of what the requests have read.              *)
RowShapes ==
    /\ job = [at |-> job.at, customer |-> job.customer, status |-> job.status, ai |-> job.ai]
    /\ req = [r \in Requests |-> req[r]]

(* A job that is about to be deleted is in the table.                      *)
DeletesRow == \A r \in Requests : Doing(r, "delete_job") => job.at # "none"

OfficeInv == RowShapes /\ DeletesRow /\ RowsAgree

-----------------------------------------------------------------------------
(* No row, and no request under way.                                       *)
LEMMA InitOffice == OfficeInit => OfficeInv
<1> SUFFICES ASSUME OfficeInit PROVE OfficeInv
  OBVIOUS
<1>1. RowShapes
  BY DEF OfficeInit, RowShapes, NoJob
<1>2. DeletesRow
  BY DEF OfficeInit, DeletesRow, Doing, Free
<1>3. RowsAgree
  BY DEF OfficeInit, RowsAgree, AuditCovers, JobKeepsCustomer, NoJob
<1> QED
  BY <1>1, <1>2, <1>3 DEF OfficeInv

(* A request that begins or ends leaves the others what they are.          *)
LEMMA BeginOrEnd ==
    ASSUME RowShapes, NEW r \in Requests, NEW x, Begin(r, x) \/ (End(r) /\ x = [op |-> Free])
    PROVE  /\ req' = [q \in Requests |-> req'[q]] /\ req'[r] = x
           /\ \A q \in Requests \ {r} : req'[q] = req[q]
  BY DEF RowShapes, Begin, End

(* What the steps without a job or a customer leave sound.                 *)
LEMMA OfficeFrame ==
    ASSUME OfficeInv, UNCHANGED <<customers, job, audit>>,
           req' = [q \in Requests |-> req'[q]],
           \A q \in Requests : Doing(q, "delete_job")' => Doing(q, "delete_job") \/ job.at # "none"
    PROVE  OfficeInv'
<1>1. RowShapes'
  BY DEF OfficeInv, RowShapes
<1>2. DeletesRow'
  BY DEF OfficeInv, DeletesRow
<1>3. RowsAgree'
  BY DEF OfficeInv, RowsAgree, AuditCovers, JobKeepsCustomer
<1> QED
  BY <1>1, <1>2, <1>3 DEF OfficeInv

(* The same for a step that begins with what it has read, or ends.         *)
LEMMA ReadFrame ==
    ASSUME OfficeInv, UNCHANGED <<customers, job, audit>>, NEW r \in Requests, NEW x,
           Begin(r, x) \/ (End(r) /\ x = [op |-> Free]),
           x.op = "delete_job" => job.at # "none"
    PROVE  OfficeInv'
<1>1. /\ req' = [q \in Requests |-> req'[q]] /\ req'[r] = x
      /\ \A q \in Requests \ {r} : req'[q] = req[q]
  BY BeginOrEnd DEF OfficeInv
<1>2. \A q \in Requests : Doing(q, "delete_job")' => Doing(q, "delete_job") \/ job.at # "none"
  BY <1>1 DEF Doing
<1> QED
  BY <1>1, <1>2, OfficeFrame

(* The reading step of every request.                                      *)
LEMMA ReadsKeep ==
    ASSUME OfficeInv, NEW r \in Requests,
           \/ \E s, c : ReadForUpdate(r, s, c)
           \/ ReadForDelete(r)
           \/ \E c : CountJobs(r, c)
           \/ \E q : \E op \in {"approve_quote", "send_quote", "delete_quote"} : ReadQuote(r, q, op)
           \/ \E op \in DOMAIN Target : \E sent, v : ReadEstimate(r, op, sent, v)
           \/ ReadItems(r)
           \/ \E sent : ReadBrain(r, sent)
    PROVE  OfficeInv'
<1>1. ASSUME NEW s, NEW c, ReadForUpdate(r, s, c) PROVE OfficeInv'
  <2>1. PICK x : x = [op |-> "update_job", seen |-> [status |-> job.status, customer |-> job.customer],
                      status |-> s, customer |-> c]
    OBVIOUS
  <2>2. Begin(r, x) /\ x.op = "update_job" /\ UNCHANGED <<customers, job, audit>>
    BY <1>1, <2>1 DEF ReadForUpdate, Office
  <2> QED
    BY <2>2, ReadFrame
<1>2. ASSUME ReadForDelete(r) PROVE OfficeInv'
  <2>1. PICK x : x = [op |-> "delete_job"]
    OBVIOUS
  <2>2. Begin(r, x) /\ job.at = "live" /\ UNCHANGED <<customers, job, audit>>
    BY <1>2, <2>1 DEF ReadForDelete, Office
  <2> QED
    BY <2>2, ReadFrame
<1>3. ASSUME NEW c, CountJobs(r, c) PROVE OfficeInv'
  <2>1. PICK x : x = [op |-> "delete_customer", customer |-> c]
    OBVIOUS
  <2>2. Begin(r, x) /\ x.op = "delete_customer" /\ UNCHANGED <<customers, job, audit>>
    BY <1>3, <2>1 DEF CountJobs, Office
  <2> QED
    BY <2>2, ReadFrame
<1>4. ASSUME NEW q, NEW op \in {"approve_quote", "send_quote", "delete_quote"}, ReadQuote(r, q, op)
      PROVE  OfficeInv'
  <2>1. PICK x : x = [op |-> op, quote |-> q, seen |-> quotes[q]]
    OBVIOUS
  <2>2. Begin(r, x) /\ x.op # "delete_job" /\ UNCHANGED <<customers, job, audit>>
    BY <1>4, <2>1 DEF ReadQuote, Office
  <2> QED
    BY <2>2, ReadFrame
<1>5. ASSUME NEW op \in DOMAIN Target, NEW sent, NEW v, ReadEstimate(r, op, sent, v)
      PROVE  OfficeInv'
  <2>1. PICK x : x = [op |-> op, seen |-> est, sent |-> sent, version |-> v, items |-> {}]
    OBVIOUS
  <2>2. Begin(r, x) /\ x.op # "delete_job" /\ UNCHANGED <<customers, job, audit>>
    BY <1>5, <2>1 DEF ReadEstimate, Office, Target
  <2> QED
    BY <2>2, ReadFrame
<1>6. ASSUME NEW sent, ReadBrain(r, sent) PROVE OfficeInv'
  <2>1. PICK x : x = [op |-> "brain", seen |-> brain, sent |-> sent]
    OBVIOUS
  <2>2. Begin(r, x) /\ x.op # "delete_job" /\ UNCHANGED <<customers, job, audit>>
    BY <1>6, <2>1 DEF ReadBrain, Office
  <2> QED
    BY <2>2, ReadFrame
<1>7. ASSUME ReadItems(r) PROVE OfficeInv'
  <2>1. PICK x : x = [op |-> "replace", seen |-> req[r].seen, sent |-> "items",
                      version |-> req[r].version, items |-> est.items]
    OBVIOUS
  <2>2. Begin(r, x) /\ x.op # "delete_job" /\ UNCHANGED <<customers, job, audit>>
    BY <1>7, <2>1 DEF ReadItems, Office
  <2> QED
    BY <2>2, ReadFrame
<1> QED
  BY <1>1, <1>2, <1>3, <1>4, <1>5, <1>6, <1>7

(* Writers that end without touching job and customer.                     *)
LEMMA EndsKeep ==
    ASSUME OfficeInv, NEW r \in Requests, WriteQuote(r) \/ UpdateBrain(r) \/ WriteEstimate(r)
    PROVE  OfficeInv'
<1>1. End(r) /\ UNCHANGED <<customers, job, audit>>
  BY DEF WriteQuote, UpdateBrain, WriteEstimate, Office
<1>2. PICK x : x = [op |-> Free]
  OBVIOUS
<1>3. x.op # "delete_job"
  BY <1>2 DEF Free
<1> QED
  BY <1>1, <1>2, <1>3, ReadFrame

(* A step on nothing but quotes, estimates and price settings.             *)
LEMMA QuietKeep ==
    ASSUME OfficeInv, UNCHANGED <<customers, job, audit, req>>
    PROVE  OfficeInv'
<1>1. req' = [q \in Requests |-> req'[q]]
  BY DEF OfficeInv, RowShapes
<1>2. \A q \in Requests : Doing(q, "delete_job")' => Doing(q, "delete_job")
  BY DEF Doing
<1> QED
  BY <1>1, <1>2, OfficeFrame

-----------------------------------------------------------------------------
(* The steps that write a job or a customer.                               *)
LEMMA CreateJobKeepsRows ==
    ASSUME OfficeInv, NEW r \in Requests, NEW c \in Customers, CreateJob(r, c)
    PROVE  OfficeInv'
<1>1. /\ c \in customers /\ UNCHANGED <<customers, audit, req>>
      /\ job' = [NoJob EXCEPT !.at = "live", !.customer = c]
  BY DEF CreateJob
<1>2. /\ job'.at = "live" /\ job'.customer = c /\ job'.status = "pending"
      /\ job' = [at |-> job'.at, customer |-> job'.customer, status |-> job'.status, ai |-> job'.ai]
  BY <1>1 DEF NoJob
<1>3. RowShapes'
  BY <1>1, <1>2 DEF OfficeInv, RowShapes
<1>4. DeletesRow'
  BY <1>2 DEF DeletesRow
<1>5. RowsAgree'
  BY <1>1, <1>2 DEF OfficeInv, RowsAgree, AuditCovers, JobKeepsCustomer
<1> QED
  BY <1>3, <1>4, <1>5 DEF OfficeInv

(* A new customer is nobody's yet.                                         *)
LEMMA CreateCustomerKeepsRows ==
    ASSUME OfficeInv, NEW r \in Requests, NEW c \in Customers, CreateCustomer(r, c)
    PROVE  OfficeInv'
  BY DEF CreateCustomer, OfficeInv, RowShapes, DeletesRow, Doing, RowsAgree, AuditCovers,
         JobKeepsCustomer

(* A status is written only if it differs from the one that was read, and  *)
(* then it is logged; a new customer is one the foreign key finds.         *)
LEMMA UpdateJobKeepsRows ==
    ASSUME OfficeInv, NEW r \in Requests, UpdateJob(r)
    PROVE  OfficeInv'
<1>1. PICK w : w = req[r]
  OBVIOUS
<1>2. PICK x : x = [op |-> Free]
  OBVIOUS
<1>3. /\ End(r) /\ UNCHANGED <<customers>> /\ x.op # "delete_job"
  BY <1>2 DEF UpdateJob, Free
<1>4. CASE ~ (w.customer = Free \/ w.customer \in customers)
  <2>1. UNCHANGED <<customers, job, audit>>
    BY <1>1, <1>3, <1>4 DEF UpdateJob
  <2> QED
    BY <1>2, <1>3, <2>1, ReadFrame
<1>5. CASE w.customer = Free \/ w.customer \in customers
  <2>1. /\ job' = [job EXCEPT
              !.status   = IF w.status \in {Free, w.seen.status} THEN @ ELSE w.status,
              !.customer = IF w.customer \in {Free, w.seen.customer} THEN @ ELSE w.customer]
        /\ audit' = audit \cup Logged(w.seen, w.status)
    BY <1>1, <1>5 DEF UpdateJob
  <2>2. job = [at |-> job.at, customer |-> job.customer, status |-> job.status, ai |-> job.ai]
    BY DEF OfficeInv, RowShapes
  <2>3. /\ job'.at = job.at
        /\ job'.status = IF w.status \in {Free, w.seen.status} THEN job.status ELSE w.status
        /\ job'.customer = IF w.customer \in {Free, w.seen.customer} THEN job.customer
                           ELSE w.customer
        /\ job' = [at |-> job'.at, customer |-> job'.customer, status |-> job'.status,
                   ai |-> job'.ai]
    BY <2>1, <2>2
  <2>4. /\ req' = [q \in Requests |-> req'[q]] /\ req'[r] = x
        /\ \A q \in Requests \ {r} : req'[q] = req[q]
    BY <1>2, <1>3, BeginOrEnd DEF OfficeInv
  <2>5. RowShapes'
    BY <1>3, <2>3, <2>4 DEF OfficeInv, RowShapes
  <2>6. DeletesRow'
    BY <1>3, <2>3, <2>4 DEF OfficeInv, DeletesRow, Doing
  <2>7. AuditCovers'
    <3>1. AuditCovers
      BY DEF OfficeInv, RowsAgree
    <3>2. CASE w.status \in {Free, w.seen.status}
      BY <2>1, <2>3, <3>1, <3>2 DEF AuditCovers
    <3>3. CASE w.status \notin {Free, w.seen.status}
      BY <2>1, <2>3, <3>3 DEF AuditCovers, Logged
    <3> QED
      BY <3>2, <3>3
  <2>8. JobKeepsCustomer'
    BY <1>3, <1>5, <2>3 DEF OfficeInv, RowsAgree, JobKeepsCustomer
  <2> QED
    BY <2>5, <2>6, <2>7, <2>8 DEF OfficeInv, RowsAgree
<1> QED
  BY <1>4, <1>5

(* A deleted job keeps its row.                                            *)
LEMMA DeleteJobKeepsRows ==
    ASSUME OfficeInv, NEW r \in Requests, DeleteJob(r)
    PROVE  OfficeInv'
<1>1. PICK x : x = [op |-> Free]
  OBVIOUS
<1>2. /\ End(r) /\ UNCHANGED <<customers, audit>> /\ x.op # "delete_job"
      /\ job' = [job EXCEPT !.at = "deleted"] /\ job.at # "none"
  BY <1>1 DEF DeleteJob, Free, OfficeInv, DeletesRow
<1>3. job = [at |-> job.at, customer |-> job.customer, status |-> job.status, ai |-> job.ai]
  BY DEF OfficeInv, RowShapes
<1>4. /\ job'.at = "deleted" /\ job'.customer = job.customer /\ job'.status = job.status
      /\ job' = [at |-> job'.at, customer |-> job'.customer, status |-> job'.status, ai |-> job'.ai]
  BY <1>2, <1>3
<1>5. req' = [q \in Requests |-> req'[q]]
  BY <1>1, <1>2, BeginOrEnd DEF OfficeInv
<1>6. RowShapes'
  BY <1>2, <1>4, <1>5 DEF OfficeInv, RowShapes
<1>7. DeletesRow'
  BY <1>4 DEF DeletesRow
<1>8. RowsAgree'
  BY <1>2, <1>4 DEF OfficeInv, RowsAgree, AuditCovers, JobKeepsCustomer
<1> QED
  BY <1>6, <1>7, <1>8 DEF OfficeInv

(* The customer of a job is not deleted.                                   *)
LEMMA DeleteCustomerKeepsRows ==
    ASSUME OfficeInv, NEW r \in Requests, DeleteCustomer(r)
    PROVE  OfficeInv'
<1>1. PICK x : x = [op |-> Free]
  OBVIOUS
<1>2. PICK c : c = req[r].customer
  OBVIOUS
<1>3. /\ End(r) /\ UNCHANGED <<job, audit>> /\ x.op # "delete_job"
      /\ customers' = IF Restricted(c) THEN customers ELSE customers \ {c}
  BY <1>1, <1>2 DEF DeleteCustomer, Free
<1>4. /\ req' = [q \in Requests |-> req'[q]] /\ req'[r] = x
      /\ \A q \in Requests \ {r} : req'[q] = req[q]
  BY <1>1, <1>3, BeginOrEnd DEF OfficeInv
<1>5. RowShapes'
  BY <1>3, <1>4 DEF OfficeInv, RowShapes
<1>6. DeletesRow'
  BY <1>3, <1>4 DEF OfficeInv, DeletesRow, Doing
<1>7. RowsAgree'
  BY <1>3 DEF OfficeInv, RowsAgree, AuditCovers, JobKeepsCustomer, Restricted
<1> QED
  BY <1>5, <1>6, <1>7 DEF OfficeInv

(* The AI pipeline changes the AI state of a job only.                     *)
LEMMA PipelineKeepsRows ==
    ASSUME OfficeInv, AIStarts \/ AIEnds
    PROVE  OfficeInv'
<1>1. PICK s : job' = [job EXCEPT !.ai = s]
  BY DEF AIStarts, AIEnds
<1>2. UNCHANGED <<customers, audit, req>>
  BY DEF AIStarts, AIEnds
<1>3. job = [at |-> job.at, customer |-> job.customer, status |-> job.status, ai |-> job.ai]
  BY DEF OfficeInv, RowShapes
<1>4. /\ job'.at = job.at /\ job'.customer = job.customer /\ job'.status = job.status
      /\ job' = [at |-> job'.at, customer |-> job'.customer, status |-> job'.status, ai |-> job'.ai]
  BY <1>1, <1>3
<1>5. RowShapes' /\ DeletesRow'
  BY <1>2, <1>4 DEF OfficeInv, RowShapes, DeletesRow, Doing
<1>6. RowsAgree'
  BY <1>2, <1>4 DEF OfficeInv, RowsAgree, AuditCovers, JobKeepsCustomer
<1> QED
  BY <1>5, <1>6 DEF OfficeInv

-----------------------------------------------------------------------------
(* One lemma per kind of step.                                             *)
LEMMA StepOffice == OfficeInv /\ [OfficeNext]_officeVars => OfficeInv'
<1> SUFFICES ASSUME OfficeInv, [OfficeNext]_officeVars PROVE OfficeInv'
  OBVIOUS
<1>1. CASE UNCHANGED officeVars
  BY <1>1, QuietKeep DEF officeVars
<1>2. CASE AIStarts \/ AIEnds
  BY <1>2, PipelineKeepsRows
<1>3. ASSUME NEW r \in Requests, NEW c \in Customers,
             CreateJob(r, c) \/ CreateCustomer(r, c) \/ CountJobs(r, c)
      PROVE  OfficeInv'
  <2>1. CASE CreateJob(r, c)
    BY <2>1, CreateJobKeepsRows
  <2>2. CASE CreateCustomer(r, c)
    BY <2>2, CreateCustomerKeepsRows
  <2>3. CASE CountJobs(r, c)
    BY <2>3, ReadsKeep
  <2> QED
    BY <1>3, <2>1, <2>2, <2>3
<1>4. ASSUME NEW r \in Requests, NEW s \in JobStatus \cup {Free}, NEW c \in Customers \cup {Free},
             ReadForUpdate(r, s, c)
      PROVE  OfficeInv'
  BY <1>4, ReadsKeep
<1>5. ASSUME NEW r \in Requests,
             UpdateJob(r) \/ ReadForDelete(r) \/ DeleteJob(r) \/ DeleteCustomer(r)
      PROVE  OfficeInv'
  BY <1>5, UpdateJobKeepsRows, ReadsKeep, DeleteJobKeepsRows, DeleteCustomerKeepsRows
<1>6. ASSUME NEW r \in Requests, NEW q \in Quotes,
             GenerateQuote(r, q) \/ ApproveQuote(r, q) \/ SendQuote(r, q) \/ DeleteQuote(r, q)
      PROVE  OfficeInv'
  <2>1. CASE GenerateQuote(r, q)
    BY <2>1, QuietKeep DEF GenerateQuote, Office
  <2>2. CASE ApproveQuote(r, q) \/ SendQuote(r, q) \/ DeleteQuote(r, q)
    <3>1. \E op \in {"approve_quote", "send_quote", "delete_quote"} : ReadQuote(r, q, op)
      BY <2>2 DEF ApproveQuote, SendQuote, DeleteQuote
    <3> QED
      BY <3>1, ReadsKeep
  <2> QED
    BY <1>6, <2>1, <2>2
<1>7. ASSUME NEW r \in Requests, WriteQuote(r) \/ UpdateBrain(r) \/ WriteEstimate(r) \/ ReadItems(r)
      PROVE  OfficeInv'
  BY <1>7, EndsKeep, ReadsKeep
<1>8. ASSUME NEW r \in Requests, GenerateEstimate(r) \/ DeleteEstimate(r)
      PROVE  OfficeInv'
  <2>1. UNCHANGED <<customers, job, audit, req>>
    BY <1>8 DEF GenerateEstimate, DeleteEstimate, Office
  <2> QED
    BY <2>1, QuietKeep
<1>9. ASSUME NEW r \in Requests,
             \/ ReviewEstimate(r) \/ ApproveEstimate(r) \/ SendEstimate(r) \/ ReopenEstimate(r)
             \/ \E sent \in {"items", "amounts", "none"}, v \in Versions : UpdateEstimate(r, sent, v)
      PROVE  OfficeInv'
  <2>1. \E op \in DOMAIN Target : \E sent, v : ReadEstimate(r, op, sent, v)
    <3>1. {"review", "approve", "send", "reopen", "update"} \subseteq DOMAIN Target
      BY DEF Target
    <3> QED
      BY <1>9, <3>1 DEF ReviewEstimate, ApproveEstimate, SendEstimate, ReopenEstimate, UpdateEstimate
  <2> QED
    BY <2>1, ReadsKeep
<1>10. ASSUME NEW r \in Requests, NEW cs \in SUBSET Columns, NEW sent \in [cs -> Values],
              ReadBrain(r, sent)
       PROVE  OfficeInv'
  BY <1>10, ReadsKeep
<1> QED
  BY <1>1, <1>2, <1>3, <1>4, <1>5, <1>6, <1>7, <1>8, <1>9, <1>10 DEF OfficeNext

(* The audit log covers the status of the job and the job keeps its        *)
(* customer, whatever requests write at the same time from rows they read  *)
(* before (app/jobs).                                                      *)
THEOREM RowsAgreeTheorem == OfficeSpec => []RowsAgree
<1>1. OfficeInit => OfficeInv
  BY InitOffice
<1>2. OfficeInv /\ [OfficeNext]_officeVars => OfficeInv'
  BY StepOffice
<1>3. OfficeInv => RowsAgree
  BY DEF OfficeInv
<1> QED
  BY <1>1, <1>2, <1>3, PTL DEF OfficeSpec

-----------------------------------------------------------------------------
(* An estimate in the table has all its columns, and a request that is     *)
(* editing one saw it open; it is still open, or gone.                     *)
Editing(q) == Doing(q, "update") \/ Doing(q, "replace")

Open == est.at = "none" \/ est.status \in {"draft", "in_review"}

EditInv ==
    /\ est = [at |-> est.at, status |-> est.status, items |-> est.items, amounts |-> est.amounts]
    /\ est.at \in {"none", "live"}
    /\ req = [r \in Requests |-> req[r]]
    /\ \A r \in Requests : Editing(r) => Open

LEMMA InitEdit == OfficeInit => EditInv
  BY DEF OfficeInit, EditInv, Editing, Doing, Free, NoEstimate, Open

(* A step that leaves the estimate, and begins or ends a request.          *)
LEMMA EditFrame ==
    ASSUME EditInv, UNCHANGED est, NEW r \in Requests, NEW x,
           Begin(r, x) \/ (End(r) /\ x = [op |-> Free]),
           x.op \in {"update", "replace"} => Open
    PROVE  EditInv'
<1>1. /\ req' = [q \in Requests |-> req'[q]] /\ req'[r] = x
      /\ \A q \in Requests \ {r} : req'[q] = req[q]
  BY DEF EditInv, Begin, End
<1>2. \A q \in Requests : Editing(q)' => Open
  BY <1>1 DEF EditInv, Editing, Doing
<1> QED
  BY <1>1, <1>2 DEF EditInv, Open

(* Requests that do not edit estimates.                                    *)
LEMMA OthersKeepEdit ==
    ASSUME EditInv, NEW r \in Requests, UNCHANGED est,
           \/ End(r)
           \/ \E s, c : ReadForUpdate(r, s, c)
           \/ ReadForDelete(r)
           \/ \E c : CountJobs(r, c)
           \/ \E q : ApproveQuote(r, q) \/ SendQuote(r, q) \/ DeleteQuote(r, q)
           \/ \E sent : ReadBrain(r, sent)
           \/ \E op \in {"review", "approve", "send", "reopen"} :
                 ReadEstimate(r, op, "none", Free)
    PROVE  EditInv'
<1>1. ASSUME NEW x, Begin(r, x), x.op \notin {"update", "replace"} PROVE EditInv'
  BY <1>1, EditFrame
<1>2. CASE End(r)
  <2>1. PICK x : x = [op |-> Free]
    OBVIOUS
  <2> QED
    BY <1>2, <2>1, EditFrame DEF Free
<1>3. ASSUME NEW s, NEW c, ReadForUpdate(r, s, c) PROVE EditInv'
  <2>1. PICK x : x = [op |-> "update_job", seen |-> [status |-> job.status, customer |-> job.customer],
                      status |-> s, customer |-> c]
    OBVIOUS
  <2> QED
    BY <1>1, <1>3, <2>1 DEF ReadForUpdate
<1>4. CASE ReadForDelete(r)
  <2>1. PICK x : x = [op |-> "delete_job"]
    OBVIOUS
  <2> QED
    BY <1>1, <1>4, <2>1 DEF ReadForDelete
<1>5. ASSUME NEW c, CountJobs(r, c) PROVE EditInv'
  <2>1. PICK x : x = [op |-> "delete_customer", customer |-> c]
    OBVIOUS
  <2> QED
    BY <1>1, <1>5, <2>1 DEF CountJobs
<1>6. ASSUME NEW q, ApproveQuote(r, q) \/ SendQuote(r, q) \/ DeleteQuote(r, q) PROVE EditInv'
  <2>1. PICK op \in {"approve_quote", "send_quote", "delete_quote"} : ReadQuote(r, q, op)
    BY <1>6 DEF ApproveQuote, SendQuote, DeleteQuote
  <2>2. PICK x : x = [op |-> op, quote |-> q, seen |-> quotes[q]]
    OBVIOUS
  <2>3. Begin(r, x) /\ x.op \notin {"update", "replace"}
    BY <2>1, <2>2 DEF ReadQuote
  <2> QED
    BY <1>1, <2>3
<1>7. ASSUME NEW sent, ReadBrain(r, sent) PROVE EditInv'
  <2>1. PICK x : x = [op |-> "brain", seen |-> brain, sent |-> sent]
    OBVIOUS
  <2> QED
    BY <1>1, <1>7, <2>1 DEF ReadBrain
<1>8. ASSUME NEW op \in {"review", "approve", "send", "reopen"}, ReadEstimate(r, op, "none", Free)
      PROVE  EditInv'
  <2>1. PICK x : x = [op |-> op, seen |-> est, sent |-> "none", version |-> Free, items |-> {}]
    OBVIOUS
  <2>2. Begin(r, x) /\ x.op \notin {"update", "replace"}
    BY <1>8, <2>1 DEF ReadEstimate
  <2> QED
    BY <1>1, <2>2
<1> QED
  BY <1>2, <1>3, <1>4, <1>5, <1>6, <1>7, <1>8

(* update_estimate looks at the status of the row it reads.                *)
LEMMA ReadsOpen ==
    ASSUME EditInv, NEW r \in Requests,
           ReadItems(r) \/ \E sent, v : UpdateEstimate(r, sent, v)
    PROVE  UNCHANGED est /\ EditInv'
<1>1. UNCHANGED est
  BY DEF ReadItems, UpdateEstimate, ReadEstimate
<1>2. ASSUME ReadItems(r) PROVE EditInv'
  <2>1. PICK x : x = [op |-> "replace", seen |-> req[r].seen, sent |-> "items",
                      version |-> req[r].version, items |-> est.items]
    OBVIOUS
  <2>2. Begin(r, x) /\ Open
    BY <1>2, <2>1 DEF ReadItems, EditInv, Editing
  <2> QED
    BY <1>1, <2>2, EditFrame
<1>3. ASSUME NEW sent, NEW v, UpdateEstimate(r, sent, v) PROVE EditInv'
  <2>1. PICK x : x = [op |-> "update", seen |-> est, sent |-> sent, version |-> v, items |-> {}]
    OBVIOUS
  <2>2. Begin(r, x) /\ Open
    BY <1>3, <2>1 DEF UpdateEstimate, ReadEstimate, Open
  <2> QED
    BY <1>1, <2>2, EditFrame
<1> QED
  BY <1>1, <1>2, <1>3

(* What a request writes was open, and is open after it.                   *)
LEMMA WritesOpen ==
    ASSUME EditInv, NEW r \in Requests, WriteEstimate(r)
    PROVE  EditInv' /\ (UNCHANGED est \/ Open)
<1>1. PICK w : w = req[r]
  OBVIOUS
<1>2. End(r)
  BY DEF WriteEstimate
<1>3. CASE UNCHANGED est
  BY <1>2, <1>3, OthersKeepEdit
<1>4. CASE ~ UNCHANGED est
  <2>1. w.op \in {"update", "replace"} /\ est.at = "live"
    BY <1>1, <1>4 DEF WriteEstimate, Snapshot
  <2>2. Open
    BY <1>1, <2>1 DEF EditInv, Editing, Doing
  <2>3. PICK s, i, a : est' = [est EXCEPT !.status = s, !.items = i, !.amounts = a]
                       /\ s \in {est.status, "in_review"}
    <3>1. Target[w.op] = "in_review"
      BY <2>1 DEF Target
    <3> QED
      BY <1>1, <1>4, <3>1 DEF WriteEstimate
  <2>4. est = [at |-> est.at, status |-> est.status, items |-> est.items, amounts |-> est.amounts]
    BY DEF EditInv
  <2>5. /\ est' = [at |-> est'.at, status |-> est'.status, items |-> est'.items,
                   amounts |-> est'.amounts]
        /\ est'.at = "live" /\ est'.status \in {"draft", "in_review"}
    BY <2>1, <2>2, <2>3, <2>4 DEF Open
  <2>6. req' = [q \in Requests |-> req'[q]]
    BY <1>2 DEF End, EditInv
  <2> QED
    BY <2>2, <2>5, <2>6 DEF EditInv, Open
<1> QED
  BY <1>3, <1>4

(* A new estimate is not stored, and a deleted one is gone.                *)
LEMMA NewAndGone ==
    ASSUME EditInv, NEW r \in Requests, GenerateEstimate(r) \/ DeleteEstimate(r)
    PROVE  EditInv' /\ (UNCHANGED est \/ est' = NoEstimate)
<1>1. UNCHANGED req /\ (UNCHANGED est \/ est' = NoEstimate)
  BY DEF GenerateEstimate, DeleteEstimate, Snapshot
<1> QED
  BY <1>1 DEF EditInv, Editing, Doing, Open, NoEstimate

(* Every step, and what it may do to the estimate.                         *)
LEMMA StepEdit ==
    ASSUME EditInv, [OfficeNext]_officeVars
    PROVE  EditInv' /\ (UNCHANGED est \/ Open \/ est' = NoEstimate)
<1>1. ASSUME UNCHANGED <<est, req>> PROVE EditInv'
  BY <1>1 DEF EditInv, Editing, Doing, Open
<1>2. CASE UNCHANGED officeVars \/ AIStarts \/ AIEnds
  BY <1>1, <1>2 DEF officeVars, AIStarts, AIEnds
<1>3. ASSUME NEW r \in Requests, \E c \in Customers : CreateJob(r, c) \/ CreateCustomer(r, c)
      PROVE  EditInv' /\ UNCHANGED est
  BY <1>1, <1>3 DEF CreateJob, CreateCustomer
<1>4. ASSUME NEW r \in Requests, NEW c, CountJobs(r, c) PROVE EditInv' /\ UNCHANGED est
  <2>1. UNCHANGED est
    BY <1>4 DEF CountJobs
  <2> QED
    BY <1>4, <2>1, OthersKeepEdit
<1>5. ASSUME NEW r \in Requests, NEW s, NEW c, ReadForUpdate(r, s, c)
      PROVE  EditInv' /\ UNCHANGED est
  <2>1. UNCHANGED est
    BY <1>5 DEF ReadForUpdate
  <2> QED
    BY <1>5, <2>1, OthersKeepEdit
<1>6. ASSUME NEW r \in Requests,
             \/ UpdateJob(r) \/ ReadForDelete(r) \/ DeleteJob(r) \/ DeleteCustomer(r)
             \/ WriteQuote(r) \/ UpdateBrain(r)
      PROVE  EditInv' /\ UNCHANGED est
  <2>1. UNCHANGED est /\ (End(r) \/ ReadForDelete(r))
    BY <1>6 DEF UpdateJob, ReadForDelete, DeleteJob, DeleteCustomer, WriteQuote, UpdateBrain
  <2> QED
    BY <2>1, OthersKeepEdit
<1>7. ASSUME NEW r \in Requests, NEW q, GenerateQuote(r, q) PROVE EditInv' /\ UNCHANGED est
  BY <1>1, <1>7 DEF GenerateQuote
<1>8. ASSUME NEW r \in Requests, NEW q, ApproveQuote(r, q) \/ SendQuote(r, q) \/ DeleteQuote(r, q)
      PROVE  EditInv' /\ UNCHANGED est
  <2>1. UNCHANGED est
    BY <1>8 DEF ApproveQuote, SendQuote, DeleteQuote, ReadQuote
  <2> QED
    BY <1>8, <2>1, OthersKeepEdit
<1>9. ASSUME NEW r \in Requests,
             ReviewEstimate(r) \/ ApproveEstimate(r) \/ SendEstimate(r) \/ ReopenEstimate(r)
      PROVE  EditInv' /\ UNCHANGED est
  <2>1. PICK op \in {"review", "approve", "send", "reopen"} : ReadEstimate(r, op, "none", Free)
    BY <1>9 DEF ReviewEstimate, ApproveEstimate, SendEstimate, ReopenEstimate
  <2>2. UNCHANGED est
    BY <2>1 DEF ReadEstimate
  <2> QED
    BY <2>1, <2>2, OthersKeepEdit
<1>10. ASSUME NEW r \in Requests, NEW sent, ReadBrain(r, sent) PROVE EditInv' /\ UNCHANGED est
  <2>1. UNCHANGED est
    BY <1>10 DEF ReadBrain
  <2> QED
    BY <1>10, <2>1, OthersKeepEdit
<1> QED
  BY <1>2, <1>3, <1>4, <1>5, <1>6, <1>7, <1>8, <1>9, <1>10, ReadsOpen, WritesOpen, NewAndGone
  DEF OfficeNext

(* The items and amounts of an estimate that is not open for editing stay  *)
(* until it is deleted, although update_estimate writes to a row whose     *)
(* status it read before: no approval can be committed in between, because *)
(* a snapshot with loaded amounts cannot be stored (estimates/audit.py).   *)
THEOREM ClosedEstimateTheorem == OfficeSpec => ClosedEstimateStands
<1>1. OfficeInit => EditInv
  BY InitEdit
<1>2. EditInv /\ [OfficeNext]_officeVars => EditInv'
  BY StepEdit
<1>3. EditInv /\ [OfficeNext]_officeVars
        => [est.at = "live" /\ est.status \notin {"draft", "in_review"} =>
              est'.at = "none" \/ (est'.items = est.items /\ est'.amounts = est.amounts)]_officeVars
  BY StepEdit DEF Open, NoEstimate
<1> QED
  BY <1>1, <1>2, <1>3, PTL DEF OfficeSpec, ClosedEstimateStands

(* A price setting changes only to what some client sent for it, though    *)
(* each writes a row it read before (update of the pricing brain).         *)
THEOREM SettingsKeptTheorem == OfficeSpec => SettingsKept
<1>1. ASSUME [OfficeNext]_officeVars, NEW c \in Columns, brain'.column[c] # brain.column[c]
      PROVE  \E r \in Requests : Doing(r, "brain") /\ c \in DOMAIN req[r].sent
                                 /\ brain'.column[c] = req[r].sent[c]
  <2>1. ASSUME NEW r \in Requests, UpdateBrain(r)
        PROVE  Doing(r, "brain") /\ c \in DOMAIN req[r].sent /\ brain'.column[c] = req[r].sent[c]
    <3>1. Doing(r, "brain") /\ brain' = [at |-> "live", column |-> Assigned(req[r], brain.column)]
      BY <1>1, <2>1 DEF UpdateBrain
    <3>2. brain'.column[c] = IF c \in DOMAIN req[r].sent /\ req[r].sent[c] # req[r].seen.column[c]
                             THEN req[r].sent[c] ELSE brain.column[c]
      BY <3>1 DEF Assigned
    <3> QED
      BY <1>1, <3>1, <3>2
  <2>2. brain' # brain
    BY <1>1
  <2>3. ~ UNCHANGED officeVars /\ ~ AIStarts /\ ~ AIEnds
    BY <2>2 DEF officeVars, AIStarts, AIEnds
  <2>4. ASSUME NEW r \in Requests
        PROVE  /\ \A x : ~ CreateJob(r, x) /\ ~ CreateCustomer(r, x) /\ ~ CountJobs(r, x)
               /\ \A s, x : ~ ReadForUpdate(r, s, x)
               /\ ~ UpdateJob(r) /\ ~ ReadForDelete(r) /\ ~ DeleteJob(r) /\ ~ DeleteCustomer(r)
    BY <2>2 DEF CreateJob, CreateCustomer, CountJobs, ReadForUpdate, UpdateJob, ReadForDelete,
                DeleteJob, DeleteCustomer
  <2>5. ASSUME NEW r \in Requests
        PROVE  /\ \A q : ~ GenerateQuote(r, q) /\ ~ ApproveQuote(r, q) /\ ~ SendQuote(r, q)
                         /\ ~ DeleteQuote(r, q)
               /\ ~ WriteQuote(r)
    BY <2>2 DEF GenerateQuote, ApproveQuote, SendQuote, DeleteQuote, ReadQuote, WriteQuote
  <2>6. ASSUME NEW r \in Requests
        PROVE  /\ ~ GenerateEstimate(r) /\ ~ WriteEstimate(r) /\ ~ DeleteEstimate(r)
               /\ ~ ReviewEstimate(r) /\ ~ ApproveEstimate(r) /\ ~ SendEstimate(r)
               /\ ~ ReopenEstimate(r) /\ ~ ReadItems(r)
               /\ \A sent, v : ~ UpdateEstimate(r, sent, v)
               /\ \A sent : ~ ReadBrain(r, sent)
    BY <2>2 DEF GenerateEstimate, WriteEstimate, DeleteEstimate, ReviewEstimate, ApproveEstimate,
                SendEstimate, ReopenEstimate, UpdateEstimate, ReadEstimate, ReadItems, ReadBrain
  <2> QED
    BY <1>1, <2>1, <2>3, <2>4, <2>5, <2>6 DEF OfficeNext
<1>2. [OfficeNext]_officeVars
        => [\A c \in Columns : brain'.column[c] # brain.column[c] =>
              \E r \in Requests : Doing(r, "brain") /\ c \in DOMAIN req[r].sent
                                  /\ brain'.column[c] = req[r].sent[c]]_officeVars
  BY <1>1
<1> QED
  BY <1>2, PTL DEF OfficeSpec, SettingsKept

-----------------------------------------------------------------------------
(* ImportPipeline                                                          *)

ImportTask ==
    [pc : {"idle", "queued", "type", "fetch", "check", "insert", "next", "done", "aborted"},
     req : ImportRequests \cup {"none"}, at : Nat, token : BOOLEAN, todo : SUBSET Keys,
     cur : Keys \cup {<<>>}, found : BOOLEAN]

ImportJob ==
    [status : {"none", "pending", "scanning", "in_progress", "completed", "partial", "failed"},
     total : Nat, imported : Nat, skipped : Nat, failed : {0}, rolled : BOOLEAN,
     dry : BOOLEAN, vis : BOOLEAN]

ImportLog ==
    [result : {"none", "success", "rolled_back"}, job : JobIds \cup {<<>>}, vis : BOOLEAN]

RollbackRequest ==
    [pc : {"idle", "job", "logs"}, job : JobIds \cup {<<>>}, imported : Nat, skipped : Nat,
     keys : SUBSET Keys]

ImportTypes ==
    /\ task \in [Tasks -> ImportTask]
    /\ jobs \in [JobIds -> ImportJob]
    /\ logs \in [Keys -> ImportLog]
    /\ roller \in [Rollers -> RollbackRequest]

(* The log rows that name a job, and those that still say success.         *)
Attributed(j) == {k \in Keys : logs[k].job = j}
Successes(j)  == {k \in Keys : logs[k].job = j /\ logs[k].result = "success"}

(* A background task works on one of the types it was asked for.  A record *)
(* it found in the log has a row of which its INSERT falls foul.           *)
TaskSound(t) ==
    /\ task[t].pc = "queued" \/ OpenTask(t) =>
         task[t].req \in ImportRequests /\ task[t].req.provider \in Connectors
    /\ OpenTask(t) => task[t].at \in 1 .. Len(task[t].req.types)
    /\ task[t].pc = "insert" => task[t].cur \in task[t].todo
    /\ task[t].pc = "insert" /\ task[t].found => Conflict(t, task[t].cur)

Over(entry) ==
    /\ entry.status \in {"completed", "failed"}
    /\ entry.imported + entry.skipped = IF entry.dry THEN 0 ELSE entry.total

(* The row of a job is nothing but a blank until its type is reached.      *)
(* Only a task that is done has visible rows, and these are over.          *)
JobSound(j) ==
    LET entry == jobs[j]
        t   == task[j[1]]
    IN
    /\ t.pc \in {"idle", "queued", "aborted"} => entry = NoImport
    /\ OpenTask(j[1]) => ~ entry.vis /\ ~ entry.rolled
    /\ t.pc = "type" /\ j[2] = t.at => entry = NoImport
    /\ OpenTask(j[1]) /\ j[2] > t.at => entry = NoImport
    /\ OpenTask(j[1]) /\ j[2] < t.at => Over(entry)
    /\ t.pc = "next" /\ j[2] = t.at => Over(entry)
    /\ t.pc = "fetch" /\ j[2] = t.at
         => entry.status # "none" /\ entry.total = 0 /\ entry.imported = 0 /\ entry.skipped = 0
            /\ entry.dry = t.req.dry
    /\ t.pc \in {"check", "insert"} /\ j[2] = t.at
         => entry.status = "in_progress" /\ ~ entry.dry
            /\ entry.imported + entry.skipped + Cardinality(t.todo) = entry.total
    /\ t.pc = "done" => entry = NoImport \/ (entry.vis /\ Over(entry))

(* What a row counts is what the log attributes to it.                     *)
CountSound(j) ==
    /\ jobs[j].imported = Cardinality(Successes(j))
    /\ jobs[j].imported + jobs[j].skipped = Cardinality(Attributed(j))
    /\ ~ jobs[j].rolled => jobs[j].skipped = 0
    /\ jobs[j].rolled => jobs[j].vis /\ jobs[j].status = "failed" /\ Successes(j) = {}

(* A row of the log names a row of the jobs table and is seen with it.     *)
LogSound(k) ==
    /\ logs[k].result = "none" <=> logs[k] = NoLog
    /\ logs[k].result # "none" =>
         /\ logs[k].job \in JobIds
         /\ jobs[logs[k].job].status # "none"
         /\ logs[k].vis = jobs[logs[k].job].vis
    /\ logs[k].result = "rolled_back" => logs[k].vis /\ jobs[logs[k].job].rolled

(* A rollback read the counters of a visible job that was not rolled back  *)
(* then, and takes back all of its records or finds none left.             *)
RollerSound(r) ==
    /\ roller[r].pc # "idle" =>
         /\ roller[r].job \in JobIds /\ jobs[roller[r].job].vis
         /\ roller[r].imported = Cardinality(Attributed(roller[r].job))
         /\ roller[r].skipped = 0
    /\ roller[r].pc = "logs" =>
         \/ roller[r].keys = Attributed(roller[r].job)
         \/ roller[r].keys = {} /\ Successes(roller[r].job) = {}

ImportInv ==
    /\ ImportTypes
    /\ \A t \in Tasks : TaskSound(t)
    /\ \A j \in JobIds : JobSound(j) /\ CountSound(j)
    /\ \A k \in Keys : LogSound(k)
    /\ \A r \in Rollers : RollerSound(r)

-----------------------------------------------------------------------------
(* The rows of a task are those whose first component it is.               *)
LEMMA JobIdFacts ==
    ASSUME NEW t \in Tasks
    PROVE  /\ \A i \in 1 .. MaxTypes : <<t, i>> \in JobIds
           /\ \A j \in JobIds : j \in Mine(t) <=> j[1] = t
           /\ Mine(t) \subseteq JobIds
           /\ <<>> \notin Mine(t)
           /\ <<>> \notin JobIds
           /\ \A j \in JobIds : j[1] \in Tasks /\ j[2] \in 1 .. MaxTypes /\ j = <<j[1], j[2]>>
  BY DEF JobIds, Mine

(* What an absent row of the log names is not a job.                       *)
LEMMA JobIdNotEmpty ==
    ASSUME NEW j \in JobIds PROVE j # <<>>
  BY DEF JobIds

(* What the log attributes to a job can be counted.                        *)
LEMMA LogSetsFinite ==
    ASSUME NEW j
    PROVE  /\ IsFiniteSet(Attributed(j)) /\ IsFiniteSet(Successes(j))
           /\ Cardinality(Attributed(j)) \in Nat /\ Cardinality(Successes(j)) \in Nat
           /\ Successes(j) \subseteq Attributed(j)
<1>1. /\ Attributed(j) \in SUBSET Keys /\ Successes(j) \in SUBSET Keys
      /\ Successes(j) \subseteq Attributed(j)
  BY DEF Attributed, Successes
<1> QED
  BY <1>1, KeysAssumption, FS_Subset, FS_CardinalityType

(* Nothing is imported at first.                                           *)
LEMMA InitImport == ImportInit => ImportInv
<1> SUFFICES ASSUME ImportInit PROVE ImportInv
  OBVIOUS
<1>1. ImportTypes
  BY DEF ImportInit, ImportTypes, ImportTask, ImportJob, ImportLog, RollbackRequest, IdleTask, NoImport,
         NoLog, IdleRoller
<1>2. \A t \in Tasks : TaskSound(t)
  BY DEF ImportInit, TaskSound, OpenTask, IdleTask
<1>3. ASSUME NEW j \in JobIds PROVE JobSound(j)
  <2>1. j[1] \in Tasks
    BY DEF JobIds
  <2> QED
    BY <2>1 DEF ImportInit, JobSound, OpenTask, IdleTask
<1>4. ASSUME NEW j \in JobIds PROVE CountSound(j)
  <2>1. j # <<>>
    BY JobIdNotEmpty
  <2>2. Attributed(j) = {} /\ Successes(j) = {}
    BY <2>1 DEF ImportInit, Attributed, Successes, NoLog
  <2> QED
    BY <2>2, FS_EmptySet DEF ImportInit, CountSound, NoImport
<1>5. \A k \in Keys : LogSound(k)
  BY DEF ImportInit, LogSound, NoLog
<1>6. \A r \in Rollers : RollerSound(r)
  BY DEF ImportInit, RollerSound, IdleRoller
<1> QED
  BY <1>1, <1>2, <1>3, <1>4, <1>5, <1>6 DEF ImportInv

-----------------------------------------------------------------------------
(* What a step leaves alone stays sound.                                   *)
LEMMA JobFrame ==
    ASSUME NEW j \in JobIds, JobSound(j), task'[j[1]] = task[j[1]], jobs'[j] = jobs[j]
    PROVE  JobSound(j)'
  BY DEF JobSound, OpenTask, Over

LEMMA TaskFrame ==
    ASSUME NEW t \in Tasks, TaskSound(t), task'[t] = task[t],
           task[t].pc = "insert" /\ Conflict(t, task[t].cur) => Conflict(t, task[t].cur)'
    PROVE  TaskSound(t)'
  BY DEF TaskSound, OpenTask

LEMMA ConflictFrame ==
    ASSUME NEW t, NEW k, logs'[k] = logs[k], Conflict(t, k)
    PROVE  Conflict(t, k)'
  BY DEF Conflict, Sees, Mine

LEMMA CountFrame ==
    ASSUME NEW j \in JobIds, CountSound(j), jobs'[j] = jobs[j],
           Attributed(j)' = Attributed(j), Successes(j)' = Successes(j)
    PROVE  CountSound(j)'
  BY DEF CountSound

LEMMA LogFrame ==
    ASSUME NEW k \in Keys, LogSound(k), logs'[k] = logs[k],
           logs[k].result # "none" => jobs'[logs[k].job] = jobs[logs[k].job]
    PROVE  LogSound(k)'
  BY DEF LogSound

LEMMA RollerFrame ==
    ASSUME NEW r \in Rollers, RollerSound(r), roller'[r] = roller[r],
           roller[r].pc # "idle" =>
             /\ jobs'[roller[r].job].vis
             /\ Attributed(roller[r].job)' = Attributed(roller[r].job)
             /\ Successes(roller[r].job)' \subseteq Successes(roller[r].job)
    PROVE  RollerSound(r)'
  BY DEF RollerSound

(* Equal logs attribute the same to every job.                             *)
LEMMA SameLogs ==
    ASSUME NEW j, \A k \in Keys : logs'[k] = logs[k]
    PROVE  Attributed(j)' = Attributed(j) /\ Successes(j)' = Successes(j)
  BY DEF Attributed, Successes

(* Only a task that is done has rows that others see.                      *)
LEMMA VisibleDone ==
    ASSUME ImportTypes, NEW j \in JobIds, JobSound(j), jobs[j].vis
    PROVE  task[j[1]].pc = "done"
<1>1. task[j[1]] \in ImportTask
  BY JobIdFacts DEF ImportTypes, JobIds
<1>2. ~ NoImport.vis
  BY DEF NoImport
<1> QED
  BY <1>1, <1>2 DEF ImportTask, JobSound, OpenTask

(* A roll-back removes the rows of the task and leaves the others.         *)
LEMMA AbortKeeps ==
    ASSUME ImportInv, NEW t \in Tasks, Abort(t), UNCHANGED roller,
           task[t].pc \notin {"idle", "done", "aborted"}
    PROVE  ImportInv'
<1> USE DEF ImportInv
<1>1. task' \in [Tasks -> ImportTask] /\ jobs' \in [JobIds -> ImportJob]
      /\ logs' \in [Keys -> ImportLog]
  <2>1. [IdleTask EXCEPT !.pc = "aborted"] \in ImportTask
    BY DEF IdleTask, ImportTask
  <2>2. NoImport \in ImportJob /\ NoLog \in ImportLog
    BY DEF NoImport, NoLog, ImportJob, ImportLog
  <2> QED
    BY <2>1, <2>2, Zenon DEF ImportTypes, Abort, RollBackRows
<1>2. ImportTypes'
  BY <1>1 DEF ImportTypes
<1>3. task'[t].pc = "aborted" /\ \A u \in Tasks \ {t} : task'[u] = task[u]
  BY DEF Abort, ImportTypes, IdleTask
<1>4. \A j \in JobIds : jobs'[j] = IF j[1] = t THEN NoImport ELSE jobs[j]
  BY Zenon DEF Abort, RollBackRows
<1>5. ASSUME NEW k \in Keys
      PROVE  logs'[k] = IF logs[k].result # "none" /\ logs[k].job[1] = t THEN NoLog ELSE logs[k]
  <2>1. logs'[k] = IF logs[k].job \in Mine(t) /\ ~ logs[k].vis THEN NoLog ELSE logs[k]
    BY Zenon DEF Abort, RollBackRows
  <2>2. CASE logs[k].result = "none"
    <3>1. logs[k] = NoLog
      BY <2>2 DEF LogSound
    <3>2. logs'[k] = logs[k]
      BY <2>1, <3>1
    <3> QED
      BY <2>2, <3>2
  <2>3. CASE logs[k].result # "none" /\ logs[k].job[1] = t
    <3>1. logs[k].job \in JobIds /\ logs[k].vis = jobs[logs[k].job].vis
      BY <2>3 DEF LogSound
    <3>2. logs[k].job \in Mine(t)
      BY <2>3, <3>1, JobIdFacts
    <3>3. JobSound(logs[k].job)
      BY <3>1
    <3>4. ~ jobs[logs[k].job].vis
      BY <3>1, <3>3, <2>3, VisibleDone
    <3> QED
      BY <2>1, <2>3, <3>1, <3>2, <3>4
  <2>4. CASE logs[k].result # "none" /\ logs[k].job[1] # t
    <3>1. logs[k].job \in JobIds
      BY <2>4 DEF LogSound
    <3>2. logs[k].job \notin Mine(t)
      BY <2>4, <3>1, JobIdFacts
    <3> QED
      BY <2>1, <2>4, <3>2
  <2> QED
    BY <2>2, <2>3, <2>4
<1>6. ASSUME NEW u \in Tasks PROVE TaskSound(u)'
  <2>1. CASE u = t
    BY <2>1, <1>3 DEF TaskSound, OpenTask
  <2>2. CASE u # t
    <3>1. ASSUME NEW k \in Keys, Conflict(u, k) PROVE Conflict(u, k)'
      <4>1. CASE logs[k].job[1] = t /\ logs[k].result # "none"
        <5>1. logs[k].job \in JobIds /\ logs[k].vis = jobs[logs[k].job].vis
          BY <4>1 DEF LogSound
        <5>2. ~ jobs[logs[k].job].vis
          BY <5>1, <4>1, VisibleDone
        <5>3. logs[k].job \notin Mine(u)
          BY <5>1, <4>1, <2>2, JobIdFacts
        <5> QED
          BY <5>1, <5>2, <5>3, <3>1 DEF Conflict, Sees
      <4>2. CASE ~ (logs[k].job[1] = t /\ logs[k].result # "none")
        <5>1. logs'[k] = logs[k]
          BY <1>5, <4>2
        <5> QED
          BY <5>1, <3>1, ConflictFrame
      <4> QED
        BY <4>1, <4>2
    <3>2. task[u].pc = "insert" => task[u].cur \in Keys
      BY DEF TaskSound, ImportTypes, ImportTask
    <3> QED
      BY <2>2, <1>3, <3>1, <3>2, TaskFrame
  <2> QED
    BY <2>1, <2>2
<1>7. ASSUME NEW j \in JobIds PROVE JobSound(j)'
  <2>1. CASE j[1] = t
    BY <2>1, <1>3, <1>4 DEF JobSound, OpenTask
  <2>2. CASE j[1] # t
    BY <2>2, <1>3, <1>4, JobFrame, JobIdFacts
  <2> QED
    BY <2>1, <2>2
<1>8. ASSUME NEW j \in JobIds, j[1] # t
      PROVE  Attributed(j)' = Attributed(j) /\ Successes(j)' = Successes(j)
  <2>1. ASSUME NEW k \in Keys
        PROVE  (logs'[k].job = j <=> logs[k].job = j) /\ (logs[k].job = j => logs'[k] = logs[k])
    <3>1. NoLog.job = <<>> /\ j # <<>>
      BY JobIdFacts DEF NoLog
    <3> QED
      BY <1>5, <1>8, <3>1
  <2> QED
    BY <2>1 DEF Attributed, Successes
<1>9. ASSUME NEW j \in JobIds PROVE CountSound(j)'
  <2>1. CASE j[1] = t
    <3>1. ASSUME NEW k \in Keys PROVE logs'[k].job # j
      <4>1. NoLog.job # j
        BY JobIdFacts DEF NoLog
      <4>2. logs[k].result = "none" => logs[k].job # j
        BY <4>1 DEF LogSound
      <4> QED
        BY <1>5, <4>1, <4>2, <2>1
    <3>2. Attributed(j)' = {} /\ Successes(j)' = {}
      BY <3>1 DEF Attributed, Successes
    <3>3. jobs'[j] = NoImport
      BY <1>4, <2>1
    <3> QED
      BY <3>2, <3>3, FS_EmptySet DEF CountSound, NoImport
  <2>2. CASE j[1] # t
    BY <2>2, <1>4, <1>8, CountFrame
  <2> QED
    BY <2>1, <2>2
<1>10. ASSUME NEW k \in Keys PROVE LogSound(k)'
  <2>1. CASE logs[k].result # "none" /\ logs[k].job[1] = t
    BY <2>1, <1>5 DEF LogSound, NoLog
  <2>2. CASE ~ (logs[k].result # "none" /\ logs[k].job[1] = t)
    <3>1. logs'[k] = logs[k]
      BY <1>5, <2>2
    <3>2. logs[k].result # "none" => logs[k].job \in JobIds /\ jobs'[logs[k].job] = jobs[logs[k].job]
      BY <1>4, <2>2 DEF LogSound
    <3> QED
      BY <3>1, <3>2, LogFrame
  <2> QED
    BY <2>1, <2>2
<1>11. ASSUME NEW r \in Rollers PROVE RollerSound(r)'
  <2>1. roller[r].pc # "idle" =>
          /\ jobs'[roller[r].job].vis
          /\ Attributed(roller[r].job)' = Attributed(roller[r].job)
          /\ Successes(roller[r].job)' \subseteq Successes(roller[r].job)
    <3> SUFFICES ASSUME roller[r].pc # "idle"
                 PROVE  /\ jobs'[roller[r].job].vis
                        /\ Attributed(roller[r].job)' = Attributed(roller[r].job)
                        /\ Successes(roller[r].job)' \subseteq Successes(roller[r].job)
      OBVIOUS
    <3>1. roller[r].job \in JobIds /\ jobs[roller[r].job].vis
      BY DEF RollerSound
    <3>2. roller[r].job[1] # t
      BY <3>1, VisibleDone
    <3> QED
      BY <3>1, <3>2, <1>4, <1>8
  <2> QED
    BY <2>1, RollerFrame
<1> QED
  BY <1>2, <1>6, <1>7, <1>9, <1>10, <1>11

-----------------------------------------------------------------------------
(* A step that writes rows of one task only, and not the log.              *)
LEMMA TaskWrites ==
    ASSUME ImportInv, NEW t \in Tasks, UNCHANGED <<logs, roller>>,
           task' \in [Tasks -> ImportTask], jobs' \in [JobIds -> ImportJob],
           \A u \in Tasks \ {t} : task'[u] = task[u],
           TaskSound(t)',
           \A j \in JobIds : j[1] # t => jobs'[j] = jobs[j],
           \A j \in JobIds : j[1] = t =>
               /\ JobSound(j)' /\ CountSound(j)'
               /\ jobs[j].status # "none" => jobs'[j].status # "none"
               /\ jobs'[j].vis = jobs[j].vis /\ jobs'[j].rolled = jobs[j].rolled
    PROVE  ImportInv'
<1> USE DEF ImportInv
<1>1. ImportTypes'
  BY DEF ImportTypes
<1>2. ASSUME NEW u \in Tasks PROVE TaskSound(u)'
  <2>2. CASE u = t
    BY <2>2
  <2>3. CASE u # t
    <3>1. task'[u] = task[u]
      BY <2>3
    <3>2. Conflict(u, task[u].cur) => Conflict(u, task[u].cur)'
      BY <3>1 DEF Conflict, Sees, Mine
    <3> QED
      BY <3>1, <3>2, TaskFrame
  <2> QED
    BY <2>2, <2>3
<1>3. \A j \in JobIds : Attributed(j)' = Attributed(j) /\ Successes(j)' = Successes(j)
  BY DEF Attributed, Successes
<1>4. ASSUME NEW j \in JobIds PROVE JobSound(j)' /\ CountSound(j)'
  <2>1. CASE j[1] = t
    BY <2>1
  <2>2. CASE j[1] # t
    <3>1. task'[j[1]] = task[j[1]] /\ jobs'[j] = jobs[j]
      BY <2>2, JobIdFacts
    <3> QED
      BY <3>1, <1>3, JobFrame, CountFrame
  <2> QED
    BY <2>1, <2>2
<1>5. \A j \in JobIds : /\ jobs[j].status # "none" => jobs'[j].status # "none"
                        /\ jobs'[j].vis = jobs[j].vis /\ jobs'[j].rolled = jobs[j].rolled
  OBVIOUS
<1>6. ASSUME NEW k \in Keys PROVE LogSound(k)'
  BY <1>5 DEF LogSound
<1>7. ASSUME NEW r \in Rollers PROVE RollerSound(r)'
  <2>1. roller[r].pc # "idle" =>
          /\ jobs'[roller[r].job].vis
          /\ Attributed(roller[r].job)' = Attributed(roller[r].job)
          /\ Successes(roller[r].job)' \subseteq Successes(roller[r].job)
    BY <1>5 DEF RollerSound, Attributed, Successes
  <2> QED
    BY <2>1, RollerFrame
<1> QED
  BY <1>1, <1>2, <1>4, <1>6, <1>7

(* A step that writes nothing.                                             *)
LEMMA TaskMoves ==
    ASSUME ImportInv, NEW t \in Tasks, UNCHANGED <<jobs, logs, roller>>,
           task' \in [Tasks -> ImportTask], \A u \in Tasks \ {t} : task'[u] = task[u],
           TaskSound(t)', \A j \in JobIds : j[1] = t => JobSound(j)'
    PROVE  ImportInv'
<1>1. jobs' \in [JobIds -> ImportJob]
  BY DEF ImportInv, ImportTypes
<1>2. ASSUME NEW j \in JobIds PROVE CountSound(j)'
  <2>1. Attributed(j)' = Attributed(j) /\ Successes(j)' = Successes(j)
    BY DEF Attributed, Successes
  <2> QED
    BY <2>1, CountFrame DEF ImportInv
<1> QED
  BY <1>1, <1>2, TaskWrites

(* The request that queues the background task.                            *)
LEMMA StartKeeps ==
    ASSUME ImportInv, NEW t \in Tasks, NEW q \in ImportRequests, StartImport(t, q)
    PROVE  ImportInv'
<1>1. task[t].pc = "idle" /\ UNCHANGED <<jobs, logs, roller>>
  BY DEF StartImport
<1> DEFINE new == [IdleTask EXCEPT !.pc = "queued", !.req = q]
<1>2. new \in ImportTask /\ new.pc = "queued" /\ new.req = q /\ q.provider \in Connectors
  BY ImportAssumption DEF IdleTask, ImportTask, StartImport
<1>3. task' = [task EXCEPT ![t] = new]
  BY Zenon DEF StartImport
<1>4. task' \in [Tasks -> ImportTask] /\ task'[t] = new
      /\ \A u \in Tasks \ {t} : task'[u] = task[u]
  BY <1>2, <1>3 DEF ImportInv, ImportTypes
<1>5. TaskSound(t)'
  BY <1>2, <1>4 DEF TaskSound, OpenTask
<1>6. ASSUME NEW j \in JobIds, j[1] = t PROVE JobSound(j)'
  <2>1. jobs[j] = NoImport
    BY <1>1, <1>6 DEF ImportInv, JobSound
  <2> QED
    BY <1>1, <1>2, <1>4, <1>6, <2>1 DEF JobSound, OpenTask
<1> QED
  BY <1>1, <1>4, <1>5, <1>6, TaskMoves

(* The task loads its connection.                                          *)
LEMMA BeginKeeps ==
    ASSUME ImportInv, NEW t \in Tasks, BeginImport(t)
    PROVE  ImportInv'
<1>1. task[t].pc = "queued" /\ UNCHANGED <<jobs, logs, roller>>
  BY DEF BeginImport
<1>2. task[t] \in ImportTask /\ task[t].req \in ImportRequests /\ task[t].req.provider \in Connectors
  BY <1>1 DEF ImportInv, ImportTypes, TaskSound
<1>3. PICK tok \in BOOLEAN :
        task' = [task EXCEPT ![t].pc = "type", ![t].at = 1, ![t].token = tok]
  <2>1. (task[t].req.conn /\ connection[Provider(t)].token) \in BOOLEAN
    OBVIOUS
  <2> QED
    BY <2>1, Zenon DEF BeginImport
<1>4. /\ task'[t] = [task[t] EXCEPT !.pc = "type", !.at = 1, !.token = tok]
      /\ \A u \in Tasks \ {t} : task'[u] = task[u]
      /\ task' \in [Tasks -> ImportTask]
  BY <1>2, <1>3 DEF ImportInv, ImportTypes, ImportTask
<1>5. task'[t].pc = "type" /\ task'[t].at = 1 /\ task'[t].req = task[t].req
  BY <1>2, <1>4 DEF ImportTask
<1>6. 1 \in 1 .. Len(task[t].req.types)
  BY <1>2, ImportAssumption
<1>7. TaskSound(t)'
  BY <1>2, <1>5, <1>6 DEF TaskSound, OpenTask
<1>8. ASSUME NEW j \in JobIds, j[1] = t PROVE JobSound(j)'
  <2>1. jobs[j] = NoImport /\ ~ NoImport.vis /\ ~ NoImport.rolled
    BY <1>1, <1>8 DEF ImportInv, JobSound, NoImport
  <2>2. j[2] \in 1 .. MaxTypes
    BY JobIdFacts
  <2>3. ~ (j[2] < 1)
    BY <2>2, ImportAssumption
  <2> QED
    BY <1>1, <1>5, <1>8, <2>1, <2>3 DEF JobSound, OpenTask
<1> QED
  BY <1>1, <1>4, <1>7, <1>8, TaskMoves

(* already_imported looks a record up among the rows the task can see.     *)
LEMMA CheckKeeps ==
    ASSUME ImportInv, NEW t \in Tasks, Check(t)
    PROVE  ImportInv'
<1>1. task[t].pc = "check" /\ UNCHANGED <<jobs, logs, roller>>
  BY DEF Check
<1>2. task[t] \in ImportTask /\ TaskSound(t) /\ OpenTask(t)
  BY <1>1 DEF ImportInv, ImportTypes, OpenTask
<1>3. PICK k \in task[t].todo :
        task' = [task EXCEPT ![t].cur = k, ![t].found = AlreadyImported(t, k), ![t].pc = "insert"]
  BY Zenon DEF Check
<1>4. PICK f \in BOOLEAN : f = AlreadyImported(t, k)
  BY DEF AlreadyImported
<1>5. task' = [task EXCEPT ![t].cur = k, ![t].found = f, ![t].pc = "insert"]
  BY <1>3, <1>4, Zenon
<1>6. k \in Keys
  BY <1>2 DEF ImportTask
<1>7. /\ task'[t] = [task[t] EXCEPT !.cur = k, !.found = f, !.pc = "insert"]
      /\ \A u \in Tasks \ {t} : task'[u] = task[u]
      /\ task' \in [Tasks -> ImportTask]
  BY <1>2, <1>5, <1>6 DEF ImportInv, ImportTypes, ImportTask
<1>8. /\ task'[t].pc = "insert" /\ task'[t].at = task[t].at /\ task'[t].req = task[t].req
      /\ task'[t].todo = task[t].todo /\ task'[t].cur = k /\ task'[t].found = f
  BY <1>2, <1>7 DEF ImportTask
<1>9. f => Conflict(t, k)'
  BY <1>1, <1>4, Zenon DEF AlreadyImported, Conflict, Sees, Mine
<1>10. TaskSound(t)'
  <2>1. task'[t].found => Conflict(t, task[t].cur)'
    <3>1. f => logs[k].result # "none" /\ (logs[k].vis \/ logs[k].job \in Mine(t))
      BY <1>4 DEF AlreadyImported, Sees
    <3> QED
      BY <3>1, <1>1, <1>8 DEF Conflict, Sees, Mine
  <2> QED
    BY <2>1, <1>2, <1>8 DEF TaskSound, OpenTask
<1>11. ASSUME NEW j \in JobIds, j[1] = t PROVE JobSound(j)'
  <2>1. JobSound(j)
    BY DEF ImportInv
  <2> QED
    BY <1>1, <1>2, <1>8, <1>11, <2>1 DEF JobSound, OpenTask, Over
<1> QED
  BY <1>1, <1>7, <1>10, <1>11, TaskMoves

(* The task goes on with its next type, or is done.                        *)
LEMMA NextTypeKeeps ==
    ASSUME ImportInv, NEW t \in Tasks, NextType(t)
    PROVE  ImportInv'
<1>1. /\ task[t].pc = "next" /\ task[t].at < Len(task[t].req.types)
      /\ UNCHANGED <<jobs, logs, roller>>
      /\ task' = [task EXCEPT ![t].at = @ + 1, ![t].pc = "type"]
  BY DEF NextType
<1>2. task[t] \in ImportTask /\ TaskSound(t) /\ OpenTask(t)
  BY <1>1 DEF ImportInv, ImportTypes, OpenTask
<1>3. /\ task'[t] = [task[t] EXCEPT !.at = @ + 1, !.pc = "type"]
      /\ \A u \in Tasks \ {t} : task'[u] = task[u]
      /\ task' \in [Tasks -> ImportTask]
  BY <1>1, <1>2 DEF ImportInv, ImportTypes, ImportTask
<1>4. /\ task'[t].pc = "type" /\ task'[t].at = task[t].at + 1 /\ task'[t].req = task[t].req
  BY <1>2, <1>3 DEF ImportTask
<1>5. /\ task[t].req \in ImportRequests /\ task[t].at \in 1 .. Len(task[t].req.types)
      /\ Len(task[t].req.types) \in 1 .. MaxTypes /\ MaxTypes \in Nat
      /\ task[t].req.provider \in Connectors
  BY <1>2, ImportAssumption DEF TaskSound
<1>6. TaskSound(t)'
  BY <1>1, <1>4, <1>5 DEF TaskSound, OpenTask
<1>7. ASSUME NEW j \in JobIds, j[1] = t PROVE JobSound(j)'
  <2>1. JobSound(j)
    BY DEF ImportInv
  <2>2. j[2] \in 1 .. MaxTypes
    BY JobIdFacts
  <2>3. jobs[j].vis = FALSE /\ jobs[j].rolled = FALSE
    BY <1>2, <1>7, <2>1 DEF JobSound, ImportInv, ImportTypes, ImportJob
  <2>4. j[2] >= task[t].at + 1 => jobs[j] = NoImport
    <3>1. j[2] >= task[t].at + 1 => j[2] > task[t].at
      BY <1>5, <2>2
    <3> QED
      BY <3>1, <1>2, <1>7, <2>1 DEF JobSound
  <2>5. j[2] < task[t].at + 1 => Over(jobs[j])
    <3>1. j[2] < task[t].at + 1 => j[2] < task[t].at \/ j[2] = task[t].at
      BY <1>5, <2>2
    <3> QED
      BY <3>1, <1>1, <1>2, <1>7, <2>1 DEF JobSound
  <2>6. j[2] > task[t].at + 1 => j[2] >= task[t].at + 1
    BY <1>5, <2>2
  <2>7. j[2] = task[t].at + 1 => j[2] >= task[t].at + 1
    BY <1>5, <2>2
  <2> QED
    BY <1>1, <1>4, <1>7, <2>3, <2>4, <2>5, <2>6, <2>7 DEF JobSound, OpenTask, Over
<1> QED
  BY <1>1, <1>3, <1>6, <1>7, TaskMoves

-----------------------------------------------------------------------------
(* The row an open task works on.                                          *)
LEMMA JobOfFacts ==
    ASSUME ImportInv, NEW t \in Tasks, OpenTask(t)
    PROVE  /\ task[t] \in ImportTask /\ task[t].req \in ImportRequests
           /\ task[t].req.provider \in Connectors
           /\ task[t].at \in 1 .. MaxTypes /\ MaxTypes \in Nat
           /\ task[t].at \in 1 .. Len(task[t].req.types)
           /\ JobOf(t) \in JobIds /\ JobOf(t)[1] = t /\ JobOf(t)[2] = task[t].at
           /\ \A j \in JobIds : j[1] = t /\ j[2] = task[t].at => j = JobOf(t)
<1>1. task[t] \in ImportTask /\ TaskSound(t)
  BY DEF ImportInv, ImportTypes
<1>2. /\ task[t].req \in ImportRequests /\ task[t].at \in 1 .. Len(task[t].req.types)
      /\ Len(task[t].req.types) \in 1 .. MaxTypes /\ MaxTypes \in Nat
      /\ task[t].req.provider \in Connectors
  BY <1>1, ImportAssumption DEF TaskSound
<1>3. task[t].at \in 1 .. MaxTypes
  BY <1>2
<1>4. JobOf(t) \in JobIds /\ JobOf(t)[1] = t /\ JobOf(t)[2] = task[t].at
  BY <1>3, JobIdFacts DEF JobOf
<1>5. ASSUME NEW j \in JobIds, j[1] = t, j[2] = task[t].at PROVE j = JobOf(t)
  <2>1. j = <<j[1], j[2]>>
    BY JobIdFacts
  <2> QED
    BY <2>1, <1>5 DEF JobOf
<1> QED
  BY <1>1, <1>2, <1>3, <1>4, <1>5

(* The other rows of an open task stay sound while it stays at its type    *)
(* and the row it works on is not over.                                    *)
LEMMA OtherRows ==
    ASSUME ImportInv, NEW t \in Tasks, OpenTask(t), OpenTask(t)',
           task'[t].at = task[t].at,
           NEW j \in JobIds, j[1] = t, j # JobOf(t), jobs'[j] = jobs[j]
    PROVE  JobSound(j)'
<1>1. JobSound(j) /\ j[2] # task[t].at
  BY JobOfFacts DEF ImportInv
<1>2. task[t].pc \notin {"idle", "queued", "aborted", "done"}
      /\ task'[t].pc \notin {"idle", "queued", "aborted", "done"}
  BY DEF OpenTask
<1> QED
  BY <1>1, <1>2 DEF JobSound, OpenTask, Over

(* A row before its records are counted has none in the log.               *)
LEMMA BlankRow ==
    ASSUME ImportInv, NEW j \in JobIds, jobs[j].status = "none"
    PROVE  Attributed(j) = {} /\ Successes(j) = {}
<1>1. ASSUME NEW k \in Keys PROVE logs[k].job # j
  <2>1. LogSound(k) /\ j # <<>>
    BY DEF JobIds, ImportInv
  <2> QED
    BY <2>1 DEF LogSound, NoLog
<1> QED
  BY <1>1 DEF Attributed, Successes

(* create_import_job writes the blank row of a type.                       *)
LEMMA CreateJobKeeps ==
    ASSUME ImportInv, NEW t \in Tasks, CreateImportJob(t)
    PROVE  ImportInv'
<1>1. task[t].pc = "type" /\ UNCHANGED roller /\ OpenTask(t)
  BY DEF CreateImportJob, OpenTask
<1>2. CASE Abort(t)
  BY <1>1, <1>2, AbortKeeps
<1>3. CASE ~ Abort(t)
  <2> DEFINE o == JobOf(t)
             entry == NewRow(task[t].req.dry)
  <2>1. /\ jobs' = [jobs EXCEPT ![o] = entry]
        /\ task' = [task EXCEPT ![t].pc = "fetch"]
        /\ UNCHANGED logs
    BY <1>3, Zenon DEF CreateImportJob, To
  <2>2. task[t] \in ImportTask /\ task[t].req \in ImportRequests /\ o \in JobIds /\ o[1] = t
        /\ o[2] = task[t].at
    BY <1>1, JobOfFacts
  <2>3. task[t].req.dry \in BOOLEAN
    BY <2>2, ImportAssumption
  <2>4. /\ entry \in ImportJob /\ entry.status # "none" /\ entry.total = 0 /\ entry.imported = 0
        /\ entry.skipped = 0 /\ entry.failed = 0 /\ ~ entry.rolled /\ ~ entry.vis
        /\ entry.vis = FALSE /\ entry.rolled = FALSE
        /\ entry.dry = task[t].req.dry
    BY <2>3 DEF NewRow, NoImport, ImportJob
  <2>5. /\ task'[t] = [task[t] EXCEPT !.pc = "fetch"]
        /\ \A u \in Tasks \ {t} : task'[u] = task[u]
        /\ task' \in [Tasks -> ImportTask]
    BY <2>1, <2>2 DEF ImportInv, ImportTypes, ImportTask
  <2>6. task'[t].pc = "fetch" /\ task'[t].at = task[t].at /\ task'[t].req = task[t].req
    BY <2>2, <2>5 DEF ImportTask
  <2>7. /\ jobs' \in [JobIds -> ImportJob] /\ jobs'[o] = entry
        /\ \A j \in JobIds : j # o => jobs'[j] = jobs[j]
    BY <2>1, <2>2, <2>4 DEF ImportInv, ImportTypes
  <2>8. OpenTask(t)'
    BY <2>6 DEF OpenTask
  <2>9. TaskSound(t)'
    BY <1>1, <2>6, JobOfFacts DEF TaskSound, OpenTask
  <2>10. jobs[o] = NoImport
    BY <1>1, <2>2 DEF ImportInv, JobSound
  <2>11. ASSUME NEW j \in JobIds, j[1] = t
         PROVE  /\ JobSound(j)' /\ CountSound(j)'
                /\ jobs[j].status # "none" => jobs'[j].status # "none"
                /\ jobs'[j].vis = jobs[j].vis /\ jobs'[j].rolled = jobs[j].rolled
    <3>1. Attributed(j)' = Attributed(j) /\ Successes(j)' = Successes(j)
      BY <2>1 DEF Attributed, Successes
    <3>2. CASE j = o
      <4>1. JobSound(j)'
        <5>1. /\ jobs'[j].vis = FALSE /\ jobs'[j].rolled = FALSE /\ jobs'[j].status # "none"
              /\ jobs'[j].total = 0 /\ jobs'[j].imported = 0 /\ jobs'[j].skipped = 0
              /\ jobs'[j].dry = task'[t].req.dry
          BY <3>2, <2>4, <2>6, <2>7, Zenon
        <5>2. ~ (j[2] > task'[t].at) /\ ~ (j[2] < task'[t].at)
          BY <1>1, <2>2, <2>6, <3>2, JobOfFacts
        <5> QED
          BY <5>1, <5>2, <2>6, <2>11 DEF JobSound, OpenTask
      <4>2. Attributed(j) = {} /\ Successes(j) = {}
        BY <3>2, <2>10, BlankRow DEF NoImport
      <4>3. CountSound(j)'
        BY <3>1, <3>2, <4>2, <2>4, <2>7, FS_EmptySet DEF CountSound
      <4>4. jobs[j].status = "none" /\ jobs[j].vis = FALSE /\ jobs[j].rolled = FALSE
        BY <3>2, <2>10 DEF NoImport
      <4>5. jobs'[j].vis = FALSE /\ jobs'[j].rolled = FALSE
        BY <3>2, <2>4, <2>7, Zenon
      <4> QED
        BY <4>1, <4>3, <4>4, <4>5
    <3>3. CASE j # o
      <4>1. jobs'[j] = jobs[j]
        BY <3>3, <2>7
      <4>2. JobSound(j)'
        BY <1>1, <2>6, <2>8, <2>11, <3>3, <4>1, OtherRows
      <4>3. CountSound(j)'
        BY <3>1, <4>1, CountFrame DEF ImportInv
      <4> QED
        BY <4>1, <4>2, <4>3
    <3> QED
      BY <3>2, <3>3
  <2>12. \A j \in JobIds : j[1] # t => jobs'[j] = jobs[j]
    BY <2>2, <2>7
  <2> QED
    BY <1>1, <2>1, <2>5, <2>7, <2>9, <2>11, <2>12, TaskWrites
<1> QED
  BY <1>2, <1>3

(* A fetcher answers with records the provider holds, or raises and        *)
(* answers with none.                                                      *)
LEMMA FetchFacts ==
    ASSUME NEW t \in Tasks, Provider(t) \in Connectors,
           NEW o \in FetchOutcomes(Provider(t), task[t].token, TypeOf(t))
    PROVE  /\ o.raises \in BOOLEAN /\ (o.raises => o.recs = {})
           /\ o.recs \subseteq Remote[<<Provider(t), TypeOf(t)>>]
<1> DEFINE p == Provider(t)
           y == TypeOf(t)
<1>1. o = Raises \/ o = Fetched({}) \/ o = Fetched(Remote[<<p, y>>])
  <2>1. CASE p = "jobber"
    BY <2>1 DEF FetchOutcomes, JobberFetch
  <2>2. CASE p = "housecall_pro"
    BY <2>2 DEF FetchOutcomes, HousecallFetch
  <2>3. CASE p = "quickbooks"
    BY <2>3 DEF FetchOutcomes, QuickBooksFetch
  <2>4. CASE p = "stripe"
    BY <2>4 DEF FetchOutcomes, StripeFetch
  <2> QED
    BY <2>1, <2>2, <2>3, <2>4 DEF Connectors
<1>2. ASSUME o = Raises PROVE o.raises = TRUE /\ o.recs = {}
  BY <1>2 DEF Raises
<1>3. ASSUME NEW S, o = Fetched(S) PROVE o.raises = FALSE /\ o.recs = S
  BY <1>3 DEF Fetched
<1>4. CASE o = Raises
  BY <1>2, <1>4
<1>5. CASE o = Fetched({})
  <2>1. o.raises = FALSE /\ o.recs = {}
    BY <1>3, <1>5
  <2> QED
    BY <2>1
<1>6. CASE o = Fetched(Remote[<<p, y>>])
  BY <1>3, <1>6
<1> QED
  BY <1>1, <1>4, <1>5, <1>6

(* After the fetch a row is over, or has all its records to count.         *)
LEMMA FetchKeeps ==
    ASSUME ImportInv, NEW t \in Tasks, Fetch(t)
    PROVE  ImportInv'
<1> DEFINE j0 == JobOf(t)
<1>1. task[t].pc = "fetch" /\ UNCHANGED <<logs, roller>> /\ OpenTask(t)
  BY DEF Fetch, OpenTask
<1>2. task[t] \in ImportTask /\ task[t].req \in ImportRequests /\ j0 \in JobIds /\ j0[1] = t
      /\ j0[2] = task[t].at /\ task[t].at \in 1 .. Len(task[t].req.types) /\ task[t].at \in Nat
      /\ Provider(t) \in Connectors /\ Provider(t) \in Providers /\ TypeOf(t) \in Types
  <2>1. task[t].req.types \in Seq(Types) /\ task[t].req.provider \in Providers
    BY <1>1, JobOfFacts, ImportAssumption
  <2>2. task[t].at \in 1 .. Len(task[t].req.types)
    BY <1>1, JobOfFacts
  <2>3. TypeOf(t) \in Types
    BY <2>1, <2>2 DEF TypeOf
  <2> QED
    BY <1>1, <2>1, <2>2, <2>3, JobOfFacts DEF Provider
<1>3. PICK o \in FetchOutcomes(Provider(t), task[t].token, TypeOf(t)) :
        LET keys == {<<Provider(t), TypeOf(t), x>> : x \in o.recs}
            n    == Cardinality(keys)
        IN  IF o.raises \/ task[t].req.dry
            THEN /\ Progress(t, IF o.raises THEN "failed" ELSE "completed", n, 0)
                 /\ To(t, "next")
            ELSE /\ Progress(t, IF n = 0 THEN "completed" ELSE "in_progress", n, 0)
                 /\ task' = [task EXCEPT ![t].todo = keys,
                                         ![t].pc = IF n = 0 THEN "next" ELSE "check"]
  BY Zenon DEF Fetch
<1> DEFINE keys == {<<Provider(t), TypeOf(t), x>> : x \in o.recs}
           n    == Cardinality(keys)
<1>4. /\ o.raises \in BOOLEAN /\ (o.raises => o.recs = {})
      /\ o.recs \subseteq Remote[<<Provider(t), TypeOf(t)>>]
  BY <1>2, FetchFacts
<1>5. keys \in SUBSET Keys
  BY <1>2, <1>4 DEF Keys
<1>6. IsFiniteSet(keys) /\ n \in Nat /\ (n = 0 <=> keys = {})
  BY <1>5, KeysAssumption, FS_Subset, FS_CardinalityType, FS_EmptySet
<1>7. o.raises => n = 0
  <2>1. o.raises => keys = {}
    BY <1>4
  <2> QED
    BY <2>1, <1>6
<1>8. PICK s \in {"completed", "failed", "in_progress"}, c \in {"next", "check"},
           td \in SUBSET Keys :
        /\ jobs' = [jobs EXCEPT ![j0] = [@ EXCEPT !.status = s, !.total = n, !.imported = 0]]
        /\ task' = [task EXCEPT ![t].todo = td, ![t].pc = c]
        /\ s = "in_progress" <=> c = "check"
        /\ c = "check" => ~ task[t].req.dry /\ td = keys
        /\ c = "next" => task[t].req.dry \/ n = 0
  <2>1. CASE o.raises \/ task[t].req.dry
    <3>1. task[t].todo \in SUBSET Keys
      BY <1>2 DEF ImportTask
    <3>2. [task[t] EXCEPT !.pc = "next"] = [task[t] EXCEPT !.todo = task[t].todo, !.pc = "next"]
      BY <1>2 DEF ImportTask
    <3>3. task' = [task EXCEPT ![t].pc = "next"]
      BY <1>3, <2>1 DEF To
    <3>4. task' = [task EXCEPT ![t].todo = task[t].todo, ![t].pc = "next"]
      BY <3>2, <3>3 DEF ImportInv, ImportTypes
    <3>5. PICK s \in {"completed", "failed"} : Progress(t, s, n, 0)
      BY <1>3, <2>1
    <3>6. jobs' = [jobs EXCEPT ![j0] = [@ EXCEPT !.status = s, !.total = n, !.imported = 0]]
      BY <3>5, Zenon DEF Progress
    <3> QED
      BY <3>1, <3>4, <3>6, <1>7, <2>1
  <2>2. CASE ~ (o.raises \/ task[t].req.dry)
    <3> DEFINE s == IF n = 0 THEN "completed" ELSE "in_progress"
               c == IF n = 0 THEN "next" ELSE "check"
    <3>1. /\ jobs' = [jobs EXCEPT ![j0] = [@ EXCEPT !.status = s, !.total = n, !.imported = 0]]
          /\ task' = [task EXCEPT ![t].todo = keys, ![t].pc = c]
      BY <1>3, <2>2, Zenon DEF Progress
    <3>2. s \in {"completed", "failed", "in_progress"} /\ c \in {"next", "check"}
          /\ (s = "in_progress" <=> c = "check") /\ (c = "next" => n = 0)
      OBVIOUS
    <3> HIDE DEF s, c, keys, n
    <3> QED
      BY <3>1, <3>2, <1>5, <2>2
  <2> QED
    BY <2>1, <2>2
<1> HIDE DEF keys, n, j0
<1>9. /\ task'[t] = [task[t] EXCEPT !.todo = td, !.pc = c]
      /\ \A u \in Tasks \ {t} : task'[u] = task[u]
      /\ task' \in [Tasks -> ImportTask]
  BY <1>2, <1>8 DEF ImportInv, ImportTypes, ImportTask
<1>10. task'[t].pc = c /\ task'[t].at = task[t].at /\ task'[t].req = task[t].req
       /\ task'[t].todo = td
  BY <1>2, <1>9 DEF ImportTask
<1>11. /\ jobs[j0] \in ImportJob
       /\ jobs'[j0] = [jobs[j0] EXCEPT !.status = s, !.total = n, !.imported = 0]
       /\ jobs' \in [JobIds -> ImportJob]
       /\ \A j \in JobIds : j # j0 => jobs'[j] = jobs[j]
  BY <1>2, <1>6, <1>8 DEF ImportInv, ImportTypes, ImportJob
<1>12. /\ jobs'[j0].status = s /\ jobs'[j0].total = n /\ jobs'[j0].imported = 0
       /\ jobs'[j0].skipped = jobs[j0].skipped /\ jobs'[j0].dry = jobs[j0].dry
       /\ jobs'[j0].vis = jobs[j0].vis /\ jobs'[j0].rolled = jobs[j0].rolled
       /\ jobs'[j0].failed = jobs[j0].failed
  BY <1>11 DEF ImportJob
<1>13. OpenTask(t)'
  BY <1>8, <1>10 DEF OpenTask
<1>14. TaskSound(t)'
  <2>1. task'[t].req \in ImportRequests /\ task'[t].req.provider \in Connectors
        /\ task'[t].at \in 1 .. Len(task'[t].req.types)
    BY <1>2, <1>10 DEF Provider
  <2> QED
    BY <2>1, <1>10, <1>8 DEF TaskSound, OpenTask
<1>15. /\ jobs[j0].imported = 0 /\ jobs[j0].skipped = 0 /\ jobs[j0].total = 0
       /\ jobs[j0].status # "none" /\ jobs[j0].vis = FALSE /\ jobs[j0].rolled = FALSE
       /\ jobs[j0].dry = task[t].req.dry
  BY <1>1, <1>2, <1>11 DEF ImportInv, JobSound, ImportJob
<1>16. ASSUME NEW j \in JobIds, j = j0 PROVE JobSound(j)'
  <2>1. jobs'[j0].vis = FALSE /\ jobs'[j0].rolled = FALSE
    BY <1>12, <1>15
  <2>2. ~ (j0[2] > task'[t].at) /\ ~ (j0[2] < task'[t].at)
    BY <1>2, <1>10
  <2>3. CASE c = "next"
    <3>1. IF jobs'[j0].dry THEN jobs'[j0].imported + jobs'[j0].skipped = 0
          ELSE jobs'[j0].imported + jobs'[j0].skipped = jobs'[j0].total
      <4>1. jobs'[j0].imported + jobs'[j0].skipped = 0
        BY <1>12, <1>15
      <4>2. ~ jobs'[j0].dry => jobs'[j0].total = 0
        BY <1>8, <1>12, <1>15, <2>3
      <4> QED
        BY <4>1, <4>2
    <3>2. jobs'[j0].status \in {"completed", "failed"}
      BY <1>8, <1>12, <2>3
    <3>3. Over(jobs'[j0])
      BY <3>1, <3>2 DEF Over
    <3> QED
      BY <1>2, <1>10, <1>16, <2>1, <2>2, <2>3, <3>3 DEF JobSound, OpenTask, Over
  <2>4. CASE c = "check"
    <3>1. jobs'[j0].status = "in_progress"
      BY <1>8, <1>12, <2>4
    <3>2. jobs'[j0].imported + jobs'[j0].skipped + Cardinality(task'[t].todo) = jobs'[j0].total
      <4>1. Cardinality(task'[t].todo) = n
        BY <1>8, <1>10, <2>4 DEF n
      <4> QED
        BY <4>1, <1>6, <1>12, <1>15
    <3>3. ~ jobs'[j0].dry
      BY <1>8, <1>12, <1>15, <2>4
    <3> QED
      BY <1>2, <1>10, <1>16, <2>1, <2>2, <2>4, <3>1, <3>2, <3>3 DEF JobSound, OpenTask
  <2> QED
    BY <1>8, <2>3, <2>4
<1>17. ASSUME NEW j \in JobIds, j[1] = t
       PROVE  /\ JobSound(j)' /\ CountSound(j)'
              /\ jobs[j].status # "none" => jobs'[j].status # "none"
              /\ jobs'[j].vis = jobs[j].vis /\ jobs'[j].rolled = jobs[j].rolled
  <2>1. Attributed(j)' = Attributed(j) /\ Successes(j)' = Successes(j)
    BY <1>1 DEF Attributed, Successes
  <2>2. CASE j = j0
    <3>1. CountSound(j)
      BY DEF ImportInv
    <3>2. CountSound(j)'
      BY <2>1, <2>2, <3>1, <1>12, <1>15 DEF CountSound
    <3> QED
      BY <1>8, <1>12, <1>16, <2>2, <3>2
  <2>3. CASE j # j0
    <3>1. jobs'[j] = jobs[j]
      BY <2>3, <1>11
    <3>2. JobSound(j)'
      BY <1>1, <1>10, <1>13, <1>17, <2>3, <3>1, OtherRows DEF j0
    <3>3. CountSound(j)'
      BY <2>1, <3>1, CountFrame DEF ImportInv
    <3> QED
      BY <3>1, <3>2, <3>3
  <2> QED
    BY <2>2, <2>3
<1>18. \A j \in JobIds : j[1] # t => jobs'[j] = jobs[j]
  BY <1>2, <1>11
<1> QED
  BY <1>1, <1>9, <1>11, <1>14, <1>17, <1>18, TaskWrites

(* An INSERT that neither waits nor fails writes a row the log did not     *)
(* have, and so the task cannot have found it.                             *)
LEMMA InsertKeeps ==
    ASSUME ImportInv, NEW t \in Tasks, Insert(t)
    PROVE  ImportInv'
<1>1. /\ task[t].pc = "insert" /\ OpenTask(t) /\ UNCHANGED roller
      /\ ~ MustWait(t, task[t].cur)
  BY DEF Insert, OpenTask
<1>2. CASE Conflict(t, task[t].cur) \/ ~ Storable(task[t].cur)
  <2>1. Abort(t)
    BY <1>2 DEF Insert
  <2> QED
    BY <1>1, <2>1, AbortKeeps
<1>3. CASE ~ (Conflict(t, task[t].cur) \/ ~ Storable(task[t].cur))
  <2>1. PICK j0 : j0 = JobOf(t)
    OBVIOUS
  <2>2. PICK k : k = task[t].cur
    OBVIOUS
  <2>3. PICK left : left = task[t].todo \ {k}
    OBVIOUS
  <2>4. /\ task[t] \in ImportTask /\ task[t].req \in ImportRequests /\ j0 \in JobIds /\ j0[1] = t
        /\ j0[2] = task[t].at /\ task[t].at \in 1 .. Len(task[t].req.types)
        /\ task[t].at \in Nat /\ task[t].req.provider \in Connectors
        /\ k \in task[t].todo /\ k \in Keys
    BY <1>1, <2>1, <2>2, JobOfFacts DEF ImportInv, TaskSound, ImportTask
  <2>5. logs[k].result = "none" /\ logs[k] = NoLog
    BY <1>1, <1>3, <2>2, <2>4 DEF MustWait, Conflict, ImportInv, LogSound
  <2>6. task[t].found = FALSE
    BY <1>1, <1>3, <2>4 DEF ImportInv, TaskSound, ImportTask
  <2>7. PICK entry : entry = [jobs[j0] EXCEPT !.imported = @ + 1]
    OBVIOUS
  <2>8. Counted(t, jobs[j0]) = entry
    BY <2>6, <2>7 DEF Counted
  <2>9. /\ jobs[j0] \in ImportJob /\ jobs[j0].status = "in_progress" /\ jobs[j0].dry = FALSE
        /\ jobs[j0].imported + jobs[j0].skipped + Cardinality(task[t].todo) = jobs[j0].total
        /\ jobs[j0].vis = FALSE /\ jobs[j0].rolled = FALSE
    BY <1>1, <2>4 DEF ImportInv, ImportTypes, ImportJob, JobSound
  <2>10. entry.failed = 0 /\ FinalStatus(entry) = "completed" /\ entry \in ImportJob
    BY <2>7, <2>9 DEF ImportJob, FinalStatus
  <2>11. PICK s \in {"in_progress", "completed"}, c \in {"check", "next"} :
           /\ jobs' = [jobs EXCEPT ![j0] = [entry EXCEPT !.status = s]]
           /\ task' = [task EXCEPT ![t].todo = left, ![t].cur = <<>>, ![t].found = FALSE,
                                   ![t].pc = c]
           /\ IF left = {} THEN s = "completed" /\ c = "next" ELSE s = "in_progress" /\ c = "check"
    <3>1. entry = [entry EXCEPT !.status = "in_progress"]
      BY <2>7, <2>9 DEF ImportJob
    <3>2. CASE left = {}
      <4>1. /\ jobs' = [jobs EXCEPT ![j0] = [entry EXCEPT !.status = "completed"]]
            /\ task' = [task EXCEPT ![t].todo = left, ![t].cur = <<>>, ![t].found = FALSE,
                                    ![t].pc = "next"]
        BY <1>3, <2>1, <2>2, <2>3, <2>8, <2>10, <3>2 DEF Insert
      <4> QED
        BY <4>1, <3>2
    <3>3. CASE left # {}
      <4>1. /\ jobs' = [jobs EXCEPT ![j0] = entry]
            /\ task' = [task EXCEPT ![t].todo = left, ![t].cur = <<>>, ![t].found = FALSE,
                                    ![t].pc = "check"]
        BY <1>3, <2>1, <2>2, <2>3, <2>8, <3>3 DEF Insert
      <4>2. jobs' = [jobs EXCEPT ![j0] = [entry EXCEPT !.status = "in_progress"]]
        BY <3>1, <4>1
      <4> QED
        BY <4>1, <4>2, <3>3
    <3> QED
      BY <3>2, <3>3
  <2>12. logs' = [logs EXCEPT ![k] = [result |-> "success", job |-> j0, vis |-> FALSE]]
    BY <1>3, <2>1, <2>2, <2>6 DEF Insert
  <2>13. left \in SUBSET Keys /\ IsFiniteSet(task[t].todo)
         /\ Cardinality(task[t].todo) \in Nat
         /\ Cardinality(left) = Cardinality(task[t].todo) - 1
         /\ (left = {} => Cardinality(left) = 0)
    BY <2>3, <2>4, KeysAssumption, FS_Subset, FS_RemoveElement, FS_EmptySet, FS_CardinalityType
       DEF ImportTask
  <2>14. /\ task'[t] = [task[t] EXCEPT !.todo = left, !.cur = <<>>, !.found = FALSE, !.pc = c]
         /\ \A u \in Tasks \ {t} : task'[u] = task[u]
         /\ task' \in [Tasks -> ImportTask]
    BY <2>4, <2>11, <2>13 DEF ImportInv, ImportTypes, ImportTask
  <2>15. task'[t].pc = c /\ task'[t].at = task[t].at /\ task'[t].req = task[t].req
         /\ task'[t].todo = left
    BY <2>4, <2>14 DEF ImportTask
  <2>16. /\ jobs'[j0] = [entry EXCEPT !.status = s] /\ jobs' \in [JobIds -> ImportJob]
         /\ \A j \in JobIds : j # j0 => jobs'[j] = jobs[j]
    BY <2>4, <2>10, <2>11 DEF ImportInv, ImportTypes, ImportJob
  <2>17. /\ jobs'[j0].status = s /\ jobs'[j0].imported = jobs[j0].imported + 1
         /\ jobs'[j0].skipped = jobs[j0].skipped /\ jobs'[j0].total = jobs[j0].total
         /\ jobs'[j0].dry = FALSE /\ jobs'[j0].vis = FALSE /\ jobs'[j0].rolled = FALSE
    BY <2>7, <2>9, <2>16 DEF ImportJob
  <2>18. /\ logs'[k].result = "success" /\ logs'[k].job = j0 /\ logs'[k].vis = FALSE
         /\ logs' \in [Keys -> ImportLog]
         /\ \A l \in Keys : l # k => logs'[l] = logs[l]
    BY <2>4, <2>12 DEF ImportInv, ImportTypes, ImportLog
  <2>19. logs[k].job # j0
    <3>1. j0 # <<>>
      BY <2>4, JobIdNotEmpty
    <3> QED
      BY <2>5, <3>1 DEF NoLog
  <2>20. /\ Attributed(j0)' = Attributed(j0) \cup {k} /\ k \notin Attributed(j0)
         /\ Successes(j0)' = Successes(j0) \cup {k} /\ k \notin Successes(j0)
    BY <2>4, <2>18, <2>19 DEF Attributed, Successes
  <2>21. ASSUME NEW j \in JobIds, j # j0
         PROVE  Attributed(j)' = Attributed(j) /\ Successes(j)' = Successes(j)
    <3>1. logs[k].job # j /\ logs'[k].job # j
      <4>1. j # <<>>
        BY DEF JobIds
      <4> QED
        BY <2>5, <2>18, <2>21, <4>1 DEF NoLog
    <3> QED
      BY <2>18, <3>1 DEF Attributed, Successes
  <2>22. ImportTypes'
    BY <1>1, <2>14, <2>16, <2>18 DEF ImportInv, ImportTypes
  <2>23. OpenTask(t)'
    BY <2>15 DEF OpenTask
  <2>24. ASSUME NEW u \in Tasks PROVE TaskSound(u)'
    <3>1. CASE u = t
      BY <3>1, <2>4, <2>15 DEF TaskSound, OpenTask
    <3>2. CASE u # t
      <4>1. TaskSound(u) /\ task'[u] = task[u]
        BY <3>2, <2>14 DEF ImportInv
      <4>2. ASSUME NEW l \in Keys, Conflict(u, l) PROVE Conflict(u, l)'
        <5>1. l # k
          BY <2>5, <4>2 DEF Conflict
        <5> QED
          BY <5>1, <2>18, <4>2, ConflictFrame
      <4>3. task[u].pc = "insert" => task[u].cur \in Keys
        BY <4>1 DEF TaskSound, ImportInv, ImportTypes, ImportTask
      <4> QED
        BY <4>1, <4>2, <4>3, TaskFrame
    <3> QED
      BY <3>1, <3>2
  <2>25. ASSUME NEW j \in JobIds PROVE JobSound(j)'
    <3>1. CASE j = j0
      <4>1. ~ (j0[2] > task'[t].at) /\ ~ (j0[2] < task'[t].at)
        BY <2>4, <2>15
      <4>2. jobs[j0].imported \in Nat /\ jobs[j0].skipped \in Nat /\ jobs[j0].total \in Nat
        BY <2>9 DEF ImportJob
      <4>3. jobs'[j0].imported + jobs'[j0].skipped + Cardinality(left) = jobs'[j0].total
        BY <2>9, <2>13, <2>17, <4>2
      <4>4. CASE left = {}
        <5>1. jobs'[j0].imported + jobs'[j0].skipped = jobs'[j0].total
          BY <2>9, <2>13, <2>17, <4>2, <4>4
        <5>2. Over(jobs'[j0]) /\ task'[t].pc = "next"
          BY <5>1, <2>11, <2>15, <2>17, <4>4 DEF Over
        <5> QED
          BY <5>2, <4>1, <2>4, <2>17, <3>1 DEF JobSound, OpenTask, Over
      <4>5. CASE left # {}
        <5>1. task'[t].pc = "check" /\ jobs'[j0].status = "in_progress"
          BY <2>11, <2>15, <2>17, <4>5
        <5> QED
          BY <5>1, <4>1, <4>3, <2>4, <2>15, <2>17, <3>1 DEF JobSound, OpenTask
      <4> QED
        BY <4>4, <4>5
    <3>2. CASE j # j0 /\ j[1] = t
      <4>1. jobs'[j] = jobs[j]
        BY <3>2, <2>16
      <4> QED
        BY <1>1, <2>1, <2>15, <2>23, <3>2, <4>1, OtherRows
    <3>3. CASE j[1] # t
      <4>1. jobs'[j] = jobs[j] /\ task'[j[1]] = task[j[1]] /\ JobSound(j)
        BY <3>3, <2>4, <2>14, <2>16, JobIdFacts DEF ImportInv
      <4> QED
        BY <4>1, JobFrame
    <3> QED
      BY <3>1, <3>2, <3>3
  <2>26. ASSUME NEW j \in JobIds PROVE CountSound(j)'
    <3>1. CASE j = j0
      <4>1. /\ CountSound(j0) /\ jobs[j0].imported \in Nat /\ jobs[j0].skipped \in Nat
            /\ jobs[j0].skipped = 0
        BY <2>4, <2>9 DEF ImportInv, CountSound, ImportJob
      <4>2. /\ Cardinality(Attributed(j0) \cup {k}) = Cardinality(Attributed(j0)) + 1
            /\ Cardinality(Successes(j0) \cup {k}) = Cardinality(Successes(j0)) + 1
        BY <2>20, LogSetsFinite, FS_AddElement
      <4>3. /\ Attributed(j)' = Attributed(j0) \cup {k} /\ Successes(j)' = Successes(j0) \cup {k}
        BY <2>4, <2>18, <2>19, <3>1 DEF Attributed, Successes
      <4>4. jobs'[j].imported = Cardinality(Successes(j)')
        BY <4>1, <4>2, <4>3, <2>17, <3>1 DEF CountSound
      <4>5. jobs'[j].imported + jobs'[j].skipped = Cardinality(Attributed(j)')
        BY <4>1, <4>2, <4>3, <2>17, <3>1, LogSetsFinite DEF CountSound
      <4> QED
        BY <4>1, <4>4, <4>5, <2>17, <3>1 DEF CountSound
    <3>2. CASE j # j0
      BY <3>2, <2>16, <2>21, CountFrame DEF ImportInv
    <3> QED
      BY <3>1, <3>2
  <2>27. ASSUME NEW l \in Keys PROVE LogSound(l)'
    <3>1. CASE l = k
      <4>1. logs'[l].result = "success" /\ logs'[l] # NoLog
        BY <3>1, <2>18 DEF NoLog
      <4>2. /\ logs'[l].job \in JobIds /\ jobs'[logs'[l].job].status # "none"
            /\ logs'[l].vis = jobs'[logs'[l].job].vis
        BY <3>1, <2>4, <2>11, <2>17, <2>18
      <4> QED
        BY <4>1, <4>2 DEF LogSound
    <3>2. CASE l # k
      <4>1. LogSound(l) /\ logs'[l] = logs[l]
        BY <3>2, <2>18 DEF ImportInv
      <4>2. \A j \in JobIds : /\ jobs[j].status # "none" => jobs'[j].status # "none"
                              /\ jobs'[j].vis = jobs[j].vis /\ jobs'[j].rolled = jobs[j].rolled
        BY <2>9, <2>11, <2>16, <2>17
      <4> QED
        BY <4>1, <4>2 DEF LogSound
    <3> QED
      BY <3>1, <3>2
  <2>28. ASSUME NEW r \in Rollers PROVE RollerSound(r)'
    <3>1. RollerSound(r) /\ roller'[r] = roller[r]
      BY <1>1 DEF ImportInv
    <3>2. roller[r].pc # "idle" => roller[r].job \in JobIds /\ roller[r].job # j0
      BY <3>1, <2>9 DEF RollerSound
    <3>3. roller[r].pc # "idle" =>
            /\ jobs'[roller[r].job].vis
            /\ Attributed(roller[r].job)' = Attributed(roller[r].job)
            /\ Successes(roller[r].job)' \subseteq Successes(roller[r].job)
      <4>1. roller[r].pc # "idle" => jobs'[roller[r].job].vis
        BY <3>1, <3>2, <2>16 DEF RollerSound
      <4>2. \A l \in Keys : roller[r].pc # "idle" =>
              (logs'[l].job = roller[r].job <=> logs[l].job = roller[r].job)
              /\ (logs[l].job = roller[r].job => logs'[l] = logs[l])
        <5>1. roller[r].pc # "idle" => logs[k].job # roller[r].job /\ logs'[k].job # roller[r].job
          <6>1. roller[r].pc # "idle" => roller[r].job # <<>>
            BY <3>2, JobIdNotEmpty
          <6> QED
            BY <6>1, <3>2, <2>5, <2>18 DEF NoLog
        <5> QED
          BY <5>1, <2>18
      <4> QED
        BY <3>1, <4>1, <4>2 DEF Attributed, Successes
    <3> QED
      BY <3>1, <3>3, RollerFrame
  <2> QED
    BY <2>22, <2>24, <2>25, <2>26, <2>27, <2>28 DEF ImportInv
<1> QED
  BY <1>2, <1>3

(* The commit shows all rows of a task at once; each of them is over.      *)
LEMMA CommitKeeps ==
    ASSUME ImportInv, NEW t \in Tasks, Commit(t)
    PROVE  ImportInv'
<1>1. /\ task[t].pc = "next" /\ task[t].at = Len(task[t].req.types) /\ UNCHANGED roller
      /\ OpenTask(t)
  BY DEF Commit, OpenTask
<1> DEFINE new == [IdleTask EXCEPT !.pc = "done"]
<1>2. new \in ImportTask /\ new.pc = "done"
  BY DEF IdleTask, ImportTask
<1>3. task' = [task EXCEPT ![t] = new]
  BY Zenon DEF Commit
<1>4. task' \in [Tasks -> ImportTask] /\ task'[t].pc = "done"
      /\ \A u \in Tasks \ {t} : task'[u] = task[u]
  BY <1>2, <1>3 DEF ImportInv, ImportTypes
<1> DEFINE Shows(j) == j[1] = t /\ jobs[j].status # "none"
<1>5. ASSUME NEW j \in JobIds
      PROVE  jobs'[j] = IF Shows(j) THEN [jobs[j] EXCEPT !.vis = TRUE] ELSE jobs[j]
  <2>1. jobs'[j] = IF j \in Mine(t) /\ jobs[j].status # "none"
                   THEN [jobs[j] EXCEPT !.vis = TRUE] ELSE jobs[j]
    BY Zenon DEF Commit
  <2> QED
    BY <2>1, JobIdFacts
<1>6. ASSUME NEW j \in JobIds
      PROVE  /\ jobs[j] \in ImportJob /\ jobs'[j] \in ImportJob
             /\ jobs'[j].status = jobs[j].status /\ jobs'[j].total = jobs[j].total
             /\ jobs'[j].imported = jobs[j].imported /\ jobs'[j].skipped = jobs[j].skipped
             /\ jobs'[j].dry = jobs[j].dry /\ jobs'[j].rolled = jobs[j].rolled
             /\ (Shows(j) => jobs'[j].vis = TRUE)
             /\ (~ Shows(j) => jobs'[j] = jobs[j])
             /\ (jobs[j].vis = TRUE => jobs'[j].vis = TRUE)
  <2>1. jobs[j] \in ImportJob
    BY DEF ImportInv, ImportTypes
  <2>2. CASE Shows(j)
    <3>1. jobs'[j] = [jobs[j] EXCEPT !.vis = TRUE]
      BY <1>5, <2>2
    <3> QED
      BY <2>1, <2>2, <3>1 DEF ImportJob
  <2>3. CASE ~ Shows(j)
    <3>1. jobs'[j] = jobs[j]
      BY <1>5, <2>3
    <3> HIDE DEF Shows
    <3> QED
      BY <2>1, <2>3, <3>1
  <2> QED
    BY <2>2, <2>3
<1>7. ASSUME NEW k \in Keys
      PROVE  /\ logs[k] \in ImportLog /\ logs'[k] \in ImportLog
             /\ logs'[k].job = logs[k].job /\ logs'[k].result = logs[k].result
             /\ (logs[k].job \in Mine(t) => logs'[k].vis = TRUE)
             /\ (logs[k].job \notin Mine(t) => logs'[k] = logs[k])
  <2>1. logs'[k] = IF logs[k].job \in Mine(t) THEN [logs[k] EXCEPT !.vis = TRUE] ELSE logs[k]
    BY Zenon DEF Commit
  <2>2. logs[k] \in ImportLog
    BY DEF ImportInv, ImportTypes
  <2>3. CASE logs[k].job \in Mine(t)
    <3>1. logs'[k] = [logs[k] EXCEPT !.vis = TRUE]
      BY <2>1, <2>3
    <3> QED
      BY <2>2, <2>3, <3>1 DEF ImportLog
  <2>4. CASE logs[k].job \notin Mine(t)
    BY <2>1, <2>2, <2>4
  <2> QED
    BY <2>3, <2>4
<1> HIDE DEF Shows
<1>8. ImportTypes'
  <2>1. jobs' = [j \in JobIds |-> jobs'[j]] /\ logs' = [k \in Keys |-> logs'[k]]
    BY Zenon DEF Commit
  <2>2. jobs' \in [JobIds -> ImportJob]
    BY <1>6, <2>1
  <2>3. logs' \in [Keys -> ImportLog]
    BY <1>7, <2>1
  <2> QED
    BY <1>1, <1>4, <2>2, <2>3 DEF ImportInv, ImportTypes
<1>9. ASSUME NEW u \in Tasks PROVE TaskSound(u)'
  <2>1. CASE u = t
    BY <2>1, <1>4 DEF TaskSound, OpenTask
  <2>2. CASE u # t
    <3>1. TaskSound(u) /\ task'[u] = task[u]
      BY <2>2, <1>4 DEF ImportInv
    <3>2. ASSUME NEW k \in Keys, Conflict(u, k) PROVE Conflict(u, k)'
      <4>1. CASE logs[k].job \in Mine(t)
        BY <4>1, <1>7, <3>2 DEF Conflict, Sees
      <4>2. CASE logs[k].job \notin Mine(t)
        BY <4>2, <1>7, <3>2, ConflictFrame
      <4> QED
        BY <4>1, <4>2
    <3>3. task[u].pc = "insert" => task[u].cur \in Keys
      BY <3>1 DEF TaskSound, ImportInv, ImportTypes, ImportTask
    <3> QED
      BY <3>1, <3>2, <3>3, TaskFrame
  <2> QED
    BY <2>1, <2>2
<1>10. ASSUME NEW j \in JobIds, j[1] = t
       PROVE  jobs[j] = NoImport \/ (jobs[j].status # "none" /\ Over(jobs[j]))
  <2>1. JobSound(j) /\ task[t].at \in Nat /\ j[2] \in Nat
    <3>1. j[2] \in 1 .. MaxTypes /\ task[t].at \in 1 .. MaxTypes
      BY <1>1, JobIdFacts, JobOfFacts
    <3> QED
      BY <3>1, ImportAssumption DEF ImportInv
  <2>2. j[2] < task[t].at \/ j[2] = task[t].at \/ j[2] > task[t].at
    BY <2>1
  <2>3. CASE j[2] > task[t].at
    BY <2>1, <2>3, <1>1, <1>10 DEF JobSound
  <2>4. CASE j[2] < task[t].at \/ j[2] = task[t].at
    <3>1. Over(jobs[j])
      BY <2>1, <2>4, <1>1, <1>10 DEF JobSound
    <3> QED
      BY <3>1 DEF Over
  <2> QED
    BY <2>2, <2>3, <2>4
<1>11. ASSUME NEW j \in JobIds PROVE JobSound(j)'
  <2>1. CASE j[1] = t
    <3>1. CASE jobs[j] = NoImport
      <4>1. jobs'[j] = NoImport
        <5>1. ~ Shows(j)
          BY <3>1 DEF Shows, NoImport
        <5> QED
          BY <5>1, <3>1, <1>6
      <4> QED
        BY <4>1, <2>1, <1>4 DEF JobSound, OpenTask
    <3>2. CASE jobs[j].status # "none" /\ Over(jobs[j])
      <4>1. jobs'[j].vis = TRUE
        BY <2>1, <3>2, <1>6 DEF Shows
      <4>2. Over(jobs'[j])
        BY <3>2, <1>6 DEF Over
      <4> QED
        BY <4>1, <4>2, <2>1, <1>4 DEF JobSound, OpenTask, Over
    <3> QED
      BY <1>10, <2>1, <3>1, <3>2
  <2>2. CASE j[1] # t
    <3>1. jobs'[j] = jobs[j] /\ task'[j[1]] = task[j[1]] /\ JobSound(j)
      BY <2>2, <1>4, <1>6, JobIdFacts DEF Shows, ImportInv
    <3> QED
      BY <3>1, JobFrame
  <2> QED
    BY <2>1, <2>2
<1>12. ASSUME NEW j \in JobIds
       PROVE  Attributed(j)' = Attributed(j) /\ Successes(j)' = Successes(j)
  BY <1>7 DEF Attributed, Successes
<1>13. ASSUME NEW j \in JobIds PROVE CountSound(j)'
  <2>1. CountSound(j)
    BY DEF ImportInv
  <2> QED
    BY <2>1, <1>6, <1>12 DEF CountSound
<1>14. ASSUME NEW k \in Keys PROVE LogSound(k)'
  <2>1. LogSound(k)
    BY DEF ImportInv
  <2>2. CASE logs[k].result = "none"
    <3>1. logs[k].job \notin Mine(t)
      BY <2>1, <2>2, JobIdFacts DEF LogSound, NoLog
    <3> QED
      BY <2>1, <2>2, <3>1, <1>7 DEF LogSound
  <2>3. CASE logs[k].result # "none"
    <3>1. logs[k].job \in JobIds /\ jobs[logs[k].job].status # "none"
          /\ logs[k].vis = jobs[logs[k].job].vis /\ logs'[k] # NoLog
          /\ logs'[k].job \in JobIds /\ jobs'[logs'[k].job].status # "none"
      <4>1. logs'[k].result # "none" /\ logs'[k].job = logs[k].job
        BY <2>3, <1>7
      <4>2. logs'[k] # NoLog
        BY <4>1 DEF NoLog
      <4>3. logs[k].job \in JobIds /\ jobs[logs[k].job].status # "none"
            /\ logs[k].vis = jobs[logs[k].job].vis
        BY <2>1, <2>3 DEF LogSound
      <4>4. jobs'[logs[k].job].status = jobs[logs[k].job].status
        BY <4>3, <1>6
      <4> QED
        BY <4>1, <4>2, <4>3, <4>4
    <3>2. logs'[k].vis = jobs'[logs'[k].job].vis
      <4>1. CASE logs[k].job[1] = t
        <5>1. logs[k].job \in Mine(t) /\ Shows(logs[k].job)
          BY <3>1, <4>1, JobIdFacts DEF Shows
        <5>2. logs'[k].vis = TRUE
          BY <5>1, <1>7
        <5>3. jobs'[logs'[k].job].vis = TRUE
          BY <5>1, <3>1, <1>6, <1>7
        <5> QED
          BY <5>2, <5>3, Zenon
      <4>2. CASE logs[k].job[1] # t
        <5>1. logs[k].job \notin Mine(t) /\ ~ Shows(logs[k].job)
          BY <3>1, <4>2, JobIdFacts DEF Shows
        <5> QED
          BY <5>1, <3>1, <1>6, <1>7
      <4> QED
        BY <4>1, <4>2
    <3>3. logs[k].result = "rolled_back" =>
            logs'[k].vis = TRUE /\ jobs'[logs'[k].job].rolled = TRUE
      <4> SUFFICES ASSUME logs[k].result = "rolled_back"
                   PROVE  logs'[k].vis = TRUE /\ jobs'[logs'[k].job].rolled = TRUE
        OBVIOUS
      <4>1. logs[k].vis = TRUE /\ jobs[logs[k].job].rolled = TRUE
        BY <2>1, <3>1, <1>6, <1>7 DEF LogSound, ImportLog, ImportJob
      <4> QED
        BY <4>1, <3>1, <1>6, <1>7
    <3> QED
      BY <2>3, <3>1, <3>2, <3>3, <1>7 DEF LogSound
  <2> QED
    BY <2>2, <2>3
<1>15. ASSUME NEW r \in Rollers PROVE RollerSound(r)'
  <2>1. RollerSound(r) /\ roller'[r] = roller[r]
    BY <1>1 DEF ImportInv
  <2>2. roller[r].pc # "idle" =>
          /\ jobs'[roller[r].job].vis
          /\ Attributed(roller[r].job)' = Attributed(roller[r].job)
          /\ Successes(roller[r].job)' \subseteq Successes(roller[r].job)
    <3>1. roller[r].pc # "idle" => roller[r].job \in JobIds /\ jobs[roller[r].job].vis = TRUE
      BY <2>1, <1>6 DEF RollerSound, ImportJob
    <3>2. roller[r].pc # "idle" => jobs'[roller[r].job].vis = TRUE
      BY <3>1, <1>6
    <3>3. \A k \in Keys : logs'[k].job = logs[k].job /\ logs'[k].result = logs[k].result
      BY <1>7
    <3> QED
      BY <2>1, <3>2, <3>3 DEF Attributed, Successes
  <2> QED
    BY <2>1, <2>2, RollerFrame
<1> QED
  BY <1>8, <1>9, <1>11, <1>13, <1>14, <1>15 DEF ImportInv

-----------------------------------------------------------------------------
(* A step of a rollback request that only reads.                           *)
LEMMA RollerMoves ==
    ASSUME ImportInv, NEW r \in Rollers, UNCHANGED <<task, jobs, logs>>,
           roller' \in [Rollers -> RollbackRequest],
           \A q \in Rollers \ {r} : roller'[q] = roller[q],
           RollerSound(r)'
    PROVE  ImportInv'
<1>1. ImportTypes'
  BY DEF ImportInv, ImportTypes
<1>2. ASSUME NEW t \in Tasks PROVE TaskSound(t)'
  BY DEF ImportInv, TaskSound, OpenTask, Conflict, Sees, Mine
<1>3. ASSUME NEW j \in JobIds PROVE JobSound(j)' /\ CountSound(j)'
  <2>1. Attributed(j)' = Attributed(j) /\ Successes(j)' = Successes(j)
    BY DEF Attributed, Successes
  <2> QED
    BY <2>1, JobFrame, CountFrame DEF ImportInv
<1>4. ASSUME NEW k \in Keys PROVE LogSound(k)'
  BY DEF ImportInv, LogSound
<1>5. ASSUME NEW q \in Rollers PROVE RollerSound(q)'
  <2>1. CASE q = r
    BY <2>1
  <2>2. CASE q # r
    <3>1. RollerSound(q) /\ roller'[q] = roller[q]
      BY <2>2 DEF ImportInv
    <3>2. roller[q].pc # "idle" =>
            /\ jobs'[roller[q].job].vis
            /\ Attributed(roller[q].job)' = Attributed(roller[q].job)
            /\ Successes(roller[q].job)' \subseteq Successes(roller[q].job)
      BY <3>1 DEF RollerSound, Attributed, Successes
    <3> QED
      BY <3>1, <3>2, RollerFrame
  <2> QED
    BY <2>1, <2>2
<1> QED
  BY <1>1, <1>2, <1>3, <1>4, <1>5 DEF ImportInv

(* rollback_import reads the counters of the job first.                    *)
LEMMA ReadJobKeeps ==
    ASSUME ImportInv, NEW r \in Rollers, NEW j \in JobIds, RollbackReadJob(r, j)
    PROVE  ImportInv'
<1> DEFINE new == [pc |-> "job", job |-> j, imported |-> jobs[j].imported,
                   skipped |-> jobs[j].skipped, keys |-> {}]
<1>1. /\ jobs[j].vis /\ ~ jobs[j].rolled /\ UNCHANGED <<task, jobs, logs>>
      /\ roller' = [roller EXCEPT ![r] = new]
  BY DEF RollbackReadJob
<1>2. jobs[j] \in ImportJob /\ CountSound(j)
  BY DEF ImportInv, ImportTypes
<1>3. new \in RollbackRequest
  BY <1>2 DEF ImportJob, RollbackRequest
<1>4. roller' \in [Rollers -> RollbackRequest] /\ roller'[r] = new
      /\ \A q \in Rollers \ {r} : roller'[q] = roller[q]
  BY <1>1, <1>3 DEF ImportInv, ImportTypes
<1>5. jobs[j].skipped = 0 /\ jobs[j].imported = Cardinality(Attributed(j))
  <2>1. jobs[j].skipped = 0 /\ jobs[j].imported + jobs[j].skipped = Cardinality(Attributed(j))
    BY <1>1, <1>2 DEF CountSound
  <2>2. jobs[j].imported \in Nat
    BY <1>2 DEF ImportJob
  <2> QED
    BY <2>1, <2>2
<1>6. RollerSound(r)'
  <2>1. /\ roller'[r].pc = "job" /\ roller'[r].job = j /\ jobs'[j].vis
        /\ roller'[r].imported = jobs[j].imported /\ roller'[r].skipped = 0
    BY <1>1, <1>4, <1>5
  <2> QED
    BY <1>1, <1>5, <2>1 DEF RollerSound, Attributed
<1> QED
  BY <1>1, <1>4, <1>6, RollerMoves

(* Of a job that was not rolled back all records are found, of one that    *)
(* was, none.                                                              *)
LEMMA ReadLogsKeeps ==
    ASSUME ImportInv, NEW r \in Rollers, RollbackReadLogs(r)
    PROVE  ImportInv'
<1>1. PICK j : j = roller[r].job
  OBVIOUS
<1>2. PICK ks : ks = {k \in Keys : logs[k].vis /\ logs[k].job = j /\ logs[k].result = "success"}
  OBVIOUS
<1>3. /\ roller[r].pc = "job" /\ UNCHANGED <<task, jobs, logs>>
      /\ roller' = [roller EXCEPT ![r].pc = "logs", ![r].keys = ks]
  BY <1>1, <1>2, Zenon DEF RollbackReadLogs
<1>4. /\ roller[r] \in RollbackRequest /\ RollerSound(r) /\ ks \in SUBSET Keys
  BY <1>2 DEF ImportInv, ImportTypes
<1>5. /\ roller' \in [Rollers -> RollbackRequest]
      /\ roller'[r] = [roller[r] EXCEPT !.pc = "logs", !.keys = ks]
      /\ \A q \in Rollers \ {r} : roller'[q] = roller[q]
  BY <1>3, <1>4 DEF ImportInv, ImportTypes, RollbackRequest
<1>6. /\ roller'[r].pc = "logs" /\ roller'[r].keys = ks /\ roller'[r].job = j
      /\ roller'[r].imported = roller[r].imported /\ roller'[r].skipped = roller[r].skipped
  BY <1>1, <1>4, <1>5 DEF RollbackRequest
<1>7. /\ j \in JobIds /\ jobs[j].vis /\ roller[r].imported = Cardinality(Attributed(j))
      /\ roller[r].skipped = 0 /\ CountSound(j)
  BY <1>1, <1>3, <1>4 DEF RollerSound, ImportInv
<1>8. ks = Attributed(j) \/ (ks = {} /\ Successes(j) = {})
  <2>1. CASE jobs[j].rolled
    <3>1. Successes(j) = {}
      BY <1>7, <2>1 DEF CountSound
    <3> QED
      BY <3>1, <1>2 DEF Successes
  <2>2. CASE ~ jobs[j].rolled
    <3>1. ASSUME NEW k \in Keys, logs[k].job = j
          PROVE  logs[k].vis /\ logs[k].result = "success"
      <4>1. LogSound(k) /\ logs[k] \in ImportLog /\ j # <<>>
        BY <1>7, JobIdNotEmpty DEF ImportInv, ImportTypes
      <4>2. logs[k].result # "none"
        BY <3>1, <4>1 DEF LogSound, NoLog
      <4>3. logs[k].vis = jobs[j].vis
        BY <3>1, <4>1, <4>2 DEF LogSound
      <4>4. logs[k].result # "rolled_back"
        BY <3>1, <2>2, <4>1 DEF LogSound
      <4> QED
        BY <1>7, <4>1, <4>2, <4>3, <4>4 DEF ImportLog
    <3> QED
      BY <3>1, <1>2 DEF Attributed
  <2> QED
    BY <2>1, <2>2
<1>9. RollerSound(r)'
  BY <1>3, <1>6, <1>7, <1>8 DEF RollerSound, Attributed, Successes
<1> QED
  BY <1>3, <1>5, <1>9, RollerMoves

(* Whoever writes last, the counters come out the same.                    *)
LEMMA RollbackKeeps ==
    ASSUME ImportInv, NEW r \in Rollers, RollbackWrite(r)
    PROVE  ImportInv'
<1>1. PICK j : j = roller[r].job
  OBVIOUS
<1>2. PICK ks : ks = roller[r].keys
  OBVIOUS
<1>3. PICK n : n = Cardinality(ks)
  OBVIOUS
<1>4. /\ roller[r].pc = "logs" /\ UNCHANGED task
      /\ logs' = [k \in Keys |-> IF k \in ks THEN [logs[k] EXCEPT !.result = "rolled_back"]
                                 ELSE logs[k]]
      /\ jobs' = [jobs EXCEPT ![j] = RolledBackRow(@, r, n)]
      /\ roller' = [roller EXCEPT ![r] = IdleRoller]
  BY <1>1, <1>2, <1>3, Zenon DEF RollbackWrite
<1>5. /\ roller[r] \in RollbackRequest /\ RollerSound(r)
  BY DEF ImportInv, ImportTypes
<1>6. /\ j \in JobIds /\ jobs[j].vis /\ roller[r].imported = Cardinality(Attributed(j))
      /\ roller[r].skipped = 0
      /\ ks = Attributed(j) \/ (ks = {} /\ Successes(j) = {})
  BY <1>1, <1>2, <1>4, <1>5 DEF RollerSound
<1>7. jobs[j] \in ImportJob /\ CountSound(j) /\ JobSound(j)
  BY <1>6 DEF ImportInv, ImportTypes
<1>8. n \in Nat /\ (n = 0 <=> ks = {}) /\ Cardinality(Attributed(j)) \in Nat
  BY <1>3, <1>6, LogSetsFinite, FS_EmptySet
<1>9. /\ jobs'[j] = RolledBackRow(jobs[j], r, n)
      /\ \A i \in JobIds : i # j => jobs'[i] = jobs[i]
  BY <1>4, <1>6 DEF ImportInv, ImportTypes
<1>10. RolledBackRow(jobs[j], r, n) =
         [jobs[j] EXCEPT !.rolled = TRUE, !.status = "failed",
                         !.imported = 0, !.skipped = Cardinality(Attributed(j))]
  <2>1. CASE n = 0
    <3>1. Successes(j) = {}
      BY <1>6, <1>8, <2>1 DEF Attributed, Successes
    <3>2. jobs[j].imported = 0
      BY <3>1, <1>7, FS_EmptySet DEF CountSound
    <3>3. jobs[j].skipped = Cardinality(Attributed(j))
      <4>1. jobs[j].imported + jobs[j].skipped = Cardinality(Attributed(j))
        BY <1>7 DEF CountSound
      <4>2. jobs[j].skipped \in Nat
        BY <1>7 DEF ImportJob
      <4> QED
        BY <3>2, <4>1, <4>2
    <3> QED
      BY <2>1, <3>2, <3>3, <1>7 DEF RolledBackRow, ImportJob
  <2>2. CASE n # 0
    <3>1. n = Cardinality(Attributed(j)) /\ roller[r].imported = n /\ roller[r].skipped = 0
      BY <1>3, <1>6, <1>8, <2>2
    <3>2. ~ (roller[r].imported > n) /\ roller[r].skipped + n = Cardinality(Attributed(j))
      BY <3>1, <1>8
    <3> QED
      BY <2>2, <3>2 DEF RolledBackRow
  <2> QED
    BY <2>1, <2>2
<1>11. /\ jobs'[j].rolled = TRUE /\ jobs'[j].status = "failed" /\ jobs'[j].imported = 0
       /\ jobs'[j].skipped = Cardinality(Attributed(j)) /\ jobs'[j].vis = jobs[j].vis
       /\ jobs'[j].dry = jobs[j].dry /\ jobs'[j].total = jobs[j].total
       /\ jobs'[j] \in ImportJob
  <2>1. PICK c \in Nat : c = Cardinality(Attributed(j))
    BY <1>8
  <2>2. PICK old \in ImportJob : old = jobs[j]
    BY <1>7
  <2>3. jobs'[j] = [old EXCEPT !.rolled = TRUE, !.status = "failed", !.imported = 0, !.skipped = c]
    BY <1>9, <1>10, <2>1, <2>2, Zenon
  <2>4. jobs'[j] \in ImportJob
    <3>1. [old EXCEPT !.rolled = TRUE, !.status = "failed"] \in ImportJob
      BY DEF ImportJob
    <3>2. \A x \in ImportJob : [x EXCEPT !.imported = 0, !.skipped = c] \in ImportJob
      BY DEF ImportJob
    <3>3. jobs'[j] = [[old EXCEPT !.rolled = TRUE, !.status = "failed"]
                         EXCEPT !.imported = 0, !.skipped = c]
      BY <2>3
    <3> QED
      BY <3>1, <3>2, <3>3, Zenon
  <2>5. /\ jobs'[j].rolled = TRUE /\ jobs'[j].status = "failed" /\ jobs'[j].imported = 0
        /\ jobs'[j].skipped = c /\ jobs'[j].vis = old.vis
        /\ jobs'[j].dry = old.dry /\ jobs'[j].total = old.total
    BY <2>3 DEF ImportJob
  <2> QED
    BY <2>1, <2>2, <2>4, <2>5, Zenon
<1>12. ASSUME NEW k \in Keys
       PROVE  /\ logs'[k].job = logs[k].job /\ logs'[k].vis = logs[k].vis
              /\ logs'[k].result = IF k \in ks THEN "rolled_back" ELSE logs[k].result
              /\ logs'[k] \in ImportLog /\ logs[k] \in ImportLog
              /\ k \notin ks => logs'[k] = logs[k]
  <2>1. logs'[k] = IF k \in ks THEN [logs[k] EXCEPT !.result = "rolled_back"] ELSE logs[k]
    BY <1>4
  <2>2. logs[k] \in ImportLog
    BY DEF ImportInv, ImportTypes
  <2> QED
    BY <2>1, <2>2 DEF ImportLog
<1>13. ASSUME NEW k \in Keys, k \in ks
       PROVE  logs[k].job = j /\ logs[k].result # "none" /\ logs[k].vis = TRUE
  <2>1. logs[k].job = j /\ j # <<>>
    BY <1>13, <1>6, JobIdNotEmpty DEF Attributed
  <2>2. LogSound(k) /\ logs[k] \in ImportLog
    BY DEF ImportInv, ImportTypes
  <2>3. logs[k].result # "none"
    BY <2>1, <2>2 DEF LogSound, NoLog
  <2>4. logs[k].vis = jobs[j].vis
    BY <2>1, <2>2, <2>3 DEF LogSound
  <2> QED
    BY <2>1, <2>2, <2>3, <2>4, <1>6 DEF ImportLog
<1>14. ImportTypes'
  <2>1. jobs' \in [JobIds -> ImportJob]
    BY <1>4, <1>9, <1>11 DEF ImportInv, ImportTypes
  <2>2. logs' \in [Keys -> ImportLog]
    BY <1>4, <1>12
  <2>3. IdleRoller \in RollbackRequest
    BY DEF IdleRoller, RollbackRequest
  <2>4. roller' \in [Rollers -> RollbackRequest]
    BY <1>4, <2>3 DEF ImportInv, ImportTypes
  <2> QED
    BY <1>4, <2>1, <2>2, <2>4 DEF ImportInv, ImportTypes
<1>15. ASSUME NEW t \in Tasks PROVE TaskSound(t)'
  <2>1. TaskSound(t) /\ task'[t] = task[t]
    BY <1>4 DEF ImportInv
  <2>2. ASSUME NEW k \in Keys, Conflict(t, k) PROVE Conflict(t, k)'
    <3>1. logs'[k].result # "none"
      BY <1>12, <2>2 DEF Conflict
    <3>2. logs'[k].vis \/ logs'[k].job \in Mine(t)
      BY <1>12, <2>2 DEF Conflict, Sees
    <3> QED
      BY <3>1, <3>2 DEF Conflict, Sees, Mine
  <2>3. task[t].pc = "insert" => task[t].cur \in Keys
    BY <2>1 DEF TaskSound, ImportInv, ImportTypes, ImportTask
  <2> QED
    BY <2>1, <2>2, <2>3, TaskFrame
<1>16. task[j[1]].pc = "done"
  BY <1>6, <1>7, VisibleDone DEF ImportInv
<1>17. ASSUME NEW i \in JobIds PROVE JobSound(i)'
  <2>1. CASE i = j
    <3>1. Over(jobs[j])
      <4>1. jobs[j] # NoImport
        BY <1>6 DEF NoImport
      <4> QED
        BY <4>1, <1>7, <1>16 DEF JobSound
    <3>2. jobs'[i].imported + jobs'[i].skipped = jobs[j].imported + jobs[j].skipped
      <4>1. jobs[j].imported + jobs[j].skipped = Cardinality(Attributed(j))
        BY <1>7 DEF CountSound
      <4> QED
        BY <4>1, <2>1, <1>8, <1>11
    <3>3. Over(jobs'[i])
      BY <2>1, <3>1, <3>2, <1>11 DEF Over
    <3>4. jobs'[i].vis
      BY <2>1, <1>6, <1>11
    <3>5. task'[i[1]].pc = "done"
      BY <2>1, <1>4, <1>16
    <3> QED
      BY <3>3, <3>4, <3>5 DEF JobSound, OpenTask, Over
  <2>2. CASE i # j
    BY <2>2, <1>4, <1>9, JobFrame DEF ImportInv
  <2> QED
    BY <2>1, <2>2
<1>18. ASSUME NEW i \in JobIds
       PROVE  /\ Attributed(i)' = Attributed(i)
              /\ Successes(i)' \subseteq Successes(i)
              /\ i # j => Successes(i)' = Successes(i)
              /\ i = j => Successes(i)' = {}
  <2>1. Attributed(i)' = Attributed(i)
    BY <1>12 DEF Attributed
  <2>2. Successes(i)' \subseteq Successes(i)
    BY <1>12 DEF Successes
  <2>3. ASSUME i # j PROVE Successes(i)' = Successes(i)
    BY <1>12, <1>13, <2>3 DEF Successes
  <2>4. ASSUME i = j PROVE Successes(i)' = {}
    <3>1. CASE ks = Attributed(j)
      BY <1>12, <2>4, <3>1 DEF Successes, Attributed
    <3>2. CASE Successes(j) = {}
      BY <2>2, <2>4, <3>2
    <3> QED
      BY <1>6, <3>1, <3>2
  <2> QED
    BY <2>1, <2>2, <2>3, <2>4
<1>19. ASSUME NEW i \in JobIds PROVE CountSound(i)'
  <2>1. CASE i = j
    <3>1. /\ jobs'[i].imported = 0 /\ jobs'[i].skipped = Cardinality(Attributed(i)')
          /\ Cardinality(Successes(i)') = 0 /\ jobs'[i].rolled = TRUE
          /\ jobs'[i].vis /\ jobs'[i].status = "failed" /\ Successes(i)' = {}
      BY <2>1, <1>6, <1>11, <1>18, FS_EmptySet
    <3>2. jobs'[i].imported + jobs'[i].skipped = Cardinality(Attributed(i)')
      BY <3>1, <1>8, <1>11, <2>1
    <3> QED
      BY <3>1, <3>2 DEF CountSound
  <2>2. CASE i # j
    BY <2>2, <1>9, <1>18, CountFrame DEF ImportInv
  <2> QED
    BY <2>1, <2>2
<1>20. ASSUME NEW k \in Keys PROVE LogSound(k)'
  <2>1. LogSound(k)
    BY DEF ImportInv
  <2>2. CASE k \in ks
    <3>1. /\ logs'[k].job = j /\ logs'[k].result = "rolled_back" /\ logs'[k].vis = TRUE
      BY <2>2, <1>12, <1>13
    <3>2. logs'[k] # NoLog
      BY <3>1 DEF NoLog
    <3>3. jobs'[j].vis = TRUE
      BY <1>6, <1>7, <1>11 DEF ImportJob
    <3>4. logs'[k].vis = jobs'[logs'[k].job].vis
      BY <3>1, <3>3, Zenon
    <3> QED
      BY <3>1, <3>2, <3>4, <1>6, <1>11 DEF LogSound
  <2>3. CASE k \notin ks
    <3>1. logs'[k] = logs[k]
      BY <2>3, <1>12
    <3>2. CASE logs[k].job = j
      <4>1. jobs'[j].vis = jobs[j].vis /\ jobs'[j].status # "none" /\ jobs'[j].rolled
        BY <1>11
      <4> QED
        BY <2>1, <3>1, <3>2, <4>1 DEF LogSound
    <3>3. CASE logs[k].job # j
      <4>1. logs[k].result # "none" => jobs'[logs[k].job] = jobs[logs[k].job]
        BY <2>1, <3>3, <1>9 DEF LogSound
      <4> QED
        BY <2>1, <3>1, <4>1, LogFrame
    <3> QED
      BY <3>2, <3>3
  <2> QED
    BY <2>2, <2>3
<1>21. ASSUME NEW q \in Rollers PROVE RollerSound(q)'
  <2>1. CASE q = r
    <3>1. roller'[q].pc = "idle"
      BY <2>1, <1>4 DEF ImportInv, ImportTypes, IdleRoller
    <3> QED
      BY <3>1 DEF RollerSound
  <2>2. CASE q # r
    <3>1. RollerSound(q) /\ roller'[q] = roller[q]
      BY <2>2, <1>4 DEF ImportInv, ImportTypes
    <3>2. roller[q].pc # "idle" => roller[q].job \in JobIds /\ jobs[roller[q].job].vis
      BY <3>1 DEF RollerSound
    <3>3. roller[q].pc # "idle" => jobs'[roller[q].job].vis
      BY <3>2, <1>9, <1>11
    <3>4. roller[q].pc # "idle" =>
            /\ jobs'[roller[q].job].vis
            /\ Attributed(roller[q].job)' = Attributed(roller[q].job)
            /\ Successes(roller[q].job)' \subseteq Successes(roller[q].job)
      <4>1. \A k \in Keys : logs'[k].job = logs[k].job
                            /\ (logs'[k].result = "success" => logs[k].result = "success")
        BY <1>12
      <4> QED
        BY <3>1, <3>3, <4>1 DEF Attributed, Successes
    <3> QED
      BY <3>1, <3>4, RollerFrame
  <2> QED
    BY <2>1, <2>2
<1> QED
  BY <1>14, <1>15, <1>17, <1>19, <1>20, <1>21 DEF ImportInv

-----------------------------------------------------------------------------
(* A step of nobody changes nothing.                                       *)
LEMMA ImportStutter ==
    ASSUME ImportInv, UNCHANGED <<task, jobs, logs, roller>>
    PROVE  ImportInv'
<1>1. ImportTypes'
  BY DEF ImportInv, ImportTypes
<1>2. ASSUME NEW t \in Tasks PROVE TaskSound(t)'
  BY DEF ImportInv, TaskSound, OpenTask, Conflict, Sees, Mine
<1>3. ASSUME NEW j \in JobIds PROVE JobSound(j)' /\ CountSound(j)'
  <2>1. Attributed(j)' = Attributed(j) /\ Successes(j)' = Successes(j)
    BY DEF Attributed, Successes
  <2> QED
    BY <2>1, JobFrame, CountFrame DEF ImportInv
<1>4. ASSUME NEW k \in Keys PROVE LogSound(k)'
  BY DEF ImportInv, LogSound
<1>5. ASSUME NEW r \in Rollers PROVE RollerSound(r)'
  BY DEF ImportInv, RollerSound, Attributed, Successes
<1> QED
  BY <1>1, <1>2, <1>3, <1>4, <1>5 DEF ImportInv

(* One lemma per action.                                                   *)
LEMMA StepImport == ImportInv /\ [ImportNext]_importVars => ImportInv'
<1> SUFFICES ASSUME ImportInv, [ImportNext]_importVars PROVE ImportInv'
  OBVIOUS
<1>1. CASE UNCHANGED importVars
  BY <1>1, ImportStutter DEF importVars
<1>2. ASSUME NEW p \in Providers, NEW token \in BOOLEAN, CreateConnection(p, token)
      PROVE  ImportInv'
  BY <1>2, ImportStutter DEF CreateConnection
<1>3. ASSUME NEW p \in Providers, DeleteConnection(p) PROVE ImportInv'
  BY <1>3, ImportStutter DEF DeleteConnection
<1>4. ASSUME NEW t \in Tasks, TaskStep(t) PROVE ImportInv'
  <2>1. CASE BeginImport(t)
    BY <2>1, BeginKeeps
  <2>2. CASE CreateImportJob(t)
    BY <2>2, CreateJobKeeps
  <2>3. CASE Fetch(t)
    BY <2>3, FetchKeeps
  <2>4. CASE Check(t)
    BY <2>4, CheckKeeps
  <2>5. CASE Insert(t)
    BY <2>5, InsertKeeps
  <2>6. CASE NextType(t)
    BY <2>6, NextTypeKeeps
  <2>7. CASE Commit(t)
    BY <2>7, CommitKeeps
  <2>8. CASE WaitEnds(t)
    BY <2>8, AbortKeeps DEF WaitEnds
  <2> QED
    BY <1>4, <2>1, <2>2, <2>3, <2>4, <2>5, <2>6, <2>7, <2>8 DEF TaskStep
<1>5. ASSUME NEW t \in Tasks, Crash(t) PROVE ImportInv'
  BY <1>5, AbortKeeps DEF Crash
<1>6. ASSUME NEW t \in Tasks, NEW q \in ImportRequests, StartImport(t, q) PROVE ImportInv'
  BY <1>6, StartKeeps
<1>7. ASSUME NEW r \in Rollers, NEW j \in JobIds, RollbackReadJob(r, j) PROVE ImportInv'
  BY <1>7, ReadJobKeeps
<1>8. ASSUME NEW r \in Rollers, RollbackReadLogs(r) PROVE ImportInv'
  BY <1>8, ReadLogsKeeps
<1>9. ASSUME NEW r \in Rollers, RollbackWrite(r) PROVE ImportInv'
  BY <1>9, RollbackKeeps
<1> QED
  BY <1>1, <1>2, <1>3, <1>4, <1>5, <1>6, <1>7, <1>8, <1>9 DEF ImportNext

(* Whatever is imported, aborted and rolled back at the same time, the log *)
(* and the rows of the jobs agree (run_import and rollback_import).        *)
THEOREM ImportInvariant == ImportSpec => []ImportInv
<1>1. ImportInit => ImportInv
  BY InitImport
<1>2. ImportInv /\ [ImportNext]_importVars => ImportInv'
  BY StepImport
<1> QED
  BY <1>1, <1>2, PTL DEF ImportSpec

(* What a visible import counts is what the log attributes to it, also     *)
(* after concurrent requests of rollback_import.                           *)
THEOREM CountsMatchLogsTheorem == ImportSpec => []CountsMatchLogs
<1>1. ImportInv => CountsMatchLogs
  <2> SUFFICES ASSUME ImportInv, NEW j \in Committed
               PROVE  /\ jobs[j].imported =
                           Cardinality({k \in ImportReport(j).logs : logs[k].result = "success"})
                      /\ jobs[j].failed = 0
                      /\ jobs[j].imported + jobs[j].skipped =
                           IF jobs[j].dry THEN 0 ELSE jobs[j].total
    BY DEF CountsMatchLogs
  <2>1. /\ j \in JobIds /\ jobs[j].vis /\ JobSound(j) /\ CountSound(j) /\ jobs[j] \in ImportJob
        /\ task[j[1]].pc = "done" /\ jobs[j] # NoImport
    <3>1. j \in JobIds /\ jobs[j].vis
      BY DEF Committed
    <3> QED
      BY <3>1, VisibleDone DEF ImportInv, ImportTypes, NoImport
  <2>2. {k \in ImportReport(j).logs : logs[k].result = "success"} = Successes(j)
    <3>1. ImportReport(j).logs = {k \in Keys : logs[k].vis /\ logs[k].job = j}
      BY DEF ImportReport
    <3>2. ASSUME NEW k \in Keys, logs[k].job = j, logs[k].result = "success" PROVE logs[k].vis
      BY <3>2, <2>1 DEF ImportInv, LogSound
    <3> QED
      BY <3>1, <3>2 DEF Successes
  <2>3. Over(jobs[j])
    BY <2>1 DEF JobSound
  <2> QED
    BY <2>1, <2>2, <2>3 DEF CountSound, ImportJob, Over
<1> QED
  BY <1>1, ImportInvariant, PTL

(* The rows of the jobs table can be counted.                              *)
LEMMA JobIdsFinite == IsFiniteSet(JobIds)
<1>1. IsFiniteSet(1 .. MaxTypes)
  BY ImportAssumption, FS_Interval
<1> QED
  BY <1>1, ImportAssumption, FS_Product DEF JobIds

(* What the migration overview counts as completed and as failed is all    *)
(* that anyone can see, and no running import is ever listed.              *)
THEOREM OverviewTheorem == ImportSpec => []OverviewAddsUp
<1>1. ImportInv => OverviewAddsUp
  <2> SUFFICES ASSUME ImportInv PROVE OverviewAddsUp
    OBVIOUS
  <2> DEFINE C == Having({"completed", "partial"})
             F == Having({"failed"})
             R == {j \in Committed : jobs[j].rolled}
  <2>1. ASSUME NEW j \in Committed
        PROVE  /\ jobs[j].status \in {"completed", "failed"}
               /\ jobs[j].rolled => jobs[j].status = "failed"
    <3>1. j \in JobIds /\ jobs[j].vis
      BY DEF Committed
    <3>2. task[j[1]].pc = "done" /\ jobs[j] # NoImport /\ JobSound(j) /\ CountSound(j)
      BY <3>1, VisibleDone DEF ImportInv, NoImport
    <3> QED
      BY <3>2 DEF JobSound, CountSound, Over
  <2>2. C \cup F = Committed /\ C \cap F = {} /\ ActiveImports = {} /\ R \subseteq F
    BY <2>1 DEF Having, ActiveImports
  <2>3. IsFiniteSet(C) /\ IsFiniteSet(F)
    <3>1. C \in SUBSET JobIds /\ F \in SUBSET JobIds
      BY DEF Having, Committed
    <3> QED
      BY <3>1, JobIdsFinite, FS_Subset
  <2>4. Cardinality(C) \in Nat /\ Cardinality(F) \in Nat /\ Cardinality(C \cap F) = 0
    BY <2>2, <2>3, FS_CardinalityType, FS_EmptySet
  <2> HIDE DEF C, F, R
  <2>5. Cardinality(Committed) = Cardinality(C) + Cardinality(F)
    <3>1. Cardinality(C \cup F) = Cardinality(C) + Cardinality(F) - Cardinality(C \cap F)
      BY <2>3, FS_Union
    <3>2. Cardinality(C \cup F) = Cardinality(C) + Cardinality(F)
      BY <3>1, <2>4
    <3> QED
      BY <3>2, <2>2, Zenon
  <2>6. Cardinality(R) <= Cardinality(F)
    BY <2>2, <2>3, FS_Subset
  <2>7. /\ Metrics.completed = Cardinality(C) /\ Metrics.failed = Cardinality(F)
        /\ Metrics.total = Cardinality(Committed) /\ Metrics.rolled = Cardinality(R)
    BY DEF Metrics, C, F, R
  <2> QED
    BY <2>2, <2>5, <2>6, <2>7 DEF OverviewAddsUp
<1> QED
  BY <1>1, ImportInvariant, PTL

(* A record that was rolled back keeps its row: the row is visible, so no  *)
(* roll-back of a transaction removes it and every INSERT of its key fails *)
(* (uq_import_logs_dedup).                                                 *)
THEOREM RolledBackIsFinalTheorem == ImportSpec => RolledBackIsFinal
<1>1. ASSUME ImportInv, [ImportNext]_importVars, NEW k \in Keys, logs[k].result = "rolled_back"
      PROVE  logs'[k] = logs[k]
  <2>1. /\ logs[k].vis /\ logs[k] \in ImportLog /\ logs[k].vis = TRUE
        /\ logs[k].job \in JobIds /\ jobs[logs[k].job].vis
    BY <1>1 DEF ImportInv, LogSound, ImportTypes, ImportLog
  <2>2. ASSUME NEW t \in Tasks, Abort(t) PROVE logs'[k] = logs[k]
    <3>1. logs'[k] = IF logs[k].job \in Mine(t) /\ ~ logs[k].vis THEN NoLog ELSE logs[k]
      BY <2>2, Zenon DEF Abort, RollBackRows
    <3> QED
      BY <2>1, <3>1
  <2>3. ASSUME NEW t \in Tasks, Insert(t) PROVE logs'[k] = logs[k]
    <3>1. CASE Conflict(t, task[t].cur) \/ ~ Storable(task[t].cur)
      BY <2>2, <2>3, <3>1 DEF Insert
    <3>2. CASE ~ (Conflict(t, task[t].cur) \/ ~ Storable(task[t].cur))
      <4>1. k # task[t].cur
        BY <1>1, <2>1, <3>2 DEF Conflict, Sees
      <4>2. PICK x : logs' = [logs EXCEPT ![task[t].cur] = x]
        BY <2>3, <3>2 DEF Insert
      <4> QED
        BY <4>1, <4>2, <1>1 DEF ImportInv, ImportTypes
    <3> QED
      BY <3>1, <3>2
  <2>4. ASSUME NEW t \in Tasks, Commit(t) PROVE logs'[k] = logs[k]
    <3>1. logs'[k] = IF logs[k].job \in Mine(t) THEN [logs[k] EXCEPT !.vis = TRUE] ELSE logs[k]
      BY <2>4, Zenon DEF Commit
    <3>2. [logs[k] EXCEPT !.vis = TRUE] = logs[k]
      BY <2>1 DEF ImportLog
    <3> QED
      BY <3>1, <3>2
  <2>5. ASSUME NEW r \in Rollers, RollbackWrite(r) PROVE logs'[k] = logs[k]
    <3>1. logs'[k] = IF k \in roller[r].keys THEN [logs[k] EXCEPT !.result = "rolled_back"]
                     ELSE logs[k]
      BY <2>5, Zenon DEF RollbackWrite
    <3>2. [logs[k] EXCEPT !.result = "rolled_back"] = logs[k]
      BY <1>1, <2>1 DEF ImportLog
    <3> QED
      BY <3>1, <3>2
  <2>6. CASE UNCHANGED logs
    BY <2>6
  <2>7. ASSUME NEW t \in Tasks, TaskStep(t) \/ Crash(t) PROVE logs'[k] = logs[k]
    <3>1. CASE BeginImport(t) \/ Fetch(t) \/ Check(t) \/ NextType(t)
      BY <3>1, <2>6 DEF BeginImport, Fetch, Check, NextType
    <3>2. CASE CreateImportJob(t)
      BY <3>2, <2>2, <2>6, Zenon DEF CreateImportJob
    <3>3. CASE WaitEnds(t) \/ Crash(t)
      BY <3>3, <2>2 DEF WaitEnds, Crash
    <3> QED
      BY <2>7, <2>3, <2>4, <3>1, <3>2, <3>3 DEF TaskStep
  <2>8. ASSUME NEW p \in Providers, NEW token \in BOOLEAN,
               CreateConnection(p, token) \/ DeleteConnection(p)
        PROVE  logs'[k] = logs[k]
    BY <2>8 DEF CreateConnection, DeleteConnection
  <2>9. ASSUME NEW t \in Tasks, NEW q \in ImportRequests, StartImport(t, q) PROVE logs'[k] = logs[k]
    BY <2>9 DEF StartImport
  <2>10. ASSUME NEW r \in Rollers, NEW j \in JobIds, RollbackReadJob(r, j) \/ RollbackReadLogs(r)
         PROVE  logs'[k] = logs[k]
    BY <2>10 DEF RollbackReadJob, RollbackReadLogs
  <2>11. ASSUME NEW r \in Rollers, RollbackReadLogs(r) PROVE logs'[k] = logs[k]
    BY <2>11 DEF RollbackReadLogs
  <2>12. CASE UNCHANGED importVars
    BY <2>12 DEF importVars
  <2> QED
    BY <1>1, <2>5, <2>7, <2>8, <2>9, <2>10, <2>11, <2>12 DEF ImportNext
<1>2. ImportInv /\ [ImportNext]_importVars
        => [\A k \in Keys : logs[k].result = "rolled_back" => logs'[k] = logs[k]]_importVars
  BY <1>1
<1> QED
  BY <1>2, ImportInvariant, PTL DEF ImportSpec, RolledBackIsFinal
=============================================================================
