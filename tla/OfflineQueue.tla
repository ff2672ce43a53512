---------------------------- MODULE OfflineQueue ----------------------------
(***************************************************************************)
(* The offline queue of the mobile app (utils/offlineQueue.ts): uploads    *)
(* and analytics events are rows of two SQLite tables that processQueue    *)
(* sends while the phone is online.  A timer and the return of the app to  *)
(* the foreground both call processQueue and nothing keeps two calls from  *)
(* overlapping; each works on the rows it read at its start.               *)
(*                                                                         *)
(* Rows queued before their job exists carry a temporary job id that       *)
(* handleStartJob (start-job.tsx) replaces once the job is created.  After *)
(* a failure or a restart it runs again, with a new temporary id, and the  *)
(* rows of the earlier one keep theirs.  The app may be killed at any time;*)
(* SQLite survives, the counter of replays and the screen do not.  The     *)
(* server is external: it refuses a temporary id and may have accepted a   *)
(* request whose answer is lost.                                           *)
(***************************************************************************)
EXTENDS Integers, FiniteSets

CONSTANTS
    Uploads,         \* rows of upload_queue
    Events,          \* rows of analytics_queue
    Starts,          \* calls of handleStartJob, each with a temporary id of its own
    Runs,            \* overlapping calls of processQueue
    MaxRetries,      \* MAX_RETRIES (3 in the code)
    MaxConcurrent,   \* MAX_CONCURRENT_UPLOADS (3 in the code)
    MaxReplays,      \* MAX_TOTAL_REPLAYS (50 in the code)
    MaxKills         \* bound: times the app is killed

ASSUME QueueAssumption ==
    /\ IsFiniteSet(Uploads) /\ IsFiniteSet(Events) /\ Uploads \cap Events = {}
    /\ IsFiniteSet(Runs)
    /\ "real" \notin Starts
    /\ MaxRetries \in Nat \ {0} /\ MaxConcurrent \in Nat \ {0}
    /\ MaxReplays \in Nat /\ MaxKills \in Nat

VARIABLES
    row,        \* each row: its status, retry_count and job id, that of a job
                \* ("real") or the temporary one of a call of handleStartJob
    run,        \* each call of processQueue
    delivered,  \* rows whose request the server has accepted
    start,      \* progress of each call of handleStartJob
    screen,     \* the jobId of the screen is set
    online,     \* isOnline(), with a user logged in
    replays,    \* _totalReplayCount
    kills       \* times the app was killed

vars == <<row, run, delivered, start, screen, online, replays, kills>>

Rows == Uploads \cup Events

NoRow == [status |-> "absent", retries |-> 0, job |-> "real"]

NoRun == [pc |-> "idle", real |-> {}, todo |-> {}, batch |-> {}, accepted |-> {}, erred |-> {}]

Init ==
    /\ row = [i \in Rows |-> NoRow]
    /\ run = [r \in Runs |-> NoRun]
    /\ delivered = {}
    /\ start = [s \in Starts |-> "none"]
    /\ screen = FALSE
    /\ online = TRUE
    /\ replays = 0
    /\ kills = 0

-----------------------------------------------------------------------------
(* Adding rows, and the creation of the job.                               *)

Pending(i, job) == [row EXCEPT ![i] = [status |-> "pending", retries |-> 0, job |-> job]]

(* handleStartJob queues the photos under a new temporary id first.  Its   *)
(* isStartingJob refuses a second call only from the next rendering on.    *)
StartJob(s) ==
    /\ start[s] = "none"
    /\ online
    /\ start' = [start EXCEPT ![s] = "starting"]
    /\ UNCHANGED <<row, run, delivered, screen, online, replays, kills>>

EnqueueTemporary(s, i) ==
    /\ start[s] = "starting"
    /\ row[i].status = "absent"
    /\ row' = Pending(i, s)
    /\ UNCHANGED <<run, delivered, start, screen, online, replays, kills>>

(* createJob answers.                                                      *)
JobCreated(s) ==
    /\ start[s] = "starting"
    /\ start' = [start EXCEPT ![s] = "created"]
    /\ screen' = TRUE
    /\ UNCHANGED <<row, run, delivered, online, replays, kills>>

(* createJob or a statement of SQLite raises: the rows stay as they are.   *)
StartFails(s) ==
    /\ start[s] \in {"starting", "created"}
    /\ start' = [start EXCEPT ![s] = "failed"]
    /\ UNCHANGED <<row, run, delivered, screen, online, replays, kills>>

(* Mutation: only rows that were never tried get the id of the job.        *)
updateQueueJobId_FreshOnly(s) ==
    /\ start[s] = "created"
    /\ start' = [start EXCEPT ![s] = "done"]
    /\ row' = [i \in Rows |->
                 IF row[i].job = s /\ row[i].status = "pending" /\ row[i].retries = 0
                 THEN [row[i] EXCEPT !.job = "real"] ELSE row[i]]
    /\ UNCHANGED <<run, delivered, screen, online, replays, kills>>

updateQueueJobId(s) ==
    /\ start[s] = "created"
    /\ start' = [start EXCEPT ![s] = "done"]
    /\ row' = [i \in Rows |->
                 IF row[i].job = s /\ row[i].status = "pending"
                 THEN [row[i] EXCEPT !.job = "real"] ELSE row[i]]
    /\ UNCHANGED <<run, delivered, screen, online, replays, kills>>

(* A photo of the job of the screen that could not be uploaded at once, or *)
(* an event that could not be posted.                                      *)
Enqueue(i) ==
    /\ i \in Uploads => screen
    /\ row[i].status = "absent"
    /\ row' = Pending(i, "real")
    /\ UNCHANGED <<run, delivered, start, screen, online, replays, kills>>

-----------------------------------------------------------------------------
(* processQueue                                                            *)

StartRun(r) ==
    /\ run[r].pc = "idle"
    /\ online
    /\ replays < MaxReplays
    /\ run' = [run EXCEPT ![r].pc = "read"]
    /\ UNCHANGED <<row, delivered, start, screen, online, replays, kills>>

(* Mutation: a row that failed once is not read again.                     *)
Readable_Fresh(kind) == {i \in kind : row[i].status = "pending" /\ row[i].retries = 0}

(* getPendingUploads and getPendingAnalyticsEvents                         *)
Readable(kind) == {i \in kind : row[i].status = "pending" /\ row[i].retries < MaxRetries}

(* The rows of a call are those pending now, with the job ids of now.      *)
ReadUploads(r) ==
    /\ run[r].pc = "read"
    /\ run' = [run EXCEPT ![r].pc = "uploads", ![r].todo = Readable(Uploads),
                          ![r].real = {i \in Readable(Uploads) : row[i].job = "real"}]
    /\ UNCHANGED <<row, delivered, start, screen, online, replays, kills>>

ReadEvents(r) ==
    /\ run[r].pc = "uploads"
    /\ run[r].todo = {} /\ run[r].batch = {}
    /\ run' = [run EXCEPT ![r].pc = "events", ![r].todo = Readable(Events)]
    /\ UNCHANGED <<row, delivered, start, screen, online, replays, kills>>

(* Uploads go in batches of MaxConcurrent that end together, events one by *)
(* one.  Rows queued in the same second are read in any order.             *)
BatchSize(r) == IF run[r].pc = "uploads" THEN MaxConcurrent ELSE 1

NextBatch(r) ==
    /\ run[r].pc \in {"uploads", "events"}
    /\ run[r].todo # {} /\ run[r].batch = {}
    /\ \E b \in SUBSET run[r].todo :
         /\ b # {}
         /\ Cardinality(b) <= BatchSize(r)
         /\ Cardinality(b) = BatchSize(r) \/ b = run[r].todo
         /\ run' = [run EXCEPT ![r].batch = b, ![r].todo = @ \ b]
    /\ UNCHANGED <<row, delivered, start, screen, online, replays, kills>>

Waiting(r, i) == i \in run[r].batch \ (run[r].accepted \cup run[r].erred)

(* The server confirms the upload, or stores the event.                    *)
Accept(r, i) ==
    /\ Waiting(r, i)
    /\ online
    /\ i \in Uploads => i \in run[r].real
    /\ delivered' = delivered \cup {i}
    /\ run' = [run EXCEPT ![r].accepted = @ \cup {i}]
    /\ UNCHANGED <<row, start, screen, online, replays, kills>>

(* A request fails: no file, no connection, a refusal, or a lost answer.   *)
Error(r, i) ==
    /\ Waiting(r, i) \/ i \in run[r].accepted
    /\ run' = [run EXCEPT ![r].accepted = @ \ {i}, ![r].erred = @ \cup {i}]
    /\ UNCHANGED <<row, delivered, start, screen, online, replays, kills>>

Settled(r, i) ==
    run' = [run EXCEPT ![r].batch = @ \ {i}, ![r].accepted = @ \ {i}, ![r].erred = @ \ {i}]

markComplete(r, i) ==
    /\ i \in run[r].accepted
    /\ row' = [row EXCEPT ![i].status = "completed"]
    /\ Settled(r, i)
    /\ UNCHANGED <<delivered, start, screen, online, replays, kills>>

(* Mutation: retry_count > 3 instead of >= 3.                              *)
AfterFailure_OffByOne(x) ==
    [status |-> IF x.retries + 1 > MaxRetries THEN "failed" ELSE "pending",
     retries |-> x.retries + 1, job |-> x.job]

(* The UPDATE of markFailed: it does not look at the current status.       *)
AfterFailure(x) ==
    [status |-> IF x.retries + 1 >= MaxRetries THEN "failed" ELSE "pending",
     retries |-> x.retries + 1, job |-> x.job]

markFailed(r, i) ==
    /\ i \in run[r].erred
    /\ row' = [row EXCEPT ![i] = AfterFailure(@)]
    /\ Settled(r, i)
    /\ UNCHANGED <<delivered, start, screen, online, replays, kills>>

(* Every call counts as a replay, an empty one too.  A call that handled a *)
(* row also logs an event, without waiting for it: Enqueue is the case in  *)
(* which that event cannot be posted.                                      *)
FinishRun(r) ==
    /\ run[r].pc = "events"
    /\ run[r].todo = {} /\ run[r].batch = {}
    /\ run' = [run EXCEPT ![r] = NoRun]
    /\ replays' = replays + 1
    /\ UNCHANGED <<row, delivered, start, screen, online, kills>>

-----------------------------------------------------------------------------
Connectivity ==
    /\ online' = ~online
    /\ UNCHANGED <<row, run, delivered, start, screen, replays, kills>>

(* The app is killed and started again: initQueue resets the counter, and  *)
(* the screen has no job.                                                  *)
Kill ==
    /\ kills < MaxKills
    /\ run' = [r \in Runs |-> NoRun]
    /\ start' = [s \in Starts |->
                   IF start[s] \in {"starting", "created"} THEN "failed" ELSE start[s]]
    /\ screen' = FALSE
    /\ replays' = 0
    /\ kills' = kills + 1
    /\ UNCHANGED <<row, delivered, online>>

-----------------------------------------------------------------------------
Answer(r, i) == Accept(r, i) \/ Error(r, i)

Work(r) ==
    \/ ReadUploads(r) \/ ReadEvents(r) \/ NextBatch(r) \/ FinishRun(r)
    \/ \E i \in Rows : Answer(r, i) \/ markComplete(r, i) \/ markFailed(r, i)

Next ==
    \/ \E s \in Starts :
         \/ StartJob(s) \/ JobCreated(s) \/ StartFails(s) \/ updateQueueJobId(s)
         \/ \E i \in Uploads : EnqueueTemporary(s, i)
    \/ \E i \in Rows : Enqueue(i)
    \/ \E r \in Runs : StartRun(r) \/ Work(r)
    \/ Connectivity
    \/ Kill

Spec == Init /\ [][Next]_vars

(* A call of processQueue goes on to its end (requests time out), and the  *)
(* 30-second timer keeps calling it.                                       *)
Fairness == \A r \in Runs : WF_vars(Work(r)) /\ WF_vars(StartRun(r))

FairSpec == Spec /\ Fairness

-----------------------------------------------------------------------------
(* Every variable has its type; overlapping calls may count a failure each *)
(* past MAX_RETRIES and a replay each past MAX_TOTAL_REPLAYS, and no more. *)
TypeOK ==
    /\ row \in [Rows -> [status : {"absent", "pending", "completed", "failed"},
                         retries : 0..(MaxRetries + Cardinality(Runs) - 1),
                         job : Starts \cup {"real"}]]
    /\ \A r \in Runs :
         /\ run[r].pc \in {"idle", "read", "uploads", "events"}
         /\ run[r].todo \subseteq Rows /\ run[r].batch \subseteq Rows
         /\ run[r].accepted \cap run[r].erred = {}
         /\ run[r].accepted \cup run[r].erred \subseteq run[r].batch
         /\ run[r].real \subseteq Uploads
    /\ delivered \subseteq Rows
    /\ start \in [Starts -> {"none", "starting", "created", "done", "failed"}]
    /\ screen \in BOOLEAN
    /\ online \in BOOLEAN
    /\ replays \in 0..(MaxReplays + Cardinality(Runs) - 1)
    /\ kills \in 0..MaxKills

(* The status of a row and its retry count agree although overlapping      *)
(* calls write both: a pending row is one the next call reads, and a row   *)
(* is given up only after MAX_RETRIES failures.                            *)
NoRowIsStranded ==
    \A i \in Rows :
        /\ row[i].status = "pending" => row[i].retries < MaxRetries
        /\ row[i].status = "failed" => row[i].retries >= MaxRetries

(* A row is completed only when the server has accepted its request.       *)
CompletedWasDelivered == \A i \in Rows : row[i].status = "completed" => i \in delivered

(* Once a call of handleStartJob has renamed its rows, no pending upload   *)
(* has its temporary id: no failure that was in flight during the renaming *)
(* brings one back, and no later call of handleStartJob does.  An upload   *)
(* that still has a temporary id belongs to a call that is under way, or   *)
(* that failed or was killed; the server has not taken it.                 *)
ReplacedIdsStayGone ==
    \A i \in Uploads : row[i].job # "real" =>
        /\ row[i].status = "pending" => start[row[i].job] \in {"starting", "created", "failed"}
        /\ row[i].status # "completed" /\ i \notin delivered

(* The calls that are left cover the retries of a row.                     *)
ReplaysLeft ==
    replays + Cardinality({r \in Runs : run[r].pc # "idle"}) + MaxRetries <= MaxReplays

(* While the phone stays online, a pending row leaves that state: it is    *)
(* sent or given up, unless the replay limit is near.                      *)
RowsSettle ==
    <>[]online =>
        \A i \in Rows : (row[i].status = "pending" /\ ReplaysLeft) ~> (row[i].status # "pending")
=============================================================================
