--------------------------- MODULE ImportPipeline ---------------------------
(***************************************************************************)
(* Imports from third-party systems (app/integrations): connections of a   *)
(* company, import jobs, and the log of imported records that is the only  *)
(* trace an import leaves (no mapper is ever called).                      *)
(*                                                                         *)
(* start_import answers at once; run_import runs afterwards as a           *)
(* background task in ONE transaction (router.py: async with db.begin()).  *)
(* Its rows are therefore invisible to others until the commit.  import_   *)
(* logs has a unique constraint on (company, system, external id, type)    *)
(* WITHOUT the result: an INSERT of a key that another open transaction    *)
(* inserted waits for it, and one of a committed key fails.  A failed      *)
(* flush deactivates the session, so that the handlers of run_import,      *)
(* which use the same session, raise too, and everything is rolled back.   *)
(*                                                                         *)
(* One company.  Records are opaque ids; a record in Typed carries a       *)
(* datetime or a Decimal after normalisation and cannot be stored in the   *)
(* JSON column raw_data.                                                   *)
(***************************************************************************)
EXTENDS Integers, FiniteSets, Sequences

LOCAL INSTANCE FiniteSetsExt

CONSTANTS
    Tasks,       \* background tasks, one per accepted start_import
    ImportRequests,    \* what start_import may be asked: records [provider, types, dry, conn]
    Providers,   \* the providers of the requests
    Remote,      \* [provider, type -> set of external ids the provider holds]
    Typed,       \* keys whose normalised record holds a datetime or Decimal
    Rollers,     \* requests that run rollback_import
    MaxTypes,    \* bound: record types one import is asked for
    MaxFaults    \* bound on failing requests to providers, timeouts and crashes

VARIABLES
    connection,  \* integration_connections of the company, tenant "default"
    task,        \* the background tasks
    jobs,        \* import_jobs; vis says whether the row is committed
    logs,        \* import_logs; vis as above
    roller,      \* rollback_import requests
    faults

importVars == <<connection, task, jobs, logs, roller, faults>>

(* The registry's connectors that are more than stubs.                     *)
Connectors == {"jobber", "housecall_pro", "quickbooks", "stripe"}

(* The stubs: every endpoint refuses them (the flags of                    *)
(* _check_feature_flag are never set, so all the others are enabled).      *)
Stubs == {"xero", "lmn", "hubspot", "gusto", "servicetitan", "aspire"}

Types == {"customers", "jobs", "work_orders", "invoices", "payments",
          "employees", "assets", "schedule_events", "locations"}

ASSUME ImportAssumption ==
    /\ Providers \subseteq Connectors \cup Stubs
    /\ ImportRequests \subseteq [provider : Providers, types : Seq(Types), dry : BOOLEAN,
                           conn : BOOLEAN]
    /\ MaxTypes \in Nat /\ \A r \in ImportRequests : Len(r.types) \in 1 .. MaxTypes
    /\ IsFiniteSet(Tasks) /\ MaxFaults \in Nat

Keys == {k \in Providers \X Types \X UNION {Remote[py] : py \in Providers \X Types} :
            k[3] \in Remote[<<k[1], k[2]>>]}

(* The providers hold finitely many records.                               *)
ASSUME KeysAssumption == IsFiniteSet(Keys)

(* The rows of import_jobs an import may create, one per type.             *)
Mine(t) == {<<t, i>> : i \in 1 .. MaxTypes}

JobIds == Tasks \X (1 .. MaxTypes)

NoImport == [status |-> "none", total |-> 0, imported |-> 0, skipped |-> 0, failed |-> 0,
          rolled |-> FALSE, dry |-> FALSE, vis |-> FALSE]

NoLog == [result |-> "none", job |-> <<>>, vis |-> FALSE]

IdleTask == [pc |-> "idle", req |-> "none", at |-> 0, token |-> FALSE, todo |-> {},
             cur |-> <<>>, found |-> FALSE]

IdleRoller == [pc |-> "idle", job |-> <<>>, imported |-> 0, skipped |-> 0, keys |-> {}]

NoConnection == [status |-> "none", token |-> FALSE]

ImportInit ==
    /\ connection = [p \in Providers |-> NoConnection]
    /\ task = [t \in Tasks |-> IdleTask]
    /\ jobs = [j \in JobIds |-> NoImport]
    /\ logs = [k \in Keys |-> NoLog]
    /\ roller = [r \in Rollers |-> IdleRoller]
    /\ faults = 0

-----------------------------------------------------------------------------
(* Connectors.  A fetcher answers with records, or raises.  An outcome is  *)
(* [raises, recs]; token says whether the connection loaded by run_import  *)
(* had an access token.  authenticate() only returns a flag that           *)
(* run_import ignores.                                                     *)

Fetched(S) == [raises |-> FALSE, recs |-> S]
Raises     == [raises |-> TRUE, recs |-> {}]

(* Without a token every request is refused (401, raise_for_status); a     *)
(* failing page makes the whole fetch raise.                               *)
JobberFetch(token, y) ==
    IF y = "locations" THEN {Fetched({})}
    ELSE IF token THEN {Fetched(Remote[<<"jobber", y>>]), Raises} ELSE {Raises}

HousecallFetch(token, y) ==
    IF y \in {"assets", "locations"} THEN {Fetched({})}
    ELSE IF token THEN {Fetched(Remote[<<"housecall_pro", y>>]), Raises} ELSE {Raises}

(* No endpoint stores metadata_json.realm_id, so _get always raises.       *)
QuickBooksFetch(token, y) ==
    IF y \in {"work_orders", "assets", "schedule_events", "locations"}
    THEN {Fetched({})}
    ELSE {Raises}

(* An exception is logged and an empty list returned.                      *)
StripeFetch(token, y) ==
    IF y \in {"customers", "invoices", "payments"} /\ token
    THEN {Fetched(Remote[<<"stripe", y>>]), Fetched({})}
    ELSE {Fetched({})}

FetchOutcomes(p, token, y) ==
    IF p = "jobber" THEN JobberFetch(token, y)
    ELSE IF p = "housecall_pro" THEN HousecallFetch(token, y)
    ELSE IF p = "quickbooks" THEN QuickBooksFetch(token, y)
    ELSE StripeFetch(token, y)

(* The types whose records the normaliser of a connector may give a        *)
(* datetime (_parse_datetime, _parse_dt, utcfromtimestamp) or, through the *)
(* canonical model's field, a Decimal.                                     *)
JobberTyped     == {"jobs", "invoices", "payments", "schedule_events"}
HousecallTyped  == JobberTyped \cup {"work_orders"}
QuickBooksTyped == {"invoices", "payments"}
StripeTyped     == {"invoices", "payments"}

MayBeTyped(p) ==
    CASE p = "jobber"        -> JobberTyped
      [] p = "housecall_pro" -> HousecallTyped
      [] p = "quickbooks"    -> QuickBooksTyped
      [] p = "stripe"        -> StripeTyped

(* raw_data = record.model_dump() must be JSON when the row is flushed.    *)
Storable(k) == ~ (k[2] \in MayBeTyped(k[1]) /\ k \in Typed)

-----------------------------------------------------------------------------
(* Connections.  Those that no request of the instance uses are left out.  *)

(* create_connection, or update_connection_tokens of an existing row.      *)
Connected(old, token) ==
    [status |-> IF old.status = "none" /\ ~ token THEN "pending" ELSE "connected",
     token  |-> token]

CreateConnection(p, token) ==
    /\ p \notin Stubs
    /\ \E r \in ImportRequests : r.provider = p /\ r.conn
    /\ connection' = [connection EXCEPT ![p] = Connected(@, token)]
    /\ UNCHANGED <<task, jobs, logs, roller, faults>>

OpenTask(t) == task[t].pc \in {"type", "fetch", "check", "insert", "next"}

(* The foreign key of an uncommitted import job keeps the row.             *)
DeleteConnection(p) ==
    /\ connection[p].status # "none"
    /\ \A t \in Tasks : OpenTask(t) /\ task[t].req.provider = p /\ task[t].req.conn
           => jobs[<<t, 1>>] = NoImport
    /\ connection' = [connection EXCEPT ![p] = NoConnection]
    /\ UNCHANGED <<task, jobs, logs, roller, faults>>

-----------------------------------------------------------------------------
(* start_import and run_import                                             *)

Provider(t) == task[t].req.provider
TypeOf(t)   == task[t].req.types[task[t].at]
JobOf(t)    == <<t, task[t].at>>
To(t, pc)   == task' = [task EXCEPT ![t].pc = pc]

StartImport(t, r) ==
    /\ task[t].pc = "idle"
    /\ r.provider \notin Stubs
    /\ task' = [task EXCEPT ![t] = [IdleTask EXCEPT !.pc = "queued", !.req = r]]
    /\ UNCHANGED <<connection, jobs, logs, roller, faults>>

(* run_import loads the connection and authenticates.                      *)
BeginImport(t) ==
    /\ task[t].pc = "queued"
    /\ task' = [task EXCEPT ![t].pc = "type", ![t].at = 1,
          ![t].token = task[t].req.conn /\ connection[Provider(t)].token]
    /\ UNCHANGED <<connection, jobs, logs, roller, faults>>

(* Everything the transaction wrote disappears.                            *)
RollBackRows(t) ==
    /\ jobs' = [j \in JobIds |-> IF j[1] = t THEN NoImport ELSE jobs[j]]
    /\ logs' = [k \in Keys |-> IF logs[k].job \in Mine(t) /\ ~ logs[k].vis THEN NoLog ELSE logs[k]]

Abort(t) ==
    /\ task' = [task EXCEPT ![t] = [IdleTask EXCEPT !.pc = "aborted"]]
    /\ RollBackRows(t)

(* Mutation: the job row is committed when it is created.                  *)
NewRow_Committed(dry) ==
    [NoImport EXCEPT !.status = IF dry THEN "scanning" ELSE "pending", !.dry = dry, !.vis = TRUE]

NewRow(dry) ==
    [NoImport EXCEPT !.status = IF dry THEN "scanning" ELSE "pending", !.dry = dry]

(* create_import_job: a deleted connection breaks the foreign key.         *)
CreateImportJob(t) ==
    /\ task[t].pc = "type"
    /\ IF task[t].req.conn /\ connection[Provider(t)].status = "none"
       THEN Abort(t)
       ELSE /\ jobs' = [jobs EXCEPT ![JobOf(t)] = NewRow(task[t].req.dry)]
            /\ To(t, "fetch")
            /\ UNCHANGED logs
    /\ UNCHANGED <<connection, roller, faults>>

(* update_import_progress on the job of the task.                          *)
Progress(t, status, total, imported) ==
    jobs' = [jobs EXCEPT ![JobOf(t)] =
                [@ EXCEPT !.status = status, !.total = total, !.imported = imported]]

Fetch(t) ==
    /\ task[t].pc = "fetch"
    /\ \E o \in FetchOutcomes(Provider(t), task[t].token, TypeOf(t)) :
          LET keys == {<<Provider(t), TypeOf(t), x>> : x \in o.recs}
              n    == Cardinality(keys)
          IN  IF o.raises \/ task[t].req.dry
              THEN /\ Progress(t, IF o.raises THEN "failed" ELSE "completed", n, 0)
                   /\ To(t, "next")
              ELSE /\ Progress(t, IF n = 0 THEN "completed" ELSE "in_progress", n, 0)
                   /\ task' = [task EXCEPT ![t].todo = keys,
                                           ![t].pc = IF n = 0 THEN "next" ELSE "check"]
    /\ UNCHANGED <<connection, logs, roller, faults>>

(* What a SELECT of transaction t sees of the log.                         *)
Sees(t, k) == logs[k].vis \/ logs[k].job \in Mine(t)

AlreadyImported(t, k) == Sees(t, k) /\ logs[k].result = "success"

Check(t) ==
    /\ task[t].pc = "check"
    /\ \E k \in task[t].todo :
          task' = [task EXCEPT ![t].cur = k, ![t].found = AlreadyImported(t, k),
                               ![t].pc = "insert"]
    /\ UNCHANGED <<connection, jobs, logs, roller, faults>>

(* Mutation: the constraint covers imported records only (the INSERT is an *)
(* upsert for any other row).                                              *)
Conflict_SuccessOnly(t, k) == Sees(t, k) /\ logs[k].result = "success"

(* uq_import_logs_dedup                                                    *)
Conflict(t, k) == Sees(t, k) /\ logs[k].result # "none"

MustWait(t, k) == ~ Sees(t, k) /\ logs[k].result # "none"

(* The status after the last record; failed and partial need a failed      *)
(* record, whose handler cannot write.                                     *)
FinalStatus(row) ==
    IF row.failed = 0 THEN "completed" ELSE IF row.imported > 0 THEN "partial" ELSE "failed"

(* imported += 1 and the progress update.                                  *)
Counted(t, row) ==
    IF task[t].found THEN [row EXCEPT !.skipped = @ + 1] ELSE [row EXCEPT !.imported = @ + 1]

(* log_import_result and update_import_progress of one record.             *)
Insert(t) ==
    LET k    == task[t].cur
        left == task[t].todo \ {k}
        row  == Counted(t, jobs[JobOf(t)])
    IN
    /\ task[t].pc = "insert"
    /\ ~ MustWait(t, k)
    /\ IF Conflict(t, k) \/ ~ Storable(k)
       THEN Abort(t)
       ELSE /\ logs' = [logs EXCEPT ![k] = [result |-> IF task[t].found THEN "duplicate"
                                                       ELSE "success",
                                            job |-> JobOf(t), vis |-> FALSE]]
            /\ jobs' = [jobs EXCEPT ![JobOf(t)] =
                  IF left = {} THEN [row EXCEPT !.status = FinalStatus(row)] ELSE row]
            /\ task' = [task EXCEPT ![t].todo = left, ![t].cur = <<>>, ![t].found = FALSE,
                                    ![t].pc = IF left = {} THEN "next" ELSE "check"]
    /\ UNCHANGED <<connection, roller, faults>>

NextType(t) ==
    /\ task[t].pc = "next" /\ task[t].at < Len(task[t].req.types)
    /\ task' = [task EXCEPT ![t].at = @ + 1, ![t].pc = "type"]
    /\ UNCHANGED <<connection, jobs, logs, roller, faults>>

(* The end of async with db.begin().                                       *)
Commit(t) ==
    /\ task[t].pc = "next" /\ task[t].at = Len(task[t].req.types)
    /\ jobs' = [j \in JobIds |->
                  IF j \in Mine(t) /\ jobs[j].status # "none"
                  THEN [jobs[j] EXCEPT !.vis = TRUE] ELSE jobs[j]]
    /\ logs' = [k \in Keys |-> IF logs[k].job \in Mine(t) THEN [logs[k] EXCEPT !.vis = TRUE]
                               ELSE logs[k]]
    /\ task' = [task EXCEPT ![t] = [IdleTask EXCEPT !.pc = "done"]]
    /\ UNCHANGED <<connection, roller, faults>>

(* Mutation: without a timeout only the death of the other side ends it.   *)
WaitEnds_NoTimeout(t) ==
    /\ task[t].pc = "insert" /\ MustWait(t, task[t].cur)
    /\ \E u \in Tasks : task[u].pc = "aborted"
    /\ Abort(t)
    /\ UNCHANGED <<connection, roller, faults>>

(* The statement timeout or the deadlock detector ends a waiting INSERT.   *)
WaitEnds(t) ==
    /\ task[t].pc = "insert" /\ MustWait(t, task[t].cur)
    /\ Abort(t)
    /\ UNCHANGED <<connection, roller, faults>>

(* The API process dies: a background task is not persistent.              *)
Crash(t) ==
    /\ task[t].pc \notin {"idle", "done", "aborted"}
    /\ faults < MaxFaults
    /\ faults' = faults + 1
    /\ Abort(t)
    /\ UNCHANGED <<connection, roller>>

-----------------------------------------------------------------------------
(* rollback_import: SELECT of the job, SELECT of its successful logs,      *)
(* UPDATEs and commit.  Only changed columns are written.                  *)

RollbackReadJob(r, j) ==
    /\ roller[r].pc = "idle"
    /\ jobs[j].vis /\ ~ jobs[j].rolled
    /\ roller' = [roller EXCEPT ![r] =
          [pc |-> "job", job |-> j, imported |-> jobs[j].imported,
           skipped |-> jobs[j].skipped, keys |-> {}]]
    /\ UNCHANGED <<connection, task, jobs, logs, faults>>

RollbackReadLogs(r) ==
    /\ roller[r].pc = "job"
    /\ roller' = [roller EXCEPT ![r].pc = "logs",
          ![r].keys = {k \in Keys : logs[k].vis /\ logs[k].job = roller[r].job
                                    /\ logs[k].result = "success"}]
    /\ UNCHANGED <<connection, task, jobs, logs, faults>>

(* Mutation: the counters are decremented in the database, not overwritten *)
(* with what was computed from the row read.                               *)
RolledBackRow_Relative(row, r, n) ==
    [row EXCEPT !.rolled = TRUE, !.status = "failed", !.imported = @ - n, !.skipped = @ + n]

RolledBackRow(row, r, n) ==
    [row EXCEPT !.rolled = TRUE, !.status = "failed",
       !.imported = IF n = 0 THEN @ ELSE IF roller[r].imported > n THEN roller[r].imported - n ELSE 0,
       !.skipped  = IF n = 0 THEN @ ELSE roller[r].skipped + n]

RollbackWrite(r) ==
    LET n == Cardinality(roller[r].keys) IN
    /\ roller[r].pc = "logs"
    /\ logs' = [k \in Keys |-> IF k \in roller[r].keys
                               THEN [logs[k] EXCEPT !.result = "rolled_back"] ELSE logs[k]]
    /\ jobs' = [jobs EXCEPT ![roller[r].job] = RolledBackRow(@, r, n)]
    /\ roller' = [roller EXCEPT ![r] = IdleRoller]
    /\ UNCHANGED <<connection, task, faults>>

-----------------------------------------------------------------------------
TaskStep(t) ==
    \/ BeginImport(t) \/ CreateImportJob(t) \/ Fetch(t) \/ Check(t) \/ Insert(t)
    \/ NextType(t) \/ Commit(t) \/ WaitEnds(t)

ImportNext ==
    \/ \E p \in Providers : \/ \E token \in BOOLEAN : CreateConnection(p, token)
                            \/ DeleteConnection(p)
    \/ \E t \in Tasks : TaskStep(t) \/ Crash(t)
    \/ \E t \in Tasks, r \in ImportRequests : StartImport(t, r)
    \/ \E r \in Rollers : \/ \E j \in JobIds : RollbackReadJob(r, j)
                          \/ RollbackReadLogs(r)
                          \/ RollbackWrite(r)

(* A background task runs on; a waiting INSERT is ended by the server.     *)
ImportFairness == \A t \in Tasks : WF_importVars(TaskStep(t))

ImportSpec == ImportInit /\ [][ImportNext]_importVars /\ ImportFairness

-----------------------------------------------------------------------------
(* get_migration_metrics, the admin overview and the admin list of running *)
(* imports, over the committed jobs.                                       *)

Committed == {j \in JobIds : jobs[j].vis}
Having(S) == {j \in Committed : jobs[j].status \in S}

Metrics ==
    [total     |-> Cardinality(Committed),
     completed |-> Cardinality(Having({"completed", "partial"})),
     failed    |-> Cardinality(Having({"failed"})),
     rolled    |-> Cardinality({j \in Committed : jobs[j].rolled})]

ActiveImports == Having({"in_progress"})

(* get_import_report: the job's row with the log rows that name it.        *)
ImportReport(j) ==
    [row |-> jobs[j], logs |-> {k \in Keys : logs[k].vis /\ logs[k].job = j}]

(* dry_run_scan, when the provider answers.                                *)
DryRunScan(p, y) ==
    LET keys       == {k \in Keys : k[1] = p /\ k[2] = y}
        duplicates == {k \in keys : logs[k].vis /\ logs[k].result = "success"}
    IN  [total |-> Cardinality(keys), new |-> Cardinality(keys \ duplicates),
         duplicates |-> Cardinality(duplicates)]

-----------------------------------------------------------------------------
(* Every import that anyone can see is completed or failed, and the        *)
(* administrators' list of running imports is always empty, because an     *)
(* import's rows only become visible when it is over.                      *)
OverviewAddsUp ==
    /\ Metrics.completed + Metrics.failed = Metrics.total
    /\ ActiveImports = {}
    /\ Metrics.rolled <= Metrics.failed

(* The records that dry runs report as duplicates are as many as the       *)
(* visible imports count as imported, rolled back or not.                  *)
DuplicatesAddUp ==
    MapThenSumSet(LAMBDA j : ImportReport(j).row.imported, Committed)
        = MapThenSumSet(LAMBDA py : DryRunScan(py[1], py[2]).duplicates, Providers \X Types)

(* What get_migration_metrics and dry_run_scan show adds up.               *)
MetricsAddUp == OverviewAddsUp /\ DuplicatesAddUp

(* A visible job counts exactly the records that the log attributes to it  *)
(* as imported, also after concurrent rollback_import requests; no visible *)
(* job ever skipped or failed a single record on import: one such record   *)
(* takes the whole import with it.                                         *)
CountsMatchLogs ==
    \A j \in Committed :
        /\ jobs[j].imported =
              Cardinality({k \in ImportReport(j).logs : logs[k].result = "success"})
        /\ jobs[j].failed = 0
        /\ jobs[j].imported + jobs[j].skipped = IF jobs[j].dry THEN 0 ELSE jobs[j].total

(* A record that was imported and rolled back is never imported again:     *)
(* already_imported does not find it, but the unique constraint still      *)
(* holds its key and aborts the import that tries.                         *)
RolledBackIsFinal ==
    [][\A k \in Keys : logs[k].result = "rolled_back" => logs'[k] = logs[k]]_importVars

(* Every accepted import ends, committed or rolled back, although imports  *)
(* of the same records wait for each other's log rows.                     *)
ImportsEnd ==
    \A t \in Tasks : (task[t].pc = "queued") ~> (task[t].pc \in {"done", "aborted"})
=============================================================================
