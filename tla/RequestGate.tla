----------------------------- MODULE RequestGate -----------------------------
(***************************************************************************)
(* What stands between an HTTP request and its transaction: the shutdown   *)
(* guard, the database circuit breaker (a hash in Redis with a             *)
(* process-local fallback), the session of get_db and the idempotency      *)
(* record that lives inside the session's transaction.                     *)
(*                                                                         *)
(* Several replicas share Redis and PostgreSQL.  Clients send a request    *)
(* again, with the same key, whenever it has ended.                        *)
(*                                                                         *)
(* Time is abstract: a cooldown is running or over, and the hash may       *)
(* expire (600 s) once a first cooldown (at most 300 s) is over.  One      *)
(* counter bounds outages, database errors, crashes, shutdowns and         *)
(* requests that fail after their task was sent.                           *)
(***************************************************************************)
EXTENDS Integers, FiniteSets

CONSTANTS
    Replicas,        \* API processes
    Requests,        \* requests clients have open, one at a time each
    Keys,            \* Idempotency-Key values of one user
    ErrorThreshold,  \* _POOL_CIRCUIT_ERROR_THRESHOLD
    MaxFaults        \* bound on outages, database errors, crashes, shutdowns, tasks lost

ASSUME GateAssumption ==
    /\ ErrorThreshold \in Nat \ {0}
    /\ MaxFaults \in Nat
    /\ "read" \notin Keys
    /\ IsFiniteSet(Requests)

VARIABLES
    hash,      \* the Redis hash db:circuit:breaker
    circ,      \* _POOL_CIRCUIT_* of each replica
    redis,     \* whether the Redis server answers
    knows,     \* replicas whose sync pool has noticed that Redis is away
    req,       \* each request: where it is, its replica, its key or "read"
    records,   \* keys with a committed idempotency record
    mode,      \* each replica: serving, draining, closed or gone
    active,    \* _active_requests of each replica
    sent,      \* history: Celery tasks sent under each key since it was last cleaned up
    lost,      \* history: those of them whose request was rolled back afterwards
    faults

vars == <<hash, circ, redis, knows, req, records, mode, active, sent, lost, faults>>

Breaker == <<hash, circ, redis, knows>>
Store   == <<records, sent, lost>>

(* used: half_open and half_open_probed, as the number of probes granted;  *)
(* ripe: the hash may expire.                                              *)
NoHash == [on |-> FALSE, cool |-> FALSE, used |-> 0, ripe |-> FALSE]

(* spent: half open and probed; level: backoff level, 2 for 2 or more.     *)
NoTrouble == [open |-> FALSE, cool |-> FALSE, spent |-> FALSE, level |-> 0, errs |-> 0]

Idle == [pc |-> "idle", at |-> CHOOSE r \in Replicas : TRUE, key |-> "read", row |-> FALSE]

Init ==
    /\ hash = NoHash
    /\ circ = [r \in Replicas |-> NoTrouble]
    /\ redis = "up" /\ knows = {}
    /\ req = [q \in Requests |-> Idle]
    /\ records = {} /\ sent = [k \in Keys |-> 0] /\ lost = sent
    /\ mode = [r \in Replicas |-> "serving"]
    /\ active = [r \in Replicas |-> 0]
    /\ faults = 0

-----------------------------------------------------------------------------
(* The circuit breaker                                                     *)

(* get_sync_redis: a client that answers, one that fails, or none.         *)
Reach(r) == CASE redis = "up"  -> "redis"
              [] r \in knows   -> "local"
              [] OTHER         -> "error"

(* _CIRCUIT_LUA_CHECK: the answer, and the hash afterwards.                *)
HashVerdict(h) ==
    CASE ~ h.on      -> "closed"
      [] h.cool      -> "deny"
      [] h.used < 2  -> "probe"
      [] OTHER       -> "deny"

(* Mutation: a refused check renews the TTL of the hash.                   *)
HashAfter_Renews(h) ==
    CASE ~ h.on \/ h.cool -> h
      [] h.used < 2       -> [h EXCEPT !.used = @ + 1]
      [] OTHER            -> [h EXCEPT !.cool = TRUE, !.ripe = FALSE]

HashAfter(h) ==
    CASE ~ h.on \/ h.cool -> h
      [] h.used < 2       -> [h EXCEPT !.used = @ + 1]
      [] OTHER            -> [h EXCEPT !.cool = TRUE]

(* The process-local fallback grants one probe.                            *)
LocalVerdict(c) ==
    CASE ~ c.open  -> "closed"
      [] c.cool    -> "deny"
      [] ~ c.spent -> "probe"
      [] OTHER     -> "deny"

LocalAfter(c) ==
    CASE ~ c.open \/ c.cool -> c
      [] ~ c.spent          -> [c EXCEPT !.spent = TRUE]
      [] OTHER              -> [c EXCEPT !.cool = TRUE]

(* _check_db_circuit.  A denial and any Redis error end as TypeError       *)
(* ("except _db_unavailable.__class__" names the type of functions).       *)
Verdict(r) ==
    CASE Reach(r) = "redis" -> HashVerdict(hash)
      [] Reach(r) = "local" -> LocalVerdict(circ[r])
      [] OTHER              -> "deny"

Ask(r) ==
    /\ circ' = IF Reach(r) = "local" THEN [circ EXCEPT ![r] = LocalAfter(@)] ELSE circ
    /\ hash' = IF Reach(r) = "redis" THEN HashAfter(hash) ELSE hash
    /\ UNCHANGED <<redis, knows>>

(* _CIRCUIT_LUA_OPEN compares the level with the first value of the hash,  *)
(* which is that of "open": a hash is rewritten from level 2 on.           *)
Rewrites(level) == ~ hash.on \/ level > 1

OpenHash == [on |-> TRUE, cool |-> TRUE, used |-> 0, ripe |-> FALSE]

(* _record_pool_exhaustion by a replica whose local state is c.            *)
Exhausted(r, c) ==
    LET level == IF c.level < 2 THEN c.level + 1 ELSE 2
        shared == Reach(r) = "redis" /\ Rewrites(level)
    IN
    /\ hash' = IF shared THEN OpenHash ELSE hash
    /\ circ' = [circ EXCEPT ![r] =
                  IF shared THEN [c EXCEPT !.level = level]
                  ELSE [c EXCEPT !.level = level, !.open = TRUE, !.cool = TRUE, !.spent = FALSE]]
    /\ UNCHANGED <<redis, knows>>

(* _record_db_error                                                        *)
RecordError(r) ==
    LET c == [circ[r] EXCEPT !.errs = IF @ < ErrorThreshold THEN @ + 1 ELSE @] IN
    IF c.errs >= ErrorThreshold
    THEN Exhausted(r, c)
    ELSE circ' = [circ EXCEPT ![r] = c] /\ UNCHANGED <<hash, redis, knows>>

(* Mutation: only the shared state is reset.                               *)
Reset_HashOnly(r) ==
    /\ hash' = IF Reach(r) = "redis" THEN NoHash ELSE hash
    /\ UNCHANGED <<circ, redis, knows>>

(* _reset_circuit_breaker; without a working client the hash stays.        *)
Reset(r) ==
    /\ circ' = [circ EXCEPT ![r] = NoTrouble]
    /\ hash' = IF Reach(r) = "redis" THEN NoHash ELSE hash
    /\ UNCHANGED <<redis, knows>>

-----------------------------------------------------------------------------
(* Arrival                                                                 *)

InHandler == {"check", "lookup", "insert", "work", "commit"}
InSession == {"lookup", "insert", "work", "commit"}

(* add_security_headers: _shutdown_event is set.                           *)
Refuses(r) == mode[r] # "serving"

(* _ActiveRequestTracker.__aenter__                                        *)
Enter(r) == active' = [active EXCEPT ![r] = @ + 1]

(* Mutation: a refused request is counted out though it was never counted. *)
Arrive_Uncounted(q, r, k) ==
    /\ req[q].pc = "idle"
    /\ mode[r] \notin {"closed", "gone"}
    /\ IF Refuses(r)
       THEN /\ active' = [active EXCEPT ![r] = IF @ > 0 THEN @ - 1 ELSE 0]
            /\ UNCHANGED req
       ELSE /\ Enter(r)
            /\ req' = [req EXCEPT ![q] = [pc |-> "check", at |-> r, key |-> k, row |-> FALSE]]
    /\ UNCHANGED <<Breaker, Store, mode, faults>>

(* A refused request is answered 503 and ends at once.                     *)
Arrive(q, r, k) ==
    /\ req[q].pc = "idle"
    /\ mode[r] \notin {"closed", "gone"}
    /\ IF Refuses(r)
       THEN UNCHANGED <<req, active>>
       ELSE /\ Enter(r)
            /\ req' = [req EXCEPT ![q] = [pc |-> "check", at |-> r, key |-> k, row |-> FALSE]]
    /\ UNCHANGED <<Breaker, Store, mode, faults>>

(* _ActiveRequestTracker.__aexit__; the session's transaction is over.     *)
Leave(q) ==
    LET r == req[q].at IN
    /\ active' = [active EXCEPT ![r] = IF @ > 0 THEN @ - 1 ELSE 0]
    /\ req' = [req EXCEPT ![q] = Idle]

Goto(q, pc) == req' = [req EXCEPT ![q].pc = pc]

-----------------------------------------------------------------------------
(* get_db                                                                  *)

(* The circuit lets the request through and a session is opened.           *)
Admit(q) ==
    LET r == req[q].at
        probe == Reach(r) = "redis" /\ Verdict(r) = "probe"
    IN
    /\ req[q].pc = "check"
    /\ Verdict(r) # "deny"
    /\ circ' = IF Reach(r) = "local" THEN [circ EXCEPT ![r] = LocalAfter(@)] ELSE circ
    /\ hash' = IF probe THEN HashAfter(hash) ELSE hash
    /\ Goto(q, "lookup")
    /\ UNCHANGED <<redis, knows, Store, mode, active, faults>>

(* 500: the circuit is open, or a probe is granted to a replica without an *)
(* idle connection (pool.total() does not exist).                          *)
Deny(q) ==
    LET r == req[q].at IN
    /\ req[q].pc = "check"
    /\ \/ Verdict(r) = "deny"
       \/ Verdict(r) = "probe" /\ Reach(r) = "redis"
    /\ Ask(r)
    /\ Leave(q)
    /\ UNCHANGED <<Store, mode, faults>>

(* get_idempotent_response: a committed record is answered from.           *)
Lookup(q) ==
    LET k == req[q].key IN
    /\ req[q].pc = "lookup"
    /\ Goto(q, CASE k = "read"     -> "commit"
                 [] k \in records  -> "commit"
                 [] OTHER          -> "insert")
    /\ UNCHANGED <<Breaker, Store, mode, active, faults>>

(* Mutation: no unique index on (company, user, key).                      *)
InsertRecord_NoIndex(q) ==
    /\ req[q].pc = "insert"
    /\ req' = [req EXCEPT ![q].pc = "work", ![q].row = TRUE]
    /\ UNCHANGED <<Breaker, Store, mode, active, faults>>

(* create_idempotency_record: the INSERT waits for another transaction     *)
(* with the key; after a conflict the session is unusable and the request  *)
(* fails.                                                                  *)
InsertRecord(q) ==
    LET k == req[q].key IN
    /\ req[q].pc = "insert"
    /\ \A o \in Requests \ {q} : ~ (req[o].row /\ req[o].key = k)
    /\ IF k \in records
       THEN Leave(q)
       ELSE req' = [req EXCEPT ![q].pc = "work", ![q].row = TRUE] /\ UNCHANGED active
    /\ UNCHANGED <<Breaker, Store, mode, faults>>

(* The rest of the handler, complete_idempotency_record included.  The     *)
(* Celery task is on the broker before the transaction commits.            *)
Work(q) ==
    /\ req[q].pc = "work"
    /\ sent' = [sent EXCEPT ![req[q].key] = @ + 1]
    /\ Goto(q, "commit")
    /\ UNCHANGED <<Breaker, records, lost, mode, active, faults>>

(* A request that has sent a task under key k and has not committed yet.   *)
HasSent(q, k) == req[q].pc = "commit" /\ req[q].row /\ req[q].key = k

(* The requests in S end without a commit: the record is rolled back, the  *)
(* task stays on the broker.                                               *)
RolledBack(S) ==
    /\ lost' = [k \in Keys |-> lost[k] + Cardinality({q \in S : HasSent(q, k)})]
    /\ UNCHANGED <<records, sent>>

(* One that fails after its task was sent counts as a fault.               *)
CountsLoss(q) ==
    IF \E k \in Keys : HasSent(q, k)
    THEN faults < MaxFaults /\ faults' = faults + 1
    ELSE UNCHANGED faults

(* What the transaction adds when it commits.                              *)
Stored(q) == IF req[q].row THEN records \cup {req[q].key} ELSE records

(* session.commit() and then _reset_circuit_breaker().                     *)
Commit(q) ==
    /\ req[q].pc = "commit"
    /\ records' = Stored(q)
    /\ Reset(req[q].at)
    /\ Leave(q)
    /\ UNCHANGED <<sent, lost, mode, faults>>

(* An HTTPException of the handler (4xx, 503) or a client that goes away:  *)
(* rolled back, the circuit is left alone.                                 *)
Abandon(q) ==
    /\ req[q].pc \in InSession
    /\ RolledBack({q}) /\ CountsLoss(q)
    /\ Leave(q)
    /\ UNCHANGED <<Breaker, mode>>

(* request_timeout_middleware is outside the tracker: a handler that takes *)
(* too long, wherever it waits, is cancelled and counted out.              *)
TimeOut(q) ==
    /\ req[q].pc \in InHandler
    /\ RolledBack({q}) /\ CountsLoss(q)
    /\ Leave(q)
    /\ UNCHANGED <<Breaker, mode>>

(* A pool timeout opens the circuit at once; a retryable error is counted, *)
(* by get_db only, and fails the request (the second yield).               *)
DbError(q, kind) ==
    /\ req[q].pc \in InSession
    /\ faults < MaxFaults
    /\ faults' = faults + 1
    /\ CASE kind = "pool"              -> Exhausted(req[q].at, circ[req[q].at])
         [] kind = "retryable"
              /\ req[q].key # "read"   -> RecordError(req[q].at)
         [] OTHER                      -> UNCHANGED Breaker
    /\ RolledBack({q})
    /\ Leave(q)
    /\ UNCHANGED mode

(* cleanup_expired_idempotency_keys, 600 s after the record was made.      *)
Cleanup(k) ==
    /\ k \in records
    /\ records' = records \ {k}
    /\ sent' = [sent EXCEPT ![k] = 0]
    /\ lost' = [lost EXCEPT ![k] = 0]
    /\ UNCHANGED <<Breaker, req, mode, active, faults>>

-----------------------------------------------------------------------------
(* GET /readyz and /health ask the circuit too and spend its probes; the   *)
(* connection they then open neither resets nor trips it.                  *)

Ready(r) ==
    /\ mode[r] = "serving"
    /\ Ask(r)
    /\ UNCHANGED <<req, Store, mode, active, faults>>

(* The components of /readyz.  The process-local flag alone marks the      *)
(* database as degraded; only a commit clears it.                          *)
DatabaseOk(r) == ~ circ[r].open

RedisOk(r) == redis = "up" /\ r \notin knows

(* AI gateway, Celery, Stripe addresses, limiter, retry storms, canary and *)
(* beat tasks: kept elsewhere, each may be well or not.                    *)
OthersOk == BOOLEAN

(* 200 needs the circuit's leave and every component.                      *)
AnswersReady(r) ==
    /\ mode[r] = "serving" /\ Verdict(r) # "deny"
    /\ \E others \in OthersOk : others /\ DatabaseOk(r) /\ RedisOk(r)

Health(r) ==
    /\ mode[r] = "serving"
    /\ Ask(r)
    /\ UNCHANGED <<req, Store, mode, active, faults>>

-----------------------------------------------------------------------------
(* Shutdown and restart                                                    *)

Shutdown(r) ==
    /\ mode[r] = "serving"
    /\ faults < MaxFaults
    /\ faults' = faults + 1
    /\ mode' = [mode EXCEPT ![r] = "draining"]
    /\ UNCHANGED <<Breaker, req, Store, active>>

(* The lifespan loop sees _active_requests = 0.                            *)
Drained(r) ==
    /\ mode[r] = "draining"
    /\ active[r] = 0
    /\ mode' = [mode EXCEPT ![r] = "closed"]
    /\ UNCHANGED <<Breaker, req, Store, active, faults>>

(* The process is gone; what it was doing is rolled back.                  *)
Gone(r) ==
    /\ mode' = [mode EXCEPT ![r] = "gone"]
    /\ active' = [active EXCEPT ![r] = 0]
    /\ req' = [q \in Requests |-> IF req[q].at = r THEN Idle ELSE req[q]]
    /\ circ' = [circ EXCEPT ![r] = NoTrouble]
    /\ knows' = knows \ {r}
    /\ RolledBack({q \in Requests : req[q].at = r})
    /\ UNCHANGED <<hash, redis>>

(* SHUTDOWN_GRACE_SECONDS pass, or the drained process ends.               *)
Exit(r) ==
    /\ mode[r] \in {"draining", "closed"}
    /\ Gone(r)
    /\ UNCHANGED faults

Crash(r) ==
    /\ mode[r] # "gone"
    /\ faults < MaxFaults
    /\ faults' = faults + 1
    /\ Gone(r)

(* AI health, Stripe addresses, tenant monitor, Vault, Sentry, settings:   *)
(* of these only a failing Vault validation keeps the process down.        *)
Outcomes == {"serving", "gone"}

(* The lifespan of the new process up to its yield: it waits for the       *)
(* database and for Redis, goes on whatever it found, and starts with      *)
(* fresh globals.                                                          *)
Startup(r) ==
    /\ mode[r] = "gone"
    /\ \E outcome \in Outcomes : mode' = [mode EXCEPT ![r] = outcome]
    /\ UNCHANGED <<Breaker, req, Store, active, faults>>

-----------------------------------------------------------------------------
(* Time and Redis                                                          *)

CooldownOver ==
    /\ hash.on /\ hash.cool
    /\ hash' = [hash EXCEPT !.cool = FALSE, !.ripe = TRUE]
    /\ UNCHANGED <<circ, redis, knows, req, Store, mode, active, faults>>

HashExpires ==
    /\ hash.on /\ hash.ripe
    /\ hash' = NoHash
    /\ UNCHANGED <<circ, redis, knows, req, Store, mode, active, faults>>

LocalCooldownOver(r) ==
    /\ circ[r].open /\ circ[r].cool
    /\ circ' = [circ EXCEPT ![r].cool = FALSE]
    /\ UNCHANGED <<hash, redis, knows, req, Store, mode, active, faults>>

RedisDown ==
    /\ redis = "up"
    /\ faults < MaxFaults
    /\ faults' = faults + 1
    /\ redis' = "down"
    /\ UNCHANGED <<hash, circ, knows, req, Store, mode, active>>

(* The 15 s health interval of the sync pool is over: its ping fails.      *)
Notice(r) ==
    /\ redis = "down"
    /\ r \notin knows
    /\ knows' = knows \cup {r}
    /\ UNCHANGED <<hash, circ, redis, req, Store, mode, active, faults>>

RedisUp ==
    /\ redis = "down"
    /\ redis' = "up" /\ knows' = {}
    /\ UNCHANGED <<hash, circ, req, Store, mode, active, faults>>

Step(q) == Admit(q) \/ Deny(q) \/ Lookup(q) \/ InsertRecord(q) \/ Work(q) \/ Commit(q)

Next ==
    \/ \E q \in Requests :
         \/ \E r \in Replicas, k \in Keys \cup {"read"} : Arrive(q, r, k)
         \/ Step(q)
         \/ Abandon(q) \/ TimeOut(q)
         \/ \E kind \in {"pool", "retryable", "other"} : DbError(q, kind)
    \/ \E k \in Keys : Cleanup(k)
    \/ \E r \in Replicas : Ready(r) \/ Health(r) \/ Shutdown(r) \/ Drained(r) \/ Exit(r)
                         \/ Crash(r) \/ Startup(r)
    \/ CooldownOver \/ HashExpires
    \/ \E r \in Replicas : LocalCooldownOver(r) \/ Notice(r)
    \/ RedisDown \/ RedisUp

(* Requests take their steps, PostgreSQL serves those that wait for a row  *)
(* in turn, time passes and Redis comes back.                              *)
Fairness ==
    /\ \A q \in Requests : WF_vars(Step(q)) /\ SF_vars(InsertRecord(q))
    /\ WF_vars(CooldownOver) /\ WF_vars(HashExpires) /\ WF_vars(RedisUp)

Spec == Init /\ [][Next]_vars /\ Fairness

-----------------------------------------------------------------------------
(* However often and on however many replicas a request is sent with the   *)
(* same key, a second task is sent only when the request that sent the     *)
(* first was rolled back (ai/router.py:381, before the commit): never      *)
(* beside one that is still under way, and never once its record is        *)
(* committed and until it is cleaned up.                                   *)
RepeatedAfterRollback == \A k \in Keys : sent[k] <= lost[k] + 1

(* A replica that closes because its count of active requests reached zero *)
(* has no request in a handler (main.py:64, "guarantees exactly-once       *)
(* increment/decrement").                                                  *)
DrainIsClean ==
    \A r \in Replicas : mode[r] = "closed" =>
        \A q \in Requests : req[q].pc # "idle" => req[q].at # r

(* The circuit does not stay open for ever once faults have stopped, even  *)
(* if readiness probes spend every probe and push the cooldown on: the     *)
(* TTL of the hash is not renewed (database.py:335).                       *)
CircuitCloses == <>[](\A r \in Replicas : Verdict(r) = "closed")

(* A replica that goes on committing requests goes on being able to answer *)
(* ready: no state of its circuit is left behind that a success does not   *)
(* clear (main.py:683; without a commit the local flag stays).             *)
ReadyRecovers ==
    \A r \in Replicas :
        []<><<\E q \in Requests : req[q].at = r /\ Commit(q)>>_vars => []<>AnswersReady(r)

=============================================================================
