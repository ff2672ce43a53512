------------------------------ MODULE JobSocket ------------------------------
(***************************************************************************)
(* The job-status WebSocket (app/ai/router.py): admission of a connection, *)
(* its handler, the task that sends what the handler queues, and the way   *)
(* both end.  One process, one user, one job.  Other processes share the   *)
(* Redis set that bounds all connections, each with a semaphore of its own:*)
(* of theirs only what they do to that set is modelled.                    *)
(*                                                                         *)
(* A step runs from one await that can yield to the event loop to the      *)
(* next.  Putting into a queue that is not full and taking a free lock do  *)
(* not yield (Python 3.12), so that a handler that queues a message and    *)
(* breaks out of its loop cancels the sender before the sender sees the    *)
(* message.  Waiting for a cancelled sender then raises CancelledError,    *)
(* which "except Exception" does not catch: the rest of the finally block  *)
(* (unsubscribe, both decrements) is skipped.                              *)
(*                                                                         *)
(* The task of JobPipeline publishes "complete" and writes its trace in a  *)
(* session of its own BEFORE it commits output and state.                  *)
(***************************************************************************)
EXTENDS Integers, Sequences, FiniteSets

CONSTANTS
    Conns,        \* connections clients may open, again and again
    Elsewhere,    \* places of the accept semaphores of the other processes
    AcceptLimit,  \* WS_ACCEPT_SEMAPHORE
    MaxGlobal,    \* _MAX_WS_CONNECTIONS_GLOBAL
    MaxPerUser,   \* _MAX_WS_CONNECTIONS_PER_USER
    LocalMax,     \* the per-user limit without Redis
    PoolMax,      \* connections of the process's Redis pool
    QueueCap,     \* length of a send queue
    MaxVersion,   \* bound on token revocations
    MaxEvents     \* bound on outages, failing commits, revocations, deactivations

ASSUME SocketAssumption ==
    /\ AcceptLimit \in Nat \ {0} /\ MaxGlobal \in Nat \ {0} /\ QueueCap \in Nat \ {0}
    /\ MaxPerUser \in Nat \ {0} /\ LocalMax \in 1 .. MaxPerUser /\ PoolMax \in Nat \ {0}
    /\ IsFiniteSet(Conns) /\ IsFiniteSet(Elsewhere)

VARIABLES
    conn,       \* handler and sender of each connection
    slots,      \* whose member is in the Redis set ws_global_connections
    other,      \* the handler in each place elsewhere: [pc, in (the set)]
    stray,      \* members of that set whose connection is over
    ttl,        \* of that set: "none", "fresh", or "old" when an hour is nearly over
    recent,     \* Redis sorted set ws_conn:<user>, entries of the last minute
    local,      \* the same without Redis, in the process
    pool,       \* connections whose pub/sub connection is checked out of the pool
    user,       \* the users row: [active, version]
    cached,     \* _ws_auth_cache, or None
    shared,     \* Redis key ws_auth:<user>, or None
    job,        \* what the database shows of the job
    traces,     \* statuses among the execution traces
    redis, events

socketVars == <<conn, slots, other, stray, ttl, recent, local, pool, user, cached, shared, job, traces,
                redis, events>>

None == [active |-> TRUE, version |-> -1]

Fresh == [pc |-> "idle", sender |-> "none", queue |-> <<>>, ver |-> 0, sub |-> "none",
          inbox |-> FALSE, poll |-> FALSE, errs |-> 0, told |-> FALSE]

Nobody == [pc |-> "free", in |-> FALSE]

SocketInit ==
    /\ conn = [c \in Conns |-> Fresh]
    /\ slots = {} /\ recent = {} /\ local = {} /\ pool = {}
    /\ other = [p \in Elsewhere |-> Nobody] /\ stray = 0 /\ ttl = "none"
    /\ user = [active |-> TRUE, version |-> 0]
    /\ cached = None /\ shared = None
    /\ job = "processing" /\ traces = {}
    /\ redis = "up" /\ events = 0

Global   == <<slots, other, stray, ttl>>
Counters == <<Global, recent, local>>
Auth     == <<user, cached, shared>>
JobVars  == <<job, traces>>
Env      == <<redis, events>>

At(c, pc)  == conn[c].pc = pc
Set(c, r)  == conn' = [conn EXCEPT ![c] = r]
Goto(c, pc) == conn' = [conn EXCEPT ![c].pc = pc]
Over(c)    == Set(c, Fresh)

(* get_redis answers with a client that works: the server is up and the    *)
(* pool has a free connection.                                             *)
Reach == redis = "up" /\ Cardinality(pool) < PoolMax

-----------------------------------------------------------------------------
(* Admission                                                               *)

(* A connection that is over frees its name for the next one, once no key  *)
(* of Redis knows it.                                                      *)
Open(c) ==
    /\ At(c, "idle")
    /\ c \notin recent \cup local \cup pool
    /\ Set(c, [Fresh EXCEPT !.pc = "wait"])
    /\ UNCHANGED <<Counters, pool, Auth, JobVars, Env>>

(* async with _ws_accept_semaphore around the whole handler.               *)
Room == Cardinality({d \in Conns : conn[d].pc \notin {"idle", "wait"}}) < AcceptLimit

Admit(c) ==
    /\ At(c, "wait")
    /\ Room
    /\ Goto(c, "auth")
    /\ UNCHANGED <<Counters, pool, Auth, JobVars, Env>>

(* _verify_ws_token: the user is read with the version v of the token.     *)
TokenAccepted(v) == user.active /\ v >= user.version

(* _ws_origin_allowed: the Origin header names one of cors_origins.        *)
OriginAllowed(asked) == asked # "from elsewhere"

(* Origin, token and job are checked.  The token must be in the header:    *)
(* receive_text before accept raises.                                      *)
VerifyToken(c, asked, v) ==
    /\ At(c, "auth")
    /\ IF OriginAllowed(asked) /\ asked = "well" /\ TokenAccepted(v)
       THEN Set(c, [conn[c] EXCEPT !.pc = "count", !.ver = user.version])
       ELSE Over(c)
    /\ UNCHANGED <<Counters, pool, Auth, JobVars, Env>>

(* SCARD of ws_global_connections.                                         *)
Members == Cardinality(slots) + Cardinality({p \in Elsewhere : other[p].in}) + stray

(* Mutation: the limit itself still counts as room.                        *)
HasRoom_AtLimit == Members <= MaxGlobal

HasRoom == Members < MaxGlobal

(* Redis removes a key with its last member.                               *)
KeyGone == slots' = {} /\ stray' = 0 /\ \A p \in Elsewhere : ~ other'[p].in

(* Mutation: EXPIRE for everyone who asks, admitted or not.                *)
CountGlobal_Renews(c) ==
    /\ At(c, "count")
    /\ IF Reach /\ HasRoom THEN Goto(c, "add") ELSE Over(c)
    /\ ttl' = IF Reach /\ Members # 0 THEN "fresh" ELSE ttl
    /\ UNCHANGED <<slots, other, stray, recent, local, pool, Auth, JobVars, Env>>

(* _increment_ws_global: SCARD, SADD, EXPIRE.  Without Redis the fallback  *)
(* raises UnboundLocalError (no "global" statement), whatever has been     *)
(* done by then.                                                           *)
CountGlobal(c) ==
    /\ At(c, "count")
    /\ IF Reach /\ HasRoom THEN Goto(c, "add") ELSE Over(c)
    /\ UNCHANGED <<Counters, pool, Auth, JobVars, Env>>

AddGlobal(c) ==
    /\ At(c, "add")
    /\ IF Reach
       THEN Goto(c, "renew") /\ slots' = slots \cup {c}
       ELSE Over(c) /\ UNCHANGED slots
    /\ UNCHANGED <<other, stray, ttl, recent, local, pool, Auth, JobVars, Env>>

(* A member that nobody will remove.                                       *)
SlotLeaked(c) ==
    /\ slots' = slots \ {c}
    /\ stray' = IF c \in slots THEN stray + 1 ELSE stray
    /\ UNCHANGED <<other, ttl>>

RenewSlots(c) ==
    /\ At(c, "renew")
    /\ IF Reach
       THEN /\ Goto(c, "user")
            /\ ttl' = IF Members # 0 THEN "fresh" ELSE ttl
            /\ UNCHANGED <<slots, other, stray>>
       ELSE Over(c) /\ SlotLeaked(c)
    /\ UNCHANGED <<recent, local, pool, Auth, JobVars, Env>>

(* _decrement_ws_global: SREM of the member.  The local count that it      *)
(* lowers without Redis is never raised.                                   *)
SlotFreed(c) ==
    IF Reach
    THEN /\ slots' = slots \ {c}
         /\ UNCHANGED <<other, stray>>
         /\ ttl' = IF KeyGone THEN "none" ELSE ttl
    ELSE SlotLeaked(c)

(* _increment_ws_connection; a refused connection gives its slot back if   *)
(* Redis can be reached.                                                   *)
AddUser(c) ==
    /\ At(c, "user")
    /\ IF Reach
       THEN /\ UNCHANGED local
            /\ IF Cardinality(recent) < MaxPerUser
               THEN recent' = recent \cup {c} /\ Goto(c, "accepted") /\ UNCHANGED Global
               ELSE SlotFreed(c) /\ Over(c) /\ UNCHANGED recent
       ELSE /\ UNCHANGED recent
            /\ IF Cardinality(local) < LocalMax
               THEN local' = local \cup {c} /\ Goto(c, "accepted") /\ UNCHANGED Global
               ELSE UNCHANGED local /\ Over(c) /\ SlotFreed(c)
    /\ UNCHANGED <<pool, Auth, JobVars, Env>>

-----------------------------------------------------------------------------
(* The same in the other processes, where Redis may be out of reach at any *)
(* time.  A connection that is refused leaves its place as it found it.    *)

Place(p, h) == other' = [other EXCEPT ![p] = h]

Home == <<conn, slots, recent, local, pool, Auth, JobVars, Env>>

OtherCounts(p) ==
    /\ other[p].pc = "free" /\ redis = "up" /\ HasRoom
    /\ Place(p, [pc |-> "add", in |-> FALSE])
    /\ UNCHANGED <<stray, ttl, Home>>

OtherAdds(p) ==
    /\ other[p].pc = "add"
    /\ \/ redis = "up" /\ Place(p, [pc |-> "renew", in |-> TRUE])
       \/ Place(p, Nobody)
    /\ UNCHANGED <<stray, ttl, Home>>

OtherRenews(p) ==
    /\ other[p].pc = "renew" /\ redis = "up"
    /\ Place(p, [other[p] EXCEPT !.pc = "served"])
    /\ ttl' = IF Members # 0 THEN "fresh" ELSE ttl
    /\ UNCHANGED <<stray, Home>>

OtherLeaves(p) ==
    /\ other[p].pc = "served" /\ redis = "up"
    /\ Place(p, Nobody) /\ UNCHANGED <<stray, Home>>
    /\ ttl' = IF KeyGone THEN "none" ELSE ttl

(* EXPIRE fails, the cleanup is cut short, or SREM fails.                  *)
OtherLeaks(p) ==
    /\ other[p].pc \in {"renew", "served"}
    /\ Place(p, Nobody)
    /\ stray' = IF other[p].in THEN stray + 1 ELSE stray
    /\ UNCHANGED <<ttl, Home>>

-----------------------------------------------------------------------------
(* The send queue.  A put into a full queue times out and drops the oldest *)
(* message.                                                                *)
SendSafe(q, m) == Append(IF Len(q) < QueueCap THEN q ELSE Tail(q), m)

(* What is queued: the completion, a status that was replayed, and the     *)
(* rest (pong, error, processing).                                         *)
Messages == {"complete", "replayed", "other"}

(* _replay_missed_events: redis-py hands the fields of a stream entry over *)
(* as a dict, fields[0] raises, and the traces in the database are used.   *)
(* Trace ids and last_event_id are random, any of them may be later.       *)
ReplayMissed(c) ==
    /\ At(c, "accepted")
    /\ \E q \in {<<>>} \cup {<<"replayed">> : t \in traces} :
          Set(c, [conn[c] EXCEPT !.pc = "subscribe", !.sender = "running", !.queue = q])
    /\ UNCHANGED <<Counters, pool, Auth, JobVars, Env>>

(* Without a client there is no subscription and nothing falls back to     *)
(* polling; a client that fails leaves one that raises on every read.      *)
Subscribe(c) ==
    /\ At(c, "subscribe")
    /\ IF Reach
       THEN /\ Set(c, [conn[c] EXCEPT !.pc = "receive", !.sub = "on"])
            /\ pool' = pool \cup {c}
       ELSE /\ \E s \in {"none", "failed"} :
                  Set(c, [conn[c] EXCEPT !.pc = "receive", !.sub = s])
            /\ UNCHANGED pool
    /\ UNCHANGED <<Counters, Auth, JobVars, Env>>

-----------------------------------------------------------------------------
(* The ways out.  Leave is the finally block of the handler.               *)

(* The sender was still running and is cancelled, with all that is left in *)
(* its queue: CancelledError.                                              *)
Aborts(r) == r.sender = "running"

(* _send_queue.put(None) blocks for ever when the queue is full.           *)
Jams(r) == Len(r.queue) = QueueCap

(* unsubscribe, then close: when the first fails the connection stays out. *)
Closed(c) == IF redis = "up" THEN {pool \ {c}} ELSE {pool, pool \ {c}}

Leave(c, r) ==
    IF Jams(r)
    THEN /\ Set(c, [r EXCEPT !.pc = "jammed", !.sender = "ended"])
         /\ UNCHANGED <<Counters, pool>>
    ELSE /\ Over(c)
         /\ IF Aborts(r)
            THEN SlotLeaked(c) /\ UNCHANGED <<recent, local, pool>>
            ELSE /\ pool' \in Closed(c)
                 /\ SlotFreed(c)
                 /\ IF Reach
                    THEN recent' = recent \ {c} /\ UNCHANGED local
                    ELSE /\ \/ local = {} /\ local' = local
                            \/ \E d \in local : local' = local \ {d}
                         /\ UNCHANGED recent

(* After an await (closing the socket, closing the poll session) the       *)
(* sender may have run.                                                    *)
LeaveAfterYield(c) ==
    /\ At(c, "yield")
    /\ Leave(c, conn[c])
    /\ UNCHANGED <<Auth, JobVars, Env>>

Disconnect(c) ==
    /\ At(c, "receive")
    /\ Leave(c, conn[c])
    /\ UNCHANGED <<Auth, JobVars, Env>>

-----------------------------------------------------------------------------
(* The loop of the handler: a message or a timeout, then pub/sub, then     *)
(* polling.                                                                *)

(* What the re-authentication looks at.                                    *)
AuthSource ==
    IF cached # None THEN "cache" ELSE IF Reach /\ shared # None THEN "redis" ELSE "db"

AuthInfo ==
    CASE AuthSource = "cache" -> cached
      [] AuthSource = "redis" -> shared
      [] OTHER -> user

(* Mutation: only a deactivated account ends the connection.               *)
Revoked_ActiveOnly(info, ver) == ~ info.active

Revoked(info, ver) == info.version > ver \/ ~ info.active

(* Every re-authentication interval, and only when the client sends.  Only *)
(* a user found valid in the database is written to the caches.  An error  *)
(* of Redis or of the database counts as no objection.                     *)
Reauthenticate(c) ==
    /\ At(c, "receive")
    /\ \/ /\ Goto(c, IF Revoked(AuthInfo, conn[c].ver) THEN "yield" ELSE "message")
          /\ cached' = IF AuthSource = "redis"
                          \/ (AuthSource = "db" /\ ~ Revoked(user, conn[c].ver))
                       THEN AuthInfo ELSE cached
          /\ shared' = IF AuthSource = "db" /\ ~ Revoked(user, conn[c].ver) /\ Reach
                       THEN user ELSE shared
       \/ /\ AuthSource = "db" /\ ~ Reach
          /\ Goto(c, "message")
          /\ UNCHANGED <<cached, shared>>
    /\ UNCHANGED <<Counters, pool, user, JobVars, Env>>

(* Re-authenticated, or the interval is not over yet.  The rate limit (an  *)
(* error message, then close), ping, anything else.  The handler has a     *)
(* Redis client unless there was none at the start; if its commands fail   *)
(* the handler ends.                                                       *)
Message(c) ==
    LET r == conn[c]
        fails == (r.sub # "none" \/ r.poll) /\ ~ Reach
    IN
    /\ At(c, "receive") \/ At(c, "message")
    /\ \/ fails /\ Leave(c, r)
       \/ /\ ~ fails
          /\ \/ Set(c, [r EXCEPT !.queue = SendSafe(@, "other"), !.pc = "yield"])
             \/ Set(c, [r EXCEPT !.queue = SendSafe(@, "other"), !.pc = "receive"])
             \/ Goto(c, "pubsub")
          /\ UNCHANGED <<Counters, pool>>
    /\ UNCHANGED <<Auth, JobVars, Env>>

ReceiveTimeout(c) ==
    /\ At(c, "receive")
    /\ Goto(c, "pubsub")
    /\ UNCHANGED <<Counters, pool, Auth, JobVars, Env>>

(* get_message: complete ends the loop at once, every other status, read   *)
(* before it, is dropped; the third error in a row switches to polling.    *)
ReadPubSub(c) ==
    LET r    == conn[c]
        next == IF r.poll THEN "poll" ELSE "receive"
    IN
    /\ At(c, "pubsub")
    /\ IF r.sub = "none" \/ r.poll
       THEN Goto(c, next) /\ UNCHANGED <<Counters, pool>>
       ELSE IF r.sub = "failed" \/ redis = "down"
       THEN /\ Set(c, IF r.errs = 2
                      THEN [r EXCEPT !.errs = 0, !.poll = TRUE, !.sub = "none", !.inbox = FALSE,
                                     !.pc = "poll"]
                      ELSE [r EXCEPT !.errs = @ + 1, !.pc = "receive"])
            /\ IF r.errs = 2 THEN pool' \in Closed(c) ELSE UNCHANGED pool
            /\ UNCHANGED Counters
       ELSE \/ r.inbox /\ Leave(c, [r EXCEPT !.queue = SendSafe(@, "complete")])
            \/ /\ Set(c, [r EXCEPT !.errs = 0, !.pc = "receive"])
               /\ UNCHANGED <<Counters, pool>>
    /\ UNCHANGED <<Auth, JobVars, Env>>

(* can_poll_async or the poll semaphore refuse, or the database fails.     *)
SkipPoll(c) ==
    /\ At(c, "poll")
    /\ Goto(c, "receive")
    /\ UNCHANGED <<Counters, pool, Auth, JobVars, Env>>

(* Mutation: the poll trusts the trace instead of output and state.        *)
OutputStored_Trace == job = "completed" \/ "complete" \in traces

(* Output present and ai_processing_state completed.                       *)
OutputStored == job = "completed"

PollDatabase(c) ==
    /\ At(c, "poll")
    /\ Set(c, IF OutputStored
              THEN [conn[c] EXCEPT !.queue = SendSafe(@, "complete"), !.pc = "yield"]
              ELSE [conn[c] EXCEPT !.queue = SendSafe(@, "other"), !.pc = "receive"])
    /\ UNCHANGED <<Counters, pool, Auth, JobVars, Env>>

(* _ws_sender: one message, or the socket is gone and the task ends.       *)
SendOne(c) ==
    LET r == conn[c] IN
    /\ r.sender = "running" /\ r.queue # <<>> /\ r.pc # "jammed"
    /\ \/ Set(c, [r EXCEPT !.queue = Tail(@), !.told = @ \/ Head(r.queue) = "complete"])
       \/ Set(c, [r EXCEPT !.queue = Tail(@), !.sender = "ended"])
    /\ UNCHANGED <<Counters, pool, Auth, JobVars, Env>>

-----------------------------------------------------------------------------
(* The rest of the system                                                  *)

(* The subscribers reached through the pool of _get_pub_redis, which is    *)
(* there when a PING succeeds.                                             *)
Published ==
    [c \in Conns |-> IF conn[c].sub = "on" /\ redis = "up"
                     THEN [conn[c] EXCEPT !.inbox = TRUE] ELSE conn[c]]

(* process_job_task: publish and trace, then commit or fail.               *)
PublishComplete ==
    /\ job = "processing"
    /\ job' = "published"
    /\ conn' = Published
    /\ traces' = traces \cup {"complete"}
    /\ UNCHANGED <<Counters, pool, Auth, Env>>

CommitOutput ==
    /\ job = "published"
    /\ job' = "completed"
    /\ UNCHANGED <<conn, Counters, pool, Auth, traces, Env>>

CommitFails ==
    /\ job = "published" /\ events < MaxEvents
    /\ events' = events + 1
    /\ job' = "processing"
    /\ traces' = traces \cup {"failed"}
    /\ UNCHANGED <<conn, Counters, pool, Auth, redis>>

(* Log-out everywhere, or an administrator's deactivation.                 *)
Revoke ==
    /\ user.version < MaxVersion /\ events < MaxEvents /\ events' = events + 1
    /\ user' = [user EXCEPT !.version = @ + 1]
    /\ UNCHANGED <<conn, Counters, pool, cached, shared, JobVars, redis>>

Deactivate ==
    /\ user.active /\ events < MaxEvents /\ events' = events + 1
    /\ user' = [user EXCEPT !.active = FALSE]
    /\ UNCHANGED <<conn, Counters, pool, cached, shared, JobVars, redis>>

(* Time limits: ws_global_connections an hour after the last EXPIRE, which *)
(* no hour is if another admission follows; the entries of a user after a  *)
(* minute, the auth caches after two.                                      *)
AgeSlots ==
    /\ ttl = "fresh" /\ ttl' = "old"
    /\ UNCHANGED <<other, stray, Home>>

ExpireSlots ==
    /\ ttl = "old"
    /\ slots' = {} /\ stray' = 0 /\ ttl' = "none"
    /\ other' = [p \in Elsewhere |-> [other[p] EXCEPT !.in = FALSE]]
    /\ UNCHANGED <<conn, recent, local, pool, Auth, JobVars, Env>>

ExpireRecent ==
    /\ \/ recent # {} /\ (\E c \in recent : recent' = recent \ {c}) /\ UNCHANGED local
       \/ local # {} /\ (\E c \in local : local' = local \ {c}) /\ UNCHANGED recent
    /\ UNCHANGED <<conn, Global, pool, Auth, JobVars, Env>>

ExpireCached ==
    /\ cached # None /\ cached' = None
    /\ UNCHANGED <<conn, Counters, pool, user, shared, JobVars, Env>>

ExpireShared ==
    /\ shared # None /\ shared' = None
    /\ UNCHANGED <<conn, Counters, pool, user, cached, JobVars, Env>>

RedisFails ==
    /\ redis = "up" /\ events < MaxEvents
    /\ redis' = "down" /\ events' = events + 1
    /\ conn' = [c \in Conns |-> [conn[c] EXCEPT !.inbox = FALSE]]
    /\ UNCHANGED <<Counters, pool, Auth, JobVars>>

RedisReturns ==
    /\ redis = "down" /\ redis' = "up"
    /\ UNCHANGED <<conn, Counters, pool, Auth, JobVars, events>>

-----------------------------------------------------------------------------
Admission(c) == Admit(c) \/ CountGlobal(c) \/ AddGlobal(c) \/ RenewSlots(c) \/ AddUser(c)
                \/ ReplayMissed(c) \/ Subscribe(c)

Other(p) == OtherCounts(p) \/ OtherAdds(p) \/ OtherRenews(p) \/ OtherLeaves(p) \/ OtherLeaks(p)

Handler(c) == Message(c) \/ ReadPubSub(c) \/ SkipPoll(c) \/ PollDatabase(c) \/ LeaveAfterYield(c)

SocketNext ==
    \/ \E c \in Conns :
          \/ Open(c) \/ Admission(c) \/ Handler(c) \/ SendOne(c)
          \/ \E asked \in {"well", "badly", "from elsewhere"}, v \in 0 .. MaxVersion : VerifyToken(c, asked, v)
          \/ Disconnect(c) \/ Reauthenticate(c) \/ ReceiveTimeout(c)
    \/ \E p \in Elsewhere : Other(p)
    \/ PublishComplete \/ CommitOutput \/ CommitFails
    \/ Revoke \/ Deactivate
    \/ AgeSlots \/ ExpireSlots \/ ExpireRecent \/ ExpireCached \/ ExpireShared
    \/ RedisFails \/ RedisReturns

(* Time passes: an hour without an EXPIRE is over some day, and the auth   *)
(* caches, which a re-authentication fills only when they are empty, expire*)
(* again and again.                                                        *)
SocketFairness ==
    /\ WF_socketVars(AgeSlots) /\ WF_socketVars(ExpireSlots)
    /\ SF_socketVars(ExpireCached) /\ SF_socketVars(ExpireShared)

SocketSpec == SocketInit /\ [][SocketNext]_socketVars /\ SocketFairness

-----------------------------------------------------------------------------
(* A client that is told, other than by a replay, that its job is complete *)
(* can read the output: the publication that precedes the commit never     *)
(* reaches a client, because leaving the loop cancels the sender first.    *)
ToldMeansStored ==
    \A c \in Conns : conn[c].told => job = "completed"

(* SCARD and SADD are two commands, and every process has a semaphore of   *)
(* its own: the set outgrows the global limit, but by fewer than the places*)
(* of all the semaphores, however many members are left behind.            *)
OverrunBounded == Members < MaxGlobal + AcceptLimit + Cardinality(Elsewhere)

Valid(c) == user.active /\ user.version <= conn[c].ver

(* A client that sends for ever does so with a valid user: revoked tokens  *)
(* and deactivated accounts are cut off, the two caches only delay it.  An *)
(* outage of Redis that lasts, or a pool that is used up, is excepted: then*)
(* re-authentication fails and nobody is cut off.                          *)
RevokedIsCut ==
    \A c \in Conns : <>[]Reach /\ []<><<Reauthenticate(c)>>_socketVars => []<>Valid(c)

(* A set filled up by members that were left behind shuts clients out for a*)
(* while only: whoever is refused does not renew the set, which therefore  *)
(* expires, unless an outage has cut off the EXPIRE after its first SADD.  *)
RoomReturns == []<>(HasRoom \/ ttl = "none")
=============================================================================
