--------------------------- MODULE CircuitBreaker ---------------------------
(***************************************************************************)
(* CircuitBreaker (app/ai/circuit_breaker.py) as AIGateway._route uses it  *)
(* for one external service: each replica has a breaker object of its own, *)
(* guarded by an asyncio lock, and all replicas share the Redis hash       *)
(* cb:<name>.  While Redis answers, is_available looks at the hash alone;  *)
(* the local state decides only while Redis does not answer.               *)
(*                                                                         *)
(* record_failure keeps the lock during its Redis writes, record_success   *)
(* releases it before them.  Every Redis command is a step of its own and  *)
(* an outage between two of them skips the rest.  The script               *)
(* _CIRCUIT_LUA_CHECK_HALF_OPEN and reset() have no caller and are not     *)
(* part of the model.  Time is what has passed: a failure is recent until  *)
(* the cooldown is over.                                                   *)
(***************************************************************************)
EXTENDS Integers

CONSTANTS
    Replicas,        \* processes with a breaker object each
    Calls,           \* <<replica, n>>: the requests a replica handles at a time
    Threshold,       \* failure_threshold (3 in the code)
    StabilityGate,   \* successes that close the breaker (3 in the code)
    ResetGate,       \* successes that reset the cooldown (5 in the code)
    HalfOpenMax,     \* half_open_max_retries (1 in the code)
    BaseCooldown,    \* cooldown_seconds (120 in the code)
    MaxCooldown,     \* max_cooldown_seconds (600 in the code)
    MaxBreakdowns    \* bound: Redis outages and restarts of replicas

ASSUME BreakerAssumption ==
    /\ Calls \subseteq Replicas \X Nat
    /\ Threshold \in Nat \ {0} /\ StabilityGate \in Nat \ {0}
    /\ ResetGate \in Nat /\ StabilityGate <= ResetGate
    /\ HalfOpenMax \in Nat /\ MaxBreakdowns \in Nat
    /\ BaseCooldown \in Nat /\ MaxCooldown \in Nat /\ BaseCooldown <= MaxCooldown

VARIABLES
    cb,          \* the breaker object of each replica
    pc,          \* where each request of a replica is
    hash,        \* the hash: whether it has the field open, others, and a TTL
    redisUp,     \* Redis answers
    breakdowns   \* outages and restarts so far

breakerVars == <<cb, pc, hash, redisUp, breakdowns>>

Closed == [state |-> "closed", failures |-> 0, successes |-> 0, lastFail |-> "none",
           attempts |-> 0, cooldown |-> BaseCooldown]

BreakerInit ==
    /\ cb = [r \in Replicas |-> Closed]
    /\ pc = [c \in Calls |-> "idle"]
    /\ hash = {}
    /\ redisUp = TRUE
    /\ breakdowns = 0

(* The lock of the breaker of r is held across the writes of a failure.    *)
Locked(r) == \E c \in Calls : c[1] = r /\ pc[c] \in {"hset", "hset rest", "expire"}

(* Counters are compared with a threshold only: they stop there.           *)
Saturated(n, max) == IF n < max THEN n + 1 ELSE max

-----------------------------------------------------------------------------
(* is_available                                                            *)

(* With Redis, a request passes when the hash is not open.                 *)
RedisAdmits(c) ==
    /\ pc[c] = "idle"
    /\ redisUp
    /\ "open" \notin hash
    /\ pc' = [pc EXCEPT ![c] = "running"]
    /\ UNCHANGED <<cb, hash, redisUp, breakdowns>>

(* A request asks for leave; the gateway's health, which /readyz, /health  *)
(* and the output endpoint report, polls and calls nothing.                *)
Kinds == {"ask", "poll"}

(* Without Redis the local state decides.                                  *)
RedisSilent(c) ==
    /\ pc[c] = "idle"
    /\ ~redisUp
    /\ \E kind \in Kinds : pc' = [pc EXCEPT ![c] = kind]
    /\ UNCHANGED <<cb, hash, redisUp, breakdowns>>

LocalAdmits(b) ==
    \/ b.state = "closed"
    \/ b.state = "open" /\ b.lastFail = "cooled"
    \/ b.state = "half_open" /\ b.attempts < HalfOpenMax

(* The request that moves an open breaker to half-open is not counted      *)
(* against half_open_max_retries; a report is counted like a request.      *)
Asked(b) ==
    CASE b.state = "open" /\ LocalAdmits(b) ->
            [b EXCEPT !.state = "half_open", !.attempts = 0]
      [] b.state = "half_open" /\ LocalAdmits(b) -> [b EXCEPT !.attempts = @ + 1]
      [] OTHER -> b

LocalCheck(c) ==
    /\ pc[c] \in Kinds
    /\ ~Locked(c[1])
    /\ cb' = [cb EXCEPT ![c[1]] = Asked(@)]
    /\ pc' = [pc EXCEPT ![c] = IF @ = "ask" /\ LocalAdmits(cb[c[1]]) THEN "running"
                               ELSE "idle"]
    /\ UNCHANGED <<hash, redisUp, breakdowns>>

-----------------------------------------------------------------------------
(* record_success: the local part, then the deletions from the hash.       *)

Succeeded(b) ==
    LET n == Saturated(b.successes, ResetGate)
    IN  [state |-> IF n >= StabilityGate THEN "closed" ELSE b.state,
         failures |-> 0, successes |-> n, lastFail |-> "none", attempts |-> 0,
         cooldown |-> IF n >= ResetGate THEN BaseCooldown ELSE b.cooldown]

Succeed(c) ==
    /\ pc[c] = "running"
    /\ ~Locked(c[1])
    /\ cb' = [cb EXCEPT ![c[1]] = Succeeded(@)]
    /\ pc' = [pc EXCEPT ![c] = "hdel"]
    /\ UNCHANGED <<hash, redisUp, breakdowns>>

(* A hash without fields is gone, with its TTL.                            *)
Without(h, field) ==
    IF h \subseteq {field, "ttl"} THEN {} ELSE h \ {field}

(* Mutation: the field open is not among the deleted ones.                 *)
DeleteOpen_Forgotten(c) ==
    /\ pc[c] = "hdel"
    /\ pc' = [pc EXCEPT ![c] = IF redisUp THEN "hdel rest" ELSE "idle"]
    /\ UNCHANGED <<cb, hash, redisUp, breakdowns>>

DeleteOpen(c) ==
    /\ pc[c] = "hdel"
    /\ hash' = IF redisUp THEN Without(hash, "open") ELSE hash
    /\ pc' = [pc EXCEPT ![c] = IF redisUp THEN "hdel rest" ELSE "idle"]
    /\ UNCHANGED <<cb, redisUp, breakdowns>>

DeleteRest(c) ==
    /\ pc[c] = "hdel rest"
    /\ hash' = IF redisUp THEN Without(hash, "rest") ELSE hash
    /\ pc' = [pc EXCEPT ![c] = "idle"]
    /\ UNCHANGED <<cb, redisUp, breakdowns>>

-----------------------------------------------------------------------------
(* record_failure                                                          *)

Least(a, b) == IF a < b THEN a ELSE b

(* Mutation: > instead of >= failure_threshold.                            *)
Failed_OffByOne(b) ==
    LET n == Saturated(b.failures, Threshold)
    IN  [state |-> IF b.state = "half_open" \/ b.failures >= Threshold THEN "open" ELSE b.state,
         failures |-> n, successes |-> 0, lastFail |-> "recent", attempts |-> b.attempts,
         cooldown |-> b.cooldown]

(* The cooldown is doubled when the threshold trips the breaker, not when  *)
(* a half-open one fails.                                                  *)
Failed(b) ==
    LET n == Saturated(b.failures, Threshold)
    IN  [state |-> IF b.state = "half_open" \/ n >= Threshold THEN "open" ELSE b.state,
         failures |-> n, successes |-> 0, lastFail |-> "recent", attempts |-> b.attempts,
         cooldown |-> IF b.state # "half_open" /\ n >= Threshold
                      THEN Least(2 * b.cooldown, MaxCooldown) ELSE b.cooldown]

(* A failure trips the breaker: the branches that write to Redis.          *)
Trips(b) == b.state = "half_open" \/ Saturated(b.failures, Threshold) >= Threshold

Fail(c) ==
    /\ pc[c] = "running"
    /\ ~Locked(c[1])
    /\ cb' = [cb EXCEPT ![c[1]] = Failed(@)]
    /\ pc' = [pc EXCEPT ![c] = IF Trips(cb[c[1]]) THEN "hset" ELSE "idle"]
    /\ UNCHANGED <<hash, redisUp, breakdowns>>

(* The Redis commands of record_failure in their order; the first one that *)
(* gets no answer raises, and the others are skipped.                      *)
FailureWrite(c, from, to, new) ==
    /\ pc[c] = from
    /\ hash' = IF redisUp THEN new ELSE hash
    /\ pc' = [pc EXCEPT ![c] = IF redisUp THEN to ELSE "idle"]
    /\ UNCHANGED <<cb, redisUp, breakdowns>>

SetOpen(c) == FailureWrite(c, "hset", "hset rest", hash \cup {"open"})

SetRest(c) == FailureWrite(c, "hset rest", "expire", hash \cup {"rest"})

(* Mutation: record_failure does not set a TTL.                            *)
SetExpiry_Never(c) == FailureWrite(c, "expire", "idle", hash)

SetExpiry(c) == FailureWrite(c, "expire", "idle", IF hash = {} THEN {} ELSE hash \cup {"ttl"})

-----------------------------------------------------------------------------
(* The environment.                                                        *)

(* The cooldown of a replica is over; only an open breaker asks for it.    *)
CooldownPasses(r) ==
    /\ cb[r].state = "open"
    /\ cb[r].lastFail = "recent"
    /\ cb' = [cb EXCEPT ![r].lastFail = "cooled"]
    /\ UNCHANGED <<pc, hash, redisUp, breakdowns>>

(* Redis removes a hash whose TTL is over.                                 *)
KeyExpires ==
    /\ "ttl" \in hash
    /\ hash' = {}
    /\ UNCHANGED <<cb, pc, redisUp, breakdowns>>

RedisFails ==
    /\ redisUp
    /\ breakdowns < MaxBreakdowns
    /\ redisUp' = FALSE
    /\ breakdowns' = breakdowns + 1
    /\ UNCHANGED <<cb, pc, hash>>

RedisIsBack ==
    /\ ~redisUp
    /\ redisUp' = TRUE
    /\ UNCHANGED <<cb, pc, hash, breakdowns>>

(* A replica restarts: its breaker and its requests are gone.              *)
Restart(r) ==
    /\ breakdowns < MaxBreakdowns
    /\ cb' = [cb EXCEPT ![r] = Closed]
    /\ pc' = [c \in Calls |-> IF c[1] = r THEN "idle" ELSE pc[c]]
    /\ breakdowns' = breakdowns + 1
    /\ UNCHANGED <<hash, redisUp>>

-----------------------------------------------------------------------------
Progress(c) ==
    \/ LocalCheck(c)
    \/ Succeed(c) \/ DeleteOpen(c) \/ DeleteRest(c)
    \/ Fail(c) \/ SetOpen(c) \/ SetRest(c) \/ SetExpiry(c)

BreakerNext ==
    \/ \E c \in Calls : RedisAdmits(c) \/ RedisSilent(c) \/ Progress(c)
    \/ \E r \in Replicas : CooldownPasses(r) \/ Restart(r)
    \/ KeyExpires
    \/ RedisFails
    \/ RedisIsBack

BreakerSpec == BreakerInit /\ [][BreakerNext]_breakerVars

(* A request ends (wait_for bounds it), and time passes.                   *)
BreakerFairness ==
    /\ \A c \in Calls : WF_breakerVars(Progress(c))
    /\ \A r \in Replicas : WF_breakerVars(CooldownPasses(r))
    /\ WF_breakerVars(KeyExpires)

FairBreakerSpec == BreakerSpec /\ BreakerFairness

-----------------------------------------------------------------------------
(* Every variable has its type; the cooldown keeps its bounds.             *)
TypeOK ==
    /\ cb \in [Replicas -> [state : {"closed", "open", "half_open"},
                            failures : 0..Threshold, successes : 0..ResetGate,
                            lastFail : {"none", "recent", "cooled"},
                            attempts : 0..HalfOpenMax,
                            cooldown : BaseCooldown..MaxCooldown]]
    /\ pc \in [Calls -> {"idle", "ask", "poll", "running", "hdel", "hdel rest",
                         "hset", "hset rest", "expire"}]
    /\ hash \subseteq {"open", "rest", "ttl"}
    /\ redisUp \in BOOLEAN
    /\ breakdowns \in 0..MaxBreakdowns

(* A closed breaker has counted fewer consecutive failures than            *)
(* failure_threshold, whatever order the outcomes of concurrent requests   *)
(* arrive in.                                                              *)
TripsAtThreshold == \A r \in Replicas : cb[r].state = "closed" => cb[r].failures < Threshold

(* A breaker with enough consecutive successes to reset its cooldown is    *)
(* closed and back at the base cooldown: no late outcome leaves it open or *)
(* with the doubled cooldown.                                              *)
StableIsReset ==
    \A r \in Replicas : cb[r].successes >= ResetGate =>
        cb[r].state = "closed" /\ cb[r].cooldown = BaseCooldown

(* While nothing fails between two Redis commands, an open hash has a TTL  *)
(* or is about to get one: deletions of another replica in between never   *)
(* leave it open for ever.                                                 *)
OpenKeyExpires ==
    breakdowns = 0 /\ "open" \in hash =>
        \/ "ttl" \in hash
        \/ \E c \in Calls : pc[c] \in {"hset rest", "expire"}

(* While nothing fails, the shared hash is open only when some replica     *)
(* holds its breaker open or is about to delete the field.                 *)
OpenKeyHasOwner ==
    breakdowns = 0 /\ "open" \in hash =>
        \/ \E r \in Replicas : cb[r].state # "closed"
        \/ \E c \in Calls : pc[c] = "hdel"

(* While nothing fails between two Redis commands, an open circuit lets    *)
(* requests pass again.                                                    *)
RecoversWithRedis == [](breakdowns = 0) => ("open" \in hash ~> "open" \notin hash)

(* What is_available answers to a request of r.                            *)
Available(r) == IF redisUp THEN "open" \notin hash ELSE LocalAdmits(cb[r])

(* When Redis is back for good, a circuit that refuses requests lets them  *)
(* pass again, whatever failed before.                                     *)
Recovers == <>[]redisUp => \A r \in Replicas : ~Available(r) ~> Available(r)
=============================================================================
