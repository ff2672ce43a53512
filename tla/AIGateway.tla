----------------------------- MODULE AIGateway -----------------------------
(***************************************************************************)
(* The AI calls of the jobs of one company: the company's concurrency      *)
(* slots (app/billing/concurrency.py), taken by POST /process-job and by   *)
(* the task; AIGateway.process_job with its audio, vision and text step;   *)
(* and the ConcurrencyLimiter (app/ai/concurrency.py) that each step runs  *)
(* under, with its local semaphore and its counter in Redis.               *)
(*                                                                         *)
(* A Celery child process runs one task at a time, in an event loop of its *)
(* own.  Every Redis command is a step; while Redis does not answer,       *)
(* _get_redis gives either no client or one whose commands raise.          *)
(*                                                                         *)
(* The heartbeat of a limiter keeps its key during the first task of a     *)
(* process only: it is still pending when the loop of that task is closed, *)
(* and never started again.  So a key may expire under a call; the model   *)
(* lets it expire at any time.  _active_count, which only the heartbeat    *)
(* and reports read, is left out.                                          *)
(*                                                                         *)
(* Whether a circuit is open is left to module CircuitBreaker: here a step *)
(* may find it open at any time.                                           *)
(***************************************************************************)
EXTENDS Integers, FiniteSets

CONSTANTS
    Jobs, Workers,
    Media,           \* Media[j]: which of audio and images the job has
    MaxConcurrent,   \* max_concurrent of each limiter
    PlanLimit,       \* concurrency_limit of the company's plan
    DefaultLimit,    \* ... of plan "default", which the task asks for (1 in the code)
    MaxRetries,      \* max_retries of process_job_task
    MaxFaults        \* bound: Redis outages and workers that die

Limiters == {"whisper", "llm"}
NoWorker == "none"

ASSUME GatewayAssumption ==
    /\ IsFiniteSet(Jobs)
    /\ Media \in [Jobs -> SUBSET {"audio", "images"}]
    /\ MaxConcurrent \in [Limiters -> Nat \ {0}]
    /\ PlanLimit \in Nat \ {0} /\ DefaultLimit \in Nat \ {0}
    /\ MaxRetries \in Nat /\ MaxFaults \in Nat

VARIABLES
    job,     \* each job: its request, then its task and the call it is in
    conc,    \* Redis conc:<company>; 0 when there is no key
    locked,  \* the company is in _locked_companies of the API process
    lim,     \* Redis conc:ai:<name>: value and whether it has a TTL
    sem,     \* the semaphore of each limiter in each worker
    up,      \* Redis answers
    faults   \* outages and deaths so far

shared == <<conc, locked>>
vars == <<job, conc, locked, lim, sem, up, faults>>

NewJob == [pc |-> "new", w |-> NoWorker, todo |-> {}, fallback |-> FALSE, held |-> FALSE,
           retries |-> 0, end |-> "none"]

NoKey == [n |-> 0, ttl |-> FALSE]

Init ==
    /\ job = [j \in Jobs |-> NewJob]
    /\ conc = 0
    /\ locked = FALSE
    /\ lim = [l \in Limiters |-> NoKey]
    /\ sem = [w \in Workers |-> MaxConcurrent]
    /\ up = TRUE
    /\ faults = 0

-----------------------------------------------------------------------------
(* CompanyConcurrencyLock.                                                 *)

(* acquire of the API process, by plan.  Without a client the local set    *)
(* decides: at most one entry, for a plan with fewer than four slots.      *)
Acquired == up /\ conc < PlanLimit

Post(j) ==
    /\ job[j].pc = "new"
    /\ \/ /\ Acquired
          /\ conc' = conc + 1
          /\ locked' = TRUE
          /\ job' = [job EXCEPT ![j].pc = "posted"]
       \/ /\ ~up /\ ~locked
          /\ locked' = TRUE
          /\ job' = [job EXCEPT ![j].pc = "posted"]
          /\ UNCHANGED conc
       \/ /\ ~Acquired
          /\ job' = [job EXCEPT ![j].pc = "refused"]
          /\ UNCHANGED shared
    /\ UNCHANGED <<lim, sem, up, faults>>

(* Mutant: the slot of a job that is over is kept.                         *)
Release_Kept(j, end) ==
    /\ conc' = conc
    /\ job' = [job EXCEPT ![j].pc = end, ![j].end = end, ![j].w = NoWorker]

(* release: the script takes one off a counter that exists, and removes a  *)
(* counter that reaches 0 (then the caller deletes the key once more).     *)
Release(j, end) ==
    /\ conc' = IF up /\ conc > 0 THEN conc - 1 ELSE conc
    /\ job' = [job EXCEPT ![j].pc = IF up /\ conc = 1 THEN "delete slot" ELSE end,
                          ![j].end = IF up /\ conc = 1 THEN end ELSE "none",
                          ![j].w = NoWorker, ![j].fallback = FALSE, ![j].held = FALSE]

(* The second delete, of whatever has been acquired since.                 *)
DeleteSlot(j) ==
    /\ job[j].pc = "delete slot"
    /\ conc' = IF up THEN 0 ELSE conc
    /\ job' = [job EXCEPT ![j].pc = job[j].end, ![j].end = "none"]
    /\ UNCHANGED <<locked, lim, sem, up, faults>>

(* The task is enqueued: the slot stays taken.  A risk score above 70 or a *)
(* broker that does not answer gives it back.                              *)
Dispatch(j) ==
    /\ job[j].pc = "posted"
    /\ \/ job' = [job EXCEPT ![j].pc = "queued"] /\ UNCHANGED shared
       \/ Release(j, "refused") /\ locked' = FALSE
    /\ UNCHANGED <<lim, sem, up, faults>>

SlotExpires ==
    /\ conc > 0
    /\ conc' = 0
    /\ UNCHANGED <<job, locked, lim, sem, up, faults>>

-----------------------------------------------------------------------------
(* process_job_task around the gateway.                                    *)

Start(j, w) ==
    /\ job[j].pc = "queued"
    /\ \A k \in Jobs : job[k].w # w
    /\ job' = [job EXCEPT ![j].pc = "phase 1", ![j].w = w]
    /\ UNCHANGED <<shared, lim, sem, up, faults>>

(* An error of phase 1 or 3: retried without a release; the last attempt   *)
(* releases what this attempt has asked for.                               *)
Fails(j) ==
    /\ job[j].pc \in {"phase 1", "store"}
    /\ \/ /\ job[j].retries < MaxRetries
          /\ job' = [job EXCEPT ![j].pc = "queued", ![j].w = NoWorker,
                                ![j].fallback = FALSE, ![j].held = FALSE, ![j].retries = @ + 1]
          /\ UNCHANGED conc
       \/ /\ job[j].retries = MaxRetries /\ job[j].held
          /\ Release(j, "dead")
       \/ /\ job[j].retries = MaxRetries /\ ~job[j].held
          /\ job' = [job EXCEPT ![j].pc = "lost", ![j].w = NoWorker]
          /\ UNCHANGED conc
    /\ UNCHANGED <<locked, lim, sem, up, faults>>

(* Phase 2 begins: what acquire answers is not looked at.                  *)
TaskAcquire(j) ==
    /\ job[j].pc = "phase 1"
    /\ conc' = IF up /\ conc < DefaultLimit THEN conc + 1 ELSE conc
    /\ job' = [job EXCEPT ![j].pc = "route", ![j].held = TRUE,
                          ![j].todo = Media[j] \cup {"text"}]
    /\ UNCHANGED <<locked, lim, sem, up, faults>>

(* The output of the gateway: a fallback is refused; validate_ai_output    *)
(* refuses one of low confidence or with impossible numbers.  Then the     *)
(* task fails for good.                                                    *)
Validated(j) ==
    /\ job[j].pc = "validate"
    /\ \/ /\ ~job[j].fallback
          /\ job' = [job EXCEPT ![j].pc = "store"]
          /\ UNCHANGED conc
       \/ Release(j, "dead")
    /\ UNCHANGED <<locked, lim, sem, up, faults>>

Store(j) ==
    /\ job[j].pc = "store"
    /\ Release(j, "done")
    /\ UNCHANGED <<locked, lim, sem, up, faults>>

-----------------------------------------------------------------------------
(* AIGateway.process_job and _route.                                       *)

(* The steps in their order: audio, then images, then text.                *)
Step(j) ==
    CASE "audio" \in job[j].todo -> "audio"
      [] "audio" \notin job[j].todo /\ "images" \in job[j].todo -> "images"
      [] OTHER -> "text"

Limiter(j) == IF Step(j) = "audio" THEN "whisper" ELSE "llm"

(* A step has ended.  An empty transcript or analysis only makes the       *)
(* output a partial failure; a text step without an answer makes it a      *)
(* fallback.                                                               *)
Ended(j, ok) ==
    [job[j] EXCEPT !.todo = @ \ {Step(j)},
                   !.fallback = (Step(j) = "text" /\ ~ok),
                   !.pc = IF Step(j) = "text" THEN "validate" ELSE "route"]

(* is_available says no: the fallback.                                     *)
CircuitOpen(j) ==
    /\ job[j].pc = "route"
    /\ job' = [job EXCEPT ![j] = Ended(j, FALSE)]
    /\ UNCHANGED <<shared, lim, sem, up, faults>>

-----------------------------------------------------------------------------
(* ConcurrencyLimiter.acquire, whose answer __aenter__ drops.              *)

Call(j) == [job EXCEPT ![j].pc = "call"]

(* A semaphore that is released more often than it was acquired goes above *)
(* its limit; a process makes one call at a time, so one more is as good   *)
(* as many.                                                                *)
Given(n, l) == IF n > MaxConcurrent[l] THEN n ELSE n + 1

(* The slot is refused; the call is made all the same.                     *)
Refuse(j) ==
    /\ sem' = [sem EXCEPT ![job[j].w][Limiter(j)] = Given(@, Limiter(j))]
    /\ job' = Call(j)

(* The semaphore, then INCR.                                               *)
Incr(j) ==
    LET w == job[j].w  l == Limiter(j) IN
    /\ job[j].pc = "route"
    /\ sem[w][l] > 0
    /\ \/ /\ up
          /\ sem' = [sem EXCEPT ![w][l] = @ - 1]
          /\ lim' = [lim EXCEPT ![l].n = @ + 1]
          /\ job' = [job EXCEPT ![j].pc = IF lim[l].n + 1 > MaxConcurrent[l]
                                          THEN "expire, refuse" ELSE "expire, grant"]
       \/ /\ ~up
          /\ sem' = [sem EXCEPT ![w][l] = @ - 1]
          /\ job' = Call(j)
          /\ UNCHANGED lim
       \/ /\ ~up
          /\ job' = Call(j)
          /\ UNCHANGED <<sem, lim>>
    /\ UNCHANGED <<shared, up, faults>>

(* Mutant: no EXPIRE.                                                      *)
Expire_Forgotten(j) ==
    /\ job[j].pc \in {"expire, refuse", "expire, grant"}
    /\ job' = IF job[j].pc = "expire, grant" THEN Call(j)
              ELSE [job EXCEPT ![j].pc = "decr"]
    /\ UNCHANGED <<shared, lim, sem, up, faults>>

(* EXPIRE, and the comparison with what INCR returned.                     *)
Expire(j) ==
    /\ job[j].pc \in {"expire, refuse", "expire, grant"}
    /\ \/ /\ up
          /\ lim' = [lim EXCEPT ![Limiter(j)].ttl = (lim[Limiter(j)].n # 0)]
          /\ \/ job[j].pc = "expire, grant" /\ job' = Call(j) /\ UNCHANGED sem
             \/ /\ job[j].pc = "expire, refuse"
                /\ job' = [job EXCEPT ![j].pc = "decr"]
                /\ UNCHANGED sem
       \/ ~up /\ Refuse(j) /\ UNCHANGED lim
    /\ UNCHANGED <<shared, up, faults>>

DecrRefused(j) ==
    /\ job[j].pc = "decr"
    /\ lim' = IF up THEN [lim EXCEPT ![Limiter(j)].n = @ - 1] ELSE lim
    /\ Refuse(j)
    /\ UNCHANGED <<shared, up, faults>>

(* The call of step s, within wait_for: answered with something or not.    *)
Answer(j, s, ok) ==
    /\ job[j].pc = "call"
    /\ Step(j) = s
    /\ job' = [job EXCEPT ![j].pc = IF ok THEN "release" ELSE "release, failed"]
    /\ UNCHANGED <<shared, lim, sem, up, faults>>

(* _generate: up to three attempts of the request, with an answer or none. *)
Generated == BOOLEAN

(* Every error of the speech service, a refused URL included, ends as an   *)
(* empty transcript.                                                       *)
TranscribeAudio(j) == \E ok \in BOOLEAN : Answer(j, "audio", ok)

(* Images that cannot be fetched or are too large are left out; without    *)
(* any, or when generating fails, the analysis is empty.                   *)
AnalyzeImages(j) == \E ok \in Generated : Answer(j, "images", ok)

(* What cannot be generated or parsed becomes the default schema, which is *)
(* a fallback.                                                             *)
GenerateOutput(j) == \E ok \in Generated : Answer(j, "text", ok)

(* wait_for gives up, or the call raises: record_failure, and the          *)
(* fallback.                                                               *)
TimesOut(j) == Answer(j, Step(j), FALSE)

(* The local part of release.                                              *)
Freed(j, ok) ==
    /\ sem' = [sem EXCEPT ![job[j].w][Limiter(j)] = Given(@, Limiter(j))]
    /\ job' = [job EXCEPT ![j] = Ended(j, ok)]

(* Mutant: release after an answer only.                                   *)
Decr_AfterAnswer(j) ==
    /\ job[j].pc \in {"release", "release, failed"}
    /\ IF up /\ job[j].pc = "release"
       THEN /\ lim' = [lim EXCEPT ![Limiter(j)].n = @ - 1]
            /\ job' = [job EXCEPT ![j].pc = "delete"]
            /\ UNCHANGED sem
       ELSE Freed(j, job[j].pc = "release") /\ UNCHANGED lim
    /\ UNCHANGED <<shared, up, faults>>

(* ConcurrencyLimiter.release: DECR, DELETE of a counter not above 0, then *)
(* the local part; __aexit__ calls it for a refused call too.              *)
Decr(j) ==
    LET l == Limiter(j)
        ok == job[j].pc = "release"
    IN
    /\ job[j].pc \in {"release", "release, failed"}
    /\ \/ /\ up /\ lim[l].n > 1
          /\ lim' = [lim EXCEPT ![l].n = @ - 1]
          /\ Freed(j, ok)
       \/ /\ up /\ lim[l].n <= 1
          /\ lim' = [lim EXCEPT ![l].n = @ - 1]
          /\ job' = [job EXCEPT ![j].pc = IF ok THEN "delete" ELSE "delete, failed"]
          /\ UNCHANGED sem
       \/ /\ ~up
          /\ Freed(j, ok)
          /\ UNCHANGED lim
    /\ UNCHANGED <<shared, up, faults>>

Delete(j) ==
    /\ job[j].pc \in {"delete", "delete, failed"}
    /\ lim' = IF up THEN [lim EXCEPT ![Limiter(j)] = NoKey] ELSE lim
    /\ Freed(j, job[j].pc = "delete")
    /\ UNCHANGED <<shared, up, faults>>

(* 60 s without an EXPIRE.                                                 *)
LimiterExpires(l) ==
    /\ lim[l].ttl
    /\ lim' = [lim EXCEPT ![l] = NoKey]
    /\ UNCHANGED <<job, shared, sem, up, faults>>

-----------------------------------------------------------------------------
(* Faults.                                                                 *)

Outage ==
    /\ up
    /\ faults < MaxFaults
    /\ up' = FALSE
    /\ faults' = faults + 1
    /\ UNCHANGED <<job, shared, lim, sem>>

RedisReturns ==
    /\ ~up
    /\ up' = TRUE
    /\ UNCHANGED <<job, shared, lim, sem, faults>>

(* A worker dies; its message is delivered again.                          *)
Crash(j) ==
    LET w == job[j].w IN
    /\ w # NoWorker
    /\ faults < MaxFaults
    /\ job' = [job EXCEPT ![j].pc = "queued", ![j].w = NoWorker, ![j].todo = {},
                          ![j].fallback = FALSE, ![j].held = FALSE]
    /\ sem' = [sem EXCEPT ![w] = MaxConcurrent]
    /\ faults' = faults + 1
    /\ UNCHANGED <<shared, lim, up>>

-----------------------------------------------------------------------------
Proceed(j) ==
    \/ Dispatch(j) \/ (\E w \in Workers : Start(j, w))
    \/ TaskAcquire(j) \/ Validated(j) \/ Store(j)
    \/ Incr(j) \/ Expire(j) \/ DecrRefused(j) \/ TranscribeAudio(j) \/ AnalyzeImages(j)
    \/ GenerateOutput(j) \/ TimesOut(j) \/ Decr(j) \/ Delete(j)
    \/ DeleteSlot(j)

Next ==
    \/ \E j \in Jobs : Post(j) \/ Proceed(j) \/ CircuitOpen(j) \/ Fails(j) \/ Crash(j)
    \/ \E l \in Limiters : LimiterExpires(l)
    \/ SlotExpires \/ Outage \/ RedisReturns

Spec == Init /\ [][Next]_vars

-----------------------------------------------------------------------------
(* The jobs whose request or task is not over.                             *)
Open == {j \in Jobs : job[j].pc \notin {"new", "refused", "done", "dead", "lost"}}

(* The calls between their INCR and their DECR.                            *)
Inside(l) ==
    {j \in Jobs : /\ job[j].pc \in {"expire, refuse", "expire, grant", "decr", "call",
                                    "release", "release, failed"}
                  /\ Limiter(j) = l}

(* Without a fault the counter of a limiter is never above the calls that  *)
(* are inside it: refused calls, deletions that overtake an INCR and keys  *)
(* that expire only make it too low, never so high that it refuses calls   *)
(* for nothing.                                                            *)
LimiterBacked == faults = 0 => \A l \in Limiters : lim[l].n <= Cardinality(Inside(l))

(* Without a fault the company's counter is never above its jobs that are  *)
(* under way and those that died before phase 2: no request is refused for *)
(* a job that is over.                                                     *)
SlotsBacked ==
    faults = 0 => conc <= Cardinality(Open) + Cardinality({j \in Jobs : job[j].pc = "lost"})

(* Without a fault a counter above 0 has a TTL, or the call that will set  *)
(* it is between its INCR and its EXPIRE: counts that are too high go away *)
(* by themselves.                                                          *)
LimiterHeals ==
    faults = 0 => \A l \in Limiters : lim[l].n > 0 /\ ~lim[l].ttl =>
        \E j \in Inside(l) : job[j].pc \in {"expire, refuse", "expire, grant"}

=============================================================================
