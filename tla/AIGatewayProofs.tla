-------------------------- MODULE AIGatewayProofs --------------------------
(***************************************************************************)
(* AIGateway for any number of jobs, workers and slots: as long as nothing *)
(* has failed, no counter in Redis counts work that is over, and a counter *)
(* of a limiter that is too high expires.                                  *)
(*                                                                         *)
(* All three compare a number in Redis with a set of jobs.  A step changes *)
(* one job, so it moves at most that job into or out of the set            *)
(* (OneMoved); the proofs show that the number moves with it or falls      *)
(* further behind.  Semaphores play no part: they only delay a call.       *)
(*                                                                         *)
(* The second part is about CircuitBreaker, for any number of replicas and *)
(* requests and any thresholds: what the counters of a breaker say of its  *)
(* state, and what the shared hash says of the replicas while nothing      *)
(* fails.  The facts about one breaker hold because each outcome updates   *)
(* it in one step under its lock: they rest on the lemmas about Asked,     *)
(* Succeeded and Failed.  The facts about the hash need more: a request    *)
(* about to write open holds the lock of a breaker that is open            *)
(* (WriterIsOpen), so that no success of the same replica closes it in     *)
(* between.                                                                *)
(***************************************************************************)
EXTENDS AIGateway, CircuitBreaker, FiniteSetTheorems, TLAPS

(* Where the request or the task of a job is, and how it will have ended.  *)
Places ==
    {"none", "new", "posted", "refused", "delete slot", "queued", "phase 1", "route",
     "expire, refuse", "expire, grant", "decr", "call", "release", "release, failed",
     "delete", "delete, failed", "validate", "store", "done", "dead", "lost"}

JobRecord ==
    [pc : Places, w : Workers \union {NoWorker}, todo : SUBSET {"audio", "images", "text"},
     fallback : BOOLEAN, held : BOOLEAN, retries : Nat, end : Places]

TypeInv ==
    /\ job \in [Jobs -> JobRecord]
    /\ conc \in Nat
    /\ lim \in [Limiters -> [n : Int, ttl : BOOLEAN]]
    /\ up \in BOOLEAN
    /\ faults \in Nat

(* Redis is away only after a fault.                                       *)
UpUntilFault == faults = 0 => up

(* The calls between their INCR and their EXPIRE.                          *)
Setting(l) == {j \in Inside(l) : job[j].pc \in {"expire, refuse", "expire, grant"}}

(* The jobs that a slot of the company may be counted for.                 *)
Holding == {j \in Jobs : job[j].pc \notin {"new", "refused", "done", "dead"}}

SlotsHeld == faults = 0 => conc <= Cardinality(Holding)

IInv == TypeInv /\ UpUntilFault /\ LimiterBacked /\ LimiterHeals

-----------------------------------------------------------------------------
(* What happens to the size of a set when one element may move.            *)
LEMMA OneMoved ==
  ASSUME NEW S, NEW R, NEW j, IsFiniteSet(S), IsFiniteSet(R), S \ {j} \subseteq R
  PROVE  /\ Cardinality(S) \in Nat /\ Cardinality(R) \in Nat
         /\ Cardinality(S) - 1 <= Cardinality(R)
         /\ (j \in S => j \in R) => Cardinality(S) <= Cardinality(R)
         /\ j \notin S /\ j \in R => Cardinality(S) + 1 <= Cardinality(R)
  <1>1. Cardinality(S) \in Nat /\ Cardinality(R) \in Nat
    BY FS_CardinalityType
  <1>2. Cardinality(S \ {j}) <= Cardinality(R) /\ IsFiniteSet(S \ {j})
    BY FS_Subset
  <1>3. Cardinality(S \ {j}) = IF j \in S THEN Cardinality(S) - 1 ELSE Cardinality(S)
    BY FS_RemoveElement
  <1>4. ASSUME j \in S => j \in R
        PROVE  Cardinality(S) <= Cardinality(R)
    <2>1. S \subseteq R
      BY <1>4
    <2>2. QED
      BY <2>1, FS_Subset
  <1>5. ASSUME j \notin S, j \in R
        PROVE  Cardinality(S) + 1 <= Cardinality(R)
    <2>1. S \union {j} \subseteq R
      BY <1>5
    <2>2. Cardinality(S \union {j}) <= Cardinality(R)
      BY <2>1, FS_Subset
    <2>3. Cardinality(S \union {j}) = Cardinality(S) + 1
      BY <1>5, FS_AddElement
    <2>4. QED
      BY <2>2, <2>3
  <1>6. Cardinality(S) - 1 <= Cardinality(R)
    BY <1>1, <1>2, <1>3
  <1>7. QED
    BY <1>1, <1>4, <1>5, <1>6

(* A step of one job leaves the others where they are.                     *)
LEMMA OthersStay ==
  ASSUME NEW j \in Jobs, \A k \in Jobs \ {j} : job'[k] = job[k], NEW l \in Limiters
  PROVE  /\ Inside(l) \ {j} \subseteq Inside(l)'
         /\ Inside(l)' \ {j} \subseteq Inside(l)
         /\ Setting(l) \ {j} \subseteq Setting(l)'
         /\ Holding \ {j} \subseteq Holding'
  BY DEF Inside, Setting, Holding, Limiter, Step

LEMMA Finite ==
  ASSUME NEW l \in Limiters
  PROVE  /\ IsFiniteSet(Inside(l)) /\ IsFiniteSet(Inside(l)')
         /\ IsFiniteSet(Holding) /\ IsFiniteSet(Holding')
  <1>1. Inside(l) \subseteq Jobs /\ Inside(l)' \subseteq Jobs /\ Holding \subseteq Jobs /\ Holding' \subseteq Jobs
    BY DEF Inside, Holding
  <1>2. QED
    BY <1>1, FS_Subset, GatewayAssumption DEF GatewayAssumption

-----------------------------------------------------------------------------
(* What a step of job j may do to the counter of a limiter: follow the job *)
(* into the set and out of it, or fall behind.                             *)
CounterFollows(j, l) ==
    \/ lim'[l].n <= lim[l].n /\ (j \in Inside(l) => j \in Inside(l)')
    \/ lim'[l].n <= lim[l].n - 1
    \/ lim'[l].n <= lim[l].n + 1 /\ j \notin Inside(l) /\ j \in Inside(l)'
    \/ lim'[l].n <= 0

(* ... and to the time to live of the key: a counter loses it only to a    *)
(* call that will set it again.                                            *)
KeyFollows(j, l) ==
    \/ (lim'[l].n > 0 /\ ~lim'[l].ttl => lim[l].n > 0 /\ ~lim[l].ttl) /\ j \notin Setting(l)
    \/ j \in Setting(l)'
    \/ ~(lim'[l].n > 0 /\ ~lim'[l].ttl)

LEMMA LimiterStep ==
  ASSUME IInv, TypeInv', NEW j \in Jobs, \A k \in Jobs \ {j} : job'[k] = job[k],
         faults' = faults, up' = up,
         faults = 0 => \A l \in Limiters : CounterFollows(j, l) /\ KeyFollows(j, l)
  PROVE  IInv'
  <1>1. UpUntilFault'
    BY DEF IInv, UpUntilFault
  <1>2. ASSUME faults = 0, NEW l \in Limiters
        PROVE  lim'[l].n <= Cardinality(Inside(l)')
    <2>1. lim[l].n \in Int /\ lim'[l].n \in Int
      BY DEF IInv, TypeInv
    <2>2. lim[l].n <= Cardinality(Inside(l))
      BY <1>2 DEF IInv, LimiterBacked
    <2> DEFINE S == Inside(l)
               R == Inside(l)'
    <2>3. IsFiniteSet(S) /\ IsFiniteSet(R) /\ S \ {j} \subseteq R
      BY Finite, OthersStay
    <2>4. /\ Cardinality(S) \in Nat /\ Cardinality(R) \in Nat
          /\ Cardinality(S) - 1 <= Cardinality(R)
          /\ (j \in S => j \in R) => Cardinality(S) <= Cardinality(R)
          /\ j \notin S /\ j \in R => Cardinality(S) + 1 <= Cardinality(R)
      <3> HIDE DEF S, R
      <3>1. QED
        BY <2>3, OneMoved
    <2>5. \/ lim'[l].n <= lim[l].n /\ (j \in S => j \in R)
          \/ lim'[l].n <= lim[l].n - 1
          \/ lim'[l].n <= lim[l].n + 1 /\ j \notin S /\ j \in R
          \/ lim'[l].n <= 0
      BY <1>2 DEF CounterFollows
    <2>6. lim[l].n <= Cardinality(S)
      BY <2>2
    <2> HIDE DEF S, R
    <2>7. lim'[l].n <= Cardinality(R)
      BY <2>1, <2>4, <2>5, <2>6
    <2>8. QED
      BY <2>7 DEF R
  <1>3. ASSUME faults = 0, NEW l \in Limiters, lim'[l].n > 0, ~lim'[l].ttl
        PROVE  \E k \in Inside(l)' : job'[k].pc \in {"expire, refuse", "expire, grant"}
    <2>1. CASE j \in Setting(l)'
      BY <2>1 DEF Setting
    <2>2. CASE lim[l].n > 0 /\ ~lim[l].ttl /\ j \notin Setting(l)
      <3>1. PICK k \in Setting(l) : TRUE
        BY <1>3, <2>2 DEF IInv, LimiterHeals, Setting
      <3>2. k \in Setting(l)'
        BY <2>2, <3>1, OthersStay
      <3>3. QED
        BY <3>2 DEF Setting
    <2>3. QED
      BY <1>3, <2>1, <2>2 DEF KeyFollows
  <1>4. LimiterBacked' /\ LimiterHeals'
    BY <1>2, <1>3 DEF LimiterBacked, LimiterHeals
  <1>5. QED
    BY <1>1, <1>4 DEF IInv

-----------------------------------------------------------------------------
(* The limiter of a job depends on what it still has to do.                *)
LEMMA LimiterKept ==
  ASSUME NEW j \in Jobs
  PROVE  /\ Limiter(j) \in Limiters
         /\ job'[j].todo = job[j].todo => Limiter(j)' = Limiter(j)
  BY DEF Limiter, Limiters, Step

(* What Release leaves of the job's record.                                *)
Released(j, end) ==
    [job[j] EXCEPT !.pc = IF up /\ conc = 1 THEN "delete slot" ELSE end,
                   !.end = IF up /\ conc = 1 THEN end ELSE "none",
                   !.w = NoWorker, !.fallback = FALSE, !.held = FALSE]

LEMMA ReleaseType ==
  ASSUME TypeInv, NEW j \in Jobs, NEW end \in {"refused", "dead", "done"}, Release(j, end)
  PROVE  /\ job' \in [Jobs -> JobRecord] /\ conc' \in Nat
         /\ \A k \in Jobs \ {j} : job'[k] = job[k]
         /\ job'[j].pc = IF up /\ conc = 1 THEN "delete slot" ELSE end
         /\ job'[j].todo = job[j].todo
  <1>1. job \in [Jobs -> JobRecord] /\ job[j] \in JobRecord /\ conc \in Nat
    BY DEF TypeInv
  <1>2. PICK p \in Places, e \in Places :
          /\ job' = [job EXCEPT ![j].pc = p, ![j].end = e, ![j].w = NoWorker,
                                ![j].fallback = FALSE, ![j].held = FALSE]
          /\ p = IF up /\ conc = 1 THEN "delete slot" ELSE end
    <2>1. (IF up /\ conc = 1 THEN "delete slot" ELSE end) \in Places
      BY DEF Places
    <2>2. (IF up /\ conc = 1 THEN end ELSE "none") \in Places
      BY DEF Places
    <2>3. QED
      BY <2>1, <2>2, Zenon DEF Release
  <1>3. conc' = (IF up /\ conc > 0 THEN conc - 1 ELSE conc)
    BY Zenon DEF Release
  <1>4. conc' \in Nat
    BY <1>1, <1>3
  <1>5. job' \in [Jobs -> JobRecord] /\ \A k \in Jobs \ {j} : job'[k] = job[k]
    BY <1>1, <1>2 DEF JobRecord
  <1>6. job'[j].pc = p /\ job'[j].todo = job[j].todo
    BY <1>1, <1>2 DEF JobRecord
  <1>7. QED
    BY <1>2, <1>4, <1>5, <1>6, Zenon

LEMMA EndedType ==
  ASSUME TypeInv, NEW j \in Jobs, NEW ok
  PROVE  /\ Ended(j, ok) \in JobRecord
         /\ Ended(j, ok).pc \in {"validate", "route"}
  <1>1. job[j] \in JobRecord
    BY DEF TypeInv
  <1>2. PICK t \in SUBSET {"audio", "images", "text"}, f \in BOOLEAN, p \in {"validate", "route"} :
          Ended(j, ok) = [job[j] EXCEPT !.todo = t, !.fallback = f, !.pc = p]
    <2>1. job[j].todo \ {Step(j)} \in SUBSET {"audio", "images", "text"}
      BY <1>1 DEF JobRecord
    <2>2. (Step(j) = "text" /\ ~ok) \in BOOLEAN
      OBVIOUS
    <2>3. (IF Step(j) = "text" THEN "validate" ELSE "route") \in {"validate", "route"}
      OBVIOUS
    <2>4. QED
      BY <2>1, <2>2, <2>3, Zenon DEF Ended
  <1>3. QED
    BY <1>1, <1>2 DEF JobRecord, Places

(* The steps of a task between its phases.                                 *)
LEMMA TaskType ==
  ASSUME TypeInv, NEW j \in Jobs,
         \/ Post(j) \/ Dispatch(j) \/ DeleteSlot(j) \/ (\E w \in Workers : Start(j, w))
         \/ Fails(j) \/ TaskAcquire(j) \/ Validated(j) \/ Store(j)
  PROVE  /\ job' \in [Jobs -> JobRecord] /\ conc' \in Nat
         /\ \A k \in Jobs \ {j} : job'[k] = job[k]
         /\ UNCHANGED <<lim, sem, up, faults>>
         /\ job[j].pc \in {"new", "posted", "delete slot", "queued", "phase 1", "store", "validate"}
         /\ job[j].pc # "delete slot" =>
              job'[j].pc \in {"posted", "refused", "delete slot", "queued", "phase 1", "lost", "route",
                              "dead", "store", "done"}
         /\ job[j].pc = "delete slot" => DeleteSlot(j)
  <1> job \in [Jobs -> JobRecord] /\ conc \in Nat /\ job[j] \in JobRecord
    BY DEF TypeInv
  <1>1. CASE Post(j)
    <2>1. PICK p \in {"posted", "refused"} : job' = [job EXCEPT ![j].pc = p]
      BY <1>1, Zenon DEF Post
    <2>2. conc' \in Nat
      BY <1>1 DEF Post, shared
    <2>3. job' \in [Jobs -> JobRecord] /\ job'[j].pc = p /\ \A k \in Jobs \ {j} : job'[k] = job[k]
      BY <2>1 DEF JobRecord, Places
    <2>4. job[j].pc = "new" /\ UNCHANGED <<lim, sem, up, faults>>
      BY <1>1, Zenon DEF Post
    <2>5. QED
      BY <2>2, <2>3, <2>4
  <1>2. CASE Dispatch(j)
    <2>1. CASE Release(j, "refused")
      BY <1>2, <2>1, ReleaseType DEF Dispatch
    <2>2. CASE job' = [job EXCEPT ![j].pc = "queued"] /\ UNCHANGED shared
      BY <1>2, <2>2 DEF Dispatch, JobRecord, Places, shared
    <2>3. QED
      BY <1>2, <2>1, <2>2 DEF Dispatch
  <1>3. CASE DeleteSlot(j)
    <2>1. conc' \in Nat
      BY <1>3 DEF DeleteSlot
    <2>2. job' = [job EXCEPT ![j].pc = job[j].end, ![j].end = "none"]
      BY <1>3, Zenon DEF DeleteSlot
    <2>3. job' \in [Jobs -> JobRecord] /\ \A k \in Jobs \ {j} : job'[k] = job[k]
      BY <2>2 DEF JobRecord, Places
    <2>4. job[j].pc = "delete slot" /\ UNCHANGED <<lim, sem, up, faults>>
      BY <1>3, Zenon DEF DeleteSlot
    <2>5. QED
      BY <1>3, <2>1, <2>3, <2>4
  <1>4. CASE \E w \in Workers : Start(j, w)
    <2>1. PICK w \in Workers : Start(j, w)
      BY <1>4
    <2>2. job' = [job EXCEPT ![j].pc = "phase 1", ![j].w = w]
      BY <2>1, Zenon DEF Start
    <2>3. /\ job' \in [Jobs -> JobRecord] /\ job'[j].pc = "phase 1"
          /\ \A k \in Jobs \ {j} : job'[k] = job[k]
      BY <2>2 DEF JobRecord, Places
    <2>4. job[j].pc = "queued" /\ UNCHANGED <<shared, lim, sem, up, faults>>
      BY <2>1, Zenon DEF Start
    <2>5. QED
      BY <2>3, <2>4 DEF shared
  <1>5. CASE Fails(j)
    <2>1. CASE Release(j, "dead")
      BY <1>5, <2>1, ReleaseType DEF Fails
    <2>2. CASE /\ job' = [job EXCEPT ![j].pc = "queued", ![j].w = NoWorker, ![j].fallback = FALSE,
                                     ![j].held = FALSE, ![j].retries = @ + 1]
               /\ UNCHANGED conc
      <3> DEFINE x == [job[j] EXCEPT !.retries = job[j].retries + 1]
      <3>1. x \in JobRecord
        BY DEF JobRecord
      <3>2. job' = [job EXCEPT ![j] = [x EXCEPT !.pc = "queued", !.w = NoWorker,
                                               !.fallback = FALSE, !.held = FALSE]]
        BY <2>2 DEF JobRecord
      <3> HIDE DEF x
      <3>3. /\ job' \in [Jobs -> JobRecord] /\ job'[j].pc = "queued"
            /\ \A k \in Jobs \ {j} : job'[k] = job[k]
        BY <3>1, <3>2 DEF JobRecord, Places
      <3>4. job[j].pc \in {"phase 1", "store"} /\ UNCHANGED <<lim, sem, up, faults>>
        BY <1>5, Zenon DEF Fails
      <3>5. QED
        BY <2>2, <3>3, <3>4
    <2>3. CASE job' = [job EXCEPT ![j].pc = "lost", ![j].w = NoWorker] /\ UNCHANGED conc
      BY <1>5, <2>3 DEF Fails, JobRecord, Places
    <2>4. QED
      BY <1>5, <2>1, <2>2, <2>3 DEF Fails
  <1>6. CASE TaskAcquire(j)
    <2>1. Media[j] \union {"text"} \in SUBSET {"audio", "images", "text"}
      BY GatewayAssumption DEF GatewayAssumption
    <2>2. conc' \in Nat
      <3>1. conc' = conc + 1 \/ conc' = conc
        BY <1>6, Zenon DEF TaskAcquire
      <3>2. QED
        BY <3>1
    <2>3. PICK t \in SUBSET {"audio", "images", "text"} :
            job' = [job EXCEPT ![j].pc = "route", ![j].held = TRUE, ![j].todo = t]
      BY <1>6, <2>1, Zenon DEF TaskAcquire
    <2>4. /\ job' \in [Jobs -> JobRecord] /\ job'[j].pc = "route"
          /\ \A k \in Jobs \ {j} : job'[k] = job[k]
      BY <2>3 DEF JobRecord, Places
    <2>5. job[j].pc = "phase 1" /\ UNCHANGED <<lim, sem, up, faults>>
      BY <1>6, Zenon DEF TaskAcquire
    <2>6. QED
      BY <2>2, <2>4, <2>5
  <1>7. CASE Validated(j)
    <2>1. CASE Release(j, "dead")
      BY <1>7, <2>1, ReleaseType DEF Validated
    <2>2. CASE job' = [job EXCEPT ![j].pc = "store"] /\ UNCHANGED conc
      BY <1>7, <2>2 DEF Validated, JobRecord, Places
    <2>3. QED
      BY <1>7, <2>1, <2>2 DEF Validated
  <1>8. CASE Store(j)
    BY <1>8, ReleaseType DEF Store
  <1>9. QED
    BY <1>1, <1>2, <1>3, <1>4, <1>5, <1>6, <1>7, <1>8

-----------------------------------------------------------------------------
(* A call while nothing has failed, step by step: where the job goes and   *)
(* what becomes of the counter of its limiter.                             *)

LEMMA Arithmetic ==
  \A a \in Int : a <= a /\ a + 1 \in Int /\ a - 1 \in Int /\ (a - 1 > 0 => a > 0)
  OBVIOUS

LEMMA KeyType ==
  ASSUME TypeInv, NEW l \in Limiters
  PROVE  lim[l].n \in Int /\ lim[l].ttl \in BOOLEAN
  BY DEF TypeInv

(* The three ways to write the key of a limiter.                           *)
LEMMA CountWritten ==
  ASSUME TypeInv, NEW l \in Limiters, NEW m \in Int, lim' = [lim EXCEPT ![l].n = m]
  PROVE  /\ lim' \in [Limiters -> [n : Int, ttl : BOOLEAN]]
         /\ \A k \in Limiters : k # l => lim'[k] = lim[k]
         /\ lim'[l].n = m /\ lim'[l].ttl = lim[l].ttl
  BY DEF TypeInv

LEMMA TtlWritten ==
  ASSUME TypeInv, NEW l \in Limiters, NEW t \in BOOLEAN, lim' = [lim EXCEPT ![l].ttl = t]
  PROVE  /\ lim' \in [Limiters -> [n : Int, ttl : BOOLEAN]]
         /\ \A k \in Limiters : k # l => lim'[k] = lim[k]
         /\ lim'[l].n = lim[l].n /\ lim'[l].ttl = t
  BY DEF TypeInv

LEMMA KeyRemoved ==
  ASSUME TypeInv, NEW l \in Limiters, lim' = [lim EXCEPT ![l] = NoKey]
  PROVE  /\ lim' \in [Limiters -> [n : Int, ttl : BOOLEAN]]
         /\ \A k \in Limiters : k # l => lim'[k] = lim[k]
         /\ lim'[l].n = 0
  BY DEF TypeInv, NoKey

(* The record of the job after a step that only moves it.                  *)
LEMMA MoveType ==
  ASSUME TypeInv, NEW j \in Jobs, NEW p \in Places, job' = [job EXCEPT ![j].pc = p]
  PROVE  /\ job' \in [Jobs -> JobRecord]
         /\ \A k \in Jobs \ {j} : job'[k] = job[k]
         /\ job'[j].pc = p /\ job'[j].todo = job[j].todo
         /\ Limiter(j)' = Limiter(j)
  <1>1. /\ job' \in [Jobs -> JobRecord]
        /\ \A k \in Jobs \ {j} : job'[k] = job[k]
        /\ job'[j].pc = p /\ job'[j].todo = job[j].todo
    BY DEF TypeInv, JobRecord
  <1>2. QED
    BY <1>1, LimiterKept

(* ... and after one that ends the step of the gateway.                    *)
LEMMA EndType ==
  ASSUME TypeInv, NEW j \in Jobs, NEW ok, job' = [job EXCEPT ![j] = Ended(j, ok)]
  PROVE  /\ job' \in [Jobs -> JobRecord]
         /\ \A k \in Jobs \ {j} : job'[k] = job[k]
         /\ job'[j].pc \in {"validate", "route"}
  <1>1. Ended(j, ok) \in JobRecord /\ Ended(j, ok).pc \in {"validate", "route"}
    BY EndedType
  <1>2. QED
    BY <1>1 DEF TypeInv

Calling == {"expire, refuse", "expire, grant", "decr", "call", "release", "release, failed"}

LEMMA InsideFacts ==
  ASSUME NEW j \in Jobs, NEW l \in Limiters
  PROVE  /\ j \in Inside(l) <=> job[j].pc \in Calling /\ Limiter(j) = l
         /\ j \in Inside(l)' <=> job'[j].pc \in Calling /\ Limiter(j)' = l
         /\ j \in Setting(l) <=> job[j].pc \in {"expire, refuse", "expire, grant"} /\ Limiter(j) = l
         /\ j \in Setting(l)' <=> job'[j].pc \in {"expire, refuse", "expire, grant"} /\ Limiter(j)' = l
  BY DEF Inside, Setting, Calling

(* The job is not in the set of another limiter than its own.              *)
LEMMA OtherKey ==
  ASSUME TypeInv, NEW j \in Jobs, NEW l \in Limiters, lim'[l] = lim[l],
         l # Limiter(j) \/ job[j].pc \notin Calling
  PROVE  CounterFollows(j, l) /\ KeyFollows(j, l)
  <1>1. j \notin Inside(l) /\ j \notin Setting(l)
    BY InsideFacts DEF Calling
  <1>2. lim[l].n \in Int
    BY KeyType
  <1>3. QED
    BY <1>1, <1>2 DEF CounterFollows, KeyFollows

(* What a step of a call does.                                             *)
CallStep(j) ==
    /\ job' \in [Jobs -> JobRecord]
    /\ \A k \in Jobs \ {j} : job'[k] = job[k]
    /\ lim' \in [Limiters -> [n : Int, ttl : BOOLEAN]]
    /\ UNCHANGED <<conc, up, faults>>
    /\ job[j].pc \notin {"new", "refused", "done", "dead"}
    /\ job'[j].pc \notin {"new", "refused", "done", "dead"}
    /\ up => \A l \in Limiters : CounterFollows(j, l) /\ KeyFollows(j, l)

LEMMA CircuitOpenStep ==
  ASSUME TypeInv, NEW j \in Jobs, CircuitOpen(j)
  PROVE  CallStep(j)
  <1>1. job[j].pc = "route" /\ lim' = lim /\ UNCHANGED <<conc, up, faults>>
    BY DEF CircuitOpen, shared
  <1>2. /\ job' \in [Jobs -> JobRecord] /\ \A k \in Jobs \ {j} : job'[k] = job[k]
        /\ job'[j].pc \in {"validate", "route"}
    BY EndType DEF CircuitOpen
  <1>3. \A l \in Limiters : CounterFollows(j, l) /\ KeyFollows(j, l)
    BY <1>1, OtherKey DEF Calling
  <1>4. QED
    BY <1>1, <1>2, <1>3 DEF CallStep, TypeInv

LEMMA AnswerStep ==
  ASSUME TypeInv, NEW j \in Jobs, NEW s, NEW ok, Answer(j, s, ok)
  PROVE  CallStep(j)
  <1>1. job[j].pc = "call" /\ lim' = lim /\ UNCHANGED <<conc, up, faults>>
    BY DEF Answer, shared
  <1>2. PICK p \in {"release", "release, failed"} : job' = [job EXCEPT ![j].pc = p]
    BY Zenon DEF Answer
  <1>3. p \in Places
    BY DEF Places
  <1>4. /\ job' \in [Jobs -> JobRecord] /\ \A k \in Jobs \ {j} : job'[k] = job[k]
        /\ job'[j].pc = p /\ Limiter(j)' = Limiter(j)
    BY <1>2, <1>3, MoveType
  <1>5. ASSUME NEW l \in Limiters
        PROVE  CounterFollows(j, l) /\ KeyFollows(j, l)
    <2>1. (j \in Inside(l) => j \in Inside(l)') /\ j \notin Setting(l)
      BY <1>1, <1>4, InsideFacts DEF Calling
    <2>2. lim[l].n \in Int
      BY KeyType
    <2>3. lim'[l].n <= lim[l].n
      BY <1>1, <2>2, Arithmetic, Zenon
    <2>4. QED
      BY <1>1, <2>1, <2>3, Zenon DEF CounterFollows, KeyFollows
  <1>6. QED
    BY <1>1, <1>4, <1>5 DEF CallStep, TypeInv

LEMMA IncrStep ==
  ASSUME TypeInv, NEW j \in Jobs, Incr(j)
  PROVE  CallStep(j)
  <1>1. job[j].pc = "route" /\ UNCHANGED <<conc, up, faults>>
    BY DEF Incr, shared
  <1>2. PICK l \in Limiters : l = Limiter(j)
    BY LimiterKept
  <1>3. CASE ~up
    <2>1. job' = [job EXCEPT ![j].pc = "call"] /\ lim' = lim
      BY <1>3 DEF Incr, Call
    <2>2. "call" \in Places
      BY DEF Places
    <2>3. /\ job' \in [Jobs -> JobRecord] /\ \A k \in Jobs \ {j} : job'[k] = job[k]
          /\ job'[j].pc = "call"
      BY <2>1, <2>2, MoveType
    <2>4. QED
      BY <1>1, <1>3, <2>1, <2>3 DEF CallStep, TypeInv
  <1>4. CASE up
    <2>1. PICK p \in {"expire, refuse", "expire, grant"} : job' = [job EXCEPT ![j].pc = p]
      BY <1>4, Zenon DEF Incr
    <2>2. lim' = [lim EXCEPT ![l].n = lim[l].n + 1]
      BY <1>2, <1>4, Zenon DEF Incr
    <2>3. p \in Places
      BY DEF Places
    <2>4. /\ job' \in [Jobs -> JobRecord] /\ \A k \in Jobs \ {j} : job'[k] = job[k]
          /\ job'[j].pc = p /\ Limiter(j)' = l
      BY <1>2, <2>1, <2>3, MoveType
    <2>5. lim[l].n + 1 \in Int
      BY KeyType, Arithmetic, Zenon
    <2>6. /\ lim' \in [Limiters -> [n : Int, ttl : BOOLEAN]] /\ lim'[l].n = lim[l].n + 1
          /\ \A m \in Limiters : m # l => lim'[m] = lim[m]
      BY <2>2, <2>5, CountWritten
    <2>8. ASSUME NEW m \in Limiters, m # l
          PROVE  CounterFollows(j, m) /\ KeyFollows(j, m)
      BY <1>2, <2>6, <2>8, OtherKey
    <2>9. CounterFollows(j, l) /\ KeyFollows(j, l)
      <3>1. j \notin Inside(l) /\ j \in Inside(l)' /\ j \in Setting(l)'
        BY <1>1, <1>2, <2>4, InsideFacts DEF Calling
      <3>2. lim'[l].n <= lim[l].n + 1
        BY <2>5, <2>6, Arithmetic, Zenon
      <3>3. QED
        BY <3>1, <3>2, Zenon DEF CounterFollows, KeyFollows
    <2>10. QED
      BY <1>1, <2>4, <2>6, <2>8, <2>9 DEF CallStep
  <1>5. QED
    BY <1>3, <1>4

(* A step that writes only the key of the job's limiter.                   *)
LEMMA OwnKey ==
  ASSUME TypeInv, NEW j \in Jobs, NEW l \in Limiters, l = Limiter(j),
         \A k \in Limiters : k # l => lim'[k] = lim[k],
         CounterFollows(j, l), KeyFollows(j, l)
  PROVE  \A k \in Limiters : CounterFollows(j, k) /\ KeyFollows(j, k)
  <1>1. ASSUME NEW k \in Limiters, k # l
        PROVE  CounterFollows(j, k) /\ KeyFollows(j, k)
    BY <1>1, OtherKey
  <1>2. QED
    BY <1>1

(* A counter that has gone down keeps its time to live.                    *)
LEMMA WentDown ==
  ASSUME TypeInv, NEW j \in Jobs, NEW l \in Limiters, job[j].pc \notin {"expire, refuse", "expire, grant"},
         lim'[l].n = lim[l].n - 1, lim'[l].ttl = lim[l].ttl
  PROVE  CounterFollows(j, l) /\ KeyFollows(j, l)
  <1>1. lim[l].n \in Int
    BY KeyType
  <1>2. lim'[l].n <= lim[l].n - 1 /\ (lim'[l].n > 0 => lim[l].n > 0)
    BY <1>1, Arithmetic, Zenon
  <1>3. j \notin Setting(l)
    BY InsideFacts
  <1>4. QED
    BY <1>2, <1>3, Zenon DEF CounterFollows, KeyFollows

LEMMA ExpireStep ==
  ASSUME TypeInv, NEW j \in Jobs, Expire(j)
  PROVE  CallStep(j)
  <1>1. job[j].pc \in {"expire, refuse", "expire, grant"} /\ UNCHANGED <<conc, up, faults>>
    BY Zenon DEF Expire, shared
  <1>2. PICK l \in Limiters : l = Limiter(j)
    BY LimiterKept
  <1>3. PICK p \in {"call", "decr"} : job' = [job EXCEPT ![j].pc = p]
    BY Zenon DEF Expire, Refuse, Call
  <1>4. p \in Places
    BY DEF Places
  <1>5. /\ job' \in [Jobs -> JobRecord] /\ \A k \in Jobs \ {j} : job'[k] = job[k]
        /\ job'[j].pc = p /\ Limiter(j)' = l
    BY <1>2, <1>3, <1>4, MoveType
  <1>6. CASE ~up
    <2>1. lim' = lim
      BY <1>6 DEF Expire
    <2>2. QED
      BY <1>1, <1>5, <1>6, <2>1 DEF CallStep, TypeInv
  <1>7. CASE up
    <2>1. lim' = [lim EXCEPT ![l].ttl = (lim[l].n # 0)]
      BY <1>2, <1>7, Zenon DEF Expire
    <2>2. (lim[l].n # 0) \in BOOLEAN
      OBVIOUS
    <2>3. /\ lim' \in [Limiters -> [n : Int, ttl : BOOLEAN]]
          /\ \A k \in Limiters : k # l => lim'[k] = lim[k]
          /\ lim'[l].n = lim[l].n /\ lim'[l].ttl = (lim[l].n # 0)
      BY <2>1, <2>2, TtlWritten
    <2>4. lim'[l].n <= lim[l].n /\ (lim'[l].n > 0 => lim'[l].n # 0)
      BY <2>3, KeyType
    <2>5. j \in Inside(l)'
      BY <1>5, InsideFacts DEF Calling
    <2>6. CounterFollows(j, l) /\ KeyFollows(j, l)
      BY <2>3, <2>4, <2>5, Zenon DEF CounterFollows, KeyFollows
    <2>7. \A k \in Limiters : CounterFollows(j, k) /\ KeyFollows(j, k)
      BY <1>2, <2>3, <2>6, OwnKey
    <2>8. QED
      BY <1>1, <1>5, <2>3, <2>7 DEF CallStep
  <1>8. QED
    BY <1>6, <1>7

LEMMA DecrRefusedStep ==
  ASSUME TypeInv, NEW j \in Jobs, DecrRefused(j)
  PROVE  CallStep(j)
  <1>1. job[j].pc = "decr" /\ UNCHANGED <<conc, up, faults>>
    BY Zenon DEF DecrRefused, shared
  <1>2. PICK l \in Limiters : l = Limiter(j)
    BY LimiterKept
  <1>3. job' = [job EXCEPT ![j].pc = "call"]
    BY Zenon DEF DecrRefused, Refuse, Call
  <1>4. "call" \in Places
    BY DEF Places
  <1>5. /\ job' \in [Jobs -> JobRecord] /\ \A k \in Jobs \ {j} : job'[k] = job[k]
        /\ job'[j].pc = "call"
    BY <1>3, <1>4, MoveType
  <1>6. CASE ~up
    <2>1. lim' = lim
      BY <1>6 DEF DecrRefused
    <2>2. QED
      BY <1>1, <1>5, <1>6, <2>1 DEF CallStep, TypeInv
  <1>7. CASE up
    <2>1. lim' = [lim EXCEPT ![l].n = lim[l].n - 1]
      BY <1>2, <1>7, Zenon DEF DecrRefused
    <2>2. lim[l].n - 1 \in Int
      BY KeyType
    <2>3. /\ lim' \in [Limiters -> [n : Int, ttl : BOOLEAN]]
          /\ \A k \in Limiters : k # l => lim'[k] = lim[k]
          /\ lim'[l].n = lim[l].n - 1 /\ lim'[l].ttl = lim[l].ttl
      BY <2>1, <2>2, CountWritten
    <2>4. CounterFollows(j, l) /\ KeyFollows(j, l)
      BY <1>1, <2>3, WentDown
    <2>5. \A k \in Limiters : CounterFollows(j, k) /\ KeyFollows(j, k)
      BY <1>2, <2>3, <2>4, OwnKey
    <2>6. QED
      BY <1>1, <1>5, <2>3, <2>5 DEF CallStep
  <1>8. QED
    BY <1>6, <1>7

LEMMA DecrStep ==
  ASSUME TypeInv, NEW j \in Jobs, Decr(j)
  PROVE  CallStep(j)
  <1>1. job[j].pc \in {"release", "release, failed"} /\ UNCHANGED <<conc, up, faults>>
    BY Zenon DEF Decr, shared
  <1>2. PICK l \in Limiters : l = Limiter(j)
    BY LimiterKept
  <1>3. /\ job' \in [Jobs -> JobRecord] /\ \A k \in Jobs \ {j} : job'[k] = job[k]
        /\ job'[j].pc \in {"validate", "route", "delete", "delete, failed"}
    <2>1. CASE \E p \in {"delete", "delete, failed"} : job' = [job EXCEPT ![j].pc = p]
      <3>1. PICK p \in {"delete", "delete, failed"} : job' = [job EXCEPT ![j].pc = p]
        BY <2>1
      <3>2. p \in Places
        BY DEF Places
      <3>3. QED
        BY <3>1, <3>2, MoveType
    <2>2. CASE job' = [job EXCEPT ![j] = Ended(j, job[j].pc = "release")]
      BY <2>2, EndType
    <2>3. QED
      BY <2>1, <2>2, Zenon DEF Decr, Freed
  <1>4. CASE ~up
    <2>1. lim' = lim
      BY <1>4 DEF Decr
    <2>2. QED
      BY <1>1, <1>3, <1>4, <2>1 DEF CallStep, TypeInv
  <1>5. CASE up
    <2>1. lim' = [lim EXCEPT ![l].n = lim[l].n - 1]
      BY <1>2, <1>5, Zenon DEF Decr
    <2>2. lim[l].n - 1 \in Int
      BY KeyType
    <2>3. /\ lim' \in [Limiters -> [n : Int, ttl : BOOLEAN]]
          /\ \A k \in Limiters : k # l => lim'[k] = lim[k]
          /\ lim'[l].n = lim[l].n - 1 /\ lim'[l].ttl = lim[l].ttl
      BY <2>1, <2>2, CountWritten
    <2>4. CounterFollows(j, l) /\ KeyFollows(j, l)
      BY <1>1, <2>3, WentDown
    <2>5. \A k \in Limiters : CounterFollows(j, k) /\ KeyFollows(j, k)
      BY <1>2, <2>3, <2>4, OwnKey
    <2>6. QED
      BY <1>1, <1>3, <2>3, <2>5 DEF CallStep
  <1>6. QED
    BY <1>4, <1>5

LEMMA DeleteStep ==
  ASSUME TypeInv, NEW j \in Jobs, Delete(j)
  PROVE  CallStep(j)
  <1>1. job[j].pc \in {"delete", "delete, failed"} /\ UNCHANGED <<conc, up, faults>>
    BY Zenon DEF Delete, shared
  <1>2. PICK l \in Limiters : l = Limiter(j)
    BY LimiterKept
  <1>3. /\ job' \in [Jobs -> JobRecord] /\ \A k \in Jobs \ {j} : job'[k] = job[k]
        /\ job'[j].pc \in {"validate", "route"}
    BY EndType DEF Delete, Freed
  <1>4. CASE ~up
    <2>1. lim' = lim
      BY <1>4 DEF Delete
    <2>2. QED
      BY <1>1, <1>3, <1>4, <2>1 DEF CallStep, TypeInv
  <1>5. CASE up
    <2>1. lim' = [lim EXCEPT ![l] = NoKey]
      BY <1>2, <1>5, Zenon DEF Delete
    <2>2. /\ lim' \in [Limiters -> [n : Int, ttl : BOOLEAN]]
          /\ \A k \in Limiters : k # l => lim'[k] = lim[k]
          /\ lim'[l].n = 0
      BY <2>1, KeyRemoved
    <2>3. CounterFollows(j, l) /\ KeyFollows(j, l)
      BY <2>2 DEF CounterFollows, KeyFollows
    <2>4. \A k \in Limiters : CounterFollows(j, k) /\ KeyFollows(j, k)
      BY <1>2, <2>2, <2>3, OwnKey
    <2>5. QED
      BY <1>1, <1>3, <2>2, <2>4 DEF CallStep
  <1>6. QED
    BY <1>4, <1>5

LEMMA CrashStep ==
  ASSUME TypeInv, NEW j \in Jobs, Crash(j)
  PROVE  TypeInv' /\ faults' # 0
  <1>1. job \in [Jobs -> JobRecord] /\ job[j] \in JobRecord /\ faults \in Nat
    BY DEF TypeInv
  <1>2. job' = [job EXCEPT ![j].pc = "queued", ![j].w = NoWorker, ![j].todo = {},
                           ![j].fallback = FALSE, ![j].held = FALSE]
    BY Zenon DEF Crash
  <1>3. job' \in [Jobs -> JobRecord]
    BY <1>1, <1>2 DEF JobRecord, Places
  <1>4. faults' = faults + 1 /\ UNCHANGED <<conc, lim, up>>
    BY Zenon DEF Crash, shared
  <1>5. faults' \in Nat /\ faults' # 0
    BY <1>1, <1>4
  <1>6. QED
    BY <1>3, <1>4, <1>5 DEF TypeInv

(* Every step of a job is one of its task, of its call, or a crash.        *)
TaskSteps(j) ==
    \/ Post(j) \/ Dispatch(j) \/ DeleteSlot(j) \/ (\E w \in Workers : Start(j, w))
    \/ Fails(j) \/ TaskAcquire(j) \/ Validated(j) \/ Store(j)

LEMMA StepKinds ==
  ASSUME TypeInv, NEW j \in Jobs, Post(j) \/ Proceed(j) \/ CircuitOpen(j) \/ Fails(j) \/ Crash(j)
  PROVE  TaskSteps(j) \/ CallStep(j) \/ Crash(j)
  <1>1. \A s, ok : Answer(j, s, ok) => CallStep(j)
    BY AnswerStep
  <1>2. TranscribeAudio(j) \/ AnalyzeImages(j) \/ GenerateOutput(j) \/ TimesOut(j) => CallStep(j)
    BY <1>1, Zenon DEF TranscribeAudio, AnalyzeImages, GenerateOutput, TimesOut
  <1>3. CircuitOpen(j) \/ Incr(j) \/ Expire(j) \/ DecrRefused(j) \/ Decr(j) \/ Delete(j) => CallStep(j)
    BY CircuitOpenStep, IncrStep, ExpireStep, DecrRefusedStep, DecrStep, DeleteStep
  <1>4. QED
    BY <1>2, <1>3, Zenon DEF Proceed, TaskSteps

-----------------------------------------------------------------------------
LEMMA InitInvariant == Init => IInv /\ SlotsHeld
  <1> SUFFICES ASSUME Init PROVE IInv /\ SlotsHeld
    OBVIOUS
  <1>1. NewJob \in JobRecord /\ NewJob.pc = "new"
    BY DEF NewJob, JobRecord, Places
  <1>2. TypeInv
    BY <1>1 DEF Init, TypeInv, NoKey
  <1>3. \A l \in Limiters : lim[l].n = 0
    BY DEF Init, NoKey
  <1>4. \A l \in Limiters : Cardinality(Inside(l)) \in Nat
    BY Finite, FS_CardinalityType
  <1>5. LimiterBacked
    BY <1>3, <1>4 DEF LimiterBacked
  <1>6. LimiterHeals
    <2>1. \A l \in Limiters : ~(lim[l].n > 0)
      BY <1>3
    <2>2. QED
      BY <2>1, Zenon DEF LimiterHeals
  <1>7. UpUntilFault
    BY DEF Init, UpUntilFault
  <1>8. "llm" \in Limiters
    BY DEF Limiters
  <1>9. Cardinality(Holding) \in Nat
    BY <1>8, Finite, FS_CardinalityType
  <1>10. SlotsHeld
    BY <1>9 DEF SlotsHeld, Init
  <1>11. QED
    BY <1>2, <1>5, <1>6, <1>7, <1>10 DEF IInv

(* Without a change of the jobs the sets stay.                             *)
LEMMA SameJobs ==
  ASSUME job' = job, NEW l \in Limiters
  PROVE  Inside(l)' = Inside(l) /\ Setting(l)' = Setting(l) /\ Holding' = Holding
  BY DEF Inside, Setting, Holding, Limiter, Step

LEMMA LimiterNext ==
  ASSUME IInv, [Next]_vars
  PROVE  IInv'
  <1> TypeInv
    BY DEF IInv
  <1>1. ASSUME NEW j \in Jobs, TaskSteps(j)
        PROVE  IInv'
    <2>1. /\ job' \in [Jobs -> JobRecord] /\ conc' \in Nat
          /\ \A k \in Jobs \ {j} : job'[k] = job[k]
          /\ UNCHANGED <<lim, sem, up, faults>>
          /\ job[j].pc \in {"new", "posted", "delete slot", "queued", "phase 1", "store", "validate"}
      BY <1>1, TaskType DEF TaskSteps
    <2>2. TypeInv'
      BY <2>1 DEF TypeInv
    <2>3. job[j].pc \notin Calling
      BY <2>1 DEF Calling
    <2>4. ASSUME NEW l \in Limiters
          PROVE  CounterFollows(j, l) /\ KeyFollows(j, l)
      <3>1. lim'[l] = lim[l]
        BY <2>1
      <3>2. QED
        BY <2>3, <3>1, OtherKey
    <2>5. QED
      BY <2>1, <2>2, <2>4, LimiterStep
  <1>2. ASSUME NEW j \in Jobs, CallStep(j)
        PROVE  IInv'
    <2>1. TypeInv'
      BY <1>2 DEF CallStep, TypeInv
    <2>2. faults = 0 => \A l \in Limiters : CounterFollows(j, l) /\ KeyFollows(j, l)
      BY <1>2 DEF CallStep, IInv, UpUntilFault
    <2>3. QED
      BY <1>2, <2>1, <2>2, LimiterStep DEF CallStep
  <1>3. ASSUME TypeInv', faults' # 0
        PROVE  IInv'
    BY <1>3 DEF IInv, UpUntilFault, LimiterBacked, LimiterHeals
  <1>4. ASSUME NEW l \in Limiters, LimiterExpires(l)
        PROVE  IInv'
    <2>1. lim' = [lim EXCEPT ![l] = NoKey] /\ UNCHANGED <<job, conc, up, faults>>
      BY <1>4 DEF LimiterExpires, shared
    <2>2. /\ lim' \in [Limiters -> [n : Int, ttl : BOOLEAN]]
          /\ \A k \in Limiters : k # l => lim'[k] = lim[k]
          /\ lim'[l].n = 0
      BY <2>1, KeyRemoved
    <2>3. TypeInv'
      BY <2>1, <2>2 DEF TypeInv
    <2>4. Cardinality(Inside(l)) \in Nat
      BY Finite, FS_CardinalityType
    <2>5. \A k \in Limiters : Inside(k)' = Inside(k)
      BY <2>1, SameJobs
    <2>6. LimiterBacked'
      <3>1. \A k \in Limiters : lim'[k].n > 0 => lim'[k] = lim[k]
        BY <2>2
      <3>2. SUFFICES ASSUME faults = 0, NEW k \in Limiters
                     PROVE  lim'[k].n <= Cardinality(Inside(k)')
        BY <2>1 DEF LimiterBacked
      <3>3. CASE k = l
        <4>1. lim'[k].n <= Cardinality(Inside(k))
          BY <2>2, <2>4, <3>3
        <4>2. QED
          BY <4>1, <2>5
      <3>4. CASE k # l
        <4>1. lim'[k].n <= Cardinality(Inside(k))
          BY <2>2, <3>2, <3>4 DEF IInv, LimiterBacked
        <4>2. QED
          BY <4>1, <2>5
      <3>5. QED
        BY <3>3, <3>4
    <2>7. LimiterHeals'
      <3>1. SUFFICES ASSUME faults = 0, NEW k \in Limiters, lim'[k].n > 0, ~lim'[k].ttl
                     PROVE  \E j \in Inside(k)' : job'[j].pc \in {"expire, refuse", "expire, grant"}
        BY <2>1 DEF LimiterHeals
      <3>2. k # l
        BY <2>2, <3>1
      <3>3. lim'[k] = lim[k]
        BY <2>2, <3>2
      <3>4. \E j \in Inside(k) : job[j].pc \in {"expire, refuse", "expire, grant"}
        BY <3>1, <3>3 DEF IInv, LimiterHeals
      <3>5. QED
        BY <2>1, <2>5, <3>4
    <2>8. QED
      BY <2>1, <2>3, <2>6, <2>7 DEF IInv, UpUntilFault
  <1>5. ASSUME UNCHANGED <<job, lim, faults>>, up' \in BOOLEAN, up => up', conc' \in Nat
        PROVE  IInv'
    <2>1. TypeInv'
      BY <1>5 DEF TypeInv
    <2>2. UpUntilFault'
      BY <1>5 DEF IInv, UpUntilFault
    <2>3. \A k \in Limiters : Inside(k)' = Inside(k)
      BY <1>5, SameJobs
    <2>4. LimiterBacked' /\ LimiterHeals'
      BY <1>5, <2>3 DEF IInv, LimiterBacked, LimiterHeals
    <2>5. QED
      BY <2>1, <2>2, <2>4 DEF IInv
  <1>6. CASE SlotExpires
    <2>1. UNCHANGED <<job, lim, faults, up>> /\ conc' = 0
      BY <1>6, Zenon DEF SlotExpires
    <2>2. QED
      BY <1>5, <2>1 DEF TypeInv
  <1>7. CASE RedisReturns
    <2>1. UNCHANGED <<job, lim, faults, conc>> /\ up' = TRUE
      BY <1>7, Zenon DEF RedisReturns, shared
    <2>2. QED
      BY <1>5, <2>1 DEF TypeInv
  <1>8. CASE Outage
    <2>1. UNCHANGED <<job, lim, conc>> /\ up' = FALSE /\ faults' = faults + 1
      BY <1>8, Zenon DEF Outage, shared
    <2>2. faults' \in Nat /\ faults' # 0
      <3>1. faults \in Nat
        BY DEF TypeInv
      <3>2. QED
        BY <2>1, <3>1
    <2>3. TypeInv'
      BY <2>1, <2>2, Zenon DEF TypeInv
    <2>4. QED
      BY <2>2, <2>3, <1>3
  <1>9. CASE UNCHANGED vars
    <2>1. UNCHANGED <<job, lim, faults, up, conc>>
      BY <1>9, Zenon DEF vars
    <2>2. QED
      BY <1>5, <2>1 DEF TypeInv
  <1>10. ASSUME NEW j \in Jobs, Post(j) \/ Proceed(j) \/ CircuitOpen(j) \/ Fails(j) \/ Crash(j)
         PROVE  IInv'
    BY <1>1, <1>2, <1>3, <1>10, StepKinds, CrashStep
  <1>11. QED
    BY <1>4, <1>6, <1>7, <1>8, <1>9, <1>10, Zenon DEF Next

-----------------------------------------------------------------------------
(* What a step of job j may do to the company's counter.                   *)
SlotFollows(j) ==
    \/ conc' <= conc /\ (j \in Holding => j \in Holding')
    \/ conc' <= conc - 1
    \/ conc' <= conc + 1 /\ j \notin Holding /\ j \in Holding'
    \/ conc' = 0
    \/ conc' = 1 /\ j \in Holding'

LEMMA SlotStep ==
  ASSUME TypeInv, conc' \in Nat, SlotsHeld, NEW j \in Jobs, \A k \in Jobs \ {j} : job'[k] = job[k],
         faults = 0, SlotFollows(j)
  PROVE  conc' <= Cardinality(Holding')
  <1> DEFINE S == Holding
             R == Holding'
  <1>1. "llm" \in Limiters
    BY DEF Limiters
  <1>2. IsFiniteSet(S) /\ IsFiniteSet(R) /\ S \ {j} \subseteq R
    BY <1>1, Finite, OthersStay
  <1>3. conc \in Nat /\ conc <= Cardinality(S)
    BY DEF TypeInv, SlotsHeld
  <1>4. \/ conc' <= conc /\ (j \in S => j \in R)
        \/ conc' <= conc - 1
        \/ conc' <= conc + 1 /\ j \notin S /\ j \in R
        \/ conc' = 0
        \/ conc' = 1 /\ j \in R
    BY DEF SlotFollows
  <1>5. conc' <= Cardinality(R)
    <2> HIDE DEF S, R
    <2>1. /\ Cardinality(S) \in Nat /\ Cardinality(R) \in Nat
          /\ Cardinality(S) - 1 <= Cardinality(R)
          /\ (j \in S => j \in R) => Cardinality(S) <= Cardinality(R)
          /\ j \notin S /\ j \in R => Cardinality(S) + 1 <= Cardinality(R)
      BY <1>2, OneMoved
    <2>2. j \in R => Cardinality(R) # 0
      BY <1>2, FS_EmptySet
    <2>3. QED
      BY <1>3, <1>4, <2>1, <2>2
  <1>6. QED
    BY <1>5

LEMMA HoldingFacts ==
  ASSUME NEW j \in Jobs
  PROVE  /\ j \in Holding <=> job[j].pc \notin {"new", "refused", "done", "dead"}
         /\ j \in Holding' <=> job'[j].pc \notin {"new", "refused", "done", "dead"}
  BY DEF Holding

(* A release takes one off, or finds nothing to take.                      *)
LEMMA ReleaseFollows ==
  ASSUME TypeInv, up, NEW j \in Jobs, NEW end, Release(j, end)
  PROVE  SlotFollows(j)
  <1>1. conc \in Nat
    BY DEF TypeInv
  <1>2. conc' = (IF conc > 0 THEN conc - 1 ELSE conc)
    BY Zenon DEF Release
  <1>3. conc' <= conc - 1 \/ conc' = 0
    BY <1>1, <1>2
  <1>4. QED
    BY <1>3, Zenon DEF SlotFollows

(* A job that goes on keeps its slot.                                      *)
LEMMA SameSlot ==
  ASSUME TypeInv, NEW j \in Jobs, conc' = conc, j \in Holding => j \in Holding'
  PROVE  SlotFollows(j)
  BY DEF TypeInv, SlotFollows

LEMMA TaskSlots ==
  ASSUME TypeInv, up, DefaultLimit = 1, NEW j \in Jobs, TaskSteps(j)
  PROVE  SlotFollows(j)
  <1> conc \in Nat
    BY DEF TypeInv
  <1>1. CASE Post(j)
    <2>1. job \in [Jobs -> JobRecord] /\ job[j].pc = "new"
      BY <1>1, Zenon DEF Post, TypeInv
    <2>2. j \notin Holding
      BY <2>1, HoldingFacts
    <2>3. CASE conc' = conc
      BY <2>2, <2>3, SameSlot
    <2>4. CASE conc' = conc + 1 /\ job' = [job EXCEPT ![j].pc = "posted"]
      <3>1. job'[j].pc = "posted"
        BY <2>1, <2>4 DEF JobRecord
      <3>2. j \in Holding'
        BY <3>1, HoldingFacts
      <3>3. conc' <= conc + 1
        BY <2>4
      <3>4. QED
        BY <2>2, <3>2, <3>3, Zenon DEF SlotFollows
    <2>5. QED
      BY <1>1, <2>3, <2>4, Zenon DEF Post, shared
  <1>2. CASE Dispatch(j)
    <2>1. CASE Release(j, "refused")
      BY <2>1, ReleaseFollows
    <2>2. CASE job' = [job EXCEPT ![j].pc = "queued"] /\ UNCHANGED shared
      <3>1. job'[j].pc = "queued" /\ conc' = conc
        BY <2>2 DEF TypeInv, JobRecord, shared
      <3>2. j \in Holding'
        BY <3>1, HoldingFacts
      <3>3. QED
        BY <3>1, <3>2, SameSlot
    <2>3. QED
      BY <1>2, <2>1, <2>2, Zenon DEF Dispatch
  <1>3. CASE DeleteSlot(j)
    BY <1>3 DEF DeleteSlot, SlotFollows
  <1>4. CASE \E w \in Workers : Start(j, w)
    <2>1. PICK w \in Workers : Start(j, w)
      BY <1>4
    <2>2. job' = [job EXCEPT ![j].pc = "phase 1", ![j].w = w] /\ UNCHANGED shared
      BY <2>1, Zenon DEF Start
    <2>3. job'[j].pc = "phase 1" /\ conc' = conc
      BY <2>2 DEF TypeInv, JobRecord, shared
    <2>4. j \in Holding'
      BY <2>3, HoldingFacts
    <2>5. QED
      BY <2>3, <2>4, SameSlot
  <1>5. CASE Fails(j)
    <2>1. CASE Release(j, "dead")
      BY <2>1, ReleaseFollows
    <2>2. CASE /\ job' = [job EXCEPT ![j].pc = "queued", ![j].w = NoWorker, ![j].fallback = FALSE,
                                     ![j].held = FALSE, ![j].retries = @ + 1]
               /\ UNCHANGED conc
      <3>1. job'[j].pc = "queued"
        BY <2>2 DEF TypeInv, JobRecord
      <3>2. j \in Holding'
        BY <3>1, HoldingFacts
      <3>3. QED
        BY <2>2, <3>2, SameSlot
    <2>3. CASE job' = [job EXCEPT ![j].pc = "lost", ![j].w = NoWorker] /\ UNCHANGED conc
      <3>1. job'[j].pc = "lost"
        BY <2>3 DEF TypeInv, JobRecord
      <3>2. j \in Holding'
        BY <3>1, HoldingFacts
      <3>3. QED
        BY <2>3, <3>2, SameSlot
    <2>4. QED
      BY <1>5, <2>1, <2>2, <2>3, Zenon DEF Fails
  <1>6. CASE TaskAcquire(j)
    <2>1. conc' = IF conc < 1 THEN conc + 1 ELSE conc
      BY <1>6, Zenon DEF TaskAcquire
    <2>2. job' = [job EXCEPT ![j].pc = "route", ![j].held = TRUE, ![j].todo = Media[j] \cup {"text"}]
      BY <1>6, Zenon DEF TaskAcquire
    <2>3. job'[j].pc = "route"
      BY <2>2 DEF TypeInv, JobRecord
    <2>4. j \in Holding'
      BY <2>3, HoldingFacts
    <2>5. conc' = 1 \/ conc' <= conc
      BY <2>1
    <2>6. QED
      BY <2>4, <2>5, Zenon DEF SlotFollows
  <1>7. CASE Validated(j)
    <2>1. CASE Release(j, "dead")
      BY <2>1, ReleaseFollows
    <2>2. CASE job' = [job EXCEPT ![j].pc = "store"] /\ UNCHANGED conc
      <3>1. job'[j].pc = "store"
        BY <2>2 DEF TypeInv, JobRecord
      <3>2. j \in Holding'
        BY <3>1, HoldingFacts
      <3>3. QED
        BY <2>2, <3>2, SameSlot
    <2>3. QED
      BY <1>7, <2>1, <2>2, Zenon DEF Validated
  <1>8. CASE Store(j)
    BY <1>8, ReleaseFollows DEF Store
  <1>9. QED
    BY <1>1, <1>2, <1>3, <1>4, <1>5, <1>6, <1>7, <1>8, Zenon DEF TaskSteps

LEMMA SlotsNext ==
  ASSUME IInv, IInv', SlotsHeld, DefaultLimit = 1, [Next]_vars
  PROVE  SlotsHeld'
  <1>1. SUFFICES ASSUME faults' = 0
                 PROVE  conc' <= Cardinality(Holding')
    BY DEF SlotsHeld
  <1>2. TypeInv /\ TypeInv' /\ (faults = 0 => up)
    BY DEF IInv, UpUntilFault
  <1>3. faults \in Nat /\ conc \in Nat /\ conc' \in Nat
    BY <1>2 DEF TypeInv
  <1>4. ASSUME job' = job, faults' = faults, conc' = conc \/ conc' = 0
        PROVE  conc' <= Cardinality(Holding')
    <2>1. "llm" \in Limiters
      BY DEF Limiters
    <2>2. Cardinality(Holding) \in Nat /\ Holding' = Holding
      BY <1>4, <2>1, Finite, SameJobs, FS_CardinalityType
    <2>3. conc' <= Cardinality(Holding)
      BY <1>1, <1>3, <1>4, <2>2 DEF SlotsHeld
    <2>4. QED
      BY <2>2, <2>3
  <1>5. ASSUME NEW j \in Jobs, TaskSteps(j)
        PROVE  conc' <= Cardinality(Holding')
    <2>1. (\A k \in Jobs \ {j} : job'[k] = job[k]) /\ faults' = faults
      BY <1>2, <1>5, TaskType DEF TaskSteps
    <2>2. SlotFollows(j)
      BY <1>1, <1>2, <1>5, <2>1, TaskSlots
    <2>3. QED
      BY <1>1, <1>2, <1>3, <2>1, <2>2, SlotStep
  <1>6. ASSUME NEW j \in Jobs, CallStep(j)
        PROVE  conc' <= Cardinality(Holding')
    <2>1. (\A k \in Jobs \ {j} : job'[k] = job[k]) /\ UNCHANGED <<conc, faults>>
      BY <1>6 DEF CallStep
    <2>2. j \in Holding'
      BY <1>6, HoldingFacts DEF CallStep
    <2>3. SlotFollows(j)
      BY <1>2, <2>1, <2>2, SameSlot
    <2>4. QED
      BY <1>1, <1>2, <1>3, <2>1, <2>3, SlotStep
  <1>7. ASSUME NEW j \in Jobs, Post(j) \/ Proceed(j) \/ CircuitOpen(j) \/ Fails(j) \/ Crash(j)
        PROVE  conc' <= Cardinality(Holding')
    BY <1>1, <1>2, <1>5, <1>6, <1>7, StepKinds, CrashStep
  <1>8. CASE (\E l \in Limiters : LimiterExpires(l)) \/ SlotExpires \/ RedisReturns \/ UNCHANGED vars
    <2>1. job' = job /\ faults' = faults /\ (conc' = conc \/ conc' = 0)
      BY <1>8, Zenon DEF LimiterExpires, SlotExpires, RedisReturns, vars, shared
    <2>2. QED
      BY <1>4, <2>1
  <1>9. CASE Outage
    <2>1. faults' = faults + 1
      BY <1>9, Zenon DEF Outage
    <2>2. QED
      BY <1>1, <1>3, <2>1
  <1>10. QED
    BY <1>7, <1>8, <1>9, Zenon DEF Next

(* A job that holds a slot is under way or died before phase 2.            *)
LEMMA HoldingIsOpenOrLost ==
  SlotsHeld => SlotsBacked
  <1> DEFINE Lost == {j \in Jobs : job[j].pc = "lost"}
  <1>1. Open \subseteq Jobs /\ Lost \subseteq Jobs /\ Open \intersect Lost = {} /\ Holding = Open \union Lost
    BY DEF Open, Holding
  <1>2. IsFiniteSet(Open) /\ IsFiniteSet(Lost)
    BY <1>1, FS_Subset, GatewayAssumption DEF GatewayAssumption
  <1>3. Cardinality(Holding) = Cardinality(Open) + Cardinality(Lost)
    <2> HIDE DEF Lost
    <2>1. /\ Cardinality(Open \union Lost) =
               Cardinality(Open) + Cardinality(Lost) - Cardinality(Open \intersect Lost)
          /\ Cardinality(Open \intersect Lost) = 0
          /\ Cardinality(Open) \in Nat /\ Cardinality(Lost) \in Nat
      BY <1>1, <1>2, FS_Union, FS_EmptySet, FS_CardinalityType
    <2>2. QED
      BY <1>1, <2>1
  <1>4. QED
    BY <1>3 DEF SlotsHeld, SlotsBacked

-----------------------------------------------------------------------------
(* The inductive invariant of the limiters.                                *)
THEOREM GatewayInvariant == Spec => []IInv
  <1>1. Init => IInv
    BY InitInvariant
  <1>2. IInv /\ [Next]_vars => IInv'
    BY LimiterNext
  <1>3. QED
    BY <1>1, <1>2, PTL DEF Spec

(* Until something fails, the counter of a ConcurrencyLimiter in Redis     *)
(* never exceeds the calls between their INCR and their DECR, for any      *)
(* number of jobs, workers and slots (app/ai/concurrency.py): calls that   *)
(* are made although acquire refused them release what they never had, and *)
(* that only lowers the counter.                                           *)
THEOREM LimiterBackedTheorem == Spec => []LimiterBacked
  <1>1. IInv => LimiterBacked
    BY DEF IInv
  <1>2. QED
    BY <1>1, GatewayInvariant, PTL

(* Until something fails, a counter above 0 without a time to live belongs *)
(* to a call that is about to set it: INCR and EXPIRE are two commands,    *)
(* and no other call can take the time to live away in between.            *)
THEOREM LimiterHealsTheorem == Spec => []LimiterHeals
  <1>1. IInv => LimiterHeals
    BY DEF IInv
  <1>2. QED
    BY <1>1, GatewayInvariant, PTL

(* Until something fails, conc:<company> counts at most the jobs that are  *)
(* under way and those that died before phase 2, for any plan.  This rests *)
(* on plan "default", with which the task asks for a second slot: it is no *)
(* plan of PLAN_TIERS and gets the one slot of "free"                      *)
(* (app/billing/concurrency.py:38), so the second acquire can only restore *)
(* a counter that was deleted too early.                                   *)
THEOREM SlotsBackedTheorem ==
  ASSUME DefaultLimit = 1
  PROVE  Spec => []SlotsBacked
  <1>1. Init => IInv /\ SlotsHeld
    BY InitInvariant
  <1>2. (IInv /\ SlotsHeld) /\ [Next]_vars => (IInv /\ SlotsHeld)'
    <2>1. SUFFICES ASSUME IInv, SlotsHeld, [Next]_vars
                   PROVE  IInv' /\ SlotsHeld'
      OBVIOUS
    <2>2. IInv'
      BY <2>1, LimiterNext
    <2>3. SlotsHeld'
      BY <2>1, <2>2, SlotsNext
    <2>4. QED
      BY <2>2, <2>3
  <1>3. QED
    BY <1>1, <1>2, HoldingIsOpenOrLost, PTL DEF Spec

-----------------------------------------------------------------------------
(* The circuit breaker.                                                    *)

Breaker == [state : {"closed", "open", "half_open"},
            failures : 0..Threshold, successes : 0..ResetGate,
            lastFail : {"none", "recent", "cooled"},
            attempts : 0..HalfOpenMax,
            cooldown : BaseCooldown..MaxCooldown]

(* What the counters of a breaker say of its state.                        *)
Sound(b) ==
    /\ b \in Breaker
    /\ b.state = "closed" => b.failures < Threshold
    /\ b.successes >= StabilityGate => b.state = "closed"
    /\ b.successes >= ResetGate => b.cooldown = BaseCooldown

(* A new breaker, and one of a restarted replica, is sound.                *)
LEMMA ClosedSound == Sound(Closed)
  BY BreakerAssumption DEF BreakerAssumption, Sound, Breaker, Closed

(* is_available keeps a breaker sound.                                     *)
LEMMA AskedSound == ASSUME NEW b, Sound(b) PROVE Sound(Asked(b))
  <1> USE BreakerAssumption DEF BreakerAssumption, Sound, Breaker
  <1>1. CASE b.state = "open" /\ LocalAdmits(b)
    <2> DEFINE h == [b EXCEPT !.state = "half_open"]
    <2>1. Asked(b) = [h EXCEPT !.attempts = 0]
      BY <1>1 DEF Asked
    <2>2. Sound(h)
      BY <1>1
    <2> HIDE DEF h
    <2> QED
      BY <2>1, <2>2
  <1>2. CASE b.state = "half_open" /\ LocalAdmits(b)
    <2>1. Asked(b) = [b EXCEPT !.attempts = @ + 1]
      BY <1>2 DEF Asked
    <2>2. b.attempts + 1 \in 0..HalfOpenMax
      BY <1>2 DEF LocalAdmits
    <2> QED
      BY <1>2, <2>1, <2>2
  <1>3. CASE ~(b.state = "open" /\ LocalAdmits(b)) /\ ~(b.state = "half_open" /\ LocalAdmits(b))
    BY <1>3 DEF Asked
  <1> QED
    BY <1>1, <1>2, <1>3

(* record_success keeps a breaker sound.                                   *)
LEMMA SucceededSound == ASSUME NEW b, Sound(b) PROVE Sound(Succeeded(b))
  BY BreakerAssumption DEF BreakerAssumption, Sound, Breaker, Succeeded, Saturated

(* record_failure keeps a breaker sound.                                   *)
LEMMA FailedSound == ASSUME NEW b, Sound(b) PROVE Sound(Failed(b))
  BY BreakerAssumption DEF BreakerAssumption, Sound, Breaker, Failed, Saturated, Least

(* No request and no failure closes a breaker that is not closed.          *)
LEMMA OnlySuccessCloses ==
  ASSUME NEW b, b.state \in {"open", "half_open"}
  PROVE  Asked(b).state # "closed" /\ Failed(b).state # "closed"
  BY DEF Asked, Failed

-----------------------------------------------------------------------------
(* A request that is about to write open to the hash has left its breaker  *)
(* open; the lock keeps it so.                                             *)
WriterIsOpen == \A c \in Calls : pc[c] = "hset" => cb[c[1]].state = "open"

(* Every breaker is sound.                                                 *)
AllSound == \A r \in Replicas : Sound(cb[r])

BreakerInv ==
    /\ TypeOK
    /\ AllSound
    /\ breakdowns = 0 => redisUp
    /\ WriterIsOpen
    /\ OpenKeyExpires
    /\ OpenKeyHasOwner

(* Fresh replicas and an empty Redis satisfy the invariant.                *)
LEMMA BreakerInitInv == BreakerInit => BreakerInv
  <1> SUFFICES ASSUME BreakerInit PROVE BreakerInv
    OBVIOUS
  <1>1. TypeOK
    BY BreakerAssumption, ClosedSound DEF BreakerAssumption, BreakerInit, TypeOK, Sound, Breaker
  <1> QED
    BY <1>1, ClosedSound DEF BreakerInit, BreakerInv, AllSound, WriterIsOpen, OpenKeyExpires, OpenKeyHasOwner

(* A step that changes the breaker of the replica of request c, under its  *)
(* lock, to a sound one keeps what is said of each breaker.                *)
LEMMA BreakerStep ==
  ASSUME BreakerInv, NEW c \in Calls, ~Locked(c[1]), NEW b, Sound(b),
         cb' = [cb EXCEPT ![c[1]] = b], NEW p,
         pc' = [pc EXCEPT ![c] = p],
         p \in {"idle", "running", "hdel", "hset"}, p = "hset" => b.state = "open",
         UNCHANGED <<hash, redisUp, breakdowns>>
  PROVE  /\ TypeOK' /\ AllSound'
         /\ (breakdowns = 0 => redisUp)' /\ WriterIsOpen'
         /\ pc[c] \notin {"hset rest", "expire"} => OpenKeyExpires'
  <1>1. \A d \in Calls : d[1] \in Replicas
    BY BreakerAssumption DEF BreakerAssumption
  <1>2. TypeOK'
    BY <1>1 DEF BreakerInv, TypeOK, Sound, Breaker
  <1>3. AllSound'
    <2> SUFFICES ASSUME NEW r \in Replicas PROVE Sound(cb'[r])
      BY DEF AllSound
    <2> QED
      BY <1>1 DEF BreakerInv, TypeOK, AllSound
  <1>4. WriterIsOpen'
    <2> SUFFICES ASSUME NEW d \in Calls, pc'[d] = "hset" PROVE cb'[d[1]].state = "open"
      BY DEF WriterIsOpen
    <2>1. CASE d = c
      BY <1>1, <2>1 DEF BreakerInv, TypeOK
    <2>2. CASE d # c
      <3>1. pc[d] = "hset" /\ cb[d[1]].state = "open"
        BY <2>2 DEF BreakerInv, TypeOK, WriterIsOpen
      <3>2. d[1] # c[1]
        BY <3>1 DEF Locked
      <3> QED
        BY <1>1, <3>1, <3>2 DEF BreakerInv, TypeOK
    <2> QED
      BY <2>1, <2>2
  <1>5. pc[c] \notin {"hset rest", "expire"} => OpenKeyExpires'
    BY DEF BreakerInv, TypeOK, OpenKeyExpires
  <1> QED
    BY <1>2, <1>3, <1>4, <1>5 DEF BreakerInv

(* Every step of a request, of a replica and of Redis keeps the invariant. *)
LEMMA BreakerStepInv == BreakerInv /\ [BreakerNext]_breakerVars => BreakerInv'
  <1> SUFFICES ASSUME BreakerInv, [BreakerNext]_breakerVars PROVE BreakerInv'
    OBVIOUS
  <1> USE DEF BreakerInv
  <1>0. \A d \in Calls : d[1] \in Replicas
    BY BreakerAssumption DEF BreakerAssumption
  <1>1. ASSUME NEW c \in Calls, RedisAdmits(c) \/ RedisSilent(c) PROVE BreakerInv'
    BY <1>1 DEF RedisAdmits, RedisSilent, Kinds, TypeOK, AllSound, WriterIsOpen, OpenKeyExpires,
                OpenKeyHasOwner
  <1>2. ASSUME NEW c \in Calls, LocalCheck(c) PROVE BreakerInv'
    <2>1. /\ Sound(cb[c[1]]) /\ Sound(Asked(cb[c[1]]))
          /\ cb[c[1]].state # "closed" => Asked(cb[c[1]]).state # "closed"
      BY <1>0, AskedSound, OnlySuccessCloses DEF AllSound, Sound, Breaker
    <2>2. PICK p \in {"idle", "running"} : pc' = [pc EXCEPT ![c] = p]
      BY <1>2 DEF LocalCheck, Kinds
    <2>3. TypeOK' /\ AllSound' /\ (breakdowns = 0 => redisUp)' /\ WriterIsOpen' /\ OpenKeyExpires'
      BY <1>2, <2>1, <2>2, BreakerStep DEF LocalCheck, Kinds
    <2>4. OpenKeyHasOwner'
      BY <1>0, <1>2, <2>1, <2>2 DEF LocalCheck, Kinds, OpenKeyHasOwner, TypeOK
    <2> QED
      BY <2>3, <2>4
  <1>3. ASSUME NEW c \in Calls, Succeed(c) PROVE BreakerInv'
    <2> DEFINE b == Succeeded(cb[c[1]])
    <2>1. Sound(b)
      BY <1>0, SucceededSound DEF AllSound
    <2>2. /\ pc[c] \notin {"hset rest", "expire"} /\ ~Locked(c[1])
          /\ cb' = [cb EXCEPT ![c[1]] = b]
          /\ UNCHANGED <<hash, redisUp, breakdowns>>
      BY <1>3 DEF Succeed
    <2>3. PICK p \in {"hdel"} : pc' = [pc EXCEPT ![c] = p]
      BY <1>3 DEF Succeed
    <2> HIDE DEF b
    <2>4. TypeOK' /\ AllSound' /\ (breakdowns = 0 => redisUp)' /\ WriterIsOpen' /\ OpenKeyExpires'
      BY <2>1, <2>2, <2>3, BreakerStep
    <2>5. OpenKeyHasOwner'
      BY <1>3 DEF Succeed, OpenKeyHasOwner, TypeOK
    <2> QED
      BY <2>5, <2>4
  <1>4. ASSUME NEW c \in Calls, Fail(c) PROVE BreakerInv'
    <2>1. /\ Sound(cb[c[1]]) /\ Sound(Failed(cb[c[1]]))
          /\ cb[c[1]].state # "closed" => Failed(cb[c[1]]).state # "closed"
      BY <1>0, FailedSound, OnlySuccessCloses DEF AllSound, Sound, Breaker
    <2>2. PICK p \in {"idle", "hset"} :
              /\ pc' = [pc EXCEPT ![c] = p]
              /\ p = "hset" => Failed(cb[c[1]]).state = "open"
      BY <1>4 DEF Fail, Trips, Failed
    <2>3. TypeOK' /\ AllSound' /\ (breakdowns = 0 => redisUp)' /\ WriterIsOpen' /\ OpenKeyExpires'
      <3> DEFINE b == Failed(cb[c[1]])
      <3>1. /\ pc[c] \notin {"hset rest", "expire"} /\ ~Locked(c[1])
            /\ cb' = [cb EXCEPT ![c[1]] = b]
            /\ UNCHANGED <<hash, redisUp, breakdowns>>
        BY <1>4 DEF Fail
      <3>2. Sound(b) /\ (p = "hset" => b.state = "open")
        BY <2>1, <2>2
      <3> HIDE DEF b
      <3> QED
        BY <2>2, <3>1, <3>2, BreakerStep
    <2>4. OpenKeyHasOwner'
      BY <1>0, <1>4, <2>1, <2>2 DEF Fail, OpenKeyHasOwner, TypeOK
    <2> QED
      BY <2>3, <2>4
  <1>5. ASSUME NEW c \in Calls, DeleteOpen(c) \/ DeleteRest(c) PROVE BreakerInv'
    BY <1>5 DEF DeleteOpen, DeleteRest, Without, TypeOK, AllSound, WriterIsOpen,
                OpenKeyExpires, OpenKeyHasOwner
  <1>6. ASSUME NEW c \in Calls, SetOpen(c) PROVE BreakerInv'
    BY <1>0, <1>6 DEF SetOpen, FailureWrite, TypeOK, AllSound, WriterIsOpen,
                OpenKeyExpires, OpenKeyHasOwner
  <1>7. ASSUME NEW c \in Calls, SetRest(c) PROVE BreakerInv'
    BY <1>7 DEF SetRest, FailureWrite, TypeOK, AllSound, WriterIsOpen, OpenKeyExpires,
                OpenKeyHasOwner
  <1>8. ASSUME NEW c \in Calls, SetExpiry(c) PROVE BreakerInv'
    BY <1>8 DEF SetExpiry, FailureWrite, TypeOK, AllSound, WriterIsOpen, OpenKeyExpires,
                OpenKeyHasOwner
  <1>9. ASSUME NEW r \in Replicas, CooldownPasses(r) PROVE BreakerInv'
    <2> DEFINE b == [cb[r] EXCEPT !.lastFail = "cooled"]
    <2>1. cb' = [cb EXCEPT ![r] = b] /\ UNCHANGED <<pc, hash, redisUp, breakdowns>>
      BY <1>9 DEF CooldownPasses
    <2>2. Sound(b) /\ b \in Breaker /\ b.state = cb[r].state
      BY DEF AllSound, Sound, Breaker
    <2> HIDE DEF b
    <2>3. TypeOK'
      BY <2>1, <2>2 DEF TypeOK, Breaker
    <2>4. AllSound'
      <3> SUFFICES ASSUME NEW q \in Replicas PROVE Sound(cb'[q])
        BY DEF AllSound
      <3> QED
        BY <2>1, <2>2 DEF AllSound, TypeOK
    <2>5. \A q \in Replicas : cb'[q].state = cb[q].state
      BY <2>1, <2>2 DEF TypeOK
    <2> QED
      BY <1>0, <2>1, <2>3, <2>4, <2>5 DEF WriterIsOpen, OpenKeyExpires, OpenKeyHasOwner
  <1>10. ASSUME NEW r \in Replicas, Restart(r) PROVE BreakerInv'
    <2>1. /\ cb' = [cb EXCEPT ![r] = Closed]
          /\ pc' = [c \in Calls |-> IF c[1] = r THEN "idle" ELSE pc[c]]
          /\ UNCHANGED <<hash, redisUp>>
      BY <1>10 DEF Restart
    <2>2. breakdowns' \in 0..MaxBreakdowns /\ breakdowns' # 0
      <3>1. breakdowns \in 0..MaxBreakdowns /\ breakdowns < MaxBreakdowns /\ breakdowns' = breakdowns + 1
        BY <1>10 DEF Restart, TypeOK
      <3> QED
        BY <3>1, BreakerAssumption DEF BreakerAssumption
    <2>3. TypeOK'
      BY <2>1, <2>2, ClosedSound DEF TypeOK, Sound, Breaker
    <2>4. AllSound'
      <3> SUFFICES ASSUME NEW q \in Replicas PROVE Sound(cb'[q])
        BY DEF AllSound
      <3> QED
        BY <2>1, ClosedSound DEF AllSound, TypeOK
    <2>5. WriterIsOpen'
      BY <1>0, <2>1 DEF WriterIsOpen, TypeOK
    <2> QED
      BY <2>3, <2>4, <2>5, <2>2 DEF OpenKeyExpires, OpenKeyHasOwner
  <1>11. CASE KeyExpires \/ RedisIsBack
    BY <1>11 DEF KeyExpires, RedisIsBack, TypeOK, AllSound, WriterIsOpen, OpenKeyExpires,
                 OpenKeyHasOwner
  <1>12. CASE RedisFails
    <2>1. breakdowns' \in 0..MaxBreakdowns /\ breakdowns' # 0
      <3>1. breakdowns \in 0..MaxBreakdowns /\ breakdowns < MaxBreakdowns /\ breakdowns' = breakdowns + 1
        BY <1>12 DEF RedisFails, TypeOK
      <3> QED
        BY <3>1, BreakerAssumption DEF BreakerAssumption
    <2>2. redisUp' \in BOOLEAN /\ UNCHANGED <<cb, pc, hash>>
      BY <1>12 DEF RedisFails
    <2> QED
      BY <2>1, <2>2 DEF TypeOK, AllSound, WriterIsOpen, OpenKeyExpires, OpenKeyHasOwner
  <1>13. CASE UNCHANGED breakerVars
    BY <1>13 DEF breakerVars, TypeOK, AllSound, WriterIsOpen, OpenKeyExpires, OpenKeyHasOwner
  <1> QED
    BY <1>1, <1>2, <1>3, <1>4, <1>5, <1>6, <1>7, <1>8, <1>9, <1>10, <1>11, <1>12, <1>13
    DEF BreakerNext, Progress

(* The invariant holds in every reachable state.                           *)
LEMMA BreakerInvariance == BreakerSpec => []BreakerInv
  BY BreakerInitInv, BreakerStepInv, PTL DEF BreakerSpec

-----------------------------------------------------------------------------
(* The state of every breaker stays within its type: the doubled cooldown  *)
(* of record_failure never leaves cooldown_seconds..max_cooldown_seconds.  *)
THEOREM BreakerTypeCorrect == BreakerSpec => []TypeOK
  <1>1. BreakerInv => TypeOK
    BY DEF BreakerInv
  <1> QED
    BY <1>1, BreakerInvariance, PTL

(* record_failure never leaves a breaker closed with failure_threshold     *)
(* consecutive failures, whatever the outcomes of concurrent requests.     *)
THEOREM ThresholdTrips == BreakerSpec => []TripsAtThreshold
  <1>1. BreakerInv => TripsAtThreshold
    BY DEF BreakerInv, AllSound, Sound, TripsAtThreshold
  <1> QED
    BY <1>1, BreakerInvariance, PTL

(* After enough consecutive calls of record_success a breaker is closed    *)
(* with its base cooldown.                                                 *)
THEOREM StabilityResets == BreakerSpec => []StableIsReset
  <1>1. BreakerInv => StableIsReset
    BY BreakerAssumption DEF BreakerAssumption, BreakerInv, AllSound, Sound, Breaker, StableIsReset
  <1> QED
    BY <1>1, BreakerInvariance, PTL

(* While no Redis command fails, the hash that stops every replica has a   *)
(* TTL or record_failure is still about to set it.                         *)
THEOREM SharedOpenExpires == BreakerSpec => []OpenKeyExpires
  <1>1. BreakerInv => OpenKeyExpires
    BY DEF BreakerInv
  <1> QED
    BY <1>1, BreakerInvariance, PTL

(* While no Redis command fails, the hash stops every replica only when    *)
(* one of them has an open breaker or is about to clear the hash: no       *)
(* interleaving of record_success and record_failure leaves an orphan.     *)
THEOREM SharedOpenOwned == BreakerSpec => []OpenKeyHasOwner
  <1>1. BreakerInv => OpenKeyHasOwner
    BY DEF BreakerInv
  <1> QED
    BY <1>1, BreakerInvariance, PTL
=============================================================================
