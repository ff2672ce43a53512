------------------------- MODULE RequestGateProofs -------------------------
(***************************************************************************)
(* RequestGate for any number of replicas, requests and keys: a task is    *)
(* sent again under an idempotency key only when the request that sent it  *)
(* was rolled back, and a replica that has drained has nothing in a        *)
(* handler.                                                                *)
(*                                                                         *)
(* The first rests on the uncommitted record, which at most one            *)
(* transaction holds (RowUnique) and which is not committed yet (Sound):   *)
(* when neither a record nor a request that has sent stands for a task,    *)
(* all tasks of the key are lost ones (SentInv).                           *)
(* The second needs the counter to be exact: _active_requests is the       *)
(* number of requests in handlers (Counted), so that zero means none.  The *)
(* circuit breaker is unconstrained in both.                               *)
(***************************************************************************)
EXTENDS RequestGate, FiniteSetTheorems, TLAPS

RequestRecord ==
    [pc : {"idle"} \union InHandler, at : Replicas \union {CHOOSE r \in Replicas : TRUE},
     key : Keys \union {"read"}, row : BOOLEAN]

(* What holds of one request, given the committed records.                 *)
Sound(x, recs) ==
    /\ x.pc # "idle" => x.at \in Replicas
    /\ x.pc = "insert" => x.key \in Keys
    /\ x.pc = "work" => x.row
    /\ x.row => x.pc \in {"work", "commit"} /\ x.key \in Keys /\ x.key \notin recs

AllSound == \A q \in Requests : Sound(req[q], records)

(* At most one transaction holds the record of a key.                      *)
RowUnique ==
    \A q, o \in Requests : req[q].row /\ req[o].row /\ req[q].key = req[o].key => q = o

RowInv ==
    /\ req \in [Requests -> RequestRecord]
    /\ AllSound
    /\ RowUnique

(* Nothing that is kept stands for a task of key k.                        *)
Unbacked(k) == k \notin records /\ \A q \in Requests : ~ HasSent(q, k)

SentInv ==
    /\ sent \in [Keys -> Nat]
    /\ lost \in [Keys -> Nat]
    /\ RepeatedAfterRollback
    /\ \A k \in Keys : Unbacked(k) => sent[k] <= lost[k]

(* The requests in a handler of replica r.                                 *)
Busy(r) == {q \in Requests : req[q].pc # "idle" /\ req[q].at = r}

(* _active_requests is exact.                                              *)
Counted == \A r \in Replicas : active[r] = Cardinality(Busy(r))

CountInv ==
    /\ active \in [Replicas -> Nat]
    /\ mode \in [Replicas -> {"serving", "draining", "closed", "gone"}]
    /\ Counted
    /\ \A r \in Replicas : mode[r] = "closed" => active[r] = 0

IInv == RowInv /\ SentInv /\ CountInv

-----------------------------------------------------------------------------
(* A request between two others is idle and holds nothing.                 *)
LEMMA IdleFacts ==
  /\ Idle \in RequestRecord /\ Idle.pc = "idle" /\ ~ Idle.row
  /\ \A recs : Sound(Idle, recs)
  BY DEF Idle, RequestRecord, Sound, InHandler

LEMMA BusyFinite ==
  ASSUME NEW r
  PROVE  IsFiniteSet(Busy(r)) /\ Cardinality(Busy(r)) \in Nat
  <1>1. Busy(r) \in SUBSET Requests /\ IsFiniteSet(Requests)
    BY GateAssumption DEF GateAssumption, Busy
  <1>2. IsFiniteSet(Busy(r))
    BY <1>1, FS_Subset
  <1> QED
    BY <1>2, FS_CardinalityType

LEMMA InitInv == Init => IInv
  <1> SUFFICES ASSUME Init PROVE IInv
    OBVIOUS
  <1>1. \A q \in Requests : req[q] = Idle
    BY DEF Init
  <1>2. RowInv
    BY <1>1, IdleFacts DEF Init, RowInv, AllSound, RowUnique
  <1>3. SentInv
    BY <1>1, IdleFacts DEF Init, SentInv, RepeatedAfterRollback
  <1>4. \A r \in Replicas : Busy(r) = {}
    BY <1>1, IdleFacts DEF Busy
  <1>5. CountInv
    BY <1>4, FS_EmptySet DEF Init, CountInv, Counted
  <1> QED
    BY <1>2, <1>3, <1>5 DEF IInv

-----------------------------------------------------------------------------
(* A step that sends nothing, and by which nobody who has sent goes.       *)
LEMMA SentKept ==
  ASSUME SentInv, UNCHANGED <<records, sent, lost>>,
         \A q \in Requests, k \in Keys : HasSent(q, k) => HasSent(q, k)'
  PROVE  SentInv'
  BY DEF SentInv, RepeatedAfterRollback, Unbacked

(* Requests that are rolled back turn the tasks they sent into lost ones.  *)
LEMMA RolledBackSent ==
  ASSUME SentInv, NEW S \in SUBSET Requests, RolledBack(S),
         \A o \in Requests \ S : req'[o] = req[o]
  PROVE  SentInv'
  <1> DEFINE L(k) == {q \in S : HasSent(q, k)}
  <1>1. \A k : IsFiniteSet(L(k)) /\ Cardinality(L(k)) \in Nat
    <2> TAKE k
    <2>1. L(k) \subseteq Requests /\ IsFiniteSet(Requests)
      BY GateAssumption DEF GateAssumption
    <2>2. IsFiniteSet(L(k))
      BY <2>1, FS_Subset
    <2> QED
      BY <2>2, FS_CardinalityType
  <1>2. \A k : L(k) # {} => Cardinality(L(k)) >= 1
    <2> SUFFICES ASSUME NEW k, L(k) # {} PROVE Cardinality(L(k)) >= 1
      OBVIOUS
    <2>1. Cardinality(L(k)) # 0
      BY <1>1, FS_EmptySet
    <2> QED
      BY <1>1, <2>1
  <1>3. lost' = [k \in Keys |-> lost[k] + Cardinality(L(k))] /\ UNCHANGED <<records, sent>>
    BY DEF RolledBack
  <1>4. \A q \in Requests, k \in Keys : HasSent(q, k) => HasSent(q, k)' \/ q \in L(k)
    BY DEF HasSent
  <1> HIDE DEF L
  <1>5. \A k \in Keys :
          /\ lost'[k] \in Nat /\ lost'[k] >= lost[k]
          /\ L(k) # {} => lost'[k] >= lost[k] + 1
    <2> SUFFICES ASSUME NEW k \in Keys
                 PROVE  /\ lost'[k] \in Nat /\ lost'[k] >= lost[k]
                        /\ L(k) # {} => lost'[k] >= lost[k] + 1
      OBVIOUS
    <2>1. lost'[k] = lost[k] + Cardinality(L(k)) /\ lost[k] \in Nat
      BY <1>3 DEF SentInv
    <2> QED
      BY <1>1, <1>2, <2>1
  <1>6. lost' \in [Keys -> Nat]
    BY <1>3, <1>5
  <1>7. \A k \in Keys : Unbacked(k)' => Unbacked(k) \/ L(k) # {}
    BY <1>3, <1>4 DEF Unbacked
  <1>8. \A k \in Keys : sent'[k] <= lost'[k] + 1 /\ (Unbacked(k)' => sent'[k] <= lost'[k])
    <2> SUFFICES ASSUME NEW k \in Keys
                 PROVE  sent'[k] <= lost'[k] + 1 /\ (Unbacked(k)' => sent'[k] <= lost'[k])
      OBVIOUS
    <2>1. /\ sent'[k] = sent[k] /\ sent[k] \in Nat /\ lost[k] \in Nat
          /\ sent[k] <= lost[k] + 1 /\ (Unbacked(k) => sent[k] <= lost[k])
      BY <1>3 DEF SentInv, RepeatedAfterRollback
    <2> QED
      BY <1>5, <1>7, <2>1
  <1> QED
    BY <1>3, <1>6, <1>8 DEF SentInv, RepeatedAfterRollback

(* A step of one request within its handler, by which it may take the      *)
(* record of its key when nobody has it.                                   *)
LEMMA HandlerRow ==
  ASSUME RowInv, NEW q \in Requests, records' = records,
         req' \in [Requests -> RequestRecord],
         \A o \in Requests \ {q} : req'[o] = req[o],
         Sound(req'[q], records),
         req'[q].row =>
            \/ req[q].row /\ req'[q].key = req[q].key
            \/ \A o \in Requests \ {q} : ~(req[o].row /\ req[o].key = req'[q].key)
  PROVE  RowInv'
  <1>1. AllSound'
    BY DEF RowInv, AllSound
  <1>2. RowUnique'
    BY DEF RowInv, RowUnique
  <1> QED
    BY <1>1, <1>2 DEF RowInv

LEMMA HandlerCount ==
  ASSUME CountInv, NEW q \in Requests, UNCHANGED <<active, mode>>,
         \A o \in Requests \ {q} : req'[o] = req[o],
         req[q].pc # "idle", req'[q].pc # "idle", req'[q].at = req[q].at
  PROVE  CountInv'
  <1>1. \A r \in Replicas : Busy(r)' = Busy(r)
    BY DEF Busy
  <1> QED
    BY <1>1 DEF CountInv, Counted

(* Counting a request in and out.                                          *)
LEMMA EnterCount ==
  ASSUME CountInv, NEW q \in Requests, NEW r \in Replicas, Enter(r), mode' = mode,
         mode[r] = "serving", req[q].pc = "idle",
         \A o \in Requests \ {q} : req'[o] = req[o],
         req'[q].pc # "idle", req'[q].at = r
  PROVE  CountInv'
  <1>1. Busy(r)' = Busy(r) \union {q} /\ q \notin Busy(r)
    BY DEF Busy
  <1>2. Cardinality(Busy(r) \union {q}) = Cardinality(Busy(r)) + 1
    BY <1>1, BusyFinite, FS_AddElement
  <1>3. \A s \in Replicas \ {r} : Busy(s)' = Busy(s)
    BY DEF Busy
  <1>4. /\ active' \in [Replicas -> Nat] /\ active'[r] = active[r] + 1
        /\ \A s \in Replicas \ {r} : active'[s] = active[s]
    BY DEF CountInv, Enter
  <1>5. Counted'
    BY <1>1, <1>2, <1>3, <1>4 DEF CountInv, Counted
  <1> QED
    BY <1>4, <1>5 DEF CountInv

LEMMA LeaveCount ==
  ASSUME RowInv, CountInv, NEW q \in Requests, Leave(q), mode' = mode, req[q].pc # "idle"
  PROVE  CountInv'
  <1>1. PICK r \in Replicas : r = req[q].at
    BY DEF RowInv, AllSound, Sound
  <1>2. req'[q] = Idle /\ \A o \in Requests \ {q} : req'[o] = req[o]
    BY DEF Leave, RowInv
  <1>3. Busy(r)' = Busy(r) \ {q} /\ q \in Busy(r)
    BY <1>1, <1>2, IdleFacts DEF Busy
  <1>4. Cardinality(Busy(r) \ {q}) = Cardinality(Busy(r)) - 1 /\ Cardinality(Busy(r) \ {q}) \in Nat
    <2>1. IsFiniteSet(Busy(r))
      BY BusyFinite
    <2>2. IsFiniteSet(Busy(r) \ {q}) /\ Cardinality(Busy(r) \ {q}) = Cardinality(Busy(r)) - 1
      BY <1>3, <2>1, FS_RemoveElement
    <2> QED
      BY <2>2, FS_CardinalityType
  <1>5. \A s \in Replicas \ {r} : Busy(s)' = Busy(s)
    BY <1>1, <1>2, IdleFacts DEF Busy
  <1>6. active[r] = Cardinality(Busy(r)) /\ active[r] \in Nat
    BY <1>1 DEF CountInv, Counted
  <1>7. active' = [active EXCEPT ![r] = IF @ > 0 THEN @ - 1 ELSE 0]
    BY <1>1 DEF Leave
  <1>8. /\ active' \in [Replicas -> Nat]
        /\ active'[r] = active[r] - 1
        /\ \A s \in Replicas \ {r} : active'[s] = active[s]
    <2>1. active[r] > 0
      BY <1>4, <1>6
    <2>2. active' = [active EXCEPT ![r] = active[r] - 1]
      BY <1>7, <2>1
    <2> QED
      BY <1>1, <1>6, <2>1, <2>2 DEF CountInv
  <1>9. Counted'
    BY <1>1, <1>3, <1>4, <1>5, <1>6, <1>8 DEF CountInv, Counted
  <1>10. active[r] # 0
    BY <1>4, <1>6
  <1> QED
    BY <1>1, <1>8, <1>9, <1>10 DEF CountInv

LEMMA LeaveRow ==
  ASSUME RowInv, NEW q \in Requests, Leave(q),
         \A o \in Requests \ {q} : req[o].row => req[o].key \notin records'
  PROVE  RowInv'
  <1>1. req'[q] = Idle /\ \A o \in Requests \ {q} : req'[o] = req[o]
    BY DEF Leave, RowInv
  <1>2. req' \in [Requests -> RequestRecord]
    BY IdleFacts DEF Leave, RowInv
  <1>3. AllSound'
    <2> SUFFICES ASSUME NEW o \in Requests PROVE Sound(req'[o], records')
      BY DEF AllSound
    <2>1. CASE o = q
      BY <1>1, <2>1, IdleFacts
    <2>2. CASE o # q
      BY <1>1, <2>2 DEF RowInv, AllSound, Sound
    <2> QED
      BY <2>1, <2>2
  <1>4. RowUnique'
    BY <1>1, IdleFacts DEF RowInv, RowUnique
  <1> QED
    BY <1>2, <1>3, <1>4 DEF RowInv

(* A request that ends without a commit.                                   *)
LEMMA LeaveInv ==
  ASSUME IInv, NEW q \in Requests, Leave(q), req[q].pc # "idle", UNCHANGED mode,
         RolledBack({q}) \/ (UNCHANGED Store /\ req[q].pc # "commit")
  PROVE  IInv'
  <1>1. RowInv /\ CountInv /\ SentInv /\ records' = records /\ mode' = mode
    BY DEF IInv, Store, RolledBack
  <1>2. \A o \in Requests \ {q} : req[o].row => req[o].key \notin records'
    BY <1>1 DEF RowInv, AllSound, Sound
  <1>3. RowInv' /\ CountInv'
    BY <1>1, <1>2, LeaveRow, LeaveCount
  <1>4. \A o \in Requests \ {q} : req'[o] = req[o]
    BY <1>1 DEF Leave, RowInv
  <1>5. CASE RolledBack({q})
    BY <1>1, <1>3, <1>4, <1>5, RolledBackSent DEF IInv
  <1>6. CASE UNCHANGED Store /\ req[q].pc # "commit"
    <2>1. \A o \in Requests, k \in Keys : HasSent(o, k) => HasSent(o, k)'
      BY <1>4, <1>6 DEF HasSent
    <2>2. SentInv'
      BY <1>1, <1>6, <2>1, SentKept DEF Store
    <2> QED
      BY <1>3, <2>2 DEF IInv
  <1> QED
    BY <1>5, <1>6

-----------------------------------------------------------------------------
(* Arrival at a serving replica counts the request in.                     *)
LEMMA ArriveInv ==
  ASSUME IInv, NEW q \in Requests, NEW r \in Replicas, NEW k \in Keys \cup {"read"}, Arrive(q, r, k)
  PROVE  IInv'
  <1> DEFINE x == [pc |-> "check", at |-> r, key |-> k, row |-> FALSE]
  <1>1. RowInv /\ CountInv /\ SentInv /\ UNCHANGED <<records, sent, lost, mode>>
    BY DEF IInv, Arrive, Store
  <1>2. SentInv'
    <2>1. \A o \in Requests, j \in Keys : HasSent(o, j) => HasSent(o, j)'
      BY <1>1 DEF HasSent, Arrive, RowInv
    <2> QED
      BY <1>1, <2>1, SentKept
  <1>3. CASE Refuses(r)
    <2>1. UNCHANGED <<req, active>>
      BY <1>3 DEF Arrive
    <2> QED
      BY <1>1, <1>2, <2>1
      DEF IInv, RowInv, AllSound, RowUnique, CountInv, Counted, Busy
  <1>4. CASE ~ Refuses(r)
    <2>1. req[q].pc = "idle" /\ mode[r] = "serving" /\ Enter(r) /\ req' = [req EXCEPT ![q] = x]
      BY <1>4 DEF Arrive, Refuses
    <2>2. x \in RequestRecord /\ Sound(x, records) /\ x.pc # "idle" /\ x.at = r /\ ~ x.row
      BY DEF RequestRecord, InHandler, Sound
    <2> HIDE DEF x
    <2>3. /\ req' \in [Requests -> RequestRecord] /\ req'[q] = x
          /\ \A o \in Requests \ {q} : req'[o] = req[o]
      BY <1>1, <2>1, <2>2 DEF RowInv
    <2>4. RowInv'
      BY <1>1, <2>2, <2>3, HandlerRow
    <2>5. CountInv'
      BY <1>1, <2>1, <2>2, <2>3, EnterCount
    <2> QED
      BY <1>2, <2>4, <2>5 DEF IInv
  <1> QED
    BY <1>3, <1>4

(* A request goes on with its handler.                                     *)
LEMMA GotoFacts ==
  ASSUME IInv, NEW q \in Requests, NEW p \in {"lookup", "insert", "commit"},
         UNCHANGED <<records, mode, active>>,
         req' = [req EXCEPT ![q].pc = p], req[q].pc # "idle",
         p = "insert" => req[q].key # "read", req[q].row => p = "commit"
  PROVE  /\ RowInv' /\ CountInv'
         /\ \A o \in Requests \ {q} : req'[o] = req[o]
         /\ req'[q].pc = p /\ req'[q].key = req[q].key /\ req'[q].row = req[q].row
  <1>1. RowInv /\ CountInv
    BY DEF IInv
  <1>2. req \in [Requests -> RequestRecord] /\ Sound(req[q], records)
    BY <1>1 DEF RowInv, AllSound
  <1>3. /\ req' \in [Requests -> RequestRecord]
        /\ \A o \in Requests \ {q} : req'[o] = req[o]
        /\ req'[q].pc = p /\ req'[q].at = req[q].at /\ req'[q].key = req[q].key
        /\ req'[q].row = req[q].row
    BY <1>2 DEF RequestRecord, InHandler
  <1>4. req[q].key \in Keys \union {"read"}
    BY <1>2 DEF RequestRecord
  <1>5. Sound(req'[q], records)
    BY <1>2, <1>3, <1>4 DEF Sound
  <1>6. RowInv'
    BY <1>1, <1>3, <1>5, HandlerRow
  <1>7. CountInv'
    BY <1>1, <1>3, HandlerCount
  <1> QED
    BY <1>3, <1>6, <1>7

(* The circuit's leave and the look-up of the record.                      *)
LEMMA MoveInv ==
  ASSUME IInv, NEW q \in Requests, Admit(q) \/ Lookup(q)
  PROVE  IInv'
  <1>1. RowInv /\ SentInv /\ UNCHANGED <<records, sent, lost, mode, active>>
    BY DEF IInv, Admit, Lookup, Store
  <1>2. Sound(req[q], records)
    BY <1>1 DEF RowInv, AllSound
  <1>3. PICK p \in {"lookup", "insert", "commit"} :
          /\ req' = [req EXCEPT ![q].pc = p]
          /\ req[q].pc \in {"check", "lookup"}
          /\ p = "insert" => req[q].key # "read"
    BY DEF Admit, Lookup, Goto
  <1>4. ~ req[q].row
    BY <1>2, <1>3 DEF Sound
  <1>5. RowInv' /\ CountInv' /\ \A o \in Requests \ {q} : req'[o] = req[o]
    BY <1>1, <1>3, <1>4, GotoFacts
  <1>6. \A o \in Requests, k \in Keys : HasSent(o, k) => HasSent(o, k)'
    BY <1>4, <1>5 DEF HasSent
  <1>7. SentInv'
    BY <1>1, <1>6, SentKept
  <1> QED
    BY <1>5, <1>7 DEF IInv

(* The one transaction that holds the record of a key sends a task, when   *)
(* all tasks sent before are lost.                                         *)
LEMMA WorkInv == ASSUME IInv, NEW q \in Requests, Work(q) PROVE IInv'
  <1>01. req[q].key \in Keys
    BY DEF Work, IInv, RowInv, AllSound, Sound
  <1>02. PICK k \in Keys : k = req[q].key
    BY <1>01
  <1>1. /\ RowInv /\ SentInv /\ UNCHANGED <<records, lost, mode, active>>
        /\ req[q].pc = "work" /\ req' = [req EXCEPT ![q].pc = "commit"]
        /\ sent' = [sent EXCEPT ![k] = @ + 1]
    BY <1>02 DEF IInv, Work, Goto
  <1>2. Sound(req[q], records)
    BY <1>1 DEF RowInv, AllSound
  <1>3. /\ RowInv' /\ CountInv'
        /\ \A o \in Requests \ {q} : req'[o] = req[o]
        /\ req'[q].pc = "commit" /\ req'[q].key = req[q].key /\ req'[q].row = req[q].row
    BY <1>1, GotoFacts
  <1>4. req[q].row /\ k \notin records
    BY <1>02, <1>1, <1>2 DEF Sound
  <1>5. Unbacked(k)
    BY <1>02, <1>1, <1>4 DEF Unbacked, HasSent, RowInv, RowUnique
  <1>6. HasSent(q, k)' /\ \A j \in Keys \ {k} : Unbacked(j)' => Unbacked(j)
    BY <1>02, <1>1, <1>3, <1>4 DEF Unbacked, HasSent
  <1>7. ~ Unbacked(k)'
    BY <1>6 DEF Unbacked
  <1>8. /\ sent' \in [Keys -> Nat] /\ sent'[k] = sent[k] + 1
        /\ \A j \in Keys \ {k} : sent'[j] = sent[j]
    BY <1>1, <1>4 DEF SentInv
  <1>9. sent[k] <= lost[k]
    BY <1>1, <1>4, <1>5 DEF SentInv
  <1>10. RepeatedAfterRollback'
    BY <1>1, <1>4, <1>8, <1>9 DEF SentInv, RepeatedAfterRollback
  <1>11. \A j \in Keys : Unbacked(j)' => sent'[j] <= lost'[j]
    <2> SUFFICES ASSUME NEW j \in Keys, Unbacked(j)' PROVE sent'[j] <= lost'[j]
      OBVIOUS
    <2>1. j # k /\ Unbacked(j)
      BY <1>6, <1>7
    <2> QED
      BY <1>1, <1>8, <2>1 DEF SentInv
  <1>12. SentInv'
    BY <1>1, <1>8, <1>10, <1>11 DEF SentInv
  <1> QED
    BY <1>3, <1>12 DEF IInv

(* The record is inserted only when no transaction has it and none is      *)
(* committed.                                                              *)
LEMMA InsertInv == ASSUME IInv, NEW q \in Requests, InsertRecord(q) PROVE IInv'
  <1>1. /\ RowInv /\ CountInv /\ SentInv /\ UNCHANGED <<records, sent, lost, mode>>
        /\ req[q].pc = "insert"
    BY DEF IInv, InsertRecord, Store
  <1>2. req \in [Requests -> RequestRecord] /\ Sound(req[q], records)
    BY <1>1 DEF RowInv, AllSound
  <1>3. CASE req[q].key \in records
    <2>1. Leave(q) /\ UNCHANGED mode /\ UNCHANGED Store
      BY <1>1, <1>3 DEF InsertRecord, Store
    <2> QED
      BY <1>1, <2>1, LeaveInv
  <1>4. CASE req[q].key \notin records
    <2>1. /\ req' = [req EXCEPT ![q].pc = "work", ![q].row = TRUE] /\ active' = active
          /\ \A o \in Requests \ {q} : ~(req[o].row /\ req[o].key = req[q].key)
      BY <1>4 DEF InsertRecord
    <2>2. /\ req' \in [Requests -> RequestRecord]
          /\ \A o \in Requests \ {q} : req'[o] = req[o]
          /\ req'[q].pc = "work" /\ req'[q].at = req[q].at /\ req'[q].key = req[q].key
          /\ req'[q].row
      BY <1>2, <2>1 DEF RequestRecord, InHandler
    <2>3. Sound(req'[q], records)
      BY <1>1, <1>2, <1>4, <2>2 DEF Sound
    <2>4. RowInv'
      BY <1>1, <2>1, <2>2, <2>3, HandlerRow
    <2>5. CountInv'
      BY <1>1, <2>1, <2>2, HandlerCount
    <2>6. \A o \in Requests, k \in Keys : HasSent(o, k) => HasSent(o, k)'
      BY <1>1, <2>2 DEF HasSent
    <2>7. SentInv'
      BY <1>1, <2>6, SentKept
    <2> QED
      BY <2>4, <2>5, <2>7 DEF IInv
  <1> QED
    BY <1>3, <1>4

(* The commit of the one transaction that holds the record of its key: the *)
(* record now stands for the task that was sent.                           *)
LEMMA CommitInv == ASSUME IInv, NEW q \in Requests, Commit(q) PROVE IInv'
  <1>1. /\ RowInv /\ CountInv /\ SentInv /\ UNCHANGED <<sent, lost>>
        /\ Leave(q) /\ mode' = mode /\ req[q].pc # "idle" /\ records' = Stored(q)
    BY DEF IInv, Commit
  <1>2. CountInv'
    BY <1>1, LeaveCount
  <1>3. \A o \in Requests \ {q} : req[o].row => req[o].key \notin records'
    BY <1>1 DEF RowInv, AllSound, Sound, RowUnique, Stored
  <1>4. RowInv'
    BY <1>1, <1>3, LeaveRow
  <1>5. \A o \in Requests \ {q} : req'[o] = req[o]
    BY <1>1 DEF Leave, RowInv
  <1>6. \A k \in Keys : Unbacked(k)' => Unbacked(k)
    BY <1>1, <1>5 DEF Unbacked, Stored, HasSent
  <1>7. SentInv'
    BY <1>1, <1>6 DEF SentInv, RepeatedAfterRollback
  <1> QED
    BY <1>2, <1>4, <1>7 DEF IInv

(* A record that has expired is deleted and its key starts anew.           *)
LEMMA CleanupInv == ASSUME IInv, NEW k \in Keys, Cleanup(k) PROVE IInv'
  <1>1. /\ RowInv /\ CountInv /\ SentInv /\ UNCHANGED <<req, mode, active>>
        /\ records' = records \ {k}
        /\ sent' = [sent EXCEPT ![k] = 0] /\ lost' = [lost EXCEPT ![k] = 0]
    BY DEF IInv, Cleanup
  <1>2. RowInv'
    BY <1>1 DEF RowInv, AllSound, RowUnique, Sound
  <1>3. SentInv'
    <2>1. \A j \in Keys \ {k} : Unbacked(j)' => Unbacked(j)
      BY <1>1 DEF Unbacked, HasSent
    <2>2. /\ sent' \in [Keys -> Nat] /\ lost' \in [Keys -> Nat]
          /\ sent'[k] = 0 /\ lost'[k] = 0
          /\ \A j \in Keys \ {k} : sent'[j] = sent[j] /\ lost'[j] = lost[j]
      BY <1>1 DEF SentInv
    <2>3. RepeatedAfterRollback'
      BY <1>1, <2>2 DEF SentInv, RepeatedAfterRollback
    <2>4. \A j \in Keys : Unbacked(j)' => sent'[j] <= lost'[j]
      BY <1>1, <2>1, <2>2 DEF SentInv
    <2> QED
      BY <2>2, <2>3, <2>4 DEF SentInv
  <1>4. CountInv'
    BY <1>1 DEF CountInv, Counted, Busy
  <1> QED
    BY <1>2, <1>3, <1>4 DEF IInv

(* A process that is gone takes its requests and its counter with it, not  *)
(* the tasks they sent.                                                    *)
LEMMA GoneInv == ASSUME IInv, NEW r \in Replicas, Gone(r) PROVE IInv'
  <1>1. /\ RowInv /\ CountInv /\ SentInv /\ records' = records
        /\ mode' = [mode EXCEPT ![r] = "gone"] /\ active' = [active EXCEPT ![r] = 0]
        /\ req' = [q \in Requests |-> IF req[q].at = r THEN Idle ELSE req[q]]
    BY DEF IInv, Gone, RolledBack
  <1>2. \A q \in Requests : req'[q] = IF req[q].at = r THEN Idle ELSE req[q]
    BY <1>1
  <1>3. RowInv'
    <2>1. req' \in [Requests -> RequestRecord]
      BY <1>1, IdleFacts DEF RowInv
    <2>2. AllSound'
      BY <1>1, <1>2, IdleFacts DEF RowInv, AllSound
    <2>3. RowUnique'
      BY <1>1, <1>2, IdleFacts DEF RowInv, RowUnique
    <2> QED
      BY <2>1, <2>2, <2>3 DEF RowInv
  <1>4. SentInv'
    <2> DEFINE S == {q \in Requests : req[q].at = r}
    <2>1. S \in SUBSET Requests /\ RolledBack(S)
      BY DEF Gone
    <2>2. \A o \in Requests \ S : req'[o] = req[o]
      BY <1>2
    <2> HIDE DEF S
    <2> QED
      BY <1>1, <2>1, <2>2, RolledBackSent
  <1>5. Busy(r)' = {} /\ \A s \in Replicas \ {r} : Busy(s)' = Busy(s)
    BY <1>2, IdleFacts DEF Busy
  <1>6. /\ active' \in [Replicas -> Nat] /\ active'[r] = 0
        /\ \A s \in Replicas \ {r} : active'[s] = active[s]
    BY <1>1 DEF CountInv
  <1>7. Counted'
    BY <1>1, <1>5, <1>6, FS_EmptySet DEF CountInv, Counted
  <1>8. CountInv'
    BY <1>1, <1>6, <1>7 DEF CountInv
  <1> QED
    BY <1>3, <1>4, <1>8 DEF IInv

(* Shutdown, the end of draining and a restart count nobody.               *)
LEMMA ModeInv ==
  ASSUME IInv, NEW r \in Replicas, Shutdown(r) \/ Drained(r) \/ Startup(r)
  PROVE  IInv'
  <1>1. RowInv /\ CountInv /\ SentInv /\ UNCHANGED <<req, records, sent, lost, active>>
    BY DEF IInv, Shutdown, Drained, Startup, Store
  <1>2. PICK m \in {"serving", "draining", "closed", "gone"} :
          mode' = [mode EXCEPT ![r] = m] /\ (m = "closed" => active[r] = 0)
    BY DEF Shutdown, Drained, Startup, Outcomes
  <1>3. CountInv'
    BY <1>1, <1>2 DEF CountInv, Counted, Busy
  <1> QED
    BY <1>1, <1>3 DEF IInv, RowInv, AllSound, RowUnique, SentInv, RepeatedAfterRollback,
       Unbacked, HasSent

(* Every step keeps the invariant.                                         *)
LEMMA StepInv == IInv /\ [Next]_vars => IInv'
  <1> SUFFICES ASSUME IInv, [Next]_vars PROVE IInv'
    OBVIOUS
  <1>1. ASSUME NEW q \in Requests,
               \/ Deny(q) \/ Abandon(q) \/ TimeOut(q)
               \/ \E kind \in {"pool", "retryable", "other"} : DbError(q, kind)
        PROVE  IInv'
    <2>1. /\ Leave(q) /\ req[q].pc # "idle" /\ UNCHANGED mode
          /\ RolledBack({q}) \/ (UNCHANGED Store /\ req[q].pc # "commit")
      BY <1>1 DEF Deny, Abandon, TimeOut, DbError, InSession, InHandler
    <2> QED
      BY <2>1, LeaveInv
  <1>2. ASSUME NEW q \in Requests, Step(q) PROVE IInv'
    BY <1>1, <1>2, MoveInv, WorkInv, InsertInv, CommitInv DEF Step
  <1>3. ASSUME NEW r \in Replicas, Exit(r) \/ Crash(r) PROVE IInv'
    BY <1>3, GoneInv DEF Exit, Crash
  <1>4. UNCHANGED <<req, Store, mode, active>> => IInv'
    BY DEF IInv, Store, RowInv, AllSound, RowUnique, SentInv, RepeatedAfterRollback,
       Unbacked, HasSent, CountInv, Counted, Busy
  <1>5. ASSUME NEW r \in Replicas, Ready(r) \/ Health(r) \/ LocalCooldownOver(r) \/ Notice(r)
        PROVE  IInv'
    BY <1>4, <1>5 DEF Ready, Health, LocalCooldownOver, Notice
  <1>6. CASE CooldownOver \/ HashExpires \/ RedisDown \/ RedisUp \/ UNCHANGED vars
    BY <1>4, <1>6 DEF CooldownOver, HashExpires, RedisDown, RedisUp, vars, Store
  <1> QED
    BY <1>1, <1>2, <1>3, <1>5, <1>6, ArriveInv, CleanupInv, ModeInv DEF Next

(* The invariant holds of every behaviour of the gate.                     *)
THEOREM GateInvariant == Spec => []IInv
  BY InitInv, StepInv, PTL DEF Spec

(* A task is sent again under a key only after the request that sent it    *)
(* before was rolled back, on any number of replicas and until the record  *)
(* is cleaned up: the unique index lets in one transaction, the record is  *)
(* inserted before the task is sent (ai/router.py:271, :381), and whatever *)
(* takes the record back has lost the request.                             *)
THEOREM RepeatedAfterRollbackTheorem == Spec => []RepeatedAfterRollback
  <1>1. IInv => RepeatedAfterRollback
    BY DEF IInv, SentInv
  <1> QED
    BY <1>1, GateInvariant, PTL

(* A replica closes only when no request is in a handler, because every    *)
(* way out of a handler passes __aexit__ once and a refused request is     *)
(* never counted.                                                          *)
THEOREM DrainIsCleanTheorem == Spec => []DrainIsClean
  <1>1. IInv => DrainIsClean
    <2> SUFFICES ASSUME IInv, NEW r \in Replicas, mode[r] = "closed", NEW q \in Requests,
                        req[q].pc # "idle"
                 PROVE  req[q].at # r
      BY DEF DrainIsClean
    <2>1. Cardinality(Busy(r)) = 0
      BY DEF IInv, CountInv, Counted
    <2>2. Busy(r) = {}
      BY <2>1, BusyFinite, FS_EmptySet
    <2> QED
      BY <2>2 DEF Busy
  <1> QED
    BY <1>1, GateInvariant, PTL

(* _active_requests is at all times the number of requests in the handlers *)
(* of the replica: no request is counted twice, none counted out twice.    *)
THEOREM CountedTheorem == Spec => []Counted
  <1>1. IInv => Counted
    BY DEF IInv, CountInv
  <1> QED
    BY <1>1, GateInvariant, PTL

=============================================================================
