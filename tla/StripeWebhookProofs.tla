------------------------ MODULE StripeWebhookProofs ------------------------
(***************************************************************************)
(* StripeWebhook for any number of deliveries and events: no event is      *)
(* applied twice, and while Redis answers the plans agree, but for the     *)
(* checkout that was overtaken.                                            *)
(*                                                                         *)
(* Of the three layers of deduplication the first one carries the proof:   *)
(* a request that can still commit its handler holds the uncommitted row   *)
(* of its event (Sound), no other request holds it (RowUnique), and the    *)
(* row is not yet committed.  The Redis key and the advisory lock do not   *)
(* appear in the argument.                                                 *)
(***************************************************************************)
EXTENDS StripeWebhook, TLAPS

Subs == {NoSub} \union {SubOf[e] : e \in Events}

Seen == [plan : {"none", "free", "pro"}, sub : Subs, account : {"none", "free", "pro"}]

Request == [pc : {"idle", "slot", "over", "inserted", "marked", "checked", "company", "account",
                  "locked", "filled", "release", "close", "done"},
            event : Events \union {"none"},
            end : {"none", "rollback", "duplicate", "skip", "commit"},
            row : BOOLEAN, lock : {"none", "event", "company"}, seen : Seen]

(* A request whose transaction writes the row of its event when it commits.*)
Writes(r) ==
    \/ r.pc \in {"inserted", "marked", "checked", "company", "account", "locked", "filled"}
    \/ r.pc \in {"release", "close"} /\ r.end \in {"skip", "commit"}

(* What holds of one request, given the committed rows.                    *)
Sound(r, rows) ==
    /\ r.pc \notin {"idle", "done"} => r.event \in Events
    /\ r.pc = "idle" => ~ r.row /\ r.lock = "none"
    /\ Writes(r) => r.row
    /\ r.row => r.event \in Events /\ r.event \notin rows
    /\ r.pc \in {"release", "close"} /\ r.end = "duplicate" => r.event \in rows

AllSound == \A d \in Deliveries : Sound(req[d], dedupRows)

(* At most one transaction holds the row of an event.                      *)
RowUnique ==
    \A d, o \in Deliveries :
        req[d].row /\ req[o].row /\ req[d].event = req[o].event => d = o

(* At most one transaction holds the company (SELECT ... FOR UPDATE        *)
(* NOWAIT of the handlers).                                                *)
CompanyLockExclusive ==
    \A d, o \in Deliveries :
        req[d].lock = "company" /\ req[o].lock = "company" => d = o

RowInv ==
    /\ req \in [Deliveries -> Request]
    /\ AllSound
    /\ RowUnique
    /\ CompanyLockExclusive

(* An event that was applied has its row.                                  *)
AppliedInv ==
    /\ applied \in [Events -> Nat]
    /\ AppliedAtMostOnce
    /\ \A e \in Events : applied[e] > 0 => e \in dedupRows

Change == [pc : {"idle", "company", "account", "write"},
           sub : Subs,
           plan : {"none", "free", "pro"}, account : {"none", "free", "pro"}]

(* The types of what the plans are decided from, and the two properties.   *)
PlanInv ==
    /\ clean \in BOOLEAN
    /\ torn \in BOOLEAN
    /\ company \in [plan : {"free", "pro"}, sub : Subs]
    /\ account \in [plan : {"free", "pro"}, ai : {"on", "payment_failed"}]
    /\ change \in Change
    /\ NoChangeFromCache
    /\ PlansAgree

(* The subscriptions that were stored once: those of the applied checkouts.*)
Sold == {NoSub} \union {SubOf[e] : e \in {f \in Events : Kind[f] = "checkout" /\ applied[f] > 0}}

(* The handler of the checkout has returned, its transaction is open.      *)
Returned(e) ==
    \E d \in Deliveries :
        req[d].event = e /\ req[d].end = "commit" /\ req[d].pc \in {"release", "close"}

(* Whoever has read a subscription has read one that was sold; and while   *)
(* Redis answers the cache holds none that is sold or about to be.         *)
CacheInv ==
    /\ cache \subseteq {SubOf[e] : e \in Events}
    /\ company.sub \in Sold
    /\ change.sub \in Sold
    /\ \A d \in Deliveries : req[d].seen.sub \in Sold
    /\ clean => \A e \in Events :
                    Kind[e] = "checkout" /\ (applied[e] > 0 \/ Returned(e)) => SubOf[e] \notin cache

IInv == RowInv /\ AppliedInv /\ PlanInv /\ CacheInv

-----------------------------------------------------------------------------
(* Nothing has arrived, the company is on the free plan.                   *)
LEMMA InitInv == Init => IInv
  <1> SUFFICES ASSUME Init PROVE IInv
    OBVIOUS
  <1>0. Unread \in Seen /\ Unread.sub = NoSub
    BY DEF Unread, Seen, Subs
  <1>1. /\ Idle \in Request /\ Sound(Idle, {}) /\ ~Idle.row /\ Idle.lock = "none"
        /\ Idle.pc = "idle" /\ Idle.seen.sub = NoSub
    BY <1>0 DEF Idle, Request, Sound, Writes
  <1>2. RowInv
    <2>1. \A d \in Deliveries : req[d] = Idle
      BY DEF Init
    <2> QED
      BY <1>1, <2>1 DEF Init, RowInv, AllSound, RowUnique, CompanyLockExclusive
  <1>3. AppliedInv
    BY DEF Init, AppliedInv, AppliedAtMostOnce
  <1>4. NoChange \in Change /\ NoChange.pc = "idle" /\ NoChange.sub = NoSub
    BY DEF NoChange, Change, Subs
  <1>5. PlanInv
    BY <1>4 DEF Init, PlanInv, NoChangeFromCache, PlansAgree, Subs
  <1>6. CacheInv
    <2>1. \A d \in Deliveries : req[d] = Idle
      BY DEF Init
    <2>2. NoSub \in Sold
      BY DEF Sold
    <2> QED
      BY <1>1, <1>4, <2>1, <2>2 DEF Init, CacheInv, Returned
  <1> QED
    BY <1>2, <1>3, <1>5, <1>6 DEF IInv

(* A step of one request that commits nothing keeps RowInv, if the request *)
(* holds a row or the company only when it did before or nobody else does. *)
LEMMA RequestStep ==
  ASSUME RowInv, NEW d \in Deliveries,
         req' \in [Deliveries -> Request],
         \A o \in Deliveries \ {d} : req'[o] = req[o],
         dedupRows' = dedupRows,
         Sound(req'[d], dedupRows),
         req'[d].row =>
            \/ req[d].row /\ req[d].event = req'[d].event
            \/ \A o \in Deliveries \ {d} : ~(req[o].row /\ req[o].event = req'[d].event),
         req'[d].lock = "company" => req[d].lock = "company" \/ ~ CompanyLocked(d)
  PROVE  RowInv'
  <1>1. AllSound'
    BY DEF RowInv, AllSound
  <1>2. RowUnique'
    BY DEF RowInv, RowUnique
  <1>3. CompanyLockExclusive'
    BY DEF RowInv, CompanyLockExclusive, CompanyLocked
  <1> QED
    BY <1>1, <1>2, <1>3 DEF RowInv

(* The steps of a request up to the end of its handler.                    *)
LEMMA ArriveRow == ASSUME RowInv, NEW d \in Deliveries, NEW e \in Events, Arrive(d, e) PROVE RowInv'
  <1>1. req \in [Deliveries -> Request] /\ Sound(req[d], dedupRows) /\ req[d].pc = "idle"
    BY DEF RowInv, AllSound, Arrive
  <1>2. ~req[d].row /\ req[d].lock = "none"
    BY <1>1 DEF Sound
  <1>3. PICK p \in {"slot", "over"} : req' = [req EXCEPT ![d].event = e, ![d].pc = p]
    BY DEF Arrive
  <1>4. req' \in [Deliveries -> Request] /\ \A o \in Deliveries \ {d} : req'[o] = req[o]
    BY <1>1, <1>3 DEF Request
  <1>5. req'[d].pc = p /\ req'[d].event = e /\ ~req'[d].row /\ req'[d].lock = "none"
    BY <1>1, <1>2, <1>3 DEF Request
  <1>6. Sound(req'[d], dedupRows)
    BY <1>5 DEF Sound, Writes
  <1>7. dedupRows' = dedupRows
    BY DEF Arrive
  <1> QED
    BY <1>4, <1>5, <1>6, <1>7, RequestStep

(* What such a step does to it.                                             *)
MovedTo(d, p, n, l, s) ==
    req' = [req EXCEPT ![d] = [@ EXCEPT !.pc = p, !.end = n, !.lock = l, !.seen = s]]

LEMMA MovedFacts ==
  ASSUME RowInv, NEW d \in Deliveries,
         NEW p \in {"done", "release", "marked", "checked", "company", "account", "locked",
                    "filled", "close"},
         NEW n \in {"none", "rollback", "duplicate", "skip", "commit"},
         NEW l \in {"none", "event", "company"}, NEW s \in Seen,
         MovedTo(d, p, n, l, s)
  PROVE  /\ req' \in [Deliveries -> Request]
         /\ \A o \in Deliveries \ {d} : req'[o] = req[o]
         /\ req'[d].pc = p /\ req'[d].end = n /\ req'[d].lock = l /\ req'[d].seen = s
         /\ req'[d].event = req[d].event /\ req'[d].row = req[d].row
  <1>1. req \in [Deliveries -> Request] /\ req[d] \in Request
    BY DEF RowInv
  <1> DEFINE r == [req[d] EXCEPT !.pc = p, !.end = n, !.lock = l, !.seen = s]
  <1>2. /\ r.pc = p /\ r.end = n /\ r.lock = l /\ r.seen = s
        /\ r.event = req[d].event /\ r.row = req[d].row
    BY <1>1 DEF Request
  <1>3. r \in Request
    <2>1. [req[d] EXCEPT !.pc = p, !.end = n] \in Request
      BY <1>1 DEF Request
    <2>2. [[req[d] EXCEPT !.pc = p, !.end = n] EXCEPT !.lock = l, !.seen = s] \in Request
      BY <2>1 DEF Request
    <2>3. r = [[req[d] EXCEPT !.pc = p, !.end = n] EXCEPT !.lock = l, !.seen = s]
      BY <1>1 DEF Request
    <2> QED
      BY <2>2, <2>3
  <1>4. req' = [req EXCEPT ![d] = r]
    BY <1>1 DEF MovedTo
  <1> HIDE DEF r
  <1>5. req'[d] = r
    BY <1>1, <1>4
  <1> QED
    BY <1>1, <1>2, <1>3, <1>4, <1>5

(* A step that moves the request and writes its row no more than before.   *)
LEMMA MovedRow ==
  ASSUME RowInv, NEW d \in Deliveries, dedupRows' = dedupRows,
         NEW p \in {"done", "release", "marked", "checked", "company", "account", "locked",
                    "filled", "close"},
         NEW n \in {"none", "rollback", "duplicate", "skip", "commit"},
         NEW l \in {"none", "event", "company"}, NEW s \in Seen,
         MovedTo(d, p, n, l, s),
         req[d].pc \notin {"idle", "done"},
         p = "release" /\ n \in {"skip", "commit"} => Writes(req[d]),
         p = "release" => n # "duplicate",
         p = "close" => n = req[d].end /\ req[d].pc = "release",
         p \in {"marked", "checked", "company", "account", "locked", "filled"} => Writes(req[d]),
         l = "company" => req[d].lock = "company" \/ ~ CompanyLocked(d)
  PROVE  RowInv'
  <1>1. Sound(req[d], dedupRows)
    BY DEF RowInv, AllSound
  <1>2. /\ req' \in [Deliveries -> Request]
        /\ \A o \in Deliveries \ {d} : req'[o] = req[o]
        /\ req'[d].pc = p /\ req'[d].end = n /\ req'[d].lock = l
        /\ req'[d].event = req[d].event /\ req'[d].row = req[d].row
    BY MovedFacts
  <1>3. Sound(req'[d], dedupRows)
    BY <1>1, <1>2 DEF Sound, Writes
  <1> QED
    BY <1>2, <1>3, RequestStep

(* The steps of one request between its INSERT and its commit.             *)
Moves(d) ==
    \/ TooMany(d) \/ Refuse(d) \/ SetDedupKey(d) \/ LockEvent(d) \/ ReadCompany(d) \/ ReadAccount(d)
    \/ LockCompany(d) \/ FillCache(d) \/ Raise(d) \/ Return(d) \/ ReleaseSlot(d)

LEMMA GotoMoves ==
  ASSUME RowInv, NEW d \in Deliveries, NEW p, Goto(d, p)
  PROVE  MovedTo(d, p, req[d].end, req[d].lock, req[d].seen)
  BY DEF RowInv, Request, Goto, MovedTo

LEMMA FinishMoves ==
  ASSUME RowInv, NEW d \in Deliveries, NEW n, Finish(d, n)
  PROVE  MovedTo(d, "release", n, req[d].lock, IF n = "commit" THEN req[d].seen ELSE Unread)
  BY DEF RowInv, Request, Finish, MovedTo

LEMMA SeenFacts ==
  ASSUME RowInv, PlanInv, NEW d \in Deliveries
  PROVE  /\ req[d] \in Request /\ req[d].seen \in Seen /\ Unread \in Seen
         /\ [Unread EXCEPT !.plan = company.plan, !.sub = company.sub] \in Seen
         /\ [req[d].seen EXCEPT !.account = account.plan] \in Seen
         /\ Sound(req[d], dedupRows)
  <1>1. req[d] \in Request /\ Sound(req[d], dedupRows)
    BY DEF RowInv, AllSound
  <1>2. req[d].seen \in Seen
    BY <1>1 DEF Request
  <1>3. Unread \in Seen
    BY DEF Unread, Seen, Subs
  <1> QED
    BY <1>1, <1>2, <1>3 DEF PlanInv, Seen

LEMMA MoveRow ==
  ASSUME RowInv, PlanInv, NEW d \in Deliveries, dedupRows' = dedupRows, Moves(d)
  PROVE  RowInv'
  <1>1. /\ req[d] \in Request /\ req[d].seen \in Seen /\ Unread \in Seen
        /\ [Unread EXCEPT !.plan = company.plan, !.sub = company.sub] \in Seen
        /\ [req[d].seen EXCEPT !.account = account.plan] \in Seen
        /\ Sound(req[d], dedupRows)
    BY SeenFacts
  <1>2. /\ req[d].end \in {"none", "rollback", "duplicate", "skip", "commit"}
        /\ req[d].lock \in {"none", "event", "company"}
    BY <1>1 DEF Request
  <1>3. CASE TooMany(d)
    <2>1. MovedTo(d, "done", req[d].end, req[d].lock, req[d].seen) /\ req[d].pc = "over"
      BY <1>3, GotoMoves DEF TooMany
    <2> QED
      BY <1>1, <1>2, <2>1, MovedRow
  <1>4. CASE Refuse(d) \/ Raise(d)
    <2>1. Finish(d, "rollback") /\ req[d].pc \notin {"idle", "done"}
      BY <1>4 DEF Refuse, Raise
    <2>2. MovedTo(d, "release", "rollback", req[d].lock, Unread)
      BY <2>1, FinishMoves
    <2> QED
      BY <1>1, <1>2, <2>1, <2>2, MovedRow
  <1>5. CASE SetDedupKey(d)
    <2>1. req[d].pc = "inserted" /\ Writes(req[d]) /\ (Finish(d, "skip") \/ Goto(d, "marked"))
      BY <1>5 DEF SetDedupKey, Writes
    <2>2. CASE Finish(d, "skip")
      <3>1. MovedTo(d, "release", "skip", req[d].lock, Unread)
        BY <2>2, FinishMoves
      <3> QED
        BY <1>1, <1>2, <2>1, <3>1, MovedRow
    <2>3. CASE Goto(d, "marked")
      <3>1. MovedTo(d, "marked", req[d].end, req[d].lock, req[d].seen)
        BY <2>3, GotoMoves
      <3> QED
        BY <1>1, <1>2, <2>1, <3>1, MovedRow
    <2> QED
      BY <2>1, <2>2, <2>3
  <1>6. CASE LockEvent(d)
    <2>1. req' = [req EXCEPT ![d].pc = "checked", ![d].lock = "event"] /\ Writes(req[d])
          /\ req[d].pc = "marked"
      BY <1>6 DEF LockEvent, Writes
    <2>2. MovedTo(d, "checked", req[d].end, "event", req[d].seen)
      BY <2>1 DEF RowInv, Request, MovedTo
    <2> QED
      BY <1>1, <1>2, <2>1, <2>2, MovedRow
  <1>7. CASE ReadCompany(d)
    <2> DEFINE s == [Unread EXCEPT !.plan = company.plan, !.sub = company.sub]
    <2>1. req' = [req EXCEPT ![d].pc = "company", ![d].seen = s] /\ Writes(req[d])
          /\ req[d].pc = "checked"
      BY <1>7 DEF ReadCompany, Writes
    <2>2. s \in Seen
      BY <1>1
    <2> HIDE DEF s
    <2>3. MovedTo(d, "company", req[d].end, req[d].lock, s)
      BY <2>1 DEF RowInv, Request, MovedTo
    <2> QED
      BY <1>1, <1>2, <2>1, <2>2, <2>3, MovedRow
  <1>8. CASE ReadAccount(d)
    <2> DEFINE s == [req[d].seen EXCEPT !.account = account.plan]
    <2>1. req' = [req EXCEPT ![d].pc = "account", ![d].seen = s] /\ Writes(req[d])
          /\ req[d].pc = "company"
      BY <1>8 DEF ReadAccount, Writes, RowInv, Request
    <2>2. s \in Seen
      BY <1>1
    <2> HIDE DEF s
    <2>3. MovedTo(d, "account", req[d].end, req[d].lock, s)
      BY <2>1 DEF RowInv, Request, MovedTo
    <2> QED
      BY <1>1, <1>2, <2>1, <2>2, <2>3, MovedRow
  <1>9. CASE LockCompany(d)
    <2>1. req' = [req EXCEPT ![d].pc = "locked", ![d].lock = "company"] /\ Writes(req[d])
          /\ req[d].pc \in {"account", "checked"} /\ ~ CompanyLocked(d)
      BY <1>9 DEF LockCompany, BeforeLock, Writes
    <2>2. MovedTo(d, "locked", req[d].end, "company", req[d].seen)
      BY <2>1 DEF RowInv, Request, MovedTo
    <2> QED
      BY <1>1, <1>2, <2>1, <2>2, MovedRow
  <1>10. CASE FillCache(d)
    <2>1. Goto(d, "filled") /\ Writes(req[d]) /\ req[d].pc = "locked"
      BY <1>10 DEF FillCache, Writes
    <2>2. MovedTo(d, "filled", req[d].end, req[d].lock, req[d].seen)
      BY <2>1, GotoMoves
    <2> QED
      BY <1>1, <1>2, <2>1, <2>2, MovedRow
  <1>11. CASE Return(d)
    <2>1. Finish(d, "commit") /\ Writes(req[d]) /\ req[d].pc \in {"filled", "checked", "locked"}
      BY <1>11 DEF Return, BeforeReturn, Writes
    <2>2. MovedTo(d, "release", "commit", req[d].lock, req[d].seen)
      BY <2>1, FinishMoves
    <2> QED
      BY <1>1, <1>2, <2>1, <2>2, MovedRow
  <1>12. CASE ReleaseSlot(d)
    <2>1. Goto(d, "close") /\ req[d].pc = "release"
      BY <1>12 DEF ReleaseSlot
    <2>2. MovedTo(d, "close", req[d].end, req[d].lock, req[d].seen)
      BY <2>1, GotoMoves
    <2> QED
      BY <1>1, <1>2, <2>1, <2>2, MovedRow
  <1> QED
    BY <1>3, <1>4, <1>5, <1>6, <1>7, <1>8, <1>9, <1>10, <1>11, <1>12 DEF Moves

(* The row is taken only when no transaction has it and it is not there.   *)
LEMMA InsertRow == ASSUME RowInv, NEW d \in Deliveries, InsertDedupRow(d) PROVE RowInv'
  <1>1. req \in [Deliveries -> Request] /\ Sound(req[d], dedupRows) /\ req[d].pc = "slot"
    BY DEF RowInv, AllSound, InsertDedupRow
  <1>2. dedupRows' = dedupRows
    BY DEF InsertDedupRow
  <1>3. \A o \in Deliveries : ~(req[o].row /\ req[o].event = req[d].event)
    BY DEF InsertDedupRow
  <1>4. CASE req[d].event \in dedupRows
    <2>0. Unread \in Seen
      BY DEF Unread, Seen, Subs
    <2>1. MovedTo(d, "release", "duplicate", req[d].lock, Unread)
      BY <1>4, FinishMoves DEF InsertDedupRow
    <2>2. req[d].lock \in {"none", "event", "company"}
      BY <1>1 DEF Request
    <2>3. /\ req' \in [Deliveries -> Request]
          /\ \A o \in Deliveries \ {d} : req'[o] = req[o]
          /\ req'[d].pc = "release" /\ req'[d].end = "duplicate" /\ req'[d].event = req[d].event
          /\ req'[d].row = req[d].row /\ req'[d].lock = req[d].lock
      BY <2>0, <2>1, <2>2, MovedFacts
    <2>4. Sound(req'[d], dedupRows)
      BY <1>1, <1>4, <2>3 DEF Sound, Writes
    <2> QED
      BY <1>2, <2>3, <2>4, RequestStep
  <1>5. CASE req[d].event \notin dedupRows
    <2>1. req' = [req EXCEPT ![d].pc = "inserted", ![d].row = TRUE]
      BY <1>5 DEF InsertDedupRow
    <2>2. req' \in [Deliveries -> Request] /\ \A o \in Deliveries \ {d} : req'[o] = req[o]
      <3> DEFINE r == [req[d] EXCEPT !.pc = "inserted", !.row = TRUE]
      <3>1. r \in Request
        BY <1>1 DEF Request
      <3>2. req' = [req EXCEPT ![d] = r]
        BY <1>1, <2>1
      <3> QED
        BY <1>1, <3>1, <3>2
    <2>3. /\ req'[d].pc = "inserted" /\ req'[d].event = req[d].event
          /\ req'[d].row /\ req'[d].lock = req[d].lock
      BY <1>1, <2>1 DEF Request
    <2>4. Sound(req'[d], dedupRows)
      BY <1>1, <1>5, <2>3 DEF Sound, Writes
    <2> QED
      BY <1>2, <1>3, <2>2, <2>3, <2>4, RequestStep
  <1> QED
    BY <1>4, <1>5

(* A transaction that ends gives up its row and its locks.                 *)
LEMMA CloseFacts ==
  ASSUME RowInv, NEW d \in Deliveries, Close(d), req[d].pc # "idle"
  PROVE  /\ req' \in [Deliveries -> Request]
         /\ \A o \in Deliveries \ {d} : req'[o] = req[o]
         /\ req'[d].pc = "done" /\ ~req'[d].row /\ req'[d].lock = "none"
         /\ req'[d].seen.sub = NoSub
  <1>0. Unread \in Seen /\ Unread.sub = NoSub
    BY DEF Unread, Seen, Subs
  <1> DEFINE r == [req[d] EXCEPT !.pc = "done", !.row = FALSE, !.lock = "none", !.seen = Unread]
  <1>1. req \in [Deliveries -> Request] /\ req[d] \in Request
    BY DEF RowInv
  <1>2. r.pc = "done" /\ ~r.row /\ r.lock = "none" /\ r.seen = Unread
    BY <1>1 DEF Request
  <1>3. r \in Request
    <2>1. [req[d] EXCEPT !.pc = "done", !.row = FALSE] \in Request
      BY <1>1 DEF Request
    <2>2. [[req[d] EXCEPT !.pc = "done", !.row = FALSE] EXCEPT !.lock = "none", !.seen = Unread]
             \in Request
      BY <1>0, <2>1 DEF Request
    <2>3. r = [[req[d] EXCEPT !.pc = "done", !.row = FALSE] EXCEPT !.lock = "none", !.seen = Unread]
      BY <1>1 DEF Request
    <2> QED
      BY <2>2, <2>3
  <1>4. req' = [req EXCEPT ![d] = r]
    BY <1>1 DEF Close
  <1> HIDE DEF r
  <1>5. req'[d] = r
    BY <1>1, <1>4
  <1> QED
    BY <1>0, <1>1, <1>2, <1>3, <1>4, <1>5

LEMMA RollbackRow ==
  ASSUME RowInv, NEW d \in Deliveries, Rollback(d) \/ Crash(d)
  PROVE  RowInv'
  <1>1. Close(d) /\ req[d].pc # "idle" /\ dedupRows' = dedupRows
    BY DEF Rollback, Crash
  <1>2. Sound(req'[d], dedupRows)
    BY <1>1, CloseFacts DEF Sound, Writes
  <1> QED
    BY <1>1, <1>2, CloseFacts, RequestStep

(* The commit makes the row of an event permanent: no other transaction    *)
(* holds it, or it was there already.                                      *)
LEMMA CommitRow ==
  ASSUME RowInv, NEW d \in Deliveries, Commit(d)
  PROVE  /\ RowInv'
         /\ req[d].event \in Events
         /\ req[d].end = "commit" => req[d].event \notin dedupRows
  <1> DEFINE e == req[d].event
  <1>1. Sound(req[d], dedupRows) /\ req[d].pc = "close" /\ req[d].end \in {"commit", "skip", "duplicate"}
    BY DEF RowInv, AllSound, Commit
  <1>2. Close(d) /\ dedupRows' = dedupRows \cup {e}
    BY DEF Commit
  <1>3. /\ req' \in [Deliveries -> Request]
        /\ \A o \in Deliveries \ {d} : req'[o] = req[o]
        /\ req'[d].pc = "done" /\ ~req'[d].row /\ req'[d].lock = "none"
    BY <1>1, <1>2, CloseFacts
  <1>4. e \in Events /\ (e \in dedupRows \/ (req[d].row /\ e \notin dedupRows))
    BY <1>1 DEF Sound, Writes
  <1>5. AllSound'
    <2> SUFFICES ASSUME NEW o \in Deliveries PROVE Sound(req'[o], dedupRows')
      BY DEF AllSound
    <2>1. CASE o = d
      BY <1>3, <2>1 DEF Sound, Writes
    <2>2. CASE o # d
      <3>1. req'[o] = req[o] /\ Sound(req[o], dedupRows)
        BY <1>3, <2>2 DEF RowInv, AllSound
      <3>2. req[o].row => req[o].event # e
        BY <1>4, <2>2, <3>1 DEF RowInv, RowUnique, Sound
      <3> QED
        BY <1>2, <3>1, <3>2 DEF Sound
    <2> QED
      BY <2>1, <2>2
  <1>6. RowUnique' /\ CompanyLockExclusive'
    BY <1>3 DEF RowInv, RowUnique, CompanyLockExclusive
  <1>7. req[d].end = "commit" => e \notin dedupRows
    BY <1>1 DEF Sound, Writes
  <1> QED
    BY <1>3, <1>4, <1>5, <1>6, <1>7 DEF RowInv

-----------------------------------------------------------------------------
(* The handlers' assignments keep the plans together: a checkout writes a  *)
(* subscription nobody has read, so that its subscription is always stored.*)
LEMMA HandlerPlans ==
  ASSUME PlanInv, NEW e \in Events, NEW seen \in Seen,
         Kind[e] = "checkout" => seen.sub # SubOf[e],
         company' = NewCompany(e, seen), account' = NewAccount(e, seen),
         torn' = IF Kind[e] \in {"checkout", "deleted"}
                 THEN Kind[e] = "checkout" /\ seen # Stored ELSE torn,
         UNCHANGED <<clean, cache, change>>
  PROVE  PlanInv'
  <1>1. Kind[e] \in {"checkout", "deleted", "failed", "succeeded", "other"} /\ SubOf[e] # NoSub
        /\ SubOf[e] \in Subs
    BY WebhookAssumption DEF WebhookAssumption, Subs
  <1>2. CASE Kind[e] = "checkout"
    <2>1. /\ company' = [plan |-> Assigned(company.plan, seen.plan, "pro"),
                         sub |-> Assigned(company.sub, seen.sub, SubOf[e])]
          /\ account' = [account EXCEPT !.plan = Assigned(account.plan, seen.account, "pro")]
      BY <1>2 DEF NewCompany, NewAccount
    <2>2. Assigned(company.sub, seen.sub, SubOf[e]) = SubOf[e]
      BY <1>2 DEF Assigned
    <2>3. company'.plan = Assigned(company.plan, seen.plan, "pro") /\ company'.sub = SubOf[e]
      BY <2>1, <2>2
    <2>4. account'.plan = Assigned(account.plan, seen.account, "pro") /\ account'.ai = account.ai
      BY <2>1 DEF PlanInv
    <2>5. torn' = (seen # Stored) /\ torn' \in BOOLEAN
      BY <1>2
    <2>6. /\ Assigned(company.plan, seen.plan, "pro") \in {"free", "pro"}
          /\ Assigned(account.plan, seen.account, "pro") \in {"free", "pro"}
      BY DEF Assigned, PlanInv
    <2>7. /\ company' \in [plan : {"free", "pro"}, sub : Subs]
          /\ account' \in [plan : {"free", "pro"}, ai : {"on", "payment_failed"}]
      BY <1>1, <2>1, <2>2, <2>6 DEF PlanInv
    <2>8. ~torn' => company'.plan = "pro" /\ account'.plan = "pro"
      <3>1. seen = Stored => seen.plan = company.plan /\ seen.account = account.plan
        BY DEF Stored
      <3> QED
        BY <2>3, <2>4, <2>5, <3>1 DEF Assigned
    <2>9. PlansAgree'
      BY <1>1, <2>3, <2>8 DEF PlansAgree
    <2> QED
      BY <2>5, <2>7, <2>9 DEF PlanInv, NoChangeFromCache
  <1>3. CASE Kind[e] = "deleted"
    <2>1. company' = [plan |-> "free", sub |-> NoSub] /\ account' = [account EXCEPT !.plan = "free"]
      BY <1>3 DEF NewCompany, NewAccount
    <2>2. ~torn' /\ torn' \in BOOLEAN
      BY <1>3
    <2> QED
      BY <2>1, <2>2 DEF PlanInv, PlansAgree, NoChangeFromCache, Subs
  <1>4. CASE Kind[e] \in {"failed", "succeeded", "other"}
    <2>1. /\ company' = company /\ torn' = torn
          /\ account' \in {[account EXCEPT !.ai = "payment_failed"], [account EXCEPT !.ai = "on"], account}
      BY <1>4 DEF NewCompany, NewAccount
    <2> QED
      BY <2>1 DEF PlanInv, PlansAgree, NoChangeFromCache
  <1> QED
    BY <1>1, <1>2, <1>3, <1>4

(* What a handler stores is what was sold before, nothing, or what it has  *)
(* sold; and its key has left the cache when its transaction commits.      *)
LEMMA HandlerCache ==
  ASSUME RowInv, AppliedInv, PlanInv, CacheInv, NEW d \in Deliveries, Commit(d),
         req[d].event \in Events, RowInv'
  PROVE  CacheInv'
  <1> DEFINE e == req[d].event
  <1>1. /\ req[d].pc = "close" /\ Close(d) /\ dedupRows' = dedupRows \union {e}
        /\ UNCHANGED <<clean, cache, change>>
    BY DEF Commit
  <1>2. /\ \A o \in Deliveries \ {d} : req'[o] = req[o]
        /\ req'[d].pc = "done" /\ req'[d].seen.sub = NoSub
    BY <1>1, CloseFacts
  <1>3. applied' \in [Events -> Nat] /\ \A f \in Events \ {e} : applied'[f] = applied[f]
    BY DEF Commit, AppliedInv
  <1>4. applied'[e] > 0 => applied[e] > 0 \/ req[d].end = "commit"
    BY DEF Commit, AppliedInv
  <1>5. applied[e] > 0 => applied'[e] > 0
    BY DEF Commit, AppliedInv
  <1>6. Sold \subseteq Sold'
    BY <1>3, <1>5 DEF Sold
  <1>7. company'.sub \in Sold'
    <2>1. CASE req[d].end = "commit"
      <3>1. company' = NewCompany(e, req[d].seen) /\ applied' = [applied EXCEPT ![e] = @ + 1]
        BY <2>1 DEF Commit
      <3>2. applied'[e] > 0
        BY <3>1 DEF AppliedInv
      <3>3. Kind[e] = "checkout" => SubOf[e] \in Sold'
        BY <3>2 DEF Sold
      <3>4. NoSub \in Sold' /\ company.sub \in Sold'
        BY <1>6 DEF Sold, CacheInv
      <3>5. company'.sub \in {company.sub, NoSub} \/ (Kind[e] = "checkout" /\ company'.sub = SubOf[e])
        BY <3>1 DEF NewCompany, Assigned
      <3> QED
        BY <3>3, <3>4, <3>5
    <2>2. CASE req[d].end # "commit"
      BY <1>6, <2>2 DEF Commit, CacheInv
    <2> QED
      BY <2>1, <2>2
  <1>8. \A o \in Deliveries : req'[o].seen.sub \in Sold'
    BY <1>2, <1>6 DEF CacheInv, Sold
  <1>9. ASSUME clean', NEW f \in Events, Kind[f] = "checkout", applied'[f] > 0 \/ Returned(f)'
        PROVE  SubOf[f] \notin cache'
    <2>1. Returned(f)' => Returned(f)
      BY <1>2 DEF Returned
    <2>2. applied'[f] > 0 => applied[f] > 0 \/ Returned(f)
      BY <1>1, <1>3, <1>4 DEF Returned
    <2> QED
      BY <1>1, <1>9, <2>1, <2>2 DEF CacheInv
  <1> QED
    BY <1>1, <1>6, <1>7, <1>8, <1>9 DEF CacheInv

(* A step of one request that puts nothing into the cache and is not the   *)
(* return of its handler.                                                  *)
LEMMA MovedCache ==
  ASSUME CacheInv, NEW d \in Deliveries, UNCHANGED <<company, applied, change>>,
         cache' \subseteq cache,
         clean' => clean,
         \A o \in Deliveries \ {d} : req'[o] = req[o],
         req'[d].seen.sub \in Sold,
         req'[d].pc \in {"release", "close"} /\ req'[d].end = "commit" =>
            req[d].pc = "release" /\ req[d].end = "commit" /\ req'[d].event = req[d].event
  PROVE  CacheInv'
  <1>1. \A e \in Events : Returned(e)' => Returned(e)
    BY DEF Returned
  <1>2. Sold' = Sold
    BY DEF Sold
  <1> QED
    BY <1>1, <1>2 DEF CacheInv

(* The key a checkout sets is of a subscription nobody has bought: the     *)
(* transaction holds the row of the event, which is not committed.         *)
LEMMA FillsCache ==
  ASSUME RowInv, AppliedInv, PlanInv, CacheInv, NEW d \in Deliveries, FillCache(d)
  PROVE  CacheInv'
  <1> DEFINE e == req[d].event
  <1>1. /\ req[d] \in Request /\ Sound(req[d], dedupRows) /\ req[d].pc = "locked"
        /\ req[d].seen \in Seen
    BY SeenFacts DEF FillCache
  <1>2. /\ MovedTo(d, "filled", req[d].end, req[d].lock, req[d].seen)
        /\ UNCHANGED <<company, applied, change>> /\ Kind[e] = "checkout"
    BY GotoMoves DEF FillCache
  <1>3. req[d].row /\ e \in Events /\ e \notin dedupRows
    BY <1>1 DEF Sound, Writes
  <1>4. applied[e] = 0
    BY <1>3 DEF AppliedInv
  <1>5. /\ \A o \in Deliveries \ {d} : req'[o] = req[o]
        /\ req'[d].pc = "filled" /\ req'[d].seen = req[d].seen
    BY <1>1, <1>2 DEF MovedTo, RowInv, Request
  <1>6. ~Returned(e)
    <2> SUFFICES ASSUME NEW o \in Deliveries, req[o].event = e, req[o].end = "commit",
                        req[o].pc \in {"release", "close"}
                 PROVE  FALSE
      BY DEF Returned
    <2>1. req[o].row
      BY DEF RowInv, AllSound, Sound, Writes
    <2>2. o = d
      BY <1>3, <2>1 DEF RowInv, RowUnique
    <2> QED
      BY <1>1, <2>2
  <1>7. Sold' = Sold /\ \A f \in Events : Returned(f)' => Returned(f)
    BY <1>2, <1>5 DEF Sold, Returned
  <1>8. cache' \subseteq cache \union {SubOf[e]} /\ (clean' => clean)
    BY DEF FillCache, Cached, PlanInv
  <1>9. ASSUME clean', NEW f \in Events, Kind[f] = "checkout", applied[f] > 0 \/ Returned(f)
        PROVE  SubOf[f] \notin cache'
    <2>1. f # e
      BY <1>4, <1>6, <1>9
    <2>2. SubOf[f] # SubOf[e]
      BY <1>2, <1>3, <1>9, <2>1, WebhookAssumption DEF WebhookAssumption
    <2> QED
      BY <1>8, <1>9, <2>2 DEF CacheInv
  <1>10. /\ cache' \subseteq {SubOf[f] : f \in Events}
         /\ \A o \in Deliveries : req'[o].seen.sub \in Sold'
    BY <1>3, <1>5, <1>7, <1>8 DEF CacheInv
  <1> QED
    BY <1>2, <1>7, <1>9, <1>10 DEF CacheInv

(* A handler that returns takes the key of its subscription along.         *)
LEMMA ReturnCache ==
  ASSUME RowInv, PlanInv, CacheInv, NEW d \in Deliveries, Return(d)
  PROVE  CacheInv'
  <1> DEFINE e == req[d].event
  <1>1. req[d] \in Request /\ req[d].seen \in Seen
    BY SeenFacts
  <1>2. /\ MovedTo(d, "release", "commit", req[d].lock, req[d].seen)
        /\ UNCHANGED <<company, applied, change>>
    BY FinishMoves DEF Return
  <1>3. /\ \A o \in Deliveries \ {d} : req'[o] = req[o]
        /\ req'[d].event = e /\ req'[d].seen = req[d].seen
    BY <1>1, <1>2 DEF MovedTo, RowInv, Request
  <1>4. /\ cache' \subseteq cache
        /\ clean' => clean /\ (Kind[e] = "other" \/ SubOf[e] \notin cache')
    BY DEF Return, Invalidated, PlanInv
  <1>5. Sold' = Sold /\ \A f \in Events \ {e} : Returned(f)' => Returned(f)
    BY <1>2, <1>3 DEF Sold, Returned
  <1>6. ASSUME clean', NEW f \in Events, Kind[f] = "checkout", applied[f] > 0 \/ Returned(f)'
        PROVE  SubOf[f] \notin cache'
    BY <1>4, <1>5, <1>6 DEF CacheInv
  <1> QED
    BY <1>2, <1>3, <1>4, <1>5, <1>6 DEF CacheInv

(* A plan change writes only what it read from a cache that holds it, and  *)
(* no subscription anyone has read is in the cache while Redis answers.    *)
LEMMA ChangePlans ==
  ASSUME PlanInv, CacheInv, ReadSubscription \/ ReadPlan \/ VerifyPlan \/ WritePlan
  PROVE  PlanInv' /\ CacheInv'
  <1>1. NoChange \in Change /\ NoChange.pc = "idle" /\ NoChange.sub = NoSub
    BY DEF NoChange, Change, Subs
  <1>2. /\ NoSub \in Sold /\ Sold' = Sold
        /\ \A f \in Events : Returned(f)' <=> Returned(f)
    BY DEF Sold, Returned, ReadSubscription, ReadPlan, VerifyPlan, WritePlan
  <1>3. CASE ReadSubscription
    <2>1. change' = [NoChange EXCEPT !.pc = "company", !.sub = company.sub, !.plan = company.plan]
      BY <1>3 DEF ReadSubscription
    <2>2. change' \in Change /\ change'.pc = "company" /\ change'.sub = company.sub
      BY <1>1, <2>1 DEF Change, PlanInv
    <2> QED
      BY <1>2, <1>3, <2>2 DEF ReadSubscription, PlanInv, PlansAgree, NoChangeFromCache, CacheInv
  <1>4. CASE ReadPlan
    <2>1. change' = [change EXCEPT !.pc = "account", !.account = account.plan]
      BY <1>4 DEF ReadPlan
    <2>2. change' \in Change /\ change'.pc = "account" /\ change'.sub = change.sub
      BY <2>1 DEF Change, PlanInv
    <2> QED
      BY <1>2, <1>4, <2>2 DEF ReadPlan, PlanInv, PlansAgree, NoChangeFromCache, CacheInv
  <1>5. CASE VerifyPlan
    <2>1. CASE change.sub \in cache /\ change' = [change EXCEPT !.pc = "write"]
      <3>1. change.sub # NoSub
        BY <2>1, WebhookAssumption DEF CacheInv, WebhookAssumption
      <3>2. PICK f \in Events : Kind[f] = "checkout" /\ applied[f] > 0 /\ change.sub = SubOf[f]
        BY <3>1 DEF CacheInv, Sold
      <3>3. ~clean
        BY <2>1, <3>2 DEF CacheInv
      <3>4. change' \in Change /\ change'.sub = change.sub
        BY <2>1 DEF Change, PlanInv
      <3> QED
        BY <1>2, <1>5, <3>3, <3>4 DEF VerifyPlan, PlanInv, PlansAgree, NoChangeFromCache, CacheInv
    <2>2. CASE change' = NoChange
      BY <1>1, <1>2, <1>5, <2>2 DEF VerifyPlan, PlanInv, PlansAgree, NoChangeFromCache, CacheInv
    <2> QED
      BY <1>5, <2>1, <2>2 DEF VerifyPlan, FromStripe, FromCache
  <1>6. CASE WritePlan
    <2>1. ~clean /\ clean' = clean /\ change' = NoChange /\ torn' = torn /\ cache' = cache
      BY <1>6 DEF WritePlan, PlanInv, NoChangeFromCache
    <2>2. /\ company' \in {company, [company EXCEPT !.plan = "pro"]}
          /\ account' \in {account, [account EXCEPT !.plan = "pro"]}
      BY <1>6 DEF WritePlan
    <2>3. /\ company' \in [plan : {"free", "pro"}, sub : Subs] /\ company'.sub = company.sub
          /\ account' \in [plan : {"free", "pro"}, ai : {"on", "payment_failed"}]
      BY <2>2 DEF PlanInv
    <2>4. PlanInv'
      BY <1>1, <2>1, <2>3 DEF PlanInv, PlansAgree, NoChangeFromCache
    <2>5. req' = req /\ applied' = applied /\ cache' = cache /\ ~clean'
      BY <1>6, <2>1 DEF WritePlan
    <2>6. CacheInv'
      BY <1>1, <1>2, <2>1, <2>3, <2>5 DEF CacheInv
    <2> QED
      BY <2>4, <2>6
  <1> QED
    BY <1>3, <1>4, <1>5, <1>6

(* Without a commit and a plan change the plans stay.                      *)
LEMMA QuietPlans ==
  ASSUME PlanInv, UNCHANGED <<company, account, change, torn>>, clean' = clean \/ clean' = FALSE
  PROVE  PlanInv'
  <1>1. CASE clean' = clean
    BY <1>1 DEF PlanInv, PlansAgree, NoChangeFromCache
  <1>2. CASE clean' = FALSE
    BY <1>2 DEF PlanInv, PlansAgree, NoChangeFromCache
  <1> QED
    BY <1>1, <1>2

-----------------------------------------------------------------------------
(* The moves of a request keep the invariant.                              *)
LEMMA MoveInv == ASSUME IInv, NEW d \in Deliveries, Moves(d) PROVE IInv'
  <1>0. RowInv /\ AppliedInv /\ PlanInv /\ CacheInv
    BY DEF IInv
  <1>1. UNCHANGED <<dedupRows, company, account, applied, change, torn>>
    BY DEF Moves, TooMany, Refuse, SetDedupKey, LockEvent, ReadCompany, ReadAccount, LockCompany,
           FillCache, Raise, Return, ReleaseSlot, Plans
  <1>2. RowInv'
    BY <1>0, <1>1, MoveRow
  <1>3. AppliedInv'
    BY <1>0, <1>1 DEF AppliedInv, AppliedAtMostOnce
  <1>4. clean' = clean \/ clean' = FALSE
    BY DEF Moves, TooMany, Refuse, SetDedupKey, LockEvent, ReadCompany, ReadAccount, LockCompany,
           FillCache, Raise, Return, ReleaseSlot
  <1>5. PlanInv'
    BY <1>0, <1>1, <1>4, QuietPlans
  <1>6. CacheInv'
    <2>1. /\ req \in [Deliveries -> Request] /\ req[d].seen.sub \in Sold /\ company.sub \in Sold
          /\ NoSub \in Sold /\ Unread.sub = NoSub /\ (clean' => clean)
      BY <1>0, <1>4 DEF RowInv, CacheInv, Sold, Unread, PlanInv
    <2>2. CASE FillCache(d)
      BY <1>0, <2>2, FillsCache
    <2>3. CASE Return(d)
      BY <1>0, <2>3, ReturnCache
    <2>4. CASE ~FillCache(d) /\ ~Return(d)
      <3>1. cache' = cache
        BY <2>4 DEF Moves, TooMany, Refuse, SetDedupKey, LockEvent, ReadCompany, ReadAccount,
                    LockCompany, Raise, ReleaseSlot, Plans
      <3>2. \A o \in Deliveries \ {d} : req'[o] = req[o]
        BY <2>1, <2>4 DEF Moves, TooMany, Refuse, SetDedupKey, LockEvent, ReadCompany, ReadAccount,
                    LockCompany, Raise, ReleaseSlot, Goto, Finish
      <3>3. req'[d].event = req[d].event /\ req'[d].seen.sub \in Sold
        <4>1. CASE ReadCompany(d)
          <5> DEFINE s == [Unread EXCEPT !.plan = company.plan, !.sub = company.sub]
          <5>1. req' = [req EXCEPT ![d].pc = "company", ![d].seen = s]
            BY <4>1 DEF ReadCompany
          <5>2. s.sub = company.sub
            BY DEF Unread
          <5> HIDE DEF s
          <5>3. req'[d].event = req[d].event /\ req'[d].seen = s
            BY <2>1, <5>1 DEF Request
          <5> QED
            BY <2>1, <5>2, <5>3
        <4>2. CASE ReadAccount(d)
          <5> DEFINE s == [req[d].seen EXCEPT !.account = account.plan]
          <5>0. req[d].seen \in Seen
            BY <2>1 DEF Request
          <5>1. req' = [req EXCEPT ![d].pc = "account", ![d].seen = s]
            BY <2>1, <4>2 DEF ReadAccount, Request
          <5>2. s.sub = req[d].seen.sub
            BY <5>0 DEF Seen
          <5> HIDE DEF s
          <5>3. req'[d].event = req[d].event /\ req'[d].seen = s
            BY <2>1, <5>1 DEF Request
          <5> QED
            BY <2>1, <5>2, <5>3
        <4>3. CASE ~ReadCompany(d) /\ ~ReadAccount(d)
          <5>1. /\ req'[d].event = req[d].event
                /\ req'[d].seen = req[d].seen \/ req'[d].seen = Unread
            BY <2>1, <2>4, <4>3 DEF Moves, TooMany, Refuse, SetDedupKey, LockEvent, LockCompany,
                    Raise, ReleaseSlot, Goto, Finish, Request
          <5> QED
            BY <2>1, <5>1
        <4> QED
          BY <4>1, <4>2, <4>3
      <3>4. req'[d].pc \in {"release", "close"} /\ req'[d].end = "commit" =>
               req[d].pc = "release" /\ req[d].end = "commit"
        BY <2>1, <2>4 DEF Moves, TooMany, Refuse, SetDedupKey, LockEvent, ReadCompany, ReadAccount,
                    LockCompany, Raise, ReleaseSlot, Goto, Finish, Request
      <3> QED
        BY <1>0, <1>1, <2>1, <3>1, <3>2, <3>3, <3>4, MovedCache
    <2> QED
      BY <2>2, <2>3, <2>4
  <1> QED
    BY <1>2, <1>3, <1>5, <1>6 DEF IInv

(* Every step keeps the invariant.                                         *)
LEMMA StepInv == IInv /\ [Next]_vars => IInv'
  <1> SUFFICES ASSUME IInv, [Next]_vars PROVE IInv'
    OBVIOUS
  <1>0. RowInv /\ AppliedInv /\ PlanInv /\ CacheInv
    BY DEF IInv
  <1>1. ASSUME NEW d \in Deliveries, NEW e \in Events, Arrive(d, e) PROVE IInv'
    <2>1. RowInv'
      BY <1>0, <1>1, ArriveRow
    <2>2. AppliedInv'
      BY <1>0, <1>1 DEF Arrive, AppliedInv, AppliedAtMostOnce
    <2>3. UNCHANGED <<company, account, applied, change, cache, torn>> /\ (clean' = clean \/ clean' = FALSE)
      BY <1>1 DEF Arrive, Plans
    <2>4. PlanInv'
      BY <1>0, <2>3, QuietPlans
    <2>5. PICK p \in {"slot", "over"} : req' = [req EXCEPT ![d].event = e, ![d].pc = p]
      BY <1>1 DEF Arrive
    <2>6. /\ \A o \in Deliveries \ {d} : req'[o] = req[o]
          /\ req'[d].seen = req[d].seen /\ req'[d].pc = p
      BY <1>0, <2>5 DEF RowInv, Request
    <2>7. CacheInv'
      BY <1>0, <2>3, <2>6, MovedCache DEF CacheInv, PlanInv
    <2> QED
      BY <2>1, <2>2, <2>4, <2>7 DEF IInv
  <1>2. ASSUME NEW d \in Deliveries, Moves(d) PROVE IInv'
    BY <1>2, MoveInv
  <1>3. ASSUME NEW d \in Deliveries, InsertDedupRow(d) PROVE IInv'
    <2>1. RowInv'
      BY <1>0, <1>3, InsertRow
    <2>2. UNCHANGED <<dedupRows, company, account, applied, clean, Plans>>
      BY <1>3 DEF InsertDedupRow
    <2>3. AppliedInv' /\ PlanInv'
      BY <1>0, <2>2, QuietPlans DEF AppliedInv, AppliedAtMostOnce, Plans
    <2>4. req \in [Deliveries -> Request] /\ req[d].pc = "slot" /\ Unread.sub = NoSub
      BY <1>0, <1>3 DEF RowInv, InsertDedupRow, Unread
    <2>5. /\ \A o \in Deliveries \ {d} : req'[o] = req[o]
          /\ req'[d].seen = req[d].seen \/ req'[d].seen = Unread
          /\ ~(req'[d].pc \in {"release", "close"} /\ req'[d].end = "commit")
      BY <1>3, <2>4 DEF InsertDedupRow, Finish, Request
    <2>6. req'[d].seen.sub \in Sold
      BY <1>0, <2>4, <2>5 DEF CacheInv, Sold
    <2>7. CacheInv'
      BY <1>0, <2>2, <2>5, <2>6, MovedCache DEF Plans
    <2> QED
      BY <2>1, <2>3, <2>7 DEF IInv
  <1>4. ASSUME NEW d \in Deliveries, Rollback(d) \/ Crash(d) PROVE IInv'
    <2>1. RowInv'
      BY <1>0, <1>4, RollbackRow
    <2>2. UNCHANGED <<dedupRows, company, account, applied, clean, Plans>> /\ Close(d) /\ req[d].pc # "idle"
      BY <1>4 DEF Rollback, Crash
    <2>3. AppliedInv' /\ PlanInv'
      BY <1>0, <2>2, QuietPlans DEF AppliedInv, AppliedAtMostOnce, Plans
    <2>4. /\ \A o \in Deliveries \ {d} : req'[o] = req[o]
          /\ req'[d].pc = "done" /\ req'[d].seen.sub = NoSub
      BY <1>0, <2>2, CloseFacts
    <2>5. CacheInv'
      BY <1>0, <2>2, <2>4, MovedCache DEF Plans, Sold
    <2> QED
      BY <2>1, <2>3, <2>5 DEF IInv
  <1>5. ASSUME NEW d \in Deliveries, Commit(d) PROVE IInv'
    <2> DEFINE e == req[d].event
    <2>1. RowInv' /\ e \in Events /\ (req[d].end = "commit" => e \notin dedupRows)
      BY <1>0, <1>5, CommitRow
    <2>2. dedupRows' = dedupRows \cup {e} /\ UNCHANGED <<clean, cache, change>>
      BY <1>5 DEF Commit
    <2>3. CacheInv'
      BY <1>0, <1>5, <2>1, HandlerCache
    <2>4. CASE req[d].end = "commit"
      <3>1. /\ applied' = [applied EXCEPT ![e] = @ + 1]
            /\ company' = NewCompany(e, req[d].seen) /\ account' = NewAccount(e, req[d].seen)
            /\ torn' = IF Kind[e] \in {"checkout", "deleted"}
                       THEN Kind[e] = "checkout" /\ req[d].seen # Stored ELSE torn
        BY <1>5, <2>4 DEF Commit
      <3>2. applied[e] = 0
        BY <1>0, <2>1, <2>4 DEF AppliedInv
      <3>3. AppliedInv'
        BY <1>0, <2>1, <2>2, <3>1, <3>2 DEF AppliedInv, AppliedAtMostOnce
      <3>4. req[d].seen \in Seen
        BY <1>0, SeenFacts
      <3>5. Kind[e] = "checkout" => req[d].seen.sub # SubOf[e]
        <4>1. req[d].seen.sub \in Sold
          BY <1>0 DEF CacheInv
        <4> QED
          BY <2>1, <3>2, <4>1, WebhookAssumption DEF Sold, WebhookAssumption
      <3>6. PlanInv'
        BY <1>0, <2>1, <2>2, <3>1, <3>4, <3>5, HandlerPlans
      <3> QED
        BY <2>1, <2>3, <3>3, <3>6 DEF IInv
    <2>5. CASE req[d].end # "commit"
      <3>1. UNCHANGED <<company, account, applied, torn>>
        BY <1>5, <2>5 DEF Commit
      <3>2. AppliedInv'
        BY <1>0, <2>2, <3>1 DEF AppliedInv, AppliedAtMostOnce
      <3>3. PlanInv'
        BY <1>0, <2>2, <3>1, QuietPlans
      <3> QED
        BY <2>1, <2>3, <3>2, <3>3 DEF IInv
    <2> QED
      BY <2>4, <2>5
  <1>6. CASE \/ SlotsExpire \/ \E e \in Events : CreateCheckoutSession(e)
             \/ \E sub \in {SubOf[e] : e \in Events} : CacheExpires(sub)
             \/ UNCHANGED vars
    <2>1. UNCHANGED <<req, dedupRows, company, account, applied, change, torn>>
      BY <1>6 DEF SlotsExpire, CreateCheckoutSession, CacheExpires, Plans, vars
    <2>2. cache' \subseteq cache /\ (clean' = clean \/ clean' = FALSE)
      BY <1>6 DEF SlotsExpire, CreateCheckoutSession, CacheExpires, Plans, vars
    <2>3. RowInv'
      BY <1>0, <2>1 DEF RowInv, AllSound, RowUnique, CompanyLockExclusive
    <2>4. AppliedInv'
      BY <1>0, <2>1 DEF AppliedInv, AppliedAtMostOnce
    <2>5. PlanInv'
      BY <1>0, <2>1, <2>2, QuietPlans
    <2>6. CacheInv'
      BY <1>0, <2>1, <2>2 DEF CacheInv, Sold, Returned
    <2> QED
      BY <2>3, <2>4, <2>5, <2>6 DEF IInv
  <1>7. CASE ReadSubscription \/ ReadPlan \/ VerifyPlan \/ WritePlan
    <2>1. UNCHANGED <<req, dedupRows, applied>>
      BY <1>7 DEF ReadSubscription, ReadPlan, VerifyPlan, WritePlan
    <2>2. RowInv'
      BY <1>0, <2>1 DEF RowInv, AllSound, RowUnique, CompanyLockExclusive
    <2>3. AppliedInv'
      BY <1>0, <2>1 DEF AppliedInv, AppliedAtMostOnce
    <2>4. PlanInv' /\ CacheInv'
      BY <1>0, <1>7, ChangePlans
    <2> QED
      BY <2>2, <2>3, <2>4 DEF IInv
  <1> QED
    BY <1>1, <1>2, <1>3, <1>4, <1>5, <1>6, <1>7 DEF Next, Moves

(* The invariant holds of every behaviour of the endpoint.                 *)
THEOREM WebhookInvariant == Spec => []IInv
  BY InitInv, StepInv, PTL DEF Spec

(* No event is applied twice, for any number of deliveries and events and  *)
(* whatever fails: the INSERT ... ON CONFLICT of stripe_webhook_events in  *)
(* the handler's own transaction is enough for it.                         *)
THEOREM AppliedAtMostOnceTheorem == Spec => []AppliedAtMostOnce
  <1>1. IInv => AppliedAtMostOnce
    BY DEF IInv, AppliedInv
  <1> QED
    BY <1>1, WebhookInvariant, PTL

(* As long as no Redis call has failed, no company has the pro plan        *)
(* without a subscription, and one with a subscription has it in its row   *)
(* and in its billing account, unless its checkout was overtaken between   *)
(* its first SELECT and its lock.                                          *)
THEOREM PlansAgreeTheorem == Spec => []PlansAgree
  <1>1. IInv => PlansAgree
    BY DEF IInv, PlanInv
  <1> QED
    BY <1>1, WebhookInvariant, PTL

(* change_plan decides nothing from the subscription cache as long as no   *)
(* Redis call has failed.                                                  *)
THEOREM NoChangeFromCacheTheorem == Spec => []NoChangeFromCache
  <1>1. IInv => NoChangeFromCache
    BY DEF IInv, PlanInv
  <1> QED
    BY <1>1, WebhookInvariant, PTL

(* No two handlers hold the company at a time, so that those which load it *)
(* under the lock (all but the checkout) commit to what they have read.    *)
THEOREM CompanyLockTheorem == Spec => []CompanyLockExclusive
  <1>1. IInv => CompanyLockExclusive
    BY DEF IInv, RowInv
  <1> QED
    BY <1>1, WebhookInvariant, PTL

=============================================================================
