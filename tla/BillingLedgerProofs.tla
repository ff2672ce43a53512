------------------------ MODULE BillingLedgerProofs ------------------------
(***************************************************************************)
(* The billing ledger with the quota engine in it, for every number of     *)
(* sessions and jobs and every quota.                                      *)
(*                                                                         *)
(* What an operation may write is decided by what its session has read, so *)
(* the inductive invariant speaks of snapshots.  Little can be said of     *)
(* them: releases work with a balance that no longer is the row's, and     *)
(* several writers leave the version alone.  What is left, and is enough,  *)
(* is Fresh: a session that RESERVES, and was not overtaken by a writer    *)
(* that leaves the version alone, holds the row itself when its version is *)
(* the row's.  Nobody keeps deliveries from giving a reservation back      *)
(* twice; that reserved_acu stays a natural number is due to the checks    *)
(* made under the row lock alone.                                          *)
(***************************************************************************)
EXTENDS BillingLedger, TLAPS

USE QuotaAssumption, LedgerAssumption DEF QuotaAssumption, LedgerAssumption

Fresh ==
    \A s \in Sessions : sess[s].op = "reserve" =>
        /\ sess[s].amt \in Costs
        /\ sess[s].snap.version <= account.version
        /\ s \notin overtaken /\ VersionMatches(account, sess[s].snap)
             => sess[s].snap = account

ReconOK == \A j \in Jobs : recon[j].on => recon[j].actual \in Costs

LedgerInv == LedgerTypeOK /\ Fresh /\ ReconOK /\ ChargedAtMostOnce /\ DailyLimitHolds

-----------------------------------------------------------------------------
(* The quota engine's operations.                                          *)

LEMMA NoSessionType == NoSession \in Session /\ NoSession.op = "idle"
<1>1. NewAccount \in Account
  BY DEF NewAccount, Account
<1> QED BY <1>1 DEF NoSession, Session, MaxRetries

(* What a reserving or a releasing UPDATE writes is a row with the next    *)
(* version and the same usage.                                             *)
LEMMA WritesAreRows ==
  ASSUME NEW a \in Account, NEW snap \in Account, NEW d \in Nat
  PROVE  /\ ReserveWrite(a, snap, d) \in Account
         /\ ReserveWrite(a, snap, d).version = a.version + 1
         /\ ReserveWrite(a, snap, d).used = a.used
         /\ ReleaseWrite(a, snap, d) \in Account
         /\ ReleaseWrite(a, snap, d).version = a.version + 1
         /\ ReleaseWrite(a, snap, d).used = a.used
<1>1. /\ a.version + 1 \in Nat /\ snap.reserved + d \in Nat
      /\ FloorZero(snap.reserved - d) \in Nat
  BY DEF Account, FloorZero
<1> QED BY <1>1 DEF Account, ReserveWrite, ReleaseWrite

(***************************************************************************)
(* A step of one session.  Either the row stays or it gets a new version;  *)
(* the session's new snapshot is the new row or of another version.        *)
(***************************************************************************)
LEMMA SessionMoves ==
  ASSUME LedgerInv, NEW s \in Sessions, NEW new \in Session,
         sess' = [sess EXCEPT ![s] = new],
         account' \in Account, account' = account \/ account'.version = account.version + 1,
         new.op = "reserve" => /\ new.amt \in Costs
                               /\ new.snap.version <= account.version
                               /\ new.snap.version = account.version => new.snap = account'
                               /\ account' = account,
         daily' \in Nat, daily' <= DailyLimit,
         granted' \in [Jobs -> SUBSET Costs],
         hb' \in {"none", "fresh", "stale"}, overtaken' = overtaken \ {s},
         UNCHANGED <<period, ledger, recon, cleaning, charges>>
  PROVE  LedgerInv'
<1>0. /\ sess \in [Sessions -> Session] /\ account \in Account
      /\ account.version \in Nat /\ overtaken \in SUBSET Sessions
  BY DEF LedgerInv, LedgerTypeOK, TypeOK, Account
<1>1. LedgerTypeOK'
  <2>1. sess' \in [Sessions -> Session]
    BY <1>0
  <2> QED BY <1>0, <2>1 DEF LedgerInv, LedgerTypeOK, TypeOK
<1>2. Fresh'
  <2> SUFFICES ASSUME NEW t \in Sessions, sess'[t].op = "reserve"
               PROVE  /\ sess'[t].amt \in Costs
                      /\ sess'[t].snap.version <= account'.version
                      /\ t \notin overtaken' /\ account'.version = sess'[t].snap.version
                           => sess'[t].snap = account'
    BY DEF Fresh, VersionMatches
  <2>1. CASE t = s
    BY <1>0, <2>1
  <2>2. CASE t # s
    <3>1. sess'[t] = sess[t] /\ sess[t] \in Session /\ (t \in overtaken' <=> t \in overtaken)
      BY <1>0, <2>2
    <3>2. /\ sess[t].amt \in Costs /\ sess[t].snap.version <= account.version
          /\ t \notin overtaken /\ account.version = sess[t].snap.version
               => sess[t].snap = account
      BY <3>1 DEF LedgerInv, Fresh, VersionMatches
    <3>3. sess[t].snap.version \in Nat
      BY <3>1 DEF Session, Account
    <3> QED BY <1>0, <3>1, <3>2, <3>3
  <2> QED BY <2>1, <2>2
<1>3. ReconOK' /\ ChargedAtMostOnce'
  BY DEF LedgerInv, ReconOK, ChargedAtMostOnce
<1> QED BY <1>1, <1>2, <1>3 DEF LedgerInv, DailyLimitHolds

(* A session begins, or ends without touching the row.                     *)
LEMMA BeginInv ==
  ASSUME LedgerInv, NEW s \in Sessions, NEW op \in {"reserve", "release"},
         NEW j \in Jobs \cup {"none"}, NEW amt \in Nat, NEW user \in BOOLEAN,
         NEW uuid \in BOOLEAN, op = "reserve" => amt \in Costs,
         Begin(s, op, j, amt, user, uuid),
         hb' = hb, overtaken' = overtaken \ {s},
         UNCHANGED <<period, ledger, recon, cleaning, charges>>
  PROVE  LedgerInv'
<1> DEFINE new == [op |-> op, job |-> j, amt |-> amt, user |-> user, uuid |-> uuid,
                   snap |-> account, tries |-> 0]
<1>1. /\ sess' = [sess EXCEPT ![s] = new]
      /\ account' = account /\ daily' = daily /\ granted' = granted
  BY DEF Begin
<1>2. /\ account \in Account /\ daily \in Nat /\ daily <= DailyLimit
      /\ granted \in [Jobs -> SUBSET Costs] /\ hb \in {"none", "fresh", "stale"}
  BY DEF LedgerInv, LedgerTypeOK, TypeOK, DailyLimitHolds
<1>3. new \in Session
  BY <1>2 DEF Session, MaxRetries
<1>4. account.version \in Nat
  BY <1>2 DEF Account
<1>5. /\ new.op = op /\ new.amt = amt /\ new.snap = account
  OBVIOUS
<1>6. new.op = "reserve" => /\ new.amt \in Costs
                            /\ new.snap.version <= account.version
                            /\ new.snap.version = account.version => new.snap = account
  BY <1>4, <1>5
<1> HIDE DEF new
<1> QED BY <1>1, <1>2, <1>3, <1>6, SessionMoves

LEMMA DropInv ==
  ASSUME LedgerInv, NEW s \in Sessions, End(s), UNCHANGED <<account, daily, granted, hb>>,
         overtaken' = overtaken \ {s},
         UNCHANGED <<period, ledger, recon, cleaning, charges>>
  PROVE  LedgerInv'
<1>1. /\ account \in Account /\ daily \in Nat /\ daily <= DailyLimit
      /\ granted \in [Jobs -> SUBSET Costs] /\ hb \in {"none", "fresh", "stale"}
  BY DEF LedgerInv, LedgerTypeOK, TypeOK, DailyLimitHolds
<1> QED BY <1>1, NoSessionType, SessionMoves DEF End

(* A retry works with a row of some version: a reservation with the row as *)
(* it is, or with one that is out of date and stays so.                    *)
LEMMA RetryInv ==
  ASSUME LedgerInv, NEW s \in Sessions, sess[s].op \in {"reserve", "release"},
         ~ VersionMatches(account, sess[s].snap), Retry(s),
         UNCHANGED <<account, daily, granted, hb>>, overtaken' = overtaken \ {s},
         UNCHANGED <<period, ledger, recon, cleaning, charges>>
  PROVE  LedgerInv'
<1>0. /\ account \in Account /\ daily \in Nat /\ daily <= DailyLimit
      /\ granted \in [Jobs -> SUBSET Costs] /\ hb \in {"none", "fresh", "stale"}
      /\ sess \in [Sessions -> Session] /\ sess[s] \in Session
  BY DEF LedgerInv, LedgerTypeOK, TypeOK, DailyLimitHolds
<1>1. CASE ~ (sess[s].tries < MaxRetries - 1)
  BY <1>1, DropInv DEF Retry
<1>2. CASE sess[s].tries < MaxRetries - 1
  <2> DEFINE old == sess[s]
             kept == [old.snap EXCEPT !.reserved = FloorZero(@ - old.amt),
                                      !.version = account.version]
             new == [old EXCEPT !.snap = Retried(old), !.tries = @ + 1]
  <2>1. old.snap \in Account /\ old.amt \in Nat /\ old.tries \in 0 .. MaxRetries - 1
    BY <1>0 DEF Session
  <2>2. kept \in Account
    <3>1. FloorZero(old.snap.reserved - old.amt) \in Nat /\ account.version \in Nat
      BY <1>0, <2>1 DEF FloorZero, Account
    <3> QED BY <2>1, <3>1 DEF Account
  <2>3. /\ Retried(old) \in Account
        /\ old.op = "reserve" => Retried(old) = account \/ Retried(old) = old.snap
    <3> HIDE DEF kept
    <3>1. Retried(old) = IF ~ old.uuid THEN old.snap
                         ELSE IF old.op = "reserve" THEN account ELSE kept
      BY DEF Retried, kept
    <3> QED BY <1>0, <2>1, <2>2, <3>1
  <2>4. old.tries + 1 \in 0 .. MaxRetries - 1
    BY <1>2, <2>1 DEF MaxRetries
  <2>5. new \in Session
    BY <1>0, <2>3, <2>4 DEF Session
  <2>6. sess' = [sess EXCEPT ![s] = new]
    BY <1>0, <1>2 DEF Retry
  <2>7. new.op = old.op /\ new.amt = old.amt /\ new.snap = Retried(old)
    BY <1>0 DEF Session
  <2>8. new.op = "reserve" => /\ new.amt \in Costs
                              /\ new.snap.version <= account.version
                              /\ new.snap.version = account.version => new.snap = account
    <3>1. old.op = "reserve" => old.amt \in Costs /\ old.snap.version <= account.version
      BY DEF LedgerInv, Fresh
    <3>2. old.snap.version # account.version
      BY DEF VersionMatches
    <3>3. account.version \in Nat
      BY <1>0 DEF Account
    <3> QED BY <2>3, <2>7, <3>1, <3>2, <3>3
  <2> HIDE DEF new
  <2> QED BY <1>0, <2>5, <2>6, <2>8, SessionMoves
<1> QED BY <1>1, <1>2

LEMMA EngineStepInv ==
  ASSUME LedgerInv, NEW s \in Sessions, EngineStep(s)
  PROVE  LedgerInv' /\ account'.used = account.used
<1>0. /\ sess \in [Sessions -> Session] /\ sess[s] \in Session /\ account \in Account
      /\ granted \in [Jobs -> SUBSET Costs] /\ daily \in Nat /\ daily <= DailyLimit
      /\ hb \in {"none", "fresh", "stale"}
  BY DEF LedgerInv, LedgerTypeOK, TypeOK, DailyLimitHolds
<1>1. overtaken' = overtaken \ {s} /\ UNCHANGED <<period, ledger, recon, cleaning, charges>>
  BY DEF EngineStep
<1>2. CASE /\ \E j \in Jobs, c \in Costs, u, id \in BOOLEAN : BeginReserve(s, j, c, u, id)
           /\ UNCHANGED hb
  <2>1. PICK j \in Jobs, c \in Costs, u \in BOOLEAN, id \in BOOLEAN :
          Begin(s, "reserve", j, c, u, id)
    BY <1>2 DEF BeginReserve
  <2> QED BY <1>1, <1>2, <2>1, BeginInv DEF Begin
<1>3. CASE ReserveDenied(s) /\ UNCHANGED hb
  BY <1>1, <1>3, DropInv DEF ReserveDenied
<1>4. CASE ReserveConflict(s) /\ UNCHANGED hb
  BY <1>1, <1>4, RetryInv DEF ReserveConflict
<1>5. CASE (\E c \in Costs : BeginRelease(s, c)) /\ UNCHANGED hb
  <2>1. PICK c \in Costs : Begin(s, "release", "none", c, FALSE, FALSE)
    BY <1>5 DEF BeginRelease
  <2> QED BY <1>1, <1>5, <2>1, BeginInv DEF Begin
<1>6. CASE BeginSweep(s) /\ UNCHANGED hb
  <2>1. Begin(s, "release", "none", account.reserved, FALSE, TRUE) /\ account.reserved \in Nat
    BY <1>0, <1>6 DEF BeginSweep, Account
  <2> QED BY <1>1, <1>6, <2>1, BeginInv DEF Begin
<1>7. CASE Release(s) /\ UNCHANGED hb
  <2>1. sess[s].amt \in Nat /\ sess[s].snap \in Account
    BY <1>0 DEF Session
  <2>2. account' = ReleaseWrite(account, sess[s].snap, sess[s].amt)
    BY <1>7 DEF Release
  <2>3. account' \in Account /\ account'.version = account.version + 1
        /\ account'.used = account.used
    BY <1>0, <2>1, <2>2, WritesAreRows
  <2>4. sess' = [sess EXCEPT ![s] = NoSession] /\ daily' = daily /\ granted' = granted
    BY <1>7 DEF Release, End
  <2> QED BY <1>0, <1>1, <1>7, <2>3, <2>4, NoSessionType, SessionMoves
<1>8. CASE GiveBackConflict(s) /\ UNCHANGED hb
  BY <1>1, <1>8, RetryInv DEF GiveBackConflict
<1>9. CASE Reserve(s) /\ hb' = (IF sess[s].uuid THEN hb ELSE "fresh")
  <2>1. /\ sess[s].amt \in Nat /\ sess[s].amt \in Costs /\ sess[s].snap \in Account
    BY <1>0, <1>9 DEF Session, Reserve, LedgerInv, Fresh
  <2>2. account' = ReserveWrite(account, sess[s].snap, sess[s].amt)
    BY <1>9 DEF Reserve
  <2>3. account' \in Account /\ account'.version = account.version + 1
        /\ account'.used = account.used
    BY <1>0, <2>1, <2>2, WritesAreRows
  <2>4. sess' = [sess EXCEPT ![s] = NoSession]
    BY <1>9 DEF Reserve, End
  <2>5. granted' \in [Jobs -> SUBSET Costs]
    BY <1>0, <1>9, <2>1 DEF Reserve
  <2>6. daily' \in Nat /\ daily' <= DailyLimit
    BY <1>0, <1>9, <2>1 DEF Reserve, WithinDaily
  <2>7. hb' \in {"none", "fresh", "stale"}
    BY <1>0, <1>9
  <2> QED BY <1>1, <2>3, <2>4, <2>5, <2>6, <2>7, NoSessionType, SessionMoves
<1> QED BY <1>2, <1>3, <1>4, <1>5, <1>6, <1>7, <1>8, <1>9 DEF EngineStep

-----------------------------------------------------------------------------
(* The writers that leave the version alone.                               *)

LEMMA Outruns ==
  ASSUME LedgerInv, Outrun, sess' = sess, account' \in Account,
         account'.version = account.version
  PROVE  Fresh' /\ overtaken' \in SUBSET Sessions
<1>1. \A s \in Sessions : sess[s].op = "reserve" => s \in overtaken'
  BY DEF Outrun
<1>2. overtaken' \in SUBSET Sessions
  BY DEF Outrun
<1>3. \A s \in Sessions : sess[s].op = "reserve" =>
        sess[s].amt \in Costs /\ sess[s].snap.version <= account.version
  BY DEF LedgerInv, Fresh
<1> QED BY <1>1, <1>2, <1>3 DEF Fresh

LEMMA RowStays ==
  ASSUME LedgerInv, UNCHANGED <<account, sess, overtaken>>
  PROVE  Fresh'
BY DEF LedgerInv, Fresh, VersionMatches

(* A step that leaves sessions, charges and reconciliations alone.         *)
LEMMA QuietInv ==
  ASSUME LedgerInv, account' \in Account, account'.version = account.version,
         Outrun \/ UNCHANGED <<account, overtaken>>,
         hb' \in {"none", "fresh", "stale"},
         period' \in 0 .. MaxPeriods, cleaning' \in BOOLEAN,
         UNCHANGED <<daily, sess, granted, ledger, recon, charges>>
  PROVE  LedgerInv'
<1>1. Fresh' /\ overtaken' \in SUBSET Sessions
  <2>1. CASE Outrun
    BY <2>1, Outruns
  <2>2. CASE UNCHANGED <<account, overtaken>>
    BY <2>2, RowStays DEF LedgerInv, LedgerTypeOK
  <2> QED BY <2>1, <2>2
<1>2. LedgerTypeOK'
  BY <1>1 DEF LedgerInv, LedgerTypeOK, TypeOK
<1>3. ChargedAtMostOnce' /\ ReconOK' /\ DailyLimitHolds'
  BY DEF LedgerInv, ChargedAtMostOnce, ReconOK, DailyLimitHolds
<1> QED BY <1>1, <1>2, <1>3 DEF LedgerInv

ReconType == [on : BOOLEAN, reserved : Nat, actual : Nat]

(* A step of reconcile_cost that does not touch the balance.               *)
LEMMA ReconOnly ==
  ASSUME LedgerInv, recon' \in [Jobs -> ReconType],
         \A i \in Jobs : recon'[i].on => recon'[i].actual \in Costs,
         UNCHANGED <<engineVars, hb, period, ledger, cleaning, overtaken, charges>>
  PROVE  LedgerInv'
<1>1. UNCHANGED <<account, daily, sess, granted>>
  BY DEF engineVars
<1>2. LedgerTypeOK'
  BY <1>1 DEF LedgerInv, LedgerTypeOK, TypeOK, ReconType
<1>3. ChargedAtMostOnce' /\ DailyLimitHolds' /\ ReconOK'
  BY <1>1 DEF LedgerInv, ChargedAtMostOnce, ReconOK, DailyLimitHolds
<1> QED BY <1>1, <1>2, <1>3, RowStays DEF LedgerInv

LEMMA BeginReconcileInv ==
  ASSUME LedgerInv, NEW j \in Jobs, NEW r \in Costs \cup {0}, NEW act \in Costs,
         BeginReconcile(j, r, act)
  PROVE  LedgerInv'
<1> DEFINE new == [on |-> TRUE, reserved |-> r, actual |-> act]
<1>1. recon' = [recon EXCEPT ![j] = new]
      /\ UNCHANGED <<engineVars, hb, period, ledger, cleaning, overtaken, charges>>
  BY DEF BeginReconcile
<1>2. new \in ReconType /\ new.actual \in Costs
  BY DEF ReconType
<1>3. recon \in [Jobs -> ReconType] /\ ReconOK
  BY DEF LedgerInv, LedgerTypeOK, ReconType
<1> HIDE DEF new
<1>4. /\ recon' \in [Jobs -> ReconType]
      /\ \A i \in Jobs : recon'[i].on => recon'[i].actual \in Costs
  BY <1>1, <1>2, <1>3 DEF ReconOK
<1> QED BY <1>1, <1>4, ReconOnly

LEMMA ReconcileFreed ==
  ASSUME LedgerInv, NEW j \in Jobs, recon' = [recon EXCEPT ![j] = Free]
  PROVE  /\ recon' \in [Jobs -> ReconType]
         /\ \A i \in Jobs : recon'[i].on => recon'[i].actual \in Costs
<1>1. Free \in ReconType /\ Free.on = FALSE
  BY DEF Free, ReconType
<1>2. recon \in [Jobs -> ReconType] /\ ReconOK
  BY DEF LedgerInv, LedgerTypeOK, ReconType
<1> QED BY <1>1, <1>2 DEF ReconOK

(* What the first reconciliation of a job does.  The check under the row   *)
(* lock, not the history of the reservation, keeps reserved_acu natural.   *)
LEMMA FirstReconcileWrites ==
  ASSUME LedgerInv, NEW j \in Jobs, EndReconcile(j), FirstReconciliation(j)
  PROVE  /\ account' \in Account
         /\ account'.version = account.version
         /\ account'.used = account.used + recon[j].actual
         /\ ledger' = [ledger EXCEPT ![j] = "charge"]
         /\ charges' = [charges EXCEPT ![j] = @ + 1]
         /\ Outrun
<1> DEFINE r == recon[j].reserved
           act == recon[j].actual
<1>1. account \in Account /\ r \in Nat /\ act \in Nat
  BY DEF LedgerInv, LedgerTypeOK, TypeOK
<1>2. /\ account' = ReconcileWrite(account, r, act)
      /\ ledger' = [ledger EXCEPT ![j] = "charge"]
      /\ charges' = [charges EXCEPT ![j] = @ + 1]
      /\ Outrun
  BY DEF EndReconcile
<1>3. FloorZero(account.reserved - r) \in Nat /\ account.used + act \in Nat
  BY <1>1 DEF FloorZero, Account
<1>4. account' = [account EXCEPT !.reserved = FloorZero(account.reserved - r),
                                 !.used = account.used + act]
  BY <1>2 DEF ReconcileWrite
<1> QED BY <1>1, <1>2, <1>3, <1>4 DEF Account

LEMMA EndReconcileInv ==
  ASSUME LedgerInv, NEW j \in Jobs, EndReconcile(j)
  PROVE  LedgerInv'
<1>0. /\ recon' = [recon EXCEPT ![j] = Free]
      /\ UNCHANGED <<daily, sess, granted, hb, period, cleaning>>
  BY DEF EndReconcile
<1>1. CASE FirstReconciliation(j)
  <2>1. /\ charges \in [Jobs -> Nat]
        /\ ledger \in [Jobs -> {"none", "charge"} \cup Reasons]
    BY DEF LedgerInv, LedgerTypeOK
  <2>2. /\ charges' \in [Jobs -> Nat]
        /\ ledger' \in [Jobs -> {"none", "charge"} \cup Reasons]
    BY <1>1, <2>1, FirstReconcileWrites
  <2>3. Fresh' /\ overtaken' \in SUBSET Sessions /\ account' \in Account
    BY <1>0, <1>1, FirstReconcileWrites, Outruns
  <2>4. LedgerTypeOK'
    BY <1>0, <2>2, <2>3, ReconcileFreed DEF LedgerInv, LedgerTypeOK, TypeOK, ReconType
  <2>5. ChargedAtMostOnce'
    <3>1. ledger[j] = "none" /\ charges[j] = 0
      BY <1>1 DEF FirstReconciliation, LedgerInv, ChargedAtMostOnce
    <3> QED BY <1>1, <2>1, <3>1, FirstReconcileWrites DEF LedgerInv, ChargedAtMostOnce
  <2>6. ReconOK' /\ DailyLimitHolds'
    BY <1>0, ReconcileFreed DEF ReconOK, LedgerInv, DailyLimitHolds
  <2> QED BY <2>3, <2>4, <2>5, <2>6 DEF LedgerInv
<1>2. CASE ~ FirstReconciliation(j)
  <2>1. UNCHANGED <<account, ledger, charges, overtaken>>
    BY <1>2 DEF EndReconcile
  <2> QED BY <1>0, <2>1, ReconcileFreed, ReconOnly DEF engineVars
<1> QED BY <1>1, <1>2

LEMMA CreditInv ==
  ASSUME LedgerInv, NEW j \in Jobs, NEW c \in Costs, NEW reason \in Reasons,
         GrantCredit(j, c, reason)
  PROVE  /\ LedgerInv'
         /\ account'.used = FloorZero(account.used - c)
         /\ account'.version = account.version
         /\ \A i \in Jobs : ledger'[i] = "charge" <=> ledger[i] = "charge"
<1>1. account \in Account /\ c \in Nat
  BY DEF LedgerInv, LedgerTypeOK, TypeOK
<1>2. account' \in Account /\ account'.used = FloorZero(account.used - c)
      /\ account'.version = account.version
  BY <1>1 DEF GrantCredit, CreditWrite, FloorZero, Account
<1>3. /\ ledger \in [Jobs -> {"none", "charge"} \cup Reasons]
      /\ reason # "charge"
  BY DEF LedgerInv, LedgerTypeOK
<1>4. /\ ledger' \in [Jobs -> {"none", "charge"} \cup Reasons]
      /\ \A i \in Jobs : ledger'[i] = "charge" <=> ledger[i] = "charge"
  BY <1>3 DEF GrantCredit, CreditRow
<1>5. Outrun /\ UNCHANGED <<daily, sess, granted, hb, period, recon, cleaning, charges>>
  BY DEF GrantCredit
<1>6. Fresh' /\ overtaken' \in SUBSET Sessions
  BY <1>2, <1>5, Outruns
<1>7. LedgerTypeOK'
  BY <1>2, <1>4, <1>5, <1>6 DEF LedgerInv, LedgerTypeOK, TypeOK
<1>8. ChargedAtMostOnce' /\ ReconOK' /\ DailyLimitHolds'
  BY <1>4, <1>5 DEF LedgerInv, ChargedAtMostOnce, ReconOK, DailyLimitHolds
<1> QED BY <1>2, <1>4, <1>6, <1>7, <1>8 DEF LedgerInv

-----------------------------------------------------------------------------
LEMMA LedgerInitInv == LedgerInit => LedgerInv
<1> SUFFICES ASSUME LedgerInit PROVE LedgerInv
  OBVIOUS
<1>1. TypeOK
  BY NoSessionType DEF LedgerInit, EngineInit, TypeOK, NewAccount, Account
<1>2. recon \in [Jobs -> ReconType] /\ \A j \in Jobs : recon[j].on = FALSE
  BY DEF LedgerInit, Free, ReconType
<1>3. /\ hb \in {"none", "fresh", "stale"} /\ period \in 0 .. MaxPeriods
      /\ ledger \in [Jobs -> {"none", "charge"} \cup Reasons]
      /\ charges \in [Jobs -> Nat]
  BY DEF LedgerInit
<1>4. cleaning \in BOOLEAN /\ overtaken \in SUBSET Sessions
  BY DEF LedgerInit
<1>5. LedgerTypeOK
  BY <1>1, <1>2, <1>3, <1>4 DEF LedgerTypeOK, ReconType
<1>6. Fresh
  BY NoSessionType DEF LedgerInit, EngineInit, Fresh
<1>7. ChargedAtMostOnce /\ DailyLimitHolds
  BY DEF LedgerInit, EngineInit, ChargedAtMostOnce, DailyLimitHolds
<1> QED BY <1>2, <1>5, <1>6, <1>7 DEF LedgerInv, ReconOK

(***************************************************************************)
(* Every step of the ledger keeps the invariant, and is a step or a        *)
(* stutter of JobCharging.                                                 *)
(***************************************************************************)
Untouched == account'.used = account.used /\ Charged' = Charged

LEMMA QuietStutters ==
  ASSUME account'.used = account.used, ledger' = ledger
  PROVE  Untouched
BY DEF Untouched, Charged

LEMMA LedgerStep ==
  ASSUME LedgerInv, LedgerNext
  PROVE  LedgerInv' /\ (Charging!Next \/ Untouched)
<1>0. /\ account \in Account /\ hb \in {"none", "fresh", "stale"}
      /\ period \in 0 .. MaxPeriods /\ cleaning \in BOOLEAN
      /\ ledger \in [Jobs -> {"none", "charge"} \cup Reasons]
  BY DEF LedgerInv, LedgerTypeOK, TypeOK
<1>1. ASSUME NEW s \in Sessions, EngineStep(s) PROVE LedgerInv' /\ Untouched
  <2>1. ledger' = ledger
    BY <1>1 DEF EngineStep
  <2> QED BY <1>1, <2>1, EngineStepInv, QuietStutters
<1>2. ASSUME NEW j \in Jobs, NEW r \in Costs \cup {0}, NEW act \in Costs,
             BeginReconcile(j, r, act)
      PROVE  LedgerInv' /\ Untouched
  BY <1>2, BeginReconcileInv, QuietStutters DEF BeginReconcile, engineVars
<1>3. ASSUME NEW j \in Jobs, AbortReconcile(j) PROVE LedgerInv' /\ Untouched
  BY <1>3, ReconcileFreed, ReconOnly, QuietStutters DEF AbortReconcile, engineVars
<1>4. ASSUME NEW j \in Jobs, EndReconcile(j) PROVE LedgerInv' /\ (Charging!Next \/ Untouched)
  <2>1. LedgerInv'
    BY <1>4, EndReconcileInv
  <2>2. CASE ~ FirstReconciliation(j)
    BY <1>4, <2>1, <2>2, QuietStutters DEF EndReconcile
  <2>3. CASE FirstReconciliation(j)
    <3>1. recon[j].actual \in Costs
      BY <1>4 DEF EndReconcile, LedgerInv, ReconOK
    <3>2. account'.used = account.used + recon[j].actual
      BY <1>4, <2>3, <3>1, FirstReconcileWrites
    <3>3. ledger' = [ledger EXCEPT ![j] = "charge"] /\ ledger[j] = "none"
      BY <1>4, <2>3, <3>1, FirstReconcileWrites DEF FirstReconciliation
    <3>4. j \notin Charged /\ Charged' = Charged \cup {j}
      BY <1>0, <3>3 DEF Charged
    <3>5. Charging!Charge(j, recon[j].actual)
      BY <3>2, <3>4 DEF Charging!Charge
    <3> QED BY <2>1, <3>1, <3>5 DEF Charging!Next
  <2> QED BY <2>2, <2>3
<1>5. ASSUME NEW j \in Jobs, NEW c \in Costs, NEW reason \in Reasons, GrantCredit(j, c, reason)
      PROVE  LedgerInv' /\ Charging!Next
  <2>1. /\ LedgerInv' /\ account'.used = FloorZero(account.used - c)
        /\ \A i \in Jobs : ledger'[i] = "charge" <=> ledger[i] = "charge"
    BY <1>5, CreditInv
  <2>2. account.used \in Nat /\ c \in Nat
    BY <1>0 DEF Account
  <2>3. account'.used = IF c > account.used THEN 0 ELSE account.used - c
    BY <2>1, <2>2 DEF FloorZero
  <2>4. Charged' = Charged
    BY <2>1 DEF Charged
  <2>5. Charging!Credit(c)
    BY <2>3, <2>4 DEF Charging!Credit
  <2> QED BY <2>1, <2>5 DEF Charging!Next
<1>6. CASE CleanupSelect
  <2>1. LedgerInv'
    BY <1>0, <1>6, QuietInv DEF CleanupSelect, engineVars
  <2> QED BY <1>6, <2>1, QuietStutters DEF CleanupSelect, engineVars
<1>7. CASE CleanupWrite
  <2>1. account' \in Account /\ account'.used = account.used /\ account'.version = account.version
    BY <1>0, <1>7 DEF CleanupWrite, Account
  <2>2. LedgerInv'
    BY <1>0, <1>7, <2>1, QuietInv DEF CleanupWrite
  <2> QED BY <1>7, <2>1, <2>2, QuietStutters DEF CleanupWrite
<1>8. CASE Heartbeat
  <2>1. hb' \in {"none", "fresh", "stale"}
    BY <1>0, <1>8 DEF Heartbeat
  <2>2. LedgerInv'
    BY <1>0, <1>8, <2>1, QuietInv DEF Heartbeat, engineVars
  <2> QED BY <1>8, <2>2, QuietStutters DEF Heartbeat, engineVars
<1>9. CASE ResetQuotas
  <2>1. account' \in Account /\ account'.used = 0 /\ account'.version = account.version
    BY <1>0, <1>9 DEF ResetQuotas, ResetWrite, Account
  <2>2. period' \in 0 .. MaxPeriods
    BY <1>0, <1>9 DEF ResetQuotas, ResetDue, ResetStaleDue
  <2>3. LedgerInv'
    BY <1>0, <1>9, <2>1, <2>2, QuietInv DEF ResetQuotas
  <2>4. Charging!Reset
    BY <1>9, <2>1 DEF ResetQuotas, Charging!Reset, Charged
  <2> QED BY <2>3, <2>4 DEF Charging!Next
<1>10. ASSUME NEW ai \in {"enabled", "disabled"}, SetAI(ai) PROVE LedgerInv' /\ Untouched
  <2>1. account' \in Account /\ account'.used = account.used /\ account'.version = account.version
    BY <1>0, <1>10 DEF SetAI, Account
  <2>2. LedgerInv'
    BY <1>0, <1>10, <2>1, QuietInv DEF SetAI
  <2> QED BY <1>10, <2>1, <2>2, QuietStutters DEF SetAI
<1> QED BY <1>1, <1>2, <1>3, <1>4, <1>5, <1>6, <1>7, <1>8, <1>9, <1>10 DEF LedgerNext

LEMMA LedgerStutter ==
  ASSUME LedgerInv, UNCHANGED vars
  PROVE  LedgerInv' /\ Untouched
<1>1. UNCHANGED <<account, daily, sess, granted>>
  BY DEF vars, engineVars
<1>2. UNCHANGED <<hb, period, ledger, recon, cleaning, overtaken, charges>>
  BY DEF vars, ledgerVars
<1>3. /\ account \in Account /\ hb \in {"none", "fresh", "stale"}
      /\ period \in 0 .. MaxPeriods /\ cleaning \in BOOLEAN
  BY DEF LedgerInv, LedgerTypeOK, TypeOK
<1> QED BY <1>1, <1>2, <1>3, QuietInv, QuietStutters

LEMMA LedgerInvariance == LedgerSpec => []LedgerInv
<1>1. LedgerInv /\ [LedgerNext]_vars => LedgerInv'
  BY LedgerStep, LedgerStutter
<1> QED BY <1>1, LedgerInitInv, PTL DEF LedgerSpec

(* Every variable of the ledger keeps its type: no balance becomes         *)
(* negative, though the writers of the row do not exclude each other and   *)
(* the same reservation may be given back several times.                   *)
THEOREM LedgerTypeCorrect == LedgerSpec => []LedgerTypeOK
<1>1. LedgerInv => LedgerTypeOK
  BY DEF LedgerInv
<1> QED BY <1>1, LedgerInvariance, PTL

(* However many deliveries of a job reach reconcile_cost, it is charged at *)
(* most once (reconciliation.py:32, :64).                                  *)
THEOREM ChargedOnce == LedgerSpec => []ChargedAtMostOnce
<1>1. LedgerInv => ChargedAtMostOnce
  BY DEF LedgerInv
<1> QED BY <1>1, LedgerInvariance, PTL

(* A user's daily usage never passes the daily limit (quota_engine.py:94). *)
THEOREM DailyLimitSafe == LedgerSpec => []DailyLimitHolds
<1>1. LedgerInv => DailyLimitHolds
  BY DEF LedgerInv
<1> QED BY <1>1, LedgerInvariance, PTL

(* Which steps give the row a new version.                                 *)
LEMMA NewVersion ==
  ASSUME LedgerInv, LedgerNext, account'.version # account.version
  PROVE  \E s \in Sessions : End(s) /\ (Reserve(s) \/ Release(s))
<1>0. account \in Account /\ account.version \in Nat
  BY DEF LedgerInv, LedgerTypeOK, TypeOK, Account
<1>1. ASSUME NEW s \in Sessions, EngineStep(s) PROVE Reserve(s) \/ Release(s)
  BY <1>1 DEF EngineStep, BeginReserve, BeginRelease, BeginSweep, Begin, ReserveDenied,
              ReserveConflict, GiveBackConflict
<1>2. ASSUME NEW j \in Jobs, EndReconcile(j) PROVE account'.version = account.version
  <2>1. CASE FirstReconciliation(j)
    BY <1>2, <2>1, FirstReconcileWrites
  <2>2. CASE ~ FirstReconciliation(j)
    BY <1>2, <2>2 DEF EndReconcile
  <2> QED BY <2>1, <2>2
<1>3. ASSUME NEW j \in Jobs, NEW c \in Costs, NEW reason \in Reasons, GrantCredit(j, c, reason)
      PROVE  account'.version = account.version
  BY <1>3, CreditInv
<1>4. ASSUME CleanupWrite \/ ResetQuotas \/ \E ai \in {"enabled", "disabled"} : SetAI(ai)
      PROVE  account'.version = account.version
  BY <1>0, <1>4 DEF CleanupWrite, ResetQuotas, ResetWrite, SetAI, Account
<1>5. PICK s \in Sessions : EngineStep(s)
  BY <1>2, <1>3, <1>4 DEF LedgerNext, BeginReconcile, AbortReconcile, CleanupSelect, Heartbeat,
                          engineVars
<1>6. Reserve(s) \/ Release(s)
  BY <1>1, <1>5
<1> QED BY <1>6 DEF Reserve, Release

(* A reservation that no writer without a version has overtaken adds what  *)
(* it says to the row that is there, and the quota covers it; however many *)
(* sessions reserve, release and sweep meanwhile (quota_engine.py:149).    *)
THEOREM ReservationSoundTheorem == LedgerSpec => ReservationSound
<1> DEFINE Kept == \A s \in Sessions \ overtaken :
                     /\ sess[s].op = "reserve"
                     /\ sess'[s].op = "idle"
                     /\ account'.version # account.version
                     => /\ account'.reserved = account.reserved + sess[s].amt
                        /\ account'.used + account'.reserved <= Quota
                        /\ account.ai = "enabled"
<1>1. ASSUME LedgerInv, LedgerNext PROVE Kept
  <2> SUFFICES ASSUME NEW t \in Sessions, t \notin overtaken, sess[t].op = "reserve",
                      sess'[t].op = "idle", account'.version # account.version
               PROVE  /\ account'.reserved = account.reserved + sess[t].amt
                      /\ account'.used + account'.reserved <= Quota
                      /\ account.ai = "enabled"
    OBVIOUS
  <2>1. PICK s \in Sessions : End(s) /\ (Reserve(s) \/ Release(s))
    BY <1>1, NewVersion
  <2>2. sess \in [Sessions -> Session] /\ account \in Account
    BY <1>1 DEF LedgerInv, LedgerTypeOK, TypeOK
  <2>3. t = s
    BY <2>1, <2>2 DEF End
  <2>4. Reserve(t)
    BY <2>1, <2>3 DEF Release
  <2>5. sess[t].snap = account /\ sess[t].amt \in Nat
    BY <1>1, <2>2, <2>4 DEF Reserve, LedgerInv, Fresh, Session
  <2>6. /\ account' = ReserveWrite(account, account, sess[t].amt)
        /\ Admits(account, sess[t].amt)
    BY <2>4, <2>5 DEF Reserve
  <2>7. /\ account'.reserved = account.reserved + sess[t].amt /\ account'.used = account.used
        /\ sess[t].amt <= Quota - account.used - account.reserved /\ account.ai = "enabled"
    BY <2>6 DEF ReserveWrite, Admits, Available
  <2>8. account.used \in Nat /\ account.reserved \in Nat
    BY <2>2 DEF Account
  <2> QED BY <2>5, <2>7, <2>8
<1>2. LedgerInv /\ [LedgerNext]_vars => [Kept]_vars
  BY <1>1
<1> QED BY <1>2, LedgerInvariance, PTL DEF LedgerSpec, ReservationSound

(* The ledger implements JobCharging under the refinement mapping of       *)
(* BillingLedger: used_acu, and the jobs with a charge in the ledger.      *)
THEOREM ChargingImplemented == LedgerSpec => ImplementsCharging
<1>1. LedgerInit => Charging!Init
  BY DEF LedgerInit, EngineInit, NewAccount, Charging!Init, Charged
<1>2. LedgerInv /\ [LedgerNext]_vars => [Charging!Next]_(Charging!vars)
  <2> SUFFICES ASSUME LedgerInv, [LedgerNext]_vars PROVE Charging!Next \/ Untouched
    BY DEF Untouched, Charging!vars
  <2> QED BY LedgerStep, LedgerStutter
<1> QED BY <1>1, <1>2, LedgerInvariance, PTL DEF LedgerSpec, ImplementsCharging, Charging!Spec
=============================================================================
