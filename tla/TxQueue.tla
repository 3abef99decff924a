------------------------------- MODULE TxQueue -------------------------------
(***************************************************************************)
(* The reconciler's transaction queue (MessageBoard in                     *)
(* src/unnamed/part_000): #queueAction, #processConcurrencyQueue and the   *)
(* callbacks the reconciler hands to it.                                   *)
(*                                                                         *)
(* A callback submits ledger transactions.  Each guarded transaction is    *)
(* preceded by the idempotence check: if the hash kept in submissionRefs   *)
(* from an earlier attempt is validated with tesSUCCESS, the submission is *)
(* skipped.  A submission ends in one of four ways: validated ("ok"),      *)
(* reported TOOK_LONG although it was validated ("late"), TOOK_LONG and    *)
(* never validated ("lost"), or another error ("fail").  The fate of a     *)
(* submission is final when the client reports TOOK_LONG, so a later      *)
(* check of its hash sees the truth.                                      *)
(*                                                                         *)
(* The callbacks modelled, by Kind:                                        *)
(*   "single"          one guarded tx: acquireError, extendSuccess,       *)
(*                     refundTenant, updateRegInfo, expireLease, heartbeat *)
(*   "acquireSuccess"  updateRegInfo (ref 0), acquireSuccess (ref 1) and   *)
(*                     updateAcquiredRecord in the same retry branch      *)
(*   "reoffer"         recreateLeaseOffer: expireLease (ref 0) and mark    *)
(*                     the row Burned, refreshConfig, offerLease (no ref)  *)
(*                     and delete the row                                  *)
(***************************************************************************)
EXTENDS Integers, Sequences, FiniteSets, TLC

CONSTANTS
  Actions,            \* callbacks handed to #queueAction
  Kind,               \* Actions -> kind of callback
  MaxAttempts,        \* Actions -> the maxAttempts argument (5, or 3 for heartbeat)
  Delayed,            \* actions queued with delay > 0 (the heartbeat)
  AffordableExtraFee  \* cfg.xrpl.affordableExtraFee

Kinds == {"single", "acquireSuccess", "reoffer"}

ASSUME Kind \in [Actions -> Kinds]
ASSUME MaxAttempts \in [Actions -> Nat \ {0}]
ASSUME Delayed \subseteq Actions /\ AffordableExtraFee \in Nat

VARIABLES
  queue,              \* #concurrencyQueue.queue
  processing,         \* #concurrencyQueue.processing
  unqueued,           \* callers that have not yet got through #queueAction
  waiting,            \* failed delayed actions a setInterval will push back
  attempts,           \* action.attempts
  refApplied,         \* the hash in submissionRefs.refs[i] is validated tesSUCCESS
  pc,                 \* "idle", or where the drain is in the current callback
  idx,                \* index of the current callback in queue
  toKeep,             \* the drain's toKeep
  effects,            \* times each tx of each callback took effect on the ledger
  recorded,           \* acquireSuccess: updateAcquiredRecord has run
  leaseRow,           \* reoffer: the status of its lease row
  feeUpliftment,
  applyFeeUpliftment,
  done                \* callbacks that have returned normally (history)

vars == <<queue, processing, unqueued, waiting, attempts, refApplied, pc, idx,
          toKeep, effects, recorded, leaseRow, feeUpliftment, applyFeeUpliftment,
          done>>

TxSteps == {1, 2}
TxOutcomes == {"ok", "late", "lost", "fail"}
Validated(o) == o \in {"ok", "late"}
TookLong(o) == o \in {"late", "lost"}
LocalOutcomes == {"ok", "fail"}
RowStatuses == {"Destroyed", "Burned", "Deleted"}
PcValues == {"idle", "tx1", "burn", "refresh", "tx2", "record", "delete", "end"}

Cur == queue[idx]
InQueue(a) == \E i \in 1 .. Len(queue) : queue[i] = a
\* The callback has left the queue for good: it returned, or it was dropped.
Settled(a) == a \notin unqueued /\ a \notin waiting /\ ~InQueue(a)

Init ==
  /\ queue = <<>>
  /\ processing = FALSE
  /\ unqueued = Actions
  /\ waiting = {}
  /\ attempts = [a \in Actions |-> 0]
  /\ refApplied = [a \in Actions |-> [i \in TxSteps |-> FALSE]]
  /\ pc = "idle"
  /\ idx = 0
  /\ toKeep = <<>>
  /\ effects = [a \in Actions |-> [i \in TxSteps |-> 0]]
  /\ recorded = [a \in Actions |-> FALSE]
  /\ leaseRow = [a \in Actions |-> "Destroyed"]
  /\ feeUpliftment = 0
  /\ applyFeeUpliftment = FALSE
  /\ done = {}

(***************************************************************************)
(* #queueAction: wait for the processing flag, push, release.  The push    *)
(* and both flag writes run without an intervening await.                  *)
(***************************************************************************)
queueAction(a) ==
  /\ a \in unqueued
  /\ ~processing
  /\ queue' = Append(queue, a)
  /\ unqueued' = unqueued \ {a}
  /\ UNCHANGED <<processing, waiting, attempts, refApplied, pc, idx, toKeep,
                 effects, recorded, leaseRow, feeUpliftment, applyFeeUpliftment, done>>

\* The setInterval of a delayed retry fires while the queue is not processing.
IntervalPush(a) ==
  /\ a \in waiting
  /\ ~processing
  /\ queue' = Append(queue, a)
  /\ waiting' = waiting \ {a}
  /\ UNCHANGED <<processing, unqueued, attempts, refApplied, pc, idx, toKeep,
                 effects, recorded, leaseRow, feeUpliftment, applyFeeUpliftment, done>>

\* The clock scheduler calls #processConcurrencyQueue and gets the flag.
StartDrain ==
  /\ ~processing
  /\ queue # <<>>
  /\ processing' = TRUE
  /\ pc' = "tx1"
  /\ idx' = 1
  /\ toKeep' = <<>>
  /\ UNCHANGED <<queue, unqueued, waiting, attempts, refApplied, effects,
                 recorded, leaseRow, feeUpliftment, applyFeeUpliftment, done>>

(***************************************************************************)
(* The drain: the callbacks run one after another while the flag is held, *)
(* so no push can happen until the drain ends.                             *)
(***************************************************************************)
NextEntry ==
  /\ idx' = idx + 1
  /\ pc' = IF idx < Len(queue) THEN "tx1" ELSE "end"

\* The callback goes on with its next await.
Continue(p) ==
  /\ pc' = p
  /\ UNCHANGED <<idx, toKeep, waiting, attempts, feeUpliftment,
                 applyFeeUpliftment, done>>

\* The callback returned: the fee uplift is reset and it is not kept.
Return ==
  /\ feeUpliftment' = 0
  /\ applyFeeUpliftment' = FALSE
  /\ done' = done \cup {Cur}
  /\ NextEntry
  /\ UNCHANGED <<toKeep, waiting, attempts>>

RetryAllowedOffByOne(a) == attempts[a] <= MaxAttempts[a]

\* action.attempts < action.maxAttempts
RetryAllowed(a) == attempts[a] < MaxAttempts[a]

\* A retried action waits in toKeep, or for its setInterval when delayed.
Requeue(a) ==
  IF a \in Delayed
  THEN /\ waiting' = waiting \cup {a}
       /\ UNCHANGED toKeep
  ELSE /\ toKeep' = Append(toKeep, a)
       /\ UNCHANGED waiting

\* The callback threw: retry (escalating the fee on TOOK_LONG) or drop it.
Fail(tookLong) ==
  LET a == Cur IN
  /\ IF RetryAllowed(a)
     THEN /\ attempts' = [attempts EXCEPT ![a] = @ + 1]
          /\ IF tookLong /\ AffordableExtraFee > 0
             THEN /\ applyFeeUpliftment' = TRUE
                  /\ feeUpliftment' = (AffordableExtraFee * attempts'[a]) \div MaxAttempts[a]
             ELSE UNCHANGED <<feeUpliftment, applyFeeUpliftment>>
          /\ Requeue(a)
     ELSE UNCHANGED <<attempts, feeUpliftment, applyFeeUpliftment, waiting, toKeep>>
  /\ NextEntry
  /\ UNCHANGED done

RefNeverSkips(a, i) == FALSE

\* The idempotence check: the kept hash is validated with tesSUCCESS.
RefSkips(a, i) == refApplied[a][i]

\* Submit tx i of the current callback with outcome o; "ok" goes on.
Submit(i, o, guarded, after) ==
  LET a == Cur IN
  /\ effects' = [effects EXCEPT ![a][i] = @ + (IF Validated(o) THEN 1 ELSE 0)]
  /\ refApplied' = IF guarded THEN [refApplied EXCEPT ![a][i] = Validated(o)]
                   ELSE refApplied
  /\ IF o = "ok" THEN after ELSE Fail(TookLong(o))

\* The first transaction of every callback.
Tx1 ==
  /\ pc = "tx1"
  /\ LET a == Cur
         \* recreateLeaseOffer burns only a Destroyed/Failed/SashiTimeout row
         proceed == Kind[a] # "reoffer" \/ leaseRow[a] = "Destroyed"
         after == CASE Kind[a] = "single" -> Return
                    [] Kind[a] = "acquireSuccess" -> Continue("tx2")
                    [] Kind[a] = "reoffer" -> Continue("burn")
         skipped == CASE Kind[a] = "single" -> Return
                      [] Kind[a] = "acquireSuccess" -> Continue("tx2")
                      [] Kind[a] = "reoffer" -> Continue("refresh")
     IN \/ /\ RefSkips(a, 1) \/ ~proceed
           /\ skipped
           /\ UNCHANGED <<effects, refApplied>>
        \/ /\ ~RefSkips(a, 1) /\ proceed
           /\ \E o \in TxOutcomes : Submit(1, o, TRUE, after)
  /\ UNCHANGED <<queue, processing, unqueued, recorded, leaseRow>>

\* recreateLeaseOffer: updateLeaseStatus(BURNED) after expireLease.
Burn ==
  /\ pc = "burn"
  /\ \E o \in LocalOutcomes :
       IF o = "ok"
       THEN /\ leaseRow' = [leaseRow EXCEPT ![Cur] = "Burned"]
            /\ Continue("refresh")
       ELSE /\ Fail(FALSE)
            /\ UNCHANGED leaseRow
  /\ UNCHANGED <<queue, processing, unqueued, refApplied, effects, recorded>>

\* recreateLeaseOffer: hostClient.refreshConfig().
Refresh ==
  /\ pc = "refresh"
  /\ \E o \in LocalOutcomes :
       IF o = "ok" THEN Continue("tx2") ELSE Fail(FALSE)
  /\ UNCHANGED <<queue, processing, unqueued, refApplied, effects, recorded, leaseRow>>

\* acquireSuccess (ref 1), or offerLease, sent without a submission ref
\* and only while the re-read row is Burned.
Tx2 ==
  /\ pc = "tx2"
  /\ LET a == Cur IN
     IF Kind[a] = "acquireSuccess"
     THEN \/ /\ RefSkips(a, 2)
             /\ Return
             /\ UNCHANGED <<effects, refApplied>>
          \/ /\ ~RefSkips(a, 2)
             /\ \E o \in TxOutcomes : Submit(2, o, TRUE, Continue("record"))
     ELSE \/ /\ leaseRow[a] # "Burned"
             /\ Return
             /\ UNCHANGED <<effects, refApplied>>
          \/ /\ leaseRow[a] = "Burned"
             /\ \E o \in TxOutcomes : Submit(2, o, FALSE, Continue("delete"))
  /\ UNCHANGED <<queue, processing, unqueued, recorded, leaseRow>>

\* acquireSuccess: updateAcquiredRecord, in the retry branch of ref 1.
Record ==
  /\ pc = "record"
  /\ \E o \in LocalOutcomes :
       IF o = "ok"
       THEN /\ recorded' = [recorded EXCEPT ![Cur] = TRUE]
            /\ Return
       ELSE /\ Fail(FALSE)
            /\ UNCHANGED recorded
  /\ UNCHANGED <<queue, processing, unqueued, refApplied, effects, leaseRow>>

\* recreateLeaseOffer: deleteLeaseRecord after the offer.
Delete ==
  /\ pc = "delete"
  /\ \E o \in LocalOutcomes :
       IF o = "ok"
       THEN /\ leaseRow' = [leaseRow EXCEPT ![Cur] = "Deleted"]
            /\ Return
       ELSE /\ Fail(FALSE)
            /\ UNCHANGED leaseRow
  /\ UNCHANGED <<queue, processing, unqueued, refApplied, effects, recorded>>

EndDrainNoRelease ==
  /\ pc = "end"
  /\ queue' = toKeep
  /\ pc' = "idle"
  /\ idx' = 0
  /\ toKeep' = <<>>
  /\ UNCHANGED <<processing, unqueued, waiting, attempts, refApplied, effects,
                 recorded, leaseRow, feeUpliftment, applyFeeUpliftment, done>>

\* queue = toKeep, then the flag is released.
EndDrain ==
  /\ pc = "end"
  /\ queue' = toKeep
  /\ processing' = FALSE
  /\ pc' = "idle"
  /\ idx' = 0
  /\ toKeep' = <<>>
  /\ UNCHANGED <<unqueued, waiting, attempts, refApplied, effects, recorded,
                 leaseRow, feeUpliftment, applyFeeUpliftment, done>>

DrainStep == Tx1 \/ Burn \/ Refresh \/ Tx2 \/ Record \/ Delete \/ EndDrain

Next ==
  \/ \E a \in Actions : queueAction(a) \/ IntervalPush(a)
  \/ StartDrain
  \/ DrainStep

(***************************************************************************)
(* Fairness.  The clock scheduler drains every 2 s, so a drain that can    *)
(* start or go on eventually does.  A caller of #queueAction polls the    *)
(* flag every second and a delayed retry's setInterval fires every delay;  *)
(* the flag is released after every drain, so each of them finds it free *)
(* infinitely often: strong fairness.                                     *)
(***************************************************************************)
Fairness ==
  /\ WF_vars(StartDrain)
  /\ WF_vars(DrainStep)
  /\ \A a \in Actions : SF_vars(queueAction(a)) /\ SF_vars(IntervalPush(a))

Spec == Init /\ [][Next]_vars /\ Fairness

-----------------------------------------------------------------------------
TypeOK ==
  /\ queue \in Seq(Actions)
  /\ processing \in BOOLEAN
  /\ unqueued \subseteq Actions /\ waiting \subseteq Actions
  /\ \A a \in Actions : attempts[a] \in 0 .. MaxAttempts[a]
  /\ refApplied \in [Actions -> [TxSteps -> BOOLEAN]]
  /\ pc \in PcValues
  /\ toKeep \in Seq(Actions)
  /\ effects \in [Actions -> [TxSteps -> Nat]]
  /\ recorded \in [Actions -> BOOLEAN]
  /\ leaseRow \in [Actions -> RowStatuses]
  /\ feeUpliftment \in Nat /\ applyFeeUpliftment \in BOOLEAN
  /\ done \subseteq Actions

\* The transactions guarded by the idempotence check: all but offerLease.
GuardedTx(a, i) == ~(Kind[a] = "reoffer" /\ i = 2)

(* Spec 4.3: a guarded transaction takes effect on the ledger at most once, *)
(* however its callback's attempts fail, time out or are validated late:  *)
(* the submissionRefs check before each resubmission in the callbacks.    *)
AtMostOnce ==
  \A a \in Actions, i \in TxSteps : GuardedTx(a, i) => effects[a][i] <= 1

(* The fee uplift that #processConcurrencyQueue sets after a TOOK_LONG     *)
(* failure never exceeds cfg.xrpl.affordableExtraFee, over every retry of  *)
(* every action.                                                          *)
FeeBounded == feeUpliftment <= AffordableExtraFee

(* Every callback handed to #queueAction eventually leaves the queue for  *)
(* good (it returns or is dropped after maxAttempts retries), across the  *)
(* toKeep rebuild and the delayed re-push of #processConcurrencyQueue.    *)
Settles == \A a \in Actions : <>Settled(a)

(* Spec 4.9: recreateLeaseOffer's offerLease, like every step, is guarded *)
(* by the idempotence check, so a slot is offered at most once per call.  *)
OfferAtMostOnce ==
  \A a \in Actions : Kind[a] = "reoffer" => effects[a][2] <= 1

(* Spec 4.9: a recreateLeaseOffer that returned after its expireLease     *)
(* burned the token has offered the slot again.                            *)
BurnedIsReoffered ==
  \A a \in Actions :
     (Kind[a] = "reoffer" /\ a \in done /\ effects[a][1] >= 1) => effects[a][2] >= 1

(* Spec 4.7: once acquireSuccess is on the ledger and its queued callback *)
(* has returned, the lease row has been updated to Acquired.              *)
SuccessIsRecorded ==
  \A a \in Actions :
     (Kind[a] = "acquireSuccess" /\ a \in done /\ effects[a][2] >= 1) => recorded[a]
=============================================================================
