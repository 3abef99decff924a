--------------------------- MODULE LeaseReconciler ---------------------------
(***************************************************************************)
(* The reconciler's lease protocol (MessageBoard in src/unnamed/part_000): *)
(* handleAcquireLease, handleExtendLease, handleTerminateLease, the clock  *)
(* scheduler (#expireInstances then #processConcurrencyQueue), the orphan *)
(* pruner, the halt flag, and restarts with init's catch-up, over an     *)
(* abstract daemon and ledger.                                             *)
(*                                                                         *)
(* All of it runs on one event loop.  A handler is a process whose steps  *)
(* end at the awaits where another task can observe or change the state  *)
(* it uses; steps between two such awaits are one action.  The lease     *)
(* update lock (#acquireLeaseUpdateLock) is a flag polled every second.   *)
(*                                                                         *)
(* The queue is taken to deliver each callback once, in order, in the     *)
(* drain after it was queued (TxQueue checks that every callback settles  *)
(* and each guarded transaction takes effect at most once).  A callback   *)
(* reads the state when it runs.  With LateValidation, a guarded          *)
(* transaction may throw TOOK_LONG and be validated anyway; the retry's   *)
(* check then skips its whole branch, and the callback's net effect is    *)
(* taken in one step.                                                      *)
(*                                                                         *)
(* Time is abstract.  An item of the expiry list may fall due at any      *)
(* scheduler tick once its lease has left Acquiring (a lease lives at     *)
(* least one moment, far longer than a drain).                            *)
(***************************************************************************)
EXTENDS Integers, Sequences, FiniteSets, TLC

CONSTANTS
  Tokens,          \* lease URIToken ids, also the instance names
  Events,          \* ledger events in order: [kind, token, ledger]
  MaxHalts,        \* bound on the ledger halts the detector sees
  GatesMayTrip,    \* the 40 % / 80 % acquire-window gates may trip
  CreateMayFail,   \* sashi create may answer create_error / initiate_error
  DestroyMayFail,  \* sashi destroy may fail
  MaxRestarts,     \* bound on reconciler restarts (process.exit, then init)
  LateValidation   \* a submission may throw TOOK_LONG and still be validated

EventKinds == {"acquire", "extend", "terminate"}
Ev == 1 .. Len(Events)

ASSUME \A i \in Ev : Events[i].kind \in EventKinds /\ Events[i].token \in Tokens
                     /\ Events[i].ledger \in Nat
ASSUME MaxHalts \in Nat /\ MaxRestarts \in Nat
ASSUME {GatesMayTrip, CreateMayFail, DestroyMayFail, LateValidation} \subseteq BOOLEAN

VARIABLES
  arrived,      \* events the subscription has delivered so far
  pc,           \* step of each event's handler
  err,          \* acquire: what the catch block sees
  lock,         \* #leaseUpdateLock
  lastWatched,  \* util table: last_watched_ledger
  lease,        \* lease table: status of the row of each token ("none": no row)
  instances,    \* instances the daemon holds
  owner,        \* ledger: the token is "tenant"-owned, "burned", or re-offered ("host")
  expiryList,   \* this.expiryList
  expQueue,     \* #instanceExpirationQueue
  halted,       \* #xrplHalted
  halts,        \* halts seen so far
  active,       \* activeInstanceCount
  regCount,     \* the active count last sent with updateRegInfo
  txq,          \* queued callbacks
  schPc,        \* clock scheduler: "idle", "lock", "loop", "drain"
  drainLeft,    \* callbacks left in the current drain
  prPc,         \* pruner: "idle", "inst" (first loop), "lease" (second loop)
  prSnap,       \* pruner: the lease rows it read when it started
  prInst,       \* pruner: instances its first loop has still to visit
  prLeases,     \* pruner: leases its second loop has still to visit
  prCount,      \* pruner: its local activeInstanceCount
  resp,         \* responses on the ledger, per event
  restarts,     \* restarts so far
  boot,         \* "up", or "catchup" while init replays missed transactions
  missed,       \* catch-up: the transactions still to replay, in ledger order
  cuSnap        \* catch-up: the lease rows it read when it started

vars == <<arrived, pc, err, lock, lastWatched, lease, instances, owner,
          expiryList, expQueue, halted, halts, active, regCount, txq, schPc,
          drainLeft, prPc, prSnap, prInst, prLeases, prCount, resp,
          restarts, boot, missed, cuSnap>>

LeaseStatuses == {"none", "Acquiring", "Acquired", "Extended", "Failed",
                  "Destroyed", "Burned", "SashiTimeout"}
Live == {"Acquired", "Extended"}
Owners == {"tenant", "burned", "host"}
Responses == {"success", "error", "refund"}
ErrKinds == {"none", "invalid", "initiate", "create", "destroy"}
CallbackKinds == {"acquireSuccess", "acquireError", "extendSuccess",
                  "extendError", "reoffer", "updateRegInfo", "refund", "count",
                  "recreate", "expireLease", "offerLease"}

Tok(i) == Events[i].token

\* A queued callback: its kind, the token or event it is about, a count.
CB(k, t, i, n) == [kind |-> k, token |-> t, ev |-> i, n |-> n]
Queue(cbs) == txq' = txq \o cbs

Init ==
  /\ arrived = 0
  /\ pc = [i \in Ev |-> "pending"]
  /\ err = [i \in Ev |-> "none"]
  /\ lock = FALSE
  /\ lastWatched = 0
  /\ lease = [t \in Tokens |-> "none"]
  /\ instances = {}
  /\ owner = [t \in Tokens |-> "tenant"]
  /\ expiryList = {}
  /\ expQueue = {}
  /\ halted = FALSE
  /\ halts = 0
  /\ active = 0
  /\ regCount = 0
  /\ txq = <<>>
  /\ schPc = "idle"
  /\ drainLeft = 0
  /\ prPc = "idle"
  /\ prSnap = [t \in Tokens |-> "none"]
  /\ prInst = {}
  /\ prLeases = {}
  /\ prCount = 0
  /\ resp = [i \in Ev |-> {}]
  /\ restarts = 0
  /\ boot = "up"
  /\ missed = <<>>
  /\ cuSnap = [t \in Tokens |-> "none"]

\* The handlers are attached and the schedulers started once init is done.
Up == boot = "up"
bootVars == <<restarts, boot, missed, cuSnap>>

\* The subscription emits the next event; its handler starts (not awaited).
Arrive ==
  /\ Up /\ arrived < Len(Events)
  /\ arrived' = arrived + 1
  /\ pc' = [pc EXCEPT ![arrived + 1] = "start"]
  /\ UNCHANGED <<err, lock, lastWatched, lease, instances, owner, expiryList,
                 expQueue, halted, halts, active, regCount, txq, schPc,
                 drainLeft, prPc, prSnap, prInst, prLeases, prCount, resp,
                 bootVars>>

schVars == <<schPc, drainLeft, expQueue>>
prVars == <<prPc, prSnap, prInst, prLeases, prCount>>
envVars == <<arrived, halted, halts, bootVars>>

-----------------------------------------------------------------------------
(* Helpers over the stores.                                                *)

\* updateLeaseStatus / updateLeaseData: an update by tx_hash; no row, no change.
SetStatus(t, s) == lease' = [lease EXCEPT ![t] = IF @ = "none" THEN "none" ELSE s]

\* hostClient.getLeaseByIndex(t) finds the token: it is still the tenant's.
TokenExists(t) == owner[t] = "tenant"

\* sashiCli.destroyInstance(t): the daemon fails on a name it has no row for.
DestroyOutcomes(t) ==
  IF t \in instances THEN (IF DestroyMayFail THEN {TRUE, FALSE} ELSE {TRUE})
                     ELSE {FALSE}

\* The acquire event of a token (one per token in Events).
AcqEv(t) == CHOOSE i \in Ev : Events[i].kind = "acquire" /\ Events[i].token = t

ExpireInstance(t) ==
  \/ /\ ~TokenExists(t)
     /\ active' = active - 1
     /\ Queue(<<CB("updateRegInfo", t, 0, 0)>>)
     /\ UNCHANGED <<instances, lease>>
  \/ /\ TokenExists(t)
     /\ TRUE \in DestroyOutcomes(t)
     /\ instances' = instances \ {t}
     /\ SetStatus(t, "Destroyed")
     /\ active' = active - 1
     /\ Queue(<<CB("reoffer", t, 0, 0), CB("updateRegInfo", t, 0, 0)>>)
  \/ /\ TokenExists(t)
     /\ FALSE \in DestroyOutcomes(t)
     /\ UNCHANGED <<instances, lease, active, txq>>

-----------------------------------------------------------------------------
(* handleAcquireLease (lines 1280-1447).                                    *)

\* Takes the lock, records the ledger, checks the token is the tenant's and
\* inserts the Acquiring row.
AcqStart(i) ==
  LET t == Tok(i) IN
  /\ Up /\ pc[i] = "start" /\ Events[i].kind = "acquire"
  /\ ~lock
  /\ lock' = TRUE
  /\ lastWatched' = Events[i].ledger
  /\ IF TokenExists(t)
       THEN /\ lease' = [lease EXCEPT ![t] = "Acquiring"]
            /\ pc' = [pc EXCEPT ![i] = "create"]
            /\ UNCHANGED err
       ELSE /\ err' = [err EXCEPT ![i] = "invalid"]
            /\ pc' = [pc EXCEPT ![i] = "catch"]
            /\ UNCHANGED lease
  /\ UNCHANGED <<instances, owner, expiryList, active, regCount, txq, resp,
                 envVars, schVars, prVars>>

\* sashiCli.wait() ran past 40 % of the window: SashiTimeout and a re-offer;
\* the finally block releases the lock.
AcqBusyTimeout(i) ==
  /\ pc[i] = "create" /\ GatesMayTrip
  /\ SetStatus(Tok(i), "SashiTimeout")
  /\ Queue(<<CB("reoffer", Tok(i), 0, 0)>>)
  /\ lock' = FALSE
  /\ pc' = [pc EXCEPT ![i] = "done"]
  /\ UNCHANGED <<err, lastWatched, instances, owner, expiryList, active,
                 regCount, resp, envVars, schVars, prVars>>

\* createInstance answered create_res inside 80 % of the window: expiry item,
\* activeInstanceCount++, and the acquireSuccess callback.
AcqCreated(i) ==
  LET t == Tok(i) IN
  /\ pc[i] = "create"
  /\ instances' = instances \cup {t}
  /\ expiryList' = expiryList \cup {t}
  /\ active' = active + 1
  /\ Queue(<<CB("acquireSuccess", t, i, 0)>>)
  /\ lock' = FALSE
  /\ pc' = [pc EXCEPT ![i] = "done"]
  /\ UNCHANGED <<err, lastWatched, lease, owner, regCount, resp, envVars,
                 schVars, prVars>>

\* create_res came after 80 % of the window: SashiTimeout, then
\* destroyInstance of the new instance: the daemon destroys it, the row goes
\* Destroyed and the slot is re-offered; or the destroy fails and the throw
\* reaches the catch block with createRes set and the instance alive.
AcqCreateTimeout(i) ==
  LET t == Tok(i) IN
  /\ pc[i] = "create" /\ GatesMayTrip
  /\ \/ /\ lease' = [lease EXCEPT ![t] = "Destroyed"]
        /\ Queue(<<CB("reoffer", t, 0, 0)>>)
        /\ lock' = FALSE
        /\ pc' = [pc EXCEPT ![i] = "done"]
        /\ UNCHANGED <<instances, err>>
     \/ /\ DestroyMayFail
        /\ instances' = instances \cup {t}
        /\ lease' = [lease EXCEPT ![t] = "SashiTimeout"]
        /\ err' = [err EXCEPT ![i] = "destroy"]
        /\ pc' = [pc EXCEPT ![i] = "catch"]
        /\ UNCHANGED <<txq, lock>>
  /\ UNCHANGED <<lastWatched, owner, expiryList, active, regCount, resp,
                 envVars, schVars, prVars>>


\* createInstance rejected: create_error (the daemon rolled back) or
\* initiate_error (the daemon keeps the instance, see SashiDaemon).
AcqCreateFailed(i) ==
  LET t == Tok(i) IN
  /\ pc[i] = "create" /\ CreateMayFail
  /\ \/ /\ err' = [err EXCEPT ![i] = "create"]
        /\ UNCHANGED instances
     \/ /\ err' = [err EXCEPT ![i] = "initiate"]
        /\ instances' = instances \cup {t}
  /\ pc' = [pc EXCEPT ![i] = "catch"]
  /\ UNCHANGED <<lock, lastWatched, lease, owner, expiryList, active, regCount,
                 txq, resp, envVars, schVars, prVars>>

\* The catch block, then finally.  Failed if the request was validated; the
\* instance destroyed by e.content.instance_name, which only an
\* initiate_error carries (after a failed destroy e.content is a string, the
\* name undefined, and the daemon refuses); a re-offer once leaseIndex is
\* known; the acquireError refund in every case; the lock released.
AcqCatch(i) ==
  LET t == Tok(i)
      validated == err[i] # "invalid"
  IN
  /\ pc[i] = "catch"
  /\ IF validated THEN SetStatus(t, "Failed") ELSE UNCHANGED lease
  /\ \/ /\ err[i] = "initiate"
        /\ \E ok \in DestroyOutcomes(t) :
             instances' = IF ok THEN instances \ {t} ELSE instances
     \/ /\ err[i] # "initiate"
        /\ UNCHANGED instances
  /\ Queue(IF validated THEN <<CB("reoffer", t, 0, 0), CB("acquireError", t, i, 0)>>
                       ELSE <<CB("acquireError", t, i, 0)>>)
  /\ lock' = FALSE
  /\ pc' = [pc EXCEPT ![i] = "done"]
  /\ UNCHANGED <<err, lastWatched, owner, expiryList, active, regCount, resp,
                 envVars, schVars, prVars>>

-----------------------------------------------------------------------------
(* handleExtendLease (lines 1457-1554): takes no lock.                     *)

\* Records the ledger, then checks the token owner, a live lease row and an
\* expiry item.  The item's time is pushed forward and updateLeaseData
\* (status Extended) is issued in the same synchronous run as the read of
\* the rows, so the store applies it before any write another handler issues
\* later; then the extendSuccess.  Any failed check queues the extendError.
ExtendLease(i) ==
  LET t == Tok(i) IN
  /\ Up /\ pc[i] = "start" /\ Events[i].kind = "extend"
  /\ lastWatched' = Events[i].ledger
  /\ IF TokenExists(t) /\ lease[t] \in Live /\ t \in expiryList
       THEN /\ lease' = [lease EXCEPT ![t] = "Extended"]
            /\ Queue(<<CB("extendSuccess", t, i, 0)>>)
       ELSE /\ Queue(<<CB("extendError", t, i, 0)>>)
            /\ UNCHANGED lease
  /\ pc' = [pc EXCEPT ![i] = "done"]
  /\ UNCHANGED <<err, lock, instances, owner, expiryList, active, regCount,
                 resp, envVars, schVars, prVars>>

-----------------------------------------------------------------------------
(* handleTerminateLease (lines 1556-1605).                                  *)

\* The checks a terminate passes before it looks at the halt flag.
TermAccepted(t) == TokenExists(t) /\ lease[t] \in Live /\ t \in expiryList

\* Takes the lock and records the ledger; an accepted terminate removes the
\* expiry item and goes on to expire the instance unless the ledger is
\* halted; otherwise it only logs and releases the lock.
TermStart(i) ==
  LET t == Tok(i) IN
  /\ Up /\ pc[i] = "start" /\ Events[i].kind = "terminate"
  /\ ~lock
  /\ lastWatched' = Events[i].ledger
  /\ IF TermAccepted(t) /\ ~halted
       THEN /\ expiryList' = expiryList \ {t}
            /\ lock' = TRUE
            /\ pc' = [pc EXCEPT ![i] = "expire"]
       ELSE /\ UNCHANGED <<expiryList, lock>>
            /\ pc' = [pc EXCEPT ![i] = "done"]
  /\ UNCHANGED <<err, lease, instances, owner, active, regCount, txq, resp,
                 envVars, schVars, prVars>>

\* #expireInstance(item), then finally releases the lock.
TermExpire(i) ==
  /\ pc[i] = "expire"
  /\ ExpireInstance(Tok(i))
  /\ lock' = FALSE
  /\ pc' = [pc EXCEPT ![i] = "done"]
  /\ UNCHANGED <<err, lastWatched, owner, expiryList, regCount, resp,
                 envVars, schVars, prVars>>

-----------------------------------------------------------------------------
(* The clock scheduler (lines 758-771): #checkLedgersForHalt, then         *)
(* #expireInstances (529-563), then #processConcurrencyQueue.              *)

\* Mutant: the drain counts one callback too many.
DrainCountOffByOne == Len(txq) + 1

\* #processConcurrencyQueue takes the callbacks queued so far.
DrainCount == Len(txq)

\* Mutant: the halt check inverted.
ExpireJobRunsWhenHalted(q) == halted /\ q # {}

\* The expiring job runs unless the ledger is halted or nothing is queued.
ExpireJobRuns(q) == ~halted /\ q # {}

\* Mutant: due items leave the list but never reach the queue.
MoveDueDrop(due) ==
  /\ expiryList' = expiryList \ due
  /\ UNCHANGED expQueue

\* Items whose time has come move to the expiration queue.
MoveDue(due) ==
  /\ expQueue' = expQueue \cup due
  /\ expiryList' = expiryList \ due

SchTick(due) ==
  /\ Up /\ schPc = "idle"
  /\ due \subseteq {t \in expiryList : lease[t] # "Acquiring"}
  /\ MoveDue(due)
  /\ IF ExpireJobRuns(expQueue')
       THEN schPc' = "lock" /\ UNCHANGED drainLeft
       ELSE schPc' = "drain" /\ drainLeft' = DrainCount
  /\ UNCHANGED <<arrived, bootVars, pc, err, lock, lastWatched, lease,
                 instances, owner, halted, halts, active, regCount, txq,
                 prVars, resp>>

SchLock ==
  /\ schPc = "lock" /\ ~lock
  /\ lock' = TRUE
  /\ schPc' = "loop"
  /\ UNCHANGED <<arrived, bootVars, pc, err, lastWatched, lease, instances,
                 owner, expiryList, expQueue, halted, halts, active, regCount,
                 txq, drainLeft, prVars, resp>>

\* One item: #expireInstance, then the item leaves the queue (line 548),
\* also when the destroy inside it failed.
SchExpire(t) ==
  /\ schPc = "loop" /\ t \in expQueue /\ ~halted
  /\ ExpireInstance(t)
  /\ expQueue' = expQueue \ {t}
  /\ UNCHANGED <<arrived, bootVars, pc, err, lock, lastWatched, owner,
                 expiryList, halted, halts, regCount, schPc, drainLeft, prVars,
                 resp>>

\* The loop ends, or breaks on a halt; the lock is released and the drain of
\* the callbacks queued so far starts.
SchLoopExit ==
  /\ schPc = "loop" /\ (expQueue = {} \/ halted)
  /\ lock' = FALSE
  /\ schPc' = "drain"
  /\ drainLeft' = DrainCount
  /\ UNCHANGED <<arrived, bootVars, pc, err, lastWatched, lease, instances,
                 owner, expiryList, expQueue, halted, halts, active, regCount,
                 txq, prVars, resp>>

\* Mutant: the count is corrected but updateRegInfo is not sent.
ApplyCountNoSend(n) ==
  IF active # n THEN active' = n /\ UNCHANGED regCount
                ELSE UNCHANGED <<active, regCount>>

\* The prune job's count callback (lines 990-1010): when the count it
\* computed differs from activeInstanceCount, it overwrites it and sends it.
ApplyCount(n) ==
  IF active # n THEN active' = n /\ regCount' = n
                ELSE UNCHANGED <<active, regCount>>

Respond(i, r) == resp' = [resp EXCEPT ![i] = @ \cup {r}]
Pop == txq' = Tail(txq) /\ drainLeft' = drainLeft - 1

\* Run the callback at the head of the queue.  recreateLeaseOffer
\* (1228-1278) is two steps: the burn half, then the offer half, with the
\* awaits of refreshConfig and the validation lookups between them.
RunCallback(cb) ==
  LET t == cb.token IN
  CASE cb.kind = "acquireSuccess" ->
         /\ regCount' = active /\ Respond(cb.ev, "success")
         \* updateAcquiredRecord follows acquireSuccess in its retry branch
         \* (1396-1406): a retry that finds the transaction validated skips
         \* both, and the row stays Acquiring.
         /\ \/ SetStatus(t, "Acquired")
            \/ LateValidation /\ UNCHANGED lease
         /\ Pop /\ UNCHANGED <<owner, active>>
    [] cb.kind \in {"acquireError", "extendError"} ->
         Respond(cb.ev, "error") /\ Pop
         /\ UNCHANGED <<lease, owner, active, regCount>>
    [] cb.kind = "extendSuccess" ->
         Respond(cb.ev, "success") /\ Pop
         /\ UNCHANGED <<lease, owner, active, regCount>>
    [] cb.kind = "refund" ->
         Respond(cb.ev, "refund") /\ Pop
         /\ UNCHANGED <<lease, owner, active, regCount>>
    [] cb.kind = "updateRegInfo" ->
         regCount' = active /\ Pop /\ UNCHANGED <<lease, owner, active, resp>>
    [] cb.kind = "count" ->
         /\ ApplyCount(cb.n)
         /\ Pop /\ UNCHANGED <<lease, owner, resp>>
    [] cb.kind = "reoffer" ->
         \* updateLeaseStatus(BURNED) follows expireLease in its retry branch
         \* (1245-1249): a retry that finds the burn validated skips it.
         \/ /\ lease[t] \in {"Destroyed", "Failed", "SashiTimeout"}
            /\ TokenExists(t)
            /\ owner' = [owner EXCEPT ![t] = "burned"]
            /\ \/ SetStatus(t, "Burned")
               \/ LateValidation /\ UNCHANGED lease
            /\ txq' = <<[cb EXCEPT !.kind = "offer"]>> \o Tail(txq)
            /\ UNCHANGED drainLeft
         \* expireLease on a token that is gone fails every attempt.
         \/ /\ lease[t] \in {"Destroyed", "Failed", "SashiTimeout"}
            /\ ~TokenExists(t)
            /\ Pop /\ UNCHANGED <<lease, owner>>
         \/ /\ lease[t] \notin {"Destroyed", "Failed", "SashiTimeout"}
            /\ txq' = <<[cb EXCEPT !.kind = "offer"]>> \o Tail(txq)
            /\ UNCHANGED <<drainLeft, lease, owner>>
         /\ UNCHANGED <<active, regCount, resp>>
    [] cb.kind = "offer" ->
         /\ IF lease[t] = "Burned"
              THEN owner' = [owner EXCEPT ![t] = "host"]
                   /\ lease' = [lease EXCEPT ![t] = "none"]
              ELSE UNCHANGED <<lease, owner>>
         /\ Pop /\ UNCHANGED <<active, regCount, resp>>
    \* recreateLeaseOffer(..., noLeaseRecord = true): burn, then offer, with
    \* no row to check or update; a failed burn throws past the offer.
    [] cb.kind = "recreate" ->
         /\ IF TokenExists(t)
              THEN /\ owner' = [owner EXCEPT ![t] = "burned"]
                   /\ txq' = <<[cb EXCEPT !.kind = "offerLease"]>> \o Tail(txq)
                   /\ UNCHANGED drainLeft
              ELSE Pop /\ UNCHANGED owner
         /\ UNCHANGED <<lease, active, regCount, resp>>
    \* Catch-up's own expireLease and offerLease callbacks (1164-1195).
    [] cb.kind = "expireLease" ->
         /\ IF TokenExists(t) THEN owner' = [owner EXCEPT ![t] = "burned"]
                              ELSE UNCHANGED owner
         /\ Pop /\ UNCHANGED <<lease, active, regCount, resp>>
    [] cb.kind = "offerLease" ->
         owner' = [owner EXCEPT ![t] = "host"] /\ Pop
         /\ UNCHANGED <<lease, active, regCount, resp>>

DrainStep ==
  /\ schPc = "drain" /\ drainLeft > 0
  /\ RunCallback(Head(txq))
  /\ UNCHANGED <<arrived, bootVars, pc, err, lock, lastWatched, instances,
                 expiryList, expQueue, halted, halts, schPc, prVars>>

DrainEnd ==
  /\ schPc = "drain" /\ drainLeft = 0
  /\ schPc' = "idle"
  /\ UNCHANGED <<arrived, bootVars, pc, err, lock, lastWatched, lease,
                 instances, owner, expiryList, expQueue, halted, halts, active,
                 regCount, txq, drainLeft, prVars, resp>>

\* #checkLedgersForHalt (359-381): the ledger stops closing, and resumes.
Halt ==
  /\ Up /\ ~halted /\ halts < MaxHalts
  /\ halted' = TRUE /\ halts' = halts + 1
  /\ UNCHANGED <<arrived, bootVars, pc, err, lock, lastWatched, lease,
                 instances, owner, expiryList, active, regCount, txq, schVars,
                 prVars, resp>>

Resume ==
  /\ halted /\ halted' = FALSE
  /\ UNCHANGED <<arrived, bootVars, pc, err, lock, lastWatched, lease,
                 instances, owner, expiryList, halts, active, regCount, txq,
                 schVars, prVars, resp>>

-----------------------------------------------------------------------------
(* The prune job (scheduler at 740-750, #pruneOrphanLeases at 851-1011),  *)
(* holding the lock.  It reads both tables once and decides on that       *)
(* snapshot; the token, the live instance and the row it updates are read *)
(* again at each item.                                                    *)

\* Mutant: the prune job ignores the age of instances.
OldIgnoringMargin(t) == TRUE

\* An instance is older than the time margin (twice 80 % of the acquire
\* window) once the callback of its acquire has run.
Old(t) == ~\E k \in 1 .. Len(txq) : txq[k].kind = "acquireSuccess" /\ txq[k].token = t

\* l.timestamp (seconds, 0 while Acquiring) < timeMargin (a Date) compares
\* with milliseconds and always holds: every live or acquiring lease is a
\* candidate of the second loop.
OrphanLeaseCandidate(s) ==
  s \in {"Destroyed", "Burned", "Acquiring", "Acquired", "Extended"}

\* The job runs every two hours, the drain every two seconds: the count
\* callback of the last run has been drained before the next run starts.
PrStart ==
  /\ Up /\ prPc = "idle" /\ ~lock
  /\ \A k \in 1 .. Len(txq) : txq[k].kind # "count"
  /\ lock' = TRUE
  /\ prSnap' = lease
  /\ prInst' = {t \in instances : Old(t)}
  /\ prLeases' = {t \in Tokens : lease[t] # "none"}
  /\ prCount' = Cardinality({t \in Tokens : lease[t] \in Live})
  /\ prPc' = "inst"
  /\ UNCHANGED <<arrived, bootVars, pc, err, lastWatched, lease, instances,
                 owner, expiryList, halted, halts, active, regCount, txq,
                 schVars, resp>>

\* After a destroy of t: the row goes Destroyed; a token the tenant still
\* holds is burned, re-offered and refunded; otherwise the row is deleted.
Reclaim(t, refund) ==
  IF TokenExists(t)
    THEN /\ SetStatus(t, "Destroyed")
         /\ Queue(IF refund THEN <<CB("reoffer", t, 0, 0),
                                  CB("refund", t, AcqEv(t), 0)>>
                            ELSE <<CB("reoffer", t, 0, 0)>>)
    ELSE /\ lease' = [lease EXCEPT ![t] = "none"]
         /\ UNCHANGED txq

\* First loop: an old instance.  With a row that is Acquiring or Destroyed,
\* or whose token the tenant no longer holds, it is destroyed and reclaimed
\* (refund queued); without a row it is destroyed.  A failed destroy throws
\* to the loop's catch.
PrInstance(t) ==
  /\ prPc = "inst" /\ t \in prInst
  /\ prInst' = prInst \ {t}
  /\ \/ /\ prSnap[t] # "none"
        /\ prLeases' = prLeases \ {t}
        /\ IF prSnap[t] \in {"Acquiring", "Destroyed"} \/ ~TokenExists(t)
             THEN \E ok \in DestroyOutcomes(t) :
                    IF ok THEN /\ instances' = instances \ {t}
                               /\ Reclaim(t, TRUE)
                               /\ prCount' = IF prSnap[t] \in Live THEN prCount - 1
                                                                   ELSE prCount
                          ELSE UNCHANGED <<instances, lease, txq, prCount>>
             ELSE UNCHANGED <<instances, lease, txq, prCount>>
     \/ /\ prSnap[t] = "none"
        /\ \E ok \in DestroyOutcomes(t) :
             instances' = IF ok THEN instances \ {t} ELSE instances
        /\ UNCHANGED <<lease, txq, prLeases, prCount>>
  /\ UNCHANGED <<arrived, bootVars, pc, err, lock, lastWatched, owner,
                 expiryList, halted, halts, active, regCount, schVars, prPc,
                 prSnap, resp>>

PrInstDone ==
  /\ prPc = "inst" /\ prInst = {}
  /\ prPc' = "lease"
  /\ UNCHANGED <<arrived, bootVars, pc, err, lock, lastWatched, lease,
                 instances, owner, expiryList, halted, halts, active, regCount,
                 txq, schVars, prSnap, prInst, prLeases, prCount, resp>>

\* Second loop: a candidate lease with no instance goes Destroyed (unless
\* Burned) and is reclaimed; the refund only for one that was Acquiring.
PrLease(t) ==
  /\ prPc = "lease" /\ t \in prLeases
  /\ prLeases' = prLeases \ {t}
  /\ IF OrphanLeaseCandidate(prSnap[t]) /\ t \notin instances
       THEN /\ IF prSnap[t] = "Burned" /\ TokenExists(t)
                 THEN UNCHANGED lease /\ Queue(<<CB("reoffer", t, 0, 0)>>)
                 ELSE Reclaim(t, prSnap[t] = "Acquiring")
            /\ prCount' = IF prSnap[t] \in Live THEN prCount - 1 ELSE prCount
       ELSE UNCHANGED <<lease, txq, prCount>>
  /\ UNCHANGED <<arrived, bootVars, pc, err, lock, lastWatched, instances,
                 owner, expiryList, halted, halts, active, regCount, schVars,
                 prPc, prSnap, prInst, resp>>

\* The count callback, then the lock is released (finally at line 744).
PrEnd ==
  /\ prPc = "lease" /\ prLeases = {}
  /\ Queue(<<CB("count", "none", 0, prCount)>>)
  /\ lock' = FALSE
  /\ prPc' = "idle"
  /\ UNCHANGED <<arrived, bootVars, pc, err, lastWatched, lease, instances,
                 owner, expiryList, halted, halts, active, regCount, schVars,
                 prSnap, prInst, prLeases, prCount, resp>>

-----------------------------------------------------------------------------
(* A restart.  The reconciler exits on a ledger disconnect or desync        *)
(* (lines 186-196) and is started again: init (86-127) keeps the lease and *)
(* util tables, the ledger and the daemon's instances, and loses the       *)
(* handlers, the lock, the expiry list, the queue and the schedulers.      *)

\* Daemon requests in flight when the process died: a create the acquire
\* handler was waiting on, a destroy of a terminate's #expireInstance.
Creating == {Tok(i) : i \in {j \in Ev : pc[j] = "create"}}
Destroying == {Tok(i) : i \in {j \in Ev : pc[j] = "expire"}} \cap instances

\* The callback being drained had its ledger transaction validated and died
\* before the database write after it: acquireSuccess before
\* updateAcquiredRecord (1407), the burn half of recreateLeaseOffer before
\* the Burned update (1247), its offer half before deleteLeaseRecord (1271).
HeadLedgerDone ==
  LET cb == Head(txq)
      t == cb.token
  IN
  /\ schPc = "drain" /\ drainLeft > 0
  /\ \/ /\ cb.kind = "acquireSuccess"
        /\ regCount' = active /\ Respond(cb.ev, "success")
        /\ UNCHANGED owner
     \/ /\ cb.kind = "reoffer"
        /\ lease[t] \in {"Destroyed", "Failed", "SashiTimeout"} /\ TokenExists(t)
        /\ owner' = [owner EXCEPT ![t] = "burned"]
        /\ UNCHANGED <<regCount, resp>>
     \/ /\ cb.kind = "offer" /\ lease[t] = "Burned"
        /\ owner' = [owner EXCEPT ![t] = "host"]
        /\ UNCHANGED <<regCount, resp>>

\* The transactions catch-up fetches: the host's history from
\* last_watched_ledger on (the checkpoint ledger included), each marked to be
\* skipped when it is at the checkpoint and a response already names it.
MissedTxs ==
  LET fetched == SelectSeq([k \in 1 .. arrived |-> k],
                           LAMBDA k : Events[k].ledger >= lastWatched)
  IN [n \in 1 .. Len(fetched) |->
        [ev |-> fetched[n],
         skip |-> Events[fetched[n]].ledger = lastWatched
                  /\ resp[fetched[n]] # {}]]

Restart ==
  /\ Up /\ restarts < MaxRestarts
  /\ restarts' = restarts + 1
  /\ \E created \in SUBSET Creating, destroyed \in SUBSET Destroying :
       instances' = (instances \cup created) \ destroyed
  /\ \/ HeadLedgerDone
     \/ UNCHANGED <<owner, regCount, resp>>
  /\ pc' = [i \in Ev |-> IF i <= arrived THEN "done" ELSE "pending"]
  /\ lock' = FALSE
  /\ expiryList' = {t \in Tokens : lease[t] \in Live}
  /\ expQueue' = {} /\ halted' = FALSE
  /\ active' = 0
  /\ txq' = <<>> /\ schPc' = "idle" /\ drainLeft' = 0
  /\ prPc' = "idle" /\ prSnap' = [t \in Tokens |-> "none"]
  /\ prInst' = {} /\ prLeases' = {} /\ prCount' = 0
  /\ boot' = "catchup" /\ missed' = MissedTxs /\ cuSnap' = lease
  /\ UNCHANGED <<arrived, err, lastWatched, lease, halts>>

\* #catchupMissedLeases (1013-1216), one transaction at a time; the lease
\* rows are those it read at its start, the token is looked up again.
\* An acquire with no row whose token the tenant holds: recreateLeaseOffer
\* (no row) and a refund.  Acquires that have a row are left to the prune job.
CatchupAcquire(i) ==
  LET t == Tok(i) IN
  /\ IF cuSnap[t] = "none" /\ TokenExists(t)
       THEN Queue(<<CB("recreate", t, 0, 0), CB("refund", t, i, 0)>>)
       ELSE UNCHANGED txq
  /\ UNCHANGED <<expiryList, instances, lease, active>>

\* An extend of a live lease whose token the tenant holds: a refund.
CatchupExtend(i) ==
  LET t == Tok(i) IN
  /\ IF cuSnap[t] \in Live /\ TokenExists(t)
       THEN Queue(<<CB("refund", t, i, 0)>>)
       ELSE UNCHANGED txq
  /\ UNCHANGED <<expiryList, instances, lease, active>>

\* A terminate by the token's holder: a live lease in the expiry list is
\* taken out and expired; without a live row, expireLease and offerLease.
CatchupTerminate(i) ==
  LET t == Tok(i) IN
  IF TokenExists(t) /\ cuSnap[t] \in Live /\ t \in expiryList
    THEN expiryList' = expiryList \ {t} /\ ExpireInstance(t)
  ELSE IF TokenExists(t) /\ cuSnap[t] \notin Live
    THEN /\ Queue(<<CB("expireLease", t, 0, 0), CB("offerLease", t, 0, 0)>>)
         /\ UNCHANGED <<expiryList, instances, lease, active>>
  ELSE UNCHANGED <<expiryList, txq, instances, lease, active>>

\* Every transaction first moves the checkpoint to its ledger.
CatchupTx ==
  LET i == Head(missed).ev IN
  /\ boot = "catchup" /\ missed # <<>>
  /\ lastWatched' = Events[i].ledger
  /\ missed' = Tail(missed)
  /\ \/ Head(missed).skip /\ UNCHANGED <<expiryList, txq, instances, lease, active>>
     \/ ~Head(missed).skip /\ Events[i].kind = "acquire" /\ CatchupAcquire(i)
     \/ ~Head(missed).skip /\ Events[i].kind = "extend" /\ CatchupExtend(i)
     \/ ~Head(missed).skip /\ Events[i].kind = "terminate" /\ CatchupTerminate(i)
  /\ UNCHANGED <<arrived, pc, err, lock, owner, expQueue, halted, halts,
                 regCount, schVars, prVars, resp, restarts, boot, cuSnap>>

\* activeInstanceCount = expiryList.length (line 127), updateRegInfo queued
\* when the registration differs (144-159); then the handlers are attached
\* and the schedulers start.
CatchupEnd ==
  /\ boot = "catchup" /\ missed = <<>>
  /\ active' = Cardinality(expiryList)
  /\ IF regCount # Cardinality(expiryList)
       THEN Queue(<<CB("updateRegInfo", "none", 0, 0)>>)
       ELSE UNCHANGED txq
  /\ boot' = "up"
  /\ UNCHANGED <<arrived, pc, err, lock, lastWatched, lease, instances, owner,
                 expiryList, expQueue, halted, halts, regCount, schVars,
                 prVars, resp, restarts, missed, cuSnap>>

-----------------------------------------------------------------------------

Handler(i) ==
  \/ AcqStart(i) \/ AcqBusyTimeout(i) \/ AcqCreated(i) \/ AcqCreateTimeout(i)
  \/ AcqCreateFailed(i) \/ AcqCatch(i)
  \/ ExtendLease(i)
  \/ TermStart(i) \/ TermExpire(i)

Scheduler ==
  \/ \E due \in SUBSET Tokens : SchTick(due)
  \/ SchLock \/ (\E t \in Tokens : SchExpire(t)) \/ SchLoopExit
  \/ DrainStep \/ DrainEnd

Pruner ==
  \/ PrStart \/ (\E t \in Tokens : PrInstance(t)) \/ PrInstDone
  \/ (\E t \in Tokens : PrLease(t)) \/ PrEnd

Next ==
  \/ Arrive
  \/ \E i \in Ev : Handler(i)
  \/ Scheduler
  \/ Pruner
  \/ Halt \/ Resume
  \/ Restart \/ CatchupTx \/ CatchupEnd

(***************************************************************************)
(* Fairness.  A resolved await resumes its task: weak fairness for every   *)
(* step.  A task waiting for the lock polls it every second for as long as *)
(* it waits, and the prune job and the clock scheduler re-arm their timers *)
(* forever: strong fairness for taking the lock.  Time passes, so an item  *)
(* of the expiry list that may fall due eventually does.  A halted ledger  *)
(* eventually resumes.  A restart is the environment's and is not fair;   *)
(* init's catch-up is a chain of awaits and runs to its end.               *)
(***************************************************************************)
Fairness ==
  /\ WF_vars(Arrive)
  /\ \A i \in Ev : /\ SF_vars(AcqStart(i)) /\ SF_vars(TermStart(i))
                  /\ WF_vars(AcqBusyTimeout(i) \/ AcqCreated(i)
                             \/ AcqCreateTimeout(i) \/ AcqCreateFailed(i))
                  /\ WF_vars(AcqCatch(i)) /\ WF_vars(ExtendLease(i))
                  /\ WF_vars(TermExpire(i))
  /\ \A t \in Tokens : SF_vars(\E due \in SUBSET Tokens : t \in due /\ SchTick(due))
  /\ WF_vars(\E due \in SUBSET Tokens : SchTick(due))
  /\ SF_vars(SchLock) /\ WF_vars(\E t \in Tokens : SchExpire(t))
  /\ WF_vars(SchLoopExit) /\ WF_vars(DrainStep) /\ WF_vars(DrainEnd)
  /\ SF_vars(PrStart) /\ WF_vars(\E t \in Tokens : PrInstance(t))
  /\ WF_vars(PrInstDone) /\ WF_vars(\E t \in Tokens : PrLease(t))
  /\ WF_vars(PrEnd)
  /\ WF_vars(Resume)
  /\ WF_vars(CatchupTx) /\ WF_vars(CatchupEnd)

Spec == Init /\ [][Next]_vars /\ Fairness

-----------------------------------------------------------------------------
(* Properties.                                                             *)

TypeOK ==
  /\ arrived \in 0 .. Len(Events)
  /\ pc \in [Ev -> {"pending", "start", "create", "catch", "expire", "done"}]
  /\ err \in [Ev -> ErrKinds]
  /\ lock \in BOOLEAN /\ halted \in BOOLEAN /\ halts \in 0 .. MaxHalts
  /\ lastWatched \in Nat
  /\ lease \in [Tokens -> LeaseStatuses]
  /\ instances \subseteq Tokens
  /\ owner \in [Tokens -> Owners]
  /\ expiryList \subseteq Tokens /\ expQueue \subseteq Tokens
  /\ active \in Int /\ regCount \in Int
  /\ \A k \in 1 .. Len(txq) : txq[k].kind \in CallbackKinds \cup {"offer"}
  /\ schPc \in {"idle", "lock", "loop", "drain"}
  /\ drainLeft \in 0 .. Len(txq)
  /\ prPc \in {"idle", "inst", "lease"}
  /\ prInst \subseteq Tokens /\ prLeases \subseteq Tokens
  /\ resp \in [Ev -> SUBSET Responses]
  /\ restarts \in 0 .. MaxRestarts /\ boot \in {"up", "catchup"}
  /\ \A n \in 1 .. Len(missed) : missed[n].ev \in Ev

\* Spec invariant 4: last_watched_ledger never moves backwards.  The
\* acquire and terminate handlers write it once they hold the lease lock,
\* the extend handler writes it without the lock.
CheckpointMonotonic == [][lastWatched' >= lastWatched]_lastWatched

\* A tenant is never both served and refunded for one acquire: the prune
\* job refunds only leases still Acquiring whose instance is older than its
\* margin, and the acquire's success callback has marked the row Acquired
\* by then (updateAcquiredRecord, which only the retry branch runs).
SuccessNotRefunded ==
  \A i \in Ev : ~("success" \in resp[i] /\ ({"error", "refund"} \cap resp[i] # {}))

RegCountNonNegative == regCount >= 0

\* Spec invariant 5: every Acquired or Extended row whose instance runs has
\* its entry in the expiry timeline (the expiry list or the expiration
\* queue), except while a terminate that took it out is expiring it; an
\* instance without an entry is never expired.  Across a restart init
\* rebuilds the list from the rows and catch-up replays the terminates.
\* (A row whose instance a destroy removed before a crash has no entry to
\* keep: LeaseHasInstance and the prune job are about it.)
ExpiryTracksLease ==
  \A t \in Tokens :
     lease[t] \in Live /\ t \in instances =>
        \/ t \in expiryList \cup expQueue
        \/ \E i \in Ev : pc[i] = "expire" /\ Tok(i) = t

\* An acquire whose handler and callbacks are all done has answered the
\* tenant: acquireSuccess, or the acquireError that refunds the payment
\* (the spec's SashiTimeout cases refund).
AcqSettled(i) == pc[i] = "done" /\ \A k \in 1 .. Len(txq) : txq[k].ev # i
AcquireAnswered ==
  \A i \in Ev : Events[i].kind = "acquire" /\ AcqSettled(i) => resp[i] # {}

\* Every acquire is eventually answered on the ledger: acquireSuccess, the
\* acquireError refund, or the prune job's refund of a lease left Acquiring.
\* The answers are queued callbacks, and a restart loses the queue; init's
\* catch-up and prune job must make up for what was lost.
AcquireEventuallyAnswered ==
  \A i \in Ev : Events[i].kind = "acquire" => <>(resp[i] # {})

\* An accepted terminate takes the lease out of the expiry list (spec S4:
\* the expiration is queued), also while the ledger is halted.
TerminateDequeues ==
  [][\A i \in Ev : (pc[i] = "start" /\ Events[i].kind = "terminate"
                    /\ pc'[i] = "done" /\ TermAccepted(Tok(i)))
                   => Tok(i) \notin expiryList']_vars

\* Once the events are handled, every instance is destroyed and no lease
\* row is left Acquiring, Acquired or Extended: the expiry job and the prune
\* job together reclaim whatever the handlers left behind, including what a
\* terminate ignored while the ledger was halted.
InstancesReclaimed ==
  <>[](instances = {} /\ \A t \in Tokens : lease[t] \notin Live \cup {"Acquiring"})

\* Spec invariant 3 at quiescence: activeInstanceCount, and the count the
\* registry was last sent, settle at the number of live leases (0 once all
\* have ended), whatever stale count the prune job wrote on the way.
CountSettles == <>[](active = 0 /\ regCount = 0)

\* Every slot that was sold is eventually on sale again (spec: failures
\* converge to a re-offerable lease slot): recreateLeaseOffer burns the
\* token and offers the slot, and the prune job re-offers what it finds.
SlotReoffered == <>[](\A t \in Tokens : owner[t] = "host")

=============================================================================
