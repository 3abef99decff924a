----------------------------- MODULE Heartbeat -----------------------------
(***************************************************************************)
(* The reconciler's heartbeat (src/unnamed/part_000): the start-up        *)
(* schedule of #startHeartBeatScheduler (lines 774-830), the scheduler    *)
(* timer that re-arms itself every moment, and #sendHeartbeat (lines      *)
(* 566-651), whose callback runs on the transaction queue with 3 retries  *)
(* 5 minutes apart.  Time is in seconds; moments are counted from ledger  *)
(* time 0, so getMoment(t) is t \div momentSize.  The clock jumps from    *)
(* one timer, queue or ledger event to the next.  The heartbeat carries   *)
(* no votes: the governance file is not under src/.                       *)
(***************************************************************************)
EXTENDS Integers, Sequences, FiniteSetsExt

CONSTANTS
  MomentSize,      \* hostClient.config.momentSize
  HeartbeatFreq,   \* hostClient.config.hostHeartbeatFreq
  StartMoment,     \* the moment the reconciler starts in
  StartOffsets,    \* seconds into StartMoment at which it starts
  TokenRands,      \* readUInt16BE of the registration token id's last 4 hex digits
  LastHeartbeats,  \* lastHeartbeatIndex in the registration at start (0: never)
  ReadLags,        \* seconds one await of the start-up reads takes
  QueueWaits,      \* seconds from #queueAction to the callback running
  ValidationTimes, \* seconds from submission to validation
  MaxFails,        \* bound on failed heartbeat submissions
  MaxRestarts,     \* bound on reconciler restarts
  Horizon          \* moments after StartMoment the clock runs for

ASSUME /\ MomentSize \in Nat \ {0} /\ HeartbeatFreq \in Nat \ {0}
       /\ StartMoment \in Nat \ {0} /\ StartOffsets \subseteq 0 .. MomentSize - 1
       /\ TokenRands \subseteq 0 .. 65535
       /\ LastHeartbeats \subseteq 0 .. (StartMoment + 1) * MomentSize - 1
       /\ \A l \in ReadLags \cup QueueWaits \cup ValidationTimes : l \in Nat
       /\ MaxFails \in Nat /\ MaxRestarts \in Nat /\ Horizon \in Nat \ {0}

Pad        == 60        \* the one-minute delay near a moment's start
RetryDelay == 300       \* #heartbeatRetryDelay, 5 minutes
RetryCount == 3         \* #heartbeatRetryCount
\* Math.floor(momentSize * 0.75)
AcceptanceLimit == (3 * MomentSize) \div 4
\* d < momentSize / 2, without the fraction
InFirstHalf(d) == 2 * d < MomentSize
\* Math.floor((randomValue / 0xFFFF) * x); \div floors like Math.floor.
Scaled(r, x) == (r * x) \div 65535

Moment(t)      == t \div MomentSize
MomentStart(t) == Moment(t) * MomentSize
End == (StartMoment + Horizon) * MomentSize
Moments == (StartMoment - 1) .. (StartMoment + Horizon + 2)
Outcomes == {"ok", "fail", "late"}

VARIABLES
  now,        \* the clock
  pc,         \* "boot" before #startHeartBeatScheduler, then "run"
  rand,       \* the host's randomValue
  last,       \* this.lastHeartbeatMoment
  hbIndex,    \* the registration's lastHeartbeatIndex (ledger)
  timers,     \* pending setTimeouts: the scheduler's and the one-off
  jobs,       \* heartbeat callbacks in the transaction queue, in order
  retries,    \* failed callbacks waiting on their retry setInterval
  inflight,   \* the submitted heartbeat transaction, if any
  served,     \* heartbeats validated in each moment
  quiet,      \* history: the last moment with a failed submission or a restart
  fails, restarts

vars == <<now, pc, rand, last, hbIndex, timers, jobs, retries, inflight,
          served, quiet, fails, restarts>>

NoTx == [at |-> 0, attempts |-> 0, outcome |-> "none", owner |-> "none"]
Idle == inflight.outcome = "none"

\* init (line 108): the moment of the registration's last heartbeat, or 0.
LastFromRegistration(i) == IF i # 0 THEN Moment(i) ELSE 0

Init ==
  /\ now \in {StartMoment * MomentSize + o : o \in StartOffsets}
  /\ hbIndex \in {i \in LastHeartbeats : i <= now}
  /\ pc = "boot"
  /\ rand \in TokenRands
  /\ last = LastFromRegistration(hbIndex)
  /\ timers = {} /\ jobs = <<>> /\ retries = {} /\ inflight = NoTx
  /\ served = [m \in Moments |-> IF hbIndex # 0 /\ m = Moment(hbIndex) THEN 1 ELSE 0]
  /\ quiet = StartMoment
  /\ fails = 0 /\ restarts = 0

(***************************************************************************)
(* #startHeartBeatScheduler.  The current time is read first (line 788), *)
(* the moment's start index and the moment after one await each, and the  *)
(* timeouts count from when setTimeout is called.                          *)
(***************************************************************************)
StartHeartBeatScheduler ==
  /\ pc = "boot" /\ inflight.owner # "ledger"
  /\ \E l1, l2 \in ReadLags :
     LET ts       == now
         startIdx == MomentStart(now + l1)
         current  == Moment(now + l1 + l2)
         tcall    == now + l1 + l2
         dur      == ts - startIdx
         schedule == IF last # current
                     THEN Scaled(rand, AcceptanceLimit) + (MomentSize - dur)
                     ELSE MomentSize - (ts - hbIndex)
         \* this moment's one-off send, when there is still time for it
         once     == IF last # current /\ dur <= AcceptanceLimit
                     THEN LET chs == Scaled(rand, AcceptanceLimit - dur) IN
                          {[at |-> tcall + chs + (IF InFirstHalf(dur + chs) THEN Pad ELSE 0),
                            kind |-> "once"]}
                     ELSE {}
         send     == dur + schedule
         padded   == IF send <= MomentSize THEN InFirstHalf(send)
                     ELSE InFirstHalf(send - MomentSize)
     IN  /\ now' = tcall
         /\ timers' = once \cup
                      {[at |-> tcall + schedule + (IF padded THEN Pad ELSE 0), kind |-> "tick"]}
  /\ pc' = "run"
  /\ UNCHANGED <<rand, last, hbIndex, jobs, retries, inflight, served, quiet, fails, restarts>>

\* #queueAction(sendHeartbeat's callback, 3, 5 min): run at a later drain.
Enqueue(attempts) ==
  \E w \in QueueWaits : jobs' = Append(jobs, [at |-> now + w, attempts |-> attempts,
                                              landed |-> FALSE])

\* A timer falls due.  The scheduler re-arms itself before it sends.
Fire(tm) ==
  /\ tm \in timers /\ tm.at = now
  /\ timers' = (timers \ {tm}) \cup
               (IF tm.kind = "tick" THEN {[at |-> now + MomentSize, kind |-> "tick"]} ELSE {})
  /\ Enqueue(0)
  /\ UNCHANGED <<pc, rand, last, hbIndex, retries, inflight, served, quiet, fails, restarts, now>>

\* sendHeartbeat's callback (lines 567-649).  A retry whose previous
\* transaction was validated returns.  Otherwise the heartbeat is sent when
\* none was recorded yet or the moment is a heartbeat moment other than
\* the last one; the callback then awaits the validation.
RunCallback ==
  /\ pc = "run" /\ jobs # <<>> /\ Head(jobs).at <= now /\ Idle
  /\ jobs' = Tail(jobs)
  /\ LET j  == Head(jobs)
         cm == Moment(now)
     IN  IF ~j.landed /\ (last = 0 \/ (cm % HeartbeatFreq = 0 /\ cm # last))
         THEN \E v \in ValidationTimes, o \in Outcomes :
                /\ o = "ok" \/ fails < MaxFails
                /\ inflight' = [at |-> now + v, attempts |-> j.attempts, outcome |-> o,
                                owner |-> "proc"]
                /\ fails' = fails + (IF o = "ok" THEN 0 ELSE 1)
         ELSE UNCHANGED <<inflight, fails>>
  /\ UNCHANGED <<now, pc, rand, last, hbIndex, timers, retries, served, quiet, restarts>>

\* The heartbeat transaction lands on the ledger.
Validated == /\ served' = [served EXCEPT ![Moment(now)] = @ + 1]
             /\ hbIndex' = now

\* The queue's catch: attempts < maxAttempts re-pushes the action through a
\* setInterval of the retry delay.
Retry(attempts, landed) ==
  retries' = IF attempts < RetryCount
             THEN retries \cup {[at |-> now + RetryDelay, attempts |-> attempts + 1,
                                 landed |-> landed]}
             ELSE retries

\* The awaited heartbeat call returns.  On success lastHeartbeatMoment is
\* read again with getMoment (line 635); "late" is a transaction that is
\* validated although the call throws (e.g. TOOK_LONG).
Complete ==
  /\ inflight.owner = "proc" /\ inflight.at = now
  /\ CASE inflight.outcome = "ok" ->
            Validated /\ last' = Moment(now) /\ UNCHANGED retries
       [] inflight.outcome = "late" ->
            Validated /\ Retry(inflight.attempts, TRUE) /\ UNCHANGED last
       [] inflight.outcome = "fail" ->
            Retry(inflight.attempts, FALSE) /\ UNCHANGED <<last, served, hbIndex>>
  /\ inflight' = NoTx
  /\ quiet' = IF inflight.outcome = "ok" THEN quiet ELSE Moment(now)
  /\ UNCHANGED <<now, pc, rand, timers, jobs, fails, restarts>>

\* A transaction submitted before a restart is decided on the ledger alone.
LedgerComplete ==
  /\ inflight.owner = "ledger" /\ inflight.at = now
  /\ IF inflight.outcome # "fail" THEN Validated ELSE UNCHANGED <<served, hbIndex>>
  /\ inflight' = NoTx
  /\ UNCHANGED <<now, pc, rand, last, timers, jobs, retries, quiet, fails, restarts>>

\* The retry's setInterval fires: it pushes the action when the queue is
\* not processing and otherwise waits another interval.
RetryInterval(r) ==
  /\ r \in retries /\ r.at = now
  /\ IF Idle
     THEN /\ retries' = retries \ {r}
          /\ \E w \in QueueWaits :
               jobs' = Append(jobs, [at |-> now + w, attempts |-> r.attempts,
                                     landed |-> r.landed])
     ELSE /\ retries' = (retries \ {r}) \cup {[r EXCEPT !.at = now + RetryDelay]}
          /\ UNCHANGED jobs
  /\ UNCHANGED <<now, pc, rand, last, hbIndex, timers, inflight, served, quiet, fails, restarts>>

\* The reconciler stops and starts again: timers, queue and retries are
\* lost, a submitted transaction is still decided, and init reads
\* lastHeartbeatMoment from the registration (line 108).
Restart ==
  /\ pc = "run" /\ restarts < MaxRestarts
  /\ pc' = "boot"
  /\ last' = LastFromRegistration(hbIndex)
  /\ timers' = {} /\ jobs' = <<>> /\ retries' = {}
  /\ inflight' = IF Idle THEN NoTx ELSE [inflight EXCEPT !.owner = "ledger"]
  /\ restarts' = restarts + 1
  /\ quiet' = Moment(now)
  /\ UNCHANGED <<now, rand, hbIndex, served, fails>>

DueNow ==
  \/ \E tm \in timers : tm.at <= now
  \/ \E r \in retries : r.at <= now
  \/ ~Idle /\ inflight.at <= now
  \/ pc = "run" /\ jobs # <<>> /\ Idle /\ Head(jobs).at <= now

EventTimes ==
  {tm.at : tm \in timers} \cup {r.at : r \in retries}
  \cup (IF Idle THEN {} ELSE {inflight.at})
  \cup (IF jobs # <<>> /\ Idle THEN {Head(jobs).at} ELSE {})

\* Time passes to the next event, up to the horizon.
Advance ==
  /\ pc = "run" \/ ~Idle
  /\ ~DueNow /\ EventTimes # {}
  /\ Min(EventTimes) <= End
  /\ now' = Min(EventTimes)
  /\ UNCHANGED <<pc, rand, last, hbIndex, timers, jobs, retries, inflight, served, quiet,
                 fails, restarts>>

Next ==
  \/ StartHeartBeatScheduler
  \/ \E tm \in timers : Fire(tm)
  \/ RunCallback
  \/ Complete
  \/ LedgerComplete
  \/ \E r \in retries : RetryInterval(r)
  \/ Restart
  \/ Advance

Spec == Init /\ [][Next]_vars

-----------------------------------------------------------------------------
TypeOK ==
  /\ now \in Nat /\ pc \in {"boot", "run"} /\ rand \in TokenRands
  /\ last \in Nat /\ hbIndex \in Nat
  /\ served \in [Moments -> Nat]
  /\ inflight.outcome \in Outcomes \cup {"none"}
  /\ quiet \in Moments
  /\ fails \in 0 .. MaxFails /\ restarts \in 0 .. MaxRestarts

\* Spec 4.6: the scheduler "emits a host-alive transaction at most once per
\* moment".  A restart re-reads lastHeartbeatMoment at init (line 108), so
\* a heartbeat still in flight then is not seen by the start-up schedule.
OncePerMoment == \A m \in Moments : served[m] <= 1

\* Spec 4.6: after start-up the heartbeat "schedules at moment cadence", at
\* "next_moment_start - now" when this moment's heartbeat was already sent.
\* So every heartbeat moment that has ended since the last moment with a
\* failed submission or a restart got its heartbeat.  The start-up branch
\* of #startHeartBeatScheduler (line 819) anchors the scheduler to the last
\* heartbeat's validation time instead.
NoMomentSkipped ==
  \A m \in (quiet + 1) .. (Moment(now) - 1) :
    m % HeartbeatFreq = 0 => served[m] >= 1
=============================================================================
