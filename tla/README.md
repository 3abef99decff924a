# TLA+ models of Sashimono

This directory holds TLA+ models of the Sashimono host agent, with the TLC
configurations that check them. Each model is translated from the code under
`src/`. `PROJECT.json` maps every definition to the lines it models. It also
lists the runs, the mutants that show each checked property can fail, the
findings, and the hazards of the code.

## The system

Sashimono runs leased compute instances (HotPocket containers) on a host that
sells leases on a public ledger. It has three parts.

1. **Lifecycle daemon** (`src/src/hp_manager.cpp`, `src/src/comm/comm_handler.cpp`,
   `src/src/msg/`). This is a C++ process that owns the `instances` table in
   sqlite. It also owns a port allocator held in memory: `vacant_ports`,
   `last_assigned_ports` and `last_port_assign_from_vacant`. For each
   instance it runs install scripts that create an OS user with a rootless
   docker. It serves one request at a time over a Unix socket, on a single
   message thread. The requests are `create` (create_new_instance, then
   initiate_instance), `destroy`, `start`, `stop`, `list` and `inspect`.
2. **Sashi CLI** (`src/sashi-cli/cli-manager.cpp`). A client that connects
   to the socket, writes one request, reads a length record and the reply,
   and prints it (list and attach check the reply first).
3. **Reconciler / message board** (`src/unnamed/part_000`). A Node.js process
   that:
   - subscribes to ledger events (acquire, extend and terminate of a lease)
     and calls the daemon through the CLI;
   - keeps a lease table in sqlite and an expiry list in memory;
   - sends ledger transactions through a retry queue that uses idempotence
     references;
   - detects ledger halts;
   - sends heartbeats, prunes orphan leases and instances, and catches up on
     missed transactions at startup.

   Everything runs on one JavaScript event loop. Handlers interleave only at
   their `await` points. Two spin locks serialise the handlers that take
   them: the lease update lock and the queue's `processing` flag.

`src/unnamed/part_001` is a host setup and validation CLI.
`src/test/vm-cluster/evcluster.js` is a fleet provisioning script. Neither
holds concurrent state.

The two processes interact through the socket, by request and reply. The
daemon's table is read by the reconciler's pruner. The reconciler's lease
rows are joined with the daemon's rows in the `list` reply.

## Modules

### SashiDaemon (the lifecycle daemon)

`SashiDaemon.tla` models `hp_manager.cpp` together with the create, destroy,
start and stop branches of `comm_handler.cpp`'s `handle_message`. The message
thread serves one request at a time, so each request handler is one atomic
action.

State:

| variable | code |
|---|---|
| `inst` | the `instances` table: container name to ports and status |
| `users` | OS users made by `install_user`, with the ports configured for them |
| `dockerUp` | containers the rootless docker of their user is running |
| `vacant_ports`, `last_assigned_ports`, `last_port_assign_from_vacant` | the allocator globals of `hp_manager.cpp` |
| `reply` | the reply type the socket handler sent last |

Actions:

- `HandleCreate(n)` is either `CreateRejected(n)` or `create_new_instance(n)`.
  - `CreateRejected(n)`: a bad message, a duplicate name, the limit, or a
    contract id that is not a uuid.
  - `create_new_instance(n)`: port choice, then install_user, then
    create_contract/create_container, then the row insert. Each step may
    fail, and the rollback follows. On success, `initiate_instance` runs
    with its own failure outcomes.
- `destroy_container(n)`: uninstall, hard delete, then push the freed tuple.
- `start_container(n)` and `stop_container(n)`.
- `Restart`: the daemon process restarts. `init` rebuilds `vacant_ports` with
  `get_vacant_ports_list`.

The external helpers each return 0 or -1, and each is a set of outcomes named
after the helper: `install_user`, `uninstall_user`, `create_contract`,
`create_container`, `docker_start` and `docker_stop`. A handler stops at the
first helper that fails. So `CreateSteps`, `InitiateSteps`, `DestroySteps`,
`StartSteps` and `StopSteps` are each the union of the failure outcomes of
the helpers that handler calls. A failure is possible only when
`StepsMayFail` is TRUE.

Every external step (script, docker, hpfs, sqlite write) has the outcomes
that the code's error paths tell apart. `MayFail` chooses among them. With
`StepsMayFail = FALSE` only success is possible.

Abstractions:

- Names, keys and images are model values.
- hpfs, contract directories and configuration files are not state. A
  failure of one of them is one of the failure outcomes.
- `sqlite::get_max_ports` is not in `src/`, so `get_max_ports` follows the
  spec's description: the per-column maximum, or init-1 on an empty table.
  It is marked spec_modelled.

Properties checked:

- `TypeOK`.
- `PortsDisjoint`: no two rows share a port (spec invariant 2).
- `VacantFree`: a vacant tuple is free and listed once.
- `LastAssignedCurrent`: when the allocator trusts its cached
  `last_assigned_ports`, no row holds a peer port above it.
- `UserPortsDisjoint`: no OS user keeps ports that a row of another
  instance holds. Checked as a violation (see Findings).
- `InitiateErrorRollsBack` and `RunningRowsRun` state the spec's rollback
  and status claims. They are defined but not among the runs; see
  Further observations.

`MC_SashiDaemon.tla` instantiates the model:

- three container names;
- the spec's initial ports (22861, 26201, 36525, 39064);
- `MaxInstances = 2`;
- either an empty table, or two legacy rows that were written before gp
  ports existed (gp ports 0).

### TxQueue (the reconciler's transaction queue)

`TxQueue.tla` models `MessageBoard`'s `#queueAction` and
`#processConcurrencyQueue` (`part_000` lines 285-355) with the callbacks the
reconciler hands them. The clock scheduler drains the queue in a
`setTimeout` chain (lines 757-772): each run re-arms its timer only after
its drain has finished, so two drains never overlap. `#queueAction` and the
drain both poll `processing` every second until it is clear and then set
it, which makes `processing` a lock.

| variable | code |
|---|---|
| `queue`, `processing` | `#concurrencyQueue.queue` and `.processing` |
| `unqueued` | callers that have not yet pushed their action |
| `waiting` | failed delayed actions whose `setInterval` re-push is pending |
| `attempts` | `action.attempts` |
| `toKeep` | the drain's rebuilt queue |
| `feeUpliftment`, `applyFeeUpliftment` | the fee state set after a TOOK_LONG failure |
| `refApplied` | the hash kept in `submissionRefs` is validated with tesSUCCESS |
| `effects` | how often each transaction of each callback took effect on the ledger (history) |
| `recorded`, `leaseRow` | `updateAcquiredRecord` has run; the lease row's status in `recreateLeaseOffer` |
| `pc`, `idx` | where the drain is inside the current callback |

A callback is one of three kinds: a single guarded transaction (refund,
extend success, registry update, heartbeat...), the acquire-success callback
(two transactions and `updateAcquiredRecord` in one retry branch), and
`recreateLeaseOffer` (expireLease, mark Burned, `refreshConfig`, offerLease,
delete the row). A submission ends "ok", "late" (validated although the
client reported TOOK_LONG), "lost" or "fail". `Submit` models the
idempotence check: a transaction whose reference is already validated is
skipped, together with what the code's `retry` branch skips with it.

`MC_TxQueue.tla`: three callbacks, one of each kind, the single one delayed
(the heartbeat); `maxAttempts` 2 and an affordable extra fee of 3. Two
attempts are enough to reach a retry after a late validation, and the
delayed re-push. The scheduler ticks for ever, so the cfg disables the
deadlock check once everything has settled.

### LeaseReconciler (the lease handlers)

`LeaseReconciler.tla` composes the ledger event handlers of `part_000` with
the clock scheduler and the orphan prune job, over an abstract daemon and
ledger. Each handler invocation is a process indexed by its event. It is cut
into steps only at the `await`s after which other tasks can change the state
it uses.

| variable | code |
|---|---|
| `lock` | `#leaseUpdateLock`, taken by check-and-set in one segment |
| `lastWatched` | `last_watched_ledger` |
| `lease` | the lease table's status column, per token |
| `instances` | instances the daemon holds |
| `owner` | who holds the URI token: tenant, burned, or the host's offer |
| `expiryList`, `expQueue` | `#expiryList` and the expiration queue the clock job builds |
| `txq`, `drainLeft` | callbacks queued to the transaction queue; the length a drain started with |
| `active`, `regCount` | `activeInstanceCount`, and the count the registry was last sent |
| `halted`, `halts` | ledger halt detection, with a bound on halts |
| `pc`, `err`, `resp` | each handler's step, its caught error, and the responses sent to the tenant |
| `schPc`, `prPc`, `prSnap`, `prInst`, `prLeases`, `prCount` | the clock scheduler's and the prune job's steps and snapshots |
| `restarts`, `boot`, `missed`, `cuSnap` | restarts so far; init in progress; the transactions `#catchupMissedLeases` still has to replay, and the lease rows it read |

Actions:

- Acquire: `AcqStart` (lock, row Acquiring), `AcqBusyTimeout` (40 % gate),
  `AcqCreated`, `AcqCreateTimeout` (80 % gate, with the destroy and
  re-offer), `AcqCreateFailed`, and `AcqCatch` (the catch block).
- `ExtendLease`: the whole extend handler, which takes no lock.
- Terminate: `TermStart` (lock, take the item out of the expiry list) and
  `TermExpire` (`#expireInstance`).
- Clock scheduler: `SchTick` moves due items to the expiration queue,
  `SchLock` and `SchExpire` run the expire job, `SchLoopExit` ends it, and
  `DrainStep`/`DrainEnd` run the queued callbacks. The queue delivers each
  callback once, because `TxQueue` checks it. With `LateValidation`, a
  callback's guarded transaction may throw TOOK_LONG and be validated
  anyway. The retry's check then skips the branch that follows it, and
  `RunCallback` takes the callback's net effect in one step:
  - acquireSuccess is on the ledger, but `updateAcquiredRecord` never
    runs (lines 1396-1406);
  - the burn half of `recreateLeaseOffer` burns the token without the
    Burned update (1245-1249), so the offer half finds no Burned row.
- Prune job: `PrStart` takes the lock and snapshots, `PrInstance` and
  `PrLease` are the two loops, and `PrEnd` queues the recount.
- `Halt` and `Resume` of the ledger.
- `Restart`: the process exits on a ledger disconnect or desync (line 189).
  The lease and util tables, the ledger and the daemon's instances stay.
  The handlers, the lock, the expiry list, the queue and both schedulers
  are lost. A create or destroy the daemon was working on may or may not
  have finished (`Creating`, `Destroying`). The callback being drained
  may have had its ledger transaction validated without the database write
  after it (`HeadLedgerDone`: acquireSuccess before
  `updateAcquiredRecord`, and either half of `recreateLeaseOffer`). Init
  then rebuilds the expiry list from the Acquired and Extended rows.
- `CatchupTx`: one transaction of `#catchupMissedLeases`, from
  `last_watched_ledger` on, which it moves forward. A transaction at the
  checkpoint that a response already names is skipped. Otherwise:
  - an acquire with no row is re-offered and refunded;
  - an extend of a live lease is refunded;
  - a terminate expires the lease, or burns and re-offers the token when
    it has no live row.
- `CatchupEnd`: `activeInstanceCount = expiryList.length`, and
  updateRegInfo is queued when the registration differs. Only then are
  the handlers attached and the schedulers started (`Up`). The
  offer-unoffered and fix steps of init are `LeaseStartup`'s.

Timing assumptions, each taken from the code's timers:

- An expiry item falls due only once its lease is past Acquiring (the
  lease lasts for hours, the acquire for seconds).
- An instance is old for the prune job only when no acquireSuccess callback
  for it is still queued (the margin is far longer than a drain).
- The prune job (every 2 h) does not start while its previous recount is
  still queued (drained every 2 s).
- The second prune loop's filter `l.timestamp < timeMargin` compares
  seconds with a Date in ms and is always true; the model keeps it so.

Fairness: a resolved `await` resumes its task (weak fairness). A task
waiting for the lock polls it every second for as long as it waits, and the
prune job and the scheduler re-arm for ever, so taking the lock is strongly
fair. An item that may fall due eventually does, and a halted ledger
eventually resumes; `MaxHalts` bounds the halts. A restart is an event of
the environment and has no fairness; `MaxRestarts` bounds it. Init's
catch-up runs to its end (weak fairness), since it is a chain of awaits.

`MC_LeaseReconciler.tla`: one token that is acquired, extended and
terminated in ledgers 10, 11 and 12, with every gate allowed to trip, every
create allowed to fail and one halt; each cfg sets `MaxRestarts` and
`LateValidation`. A single token already exercises all
three handlers against the scheduler and the prune job, including every
overlap of two handlers on the same lease, which is where the findings lie.

### LeaseStartup (the reconciler's startup)

`LeaseStartup.tla` models what the reconciler's `init` does to lease tokens
before its schedulers start (`part_000` lines 60-270), with tenants that
buy offered tokens as soon as the handlers are attached. Each startup step
ends at the `await` that lets a tenant's purchase interleave.

| variable | code |
|---|---|
| `token` | the host's and tenants' lease URI tokens on the ledger: index, owner, sell offer, amount |
| `rows` | the lease table's status column, per token |
| `leaseAmount` | `cfg.xrpl.leaseAmount` |
| `pc` | which startup step `init` is in |
| `cx`, `lastWatched` | the catch-up cursor over the missed transactions, and `last_watched_ledger` |
| `expiry` | `#expiryList`, built from the Acquired/Extended rows (line 117) |
| `soldSnap` | the sold leases `#fixLeaseInconsistencies` read (line 395) |
| `bought` | purchases whose AcquireLease event is not handled yet |
| `txq`, `nextId` | callbacks queued to the transaction queue; the id of the next minted token |

Actions:

- `CatchupTx`: one missed transaction of `#catchupMissedLeases`. It always
  advances `last_watched_ledger`. A transaction in the checkpoint ledger
  that a later transaction answers is skipped. Otherwise:
  - an acquire with no row queues `recreateLeaseOffer(noLeaseRecord)` and a
    refund;
  - an extend of a live lease queues a refund;
  - a terminate of a live lease expires the instance (the destroy may
    fail);
  - a terminate without a live row queues expireLease and offerLease.
- `CatchupEnd`, `AdoptLeaseAmount` (the first listed offer's amount wins),
  `offerUnofferedLeases`.
- `FixReadRows` and `FixApply`: `#fixLeaseInconsistencies` split at the
  `await` on `getURITokens`. It either burns the surplus tokens
  (`TokensToBurn`) or offers the vacant indexes (`getVacantLeaseIndexes`,
  with `FreeIndexes` as its loop).
- `Buy` (the environment), and `HandleAcquire`, the success path of
  `handleAcquireLease`: an Acquiring row and a queued acquireSuccess. Its
  failure paths are in `LeaseReconciler`.
- `ProcessQueue` runs the head callback (`RunCallback`, with
  `RecreateLeaseOffer` for the re-offer).

Assumptions:

- The queue runs each callback once, in order. `TxQueue` checks the queue
  itself: every callback settles, and a guarded transaction takes effect
  at most once.
- The queue is drained only after `init`, since the clock scheduler that
  drains it starts at line 264.
- Tenants buy only once the handlers are attached, after catch-up
  (line 203). Purchases made while catch-up runs are in its history or are
  missed. See Further observations.

`SoldIndexLookups` is the empty set. The nested `getVacantLeaseIndexes`
calls `this.hostClient` with `this` undefined, and the TypeError is
swallowed (Findings).

`MC_LeaseStartup.tla`: `max_instance_count` 4, two lease amounts and four
tokens:

- a sold token with an Acquired row;
- an offered host token;
- an unoffered host token at another amount, which stays unoffered;
- a token a tenant bought while the reconciler was down, with no row.

The missed history is an answered extend in the checkpoint ledger, the
acquire of the rowless token, and a terminate of the sold one. This history
reaches every catch-up branch that touches tokens. It also reaches both
branches of `recreateLeaseOffer` and the offer branch of the fix, with a
purchase possible at each step.

### Heartbeat (the reconciler's heartbeat scheduler)

`Heartbeat.tla` models `#startHeartBeatScheduler` (`part_000:774-830`),
`#sendHeartbeat` (`:566-651`) and init's read of `lastHeartbeatMoment`
(`:108`). Time is in seconds on a discrete clock. `Advance` jumps to the
next timer, queue or ledger event. A moment is `t \div MomentSize`.

- **State.**
  - `last` is `this.lastHeartbeatMoment`. `hbIndex` is the registration's
    `lastHeartbeatIndex`.
  - `rand` is the 16-bit value taken from the token id.
  - `timers` holds the pending `setTimeout`s: the one-off send and the
    scheduler.
  - `jobs` holds the heartbeat callbacks queued on the transaction queue.
    `retries` holds the ones waiting on their retry `setInterval`.
  - `inflight` is the submitted heartbeat transaction. `served` counts the
    heartbeats validated in each moment.
- **Start-up** (`StartHeartBeatScheduler`). The current time is read
  first, and the moment's start index and the moment after one await each
  (`ReadLags`).
  - When `last` differs from the current moment, it schedules a one-off
    send inside the acceptance limit and the scheduler in the next moment.
  - Otherwise it schedules the scheduler at `momentSize - (now -
    lastHeartbeatIndex)`.
  - Both get the 60 s pad exactly where the code adds it.
- **Timers** (`Fire`). The scheduler re-arms itself a moment later and
  then queues the callback.
- **The callback** (`RunCallback`, `Complete`).
  - It returns when the previous attempt was validated (`landed`).
  - Otherwise it sends when `last` is 0, or when the moment is a heartbeat
    moment other than `last`.
  - A call ends `ok` (validated; `last` becomes the moment), `fail`, or
    `late` (validated, but the call throws).
  - The queue retries 3 times through a 300 s `setInterval` that waits
    while the queue is busy (`Retry`, `RetryInterval`).
- **Restarts** (`Restart`). A restart drops the timers, the queue and the
  retries. A transaction in flight is still decided on the ledger
  (`LedgerComplete`). Init re-reads `last` from `hbIndex`. The start-up
  step waits until such a transaction is decided. Its `getRegistration`
  therefore sees the outcome, while `last` from init does not. This is one
  of the two orders the code allows, and the one that exposes the stale
  read at line 108.
- **Faults.** `MaxFails` and `MaxRestarts` bound them. The history
  variable `quiet` is the last moment with a failed submission or a
  restart.

`NoMomentSkipped` states spec 4.6: every heartbeat moment that ended after
`quiet` got a heartbeat. It is violated through the start-up branch at line
819 (Findings). The bounds are one host value that places the one-off send
late (64807) and one that places it early (0), two start offsets, a
registration heartbeat in the previous moment, and validation times of 4
and 30 s. Three failures and one restart suffice for the trace.

### SashiSocket (the socket between the CLI and the daemon)

`SashiSocket.tla` models the daemon's message thread (`comm_handler.cpp`:
`comm_handler_loop`, `connect`, `read_socket`, `handle_message`, `send`,
`disconnect`, `init`/`deinit`) and the sashi CLI (`cli-manager.cpp`:
`init`, `write_to_socket`, `read_from_socket`, `get_json_output`,
`execute_basic`, `create`, `list`, `docker_exec`). It composes the daemon's
request handlers with `D == INSTANCE SashiDaemon`: `handle_message` runs
`D!HandleCreate`, `D!destroy_container`, `D!start_container` or
`D!stop_container`, and answers inspect and list from the table.

| variable | code |
|---|---|
| `backlog` | connects waiting in the listen backlog (20) |
| `data_socket`, `empty_read_count` | `ctx.data_socket` and the loop's empty-read counter |
| `srvPc`, `res` | where `send` is, and the response `handle_message` built |
| `reqPending` | the client's request record is still unread in the socket |
| `srvClosed` | the daemon's end of a connection is closed (disconnect or crash) |
| `toClient` | the length and reply records written and not yet read |
| `cmd`, `cpc`, `ret`, `out` | each CLI's command, step, return value and output |
| `up`, `crashes` | the daemon process runs; how often it has died |

Steps of the daemon: `Accept`, `ReadRequest` (with `handle_message`),
`EmptyRead`, `SendLen` and `SendMsg` (the two writes of `send`), `Crash`
and `Boot`. Steps of a CLI: `CliInit` (connect, refused while the daemon is
down), `CliWrite`, `CliReadLen`, `CliReadMsg`, and `Kill` (Ctrl-C, or a
caller that gives up). The kernel's behaviour is modelled where the code
depends on it: a connection closed with the request unread is reset (-1),
one closed after the request was read gives end of file (0), and a write
to a gone client fails (the thread masks SIGPIPE; `util::mask_signal` is
not under `src/`). Reading end of file on the length is undefined
behaviour in `read_from_socket` (the length buffer is uninitialised): the
model chooses between an abort (resize throws) and a success with no
reply.

Fairness: the message thread loops for ever and each CLI runs to its end
(weak fairness); a crashed daemon is started again, as it runs as a
service. Crashes and kills are not forced.

`MC_SashiSocket.tla`: two CLIs, each running any of the seven commands on
one container that the daemon already runs; every daemon step may fail and
the daemon may crash once. Two clients are enough for one to wait behind
another's connection, including one killed before it wrote.

## Runs

| run | cfg | expect | what it shows |
|---|---|---|---|
| daemon_safety | MC_SashiDaemon.cfg | pass | With every step allowed to fail and restarts at any time, ports stay disjoint, the vacant list is free and the cache is current. About 45k distinct states. |
| daemon_rollback_leak | MC_SashiDaemon_UserPortsDisjoint.cfg | violation | A failed rollback uninstall leaks a user whose ports are assigned again. |
| txqueue_safety | MC_TxQueue.cfg | pass | Guarded transactions take effect at most once, the fee uplift stays bounded, and every callback settles. About 117k distinct states, 2 minutes. |
| reconciler_safety | MC_LeaseReconciler.cfg | pass | With failing daemon calls, a halt and late validations, a live lease always has its instance. About 125k distinct states. |
| reconciler_success_refunded | MC_LeaseReconciler_SuccessNotRefunded.cfg | violation | A late-validated acquireSuccess never records the row as Acquired; the prune job destroys the instance and refunds a tenant who was served. Thirteen steps, no restart. |
| reconciler_reclaims | MC_LeaseReconciler_reclaims.cfg | pass | With destroys that succeed, late validations and one restart at any step, every running lease stays on the expiry timeline (rebuilt by init), everything is reclaimed, and the active count settles at 0. About 99k distinct states, 3 minutes. |
| reconciler_restart_unanswered | MC_LeaseReconciler_AcquireEventuallyAnswered.cfg | violation | Later transactions move the checkpoint past an acquire still waiting for the lock, and a restart's catch-up never answers it. |
| socket_safety | MC_SashiSocket.cfg | pass | Every CLI command ends despite a daemon crash and killed CLIs. About 249k distinct states, 16 seconds. |
| socket_eof_success | MC_SashiSocket_CliSuccessHasReply.cfg | violation | A daemon crash after reading a request makes a CLI return 0 with no reply. |
| reconciler_slot_lost | MC_LeaseReconciler_SlotReoffered.cfg | violation | The prune job deletes a Burned row between burn and offer, and the slot is never offered again. A late-validated burn loses the slot the same way. |
| startup_index_reused | MC_LeaseStartup_IndexHeldOnce.cfg | violation | After a restart the inconsistency fix offers index 0, which a tenant holds, and index 3 a second time. Twelve steps. |
| heartbeat_moment_skipped | MC_Heartbeat_NoMomentSkipped.cfg | violation | Three failed heartbeat attempts and a restart late in the moment leave the next moment without a heartbeat. Thirty steps, 2 seconds. |

Each property of a passing run has a mutant in `PROJECT.json`: a plausible
bug in the definition it depends on (an off-by-one retry bound, a dropped
idempotence check, a drain that keeps its lock, a stale "old" test, a
missing status write...), under which TLC finds the property violated.

**Bounds.**

- SashiDaemon: two instance slots and three names reach a vacant tuple
  reused while another row lives, a failed create after a destroy, a
  restart with a gap below the maximum row, and the reload of
  `last_assigned_ports`. A restart may happen in any state. Symmetry over
  the names is sound for the pass run, because no property names a
  container.
- TxQueue: two attempts per callback reach a retry after a late
  validation; three callbacks of different kinds share the lock and the
  fee uplift.
- SashiSocket: two CLIs and one crash reach a crash at every step of a
  request, a kill at every step, and a client queued behind a dead one.
- LeaseReconciler: one token with all three events. The safety run has
  one halt and no restart. The reclaim run sets `DestroyMayFail = FALSE`:
  with a destroy that may fail for ever nothing can be reclaimed, which is
  not a property of the code. It allows one restart, in any state, and no
  halt. With both a halt and a restart, the liveness check takes more
  than five minutes (209k states). Halts are covered by the safety run.
  One restart already reaches every crash window listed above. Without a
  restart, `AcquireEventuallyAnswered` holds in the same cfg (17k states).

## Findings

1. **Sold indexes offered again at startup** (`part_000:411`, `:416`).
   `getVacantLeaseIndexes` is a plain `async function` declared inside the
   class method `#fixLeaseInconsistencies`. Class code is strict, so `this`
   is undefined inside it. `this.hostClient.getLeaseByIndex` throws a
   TypeError, and the empty `catch {}` swallows it.
   - No sold lease's index ever enters `acquired`, so the fix offers indexes
     that tenants hold. Two live tokens then share an index and the outbound
     IPv6 address derived from it.
   - The same invariant also breaks when a purchase lands between the read
     of the rows and `getURITokens`: the bought token counts as neither sold
     nor unsold.
   - It breaks a third way when catch-up has already queued a re-offer for
     a rowless purchase.
2. **Failed rollback leaks a user and its ports** (`hp_manager.cpp:210`,
   `hp_manager.cpp:220`).
3. **Burn without offer** (`part_000:1245`). `updateLeaseStatus(BURNED)` is in
   the `retry` branch of expireLease; a late validation skips it and then
   the offer. Run `reconciler_slot_lost` reaches it: with the prune job
   switched off, TLC's trace ends with the row Failed and the token burned,
   never offered. `TxQueue`'s `BurnedIsReoffered` shows the same inside
   the queue (add `PROPERTY BurnedIsReoffered` to `MC_TxQueue.cfg`).
4. **An acquire lost across a restart** (`part_000:1026`). Catch-up
   replays only the host's transactions from `last_watched_ledger` on.
   Every handler moves that checkpoint as its first step (lines 1301,
   1474, 1570). What a handler owes the tenant, though, is a callback in
   the in-memory queue.
   - TLC's trace: the acquire of ledger 10 waits for the lease lock. The
     extend of ledger 11 (no lock) and the terminate of ledger 12 (which
     wins the lock) move the checkpoint to 12. The reconciler exits on a
     disconnect.
   - Catch-up starts at ledger 12. The acquire gets no row, no refund and
     no answer, ever. The terminate's replay burns the token the tenant
     paid for and offers the slot again.
   - With two tenants, any later transaction that wins the lock does the
     same.
   - The property fails in two more ways when a restart drops queued work:
     - An acquireError queued by the catch block. The row is Failed, and
       neither catch-up nor the prune job looks at Failed rows.
     - The prune job's queued refund. The row is now Destroyed, and the
       next prune run refunds only Acquiring rows.
5. **A heartbeat moment skipped after a restart** (`part_000:819`).
   When the registration's last heartbeat is in the current moment,
   `#startHeartBeatScheduler` sets `schedule = momentSize - (now -
   lastHeartbeatIndex)`. That puts the scheduler one moment after the last
   heartbeat's validation. Spec 4.6 says `next_moment_start - now`.
   - A heartbeat that lands late in its moment keeps the scheduler at that
     late offset for good.
   - TLC's trace: start at 14400 (moment 4), `rand` 64807. The one-off send
     at 17070 fails three times, 300 s apart. The fourth attempt is
     validated at 17994 (offset 3594). The reconciler restarts at once.
   - The scheduler then fires at 21598, and the queued callback runs at
     21600, in moment 6. Moment 5 gets no heartbeat.
   - Every later tick sits two seconds before a moment's end. Its
     callback therefore sends in the next moment for as long as the
     reconciler runs.
6. **Prune job deletes a row mid-reoffer** (`part_000:980`).
7. **End of file taken for a reply** (`cli-manager.cpp:168`).
   `read_from_socket` checks `read` only for -1. When the daemon closes the
   connection without replying (it died or was stopped after reading the
   request), `read` returns 0, `message_length` is decoded from the
   uninitialised `length_buffer`, and either `resize` throws or the second
   read returns 0 too and `get_json_output` succeeds. `execute_basic` and
   `create` then print NUL bytes and return 0, while the daemon may or may
   not have carried out the request.

8. **A served tenant refunded** (`part_000:1406`). `updateAcquiredRecord`
   runs only in the `retry` branch after acquireSuccess. When acquireSuccess
   is validated but the call throws TOOK_LONG, the retry finds the hash
   validated and skips both, so the row stays Acquiring.
   - TLC's trace (run `reconciler_success_refunded`, 13 steps, no
     restart): acquire, create, the drain answers success, and the row is
     still Acquiring.
   - The prune job's first loop takes the instance for an unfinished
     acquire. It destroys the instance and marks the row Destroyed, then
     burns and re-offers the token and refunds the tenant.
   - Spec 4.7 says the row becomes Acquired once the success is on the
     ledger. `TxQueue`'s `SuccessIsRecorded` shows the skipped write inside
     the queue.

### Further observations

These properties are defined in the modules and were found violated by
TLC, but are not among the runs:

- `ExpiryTracksLease` with failing destroys (`part_000:548`, `:1587`).
  When the daemon's destroy fails inside `#expireInstance`, the error is
  caught there. The caller still removes the item from the expiration
  queue, and a terminate removed it from the expiry list before trying.
  The lease stays Acquired with a running instance and no timeline entry.
  The prune job never touches it, so it is expired only after a restart.
  Spec invariant 5 says that the timeline and the lease store agree. To
  reproduce, use `INVARIANT ExpiryTracksLease` in `MC_LeaseReconciler.cfg`.
- `SuccessNotRefunded` across a restart (`part_000:1407`). Finding 8
  without a late validation: a restart after acquireSuccess is validated
  and before `updateAcquiredRecord` leaves the row Acquiring, and the
  startup prune job destroys and refunds. To reproduce, use `INVARIANT
  SuccessNotRefunded` with `LateValidation = FALSE` in
  `MC_LeaseReconciler_reclaims.cfg`.
- An extend refunded and kept (`part_000:1109`). The extend handler writes
  the Extended row and queues extendSuccess. If the reconciler restarts
  before the drain, catch-up finds the extend at the checkpoint with no
  response and queues a refund. The extension stays in the row. In
  `MC_LeaseReconciler_reclaims.cfg` the trace is: acquire served, extend
  applied, restart, catch-up refund, with `lease = Extended` and `refund`
  in `resp[2]`.

- `CheckpointMonotonic` (`part_000:1474`). Extend writes
  `last_watched_ledger` without the lease lock, while acquire and
  terminate write it after waiting for the lock. A terminate of ledger 12
  followed by an extend of ledger 11 leaves the checkpoint at 11. To
  reproduce, add `PROPERTY CheckpointMonotonic` to `MC_LeaseReconciler.cfg`.
- `OncePerMoment` (Heartbeat; `part_000:108`, `:573`). Two heartbeats can
  be validated in one moment in two ways:
  - A restart while a heartbeat is in flight: init reads
    `lastHeartbeatMoment` before that heartbeat lands, so the start-up
    schedule sends another.
  - A heartbeat validated just past a moment boundary while its call
    reports an error: `lastHeartbeatMoment` is not updated (the retry
    returns "Retry skipped", or no retry is left), and that moment's tick
    sends again.

  To reproduce the second, use `INVARIANT OncePerMoment` with
  `MaxRestarts = 0` and `MaxFails = 4` in `MC_Heartbeat_NoMomentSkipped.cfg`.
  Whether the registry hook rejects the second heartbeat is outside `src/`.

- `PortsDisjoint` with legacy rows (`hp_manager.cpp:513`). Destroying a row
  without gp ports (`gp_tcp_port_start` 0) pushes the freed tuple as
  `{user_port, peer_port, ...}`, with the two swapped. Within three steps a
  create assigns a port that a live row holds. To reproduce, set
  `InitRows <- MCLegacyRows` in `MC_SashiDaemon.cfg`.

- `InitiateErrorRollsBack` (`comm_handler.cpp:217`): after initiate_error
  the code leaves the row, the user and the container in place; the spec
  describes a rollback.
- `RunningRowsRun` (`hp_manager.cpp:498`, `:371`): a partial destroy or
  stop leaves a 'running' row with no container.
- `OfferAtMostOnce` (`part_000:1270`): offerLease has no idempotence
  reference, so a late validation followed by a retry offers twice.
- `TerminateDequeues` (`part_000:1590`): while the ledger is halted an
  accepted terminate leaves the lease in the expiry list.
- `SuccessIsRecorded` and `BurnedIsReoffered` (`part_000:1407`, `:1245`):
  the same two skipped writes inside `TxQueue`. Findings 8 and 3 follow
  them to the tenant and the slot.
- `AcquireAnswered` (`part_000:1334`, `:1353`): the 40 % and 80 % gates
  queue no acquireError, so the tenant is not refunded.
- `RegCountNonNegative` (`part_000:1007`): the prune job's recount is
  queued and applied later, so the registry can be sent -1 before the
  count is corrected. `CountSettles` shows only that it is corrected
  afterwards, which does not catch the transient -1.

## Plan and status

Done:

1. `SashiDaemon`, its MC module and runs.
2. `TxQueue`.
3. `LeaseReconciler`: acquire, extend, terminate, expiry with halts,
   `recreateLeaseOffer` and the orphan prune job.
4. `SashiSocket`: the CLI and the daemon's message thread over the socket,
   composed with `SashiDaemon`.
5. `LeaseStartup`: catch-up, `#offerUnofferedLeases` and
   `#fixLeaseInconsistencies` against tenants' purchases.
6. `Heartbeat`: the start-up schedule, the scheduler, the queued callback
   with its retries, and restarts.
7. The reconciler restart in `LeaseReconciler`. It covers the crash
   windows, init's rebuilt expiry list, catch-up and the recount.

Next:

8. Two tokens in `LeaseReconciler`, if a cfg stays within budget, to check
   the slot accounting across leases. This is also the realistic form of
   finding 4, where another tenant's transaction moves the checkpoint.
9. A passing heartbeat run.
10. A crash during catch-up itself. Restarts are bounded at one, and
    `Restart` requires init to have finished.

## What is not modelled, and why

- **Message bytes.** The length prefix (`uint32_to_bytes` /
  `uint32_from_bytes`), JSON building and parsing, and the CLI's table
  printing are formatting; requests and replies are [type, name] records.
  Request sizes are left out, so the truncation of a request longer than
  4096 bytes is not reached (the CLI's messages are far shorter).
- **The CLI's path lookup** (`get_socket_path`, `get_bin_path`). The files
  are fixed by the installation.
- **`install_user` and `uninstall_user` script internals.** The scripts are
  not in `src/`. Their results are failure outcomes.
- **A refinement of the transaction queue.** An abstract queue whose
  actions are submitted, apply each guarded transaction at most once and
  settle would only restate `AtMostOnce` and `Settles`, which
  `txqueue_safety` checks directly.
- **uint16 wrap of port numbers.** `U16` models it, but reaching it needs
  more than ten thousand instances.
- **The setup CLI (`part_001`) and `evcluster.js`.** They are sequential
  tooling.
- **Heartbeat votes.** The vote loop reads the governance file, whose
  manager is not under `src/`. `Heartbeat` sends one empty heartbeat per
  callback, so the reuse of `refs[0]` across votes (`part_000:612`) is not
  reached.
- **The startup's `updateRegInfo`, `prepareAccount` and rebate request.**
  They touch no lease token.
- **Purchases during catch-up.** The handlers are attached after the
  history is fetched (line 203). Whether the library replays events from
  before the subscription is outside the repository. A purchase in that
  window may go unhandled until the next restart.
- **A burned bought token.** When the host holds more tokens than
  `max_instance_count`, the fix queues expireLease for tokens from its
  snapshot. A tenant may buy one of them first, and expireLease then burns
  it under the tenant. `LeaseStartup` models that branch, but its
  configuration explores the offer branch.
