# TLA+ models and proofs of the IoT billing backend

This directory holds TLA+ modules for the concurrent core of the backend, the
TLC configurations that check them and TLAPS proofs of every safety property of
a component that they check. Paths
below are relative to the repository. Each module was written from the source
it names; comments, docs and tests are quoted only where they disagree with
what the code does.

    tlc -workers 2 -config MCBillingCycle.cfg MCBillingCycle
    tlapm BillingCycleProofs.tla

## 1. The system

A fleet of metering devices sends usage events; the backend validates and
orders them, stores and compacts telemetry in TimescaleDB, appends billing
events to a per-tenant log, finalizes billing cycles, charges them on a Soroban
ledger, and follows that ledger to learn what happened. Everything is
TypeScript on one event loop per process, so **the interleavings are those of
awaits**: between two awaits a handler runs alone, at an await any other call,
timer or process may run. Several processes share PostgreSQL and Redis.

| component (source) | state | operations | what is hard | what makes it correct |
|---|---|---|---|---|
| Cycle finalization (`src/billing`) | cycle row: state, lock_version; recorded keys; scheduler flag | finalizeBillingCycle, tick, start, stop | two callers race on a row; a call dies after its claim; keys replayed | one owner per cycle, computed once, truthful outcomes, the scheduler gets every cycle done |
| Batch rotation and compaction (`src/ingestion/batch*.ts`, `telemetryStore.ts`) | batch rows, raw events, summaries, advisory locks | compactBatch, rotateBatch, ensureOpenBatch, insertRawEvent | stale row used after a lock; failure in the middle; hash-shared locks | one compactor; a closed batch is summarised in full; locks come back unless the unlock itself failed |
| Billing event log (`src/ingestion/eventStore.ts`) | rows (tenant, sequence), advisory lock | appendEvent, readEvents | MAX+1 is read before the INSERT; readers page while writers commit | dense sequence in commit order; readers miss nothing |
| Charge submission (`src/core/blockchain/{nonce_pool,tx_manager,rpc_client}.ts`) | sequence counter, two queues, tx records, circuit | submitChargeUsage, synchronize, processQueue | numbers fixed before the queue; lost answers; a resync under way | one charge is applied once; retries heal; calls end |
| Ledger synchronizer (`src/core/blockchain/event_listener.ts`) | lastSyncedLedger, inProgress, stored checkpoint | poll, catchUp, checkpoint | overlapping catch-ups; a failing checkpoint; restarts | no ledger behind the mark is missed; restart repeats little |
| Tenant pool (`src/database/pool_manager.ts`) | wait queue, per-tenant and global counters | connect, processQueue, release, timeouts | a decision used two awaits later; queue must re-arm itself | caps hold; reserved minimum; every call leaves the queue unless the loop waits for a client for ever |
| Ledger event bus, gap detector (`src/core/blockchain/ledger_event_bus.ts`, `src/core/ingestion/backpressure.ts`) | Redis stream and group, groupReady, lastSeq | publish, consume, ack, record | lost replies, redelivery, failover, trimming | gaps are reported, never early; events are handled |
| Advisory lock manager (`src/core/ingestion/lock_manager.ts`) | held locks, TTL and heartbeat timers, listeners | acquire, release, autoRelease, releaseAll | TTL expiry races release; releases by anybody | a lock has one holder |
| Migration lock (`pool_manager.ts:418-506`) | Redis lock and marker | acquire, mark, wait | expiry while migrating; DEL without owner | one migrator until a lock lapses; nobody serves an old schema |
| Device certificates (`src/api/gateway/mtls_verifier.ts`, admin revocation) | Redis key per serial, DB status | verify, revoke, NOTIFY | fill races invalidation | a revoked certificate is refused for good at last |
| Sessions and challenges (`src/api/auth/session.ts`) | Redis keys, token_version | create, consume, issue, refresh | lock without NX; overlapping refreshes | a device that keeps its newest tokens is not locked out |
| Versioned configuration (`src/config`) | Redis keys config:staging and config:active, the copy of each process | commitConfig, watcher, processBatch | commits share the staging key; the version moves during a batch | a lone commit activates its own version; a batch is of one version; watchers converge |
| Validation and reordering (`src/core/ingestion/validator.ts`) | Redis reorder buffer, nonce caches | submit, tryConsume | several Redis calls per submit; a nonce expires while a call waits | no frame passed by; in order, each once, when calls do not overlap; a nonce is claimed once a window |
| SSE fan-out (`src/core/ingestion/sse_manager.ts`) | queue, draining flag, dropped count per dashboard | broadcast, sendToClient, drain, keepalive, close | backpressure: a write that returns false is buffered all the same | in order, nothing dropped uncounted, no wake-up missed |
| Telemetry fragments (`src/core/ingestion/stream_parser.ts`) | buffer, timer | append, close, time out, dispose | chunks end anywhere; limits and timers alternate | whole messages in order; the rest is bounded |
| Ingestion and billing record state machines, balances (`state_machine.ts`, `balance_manager.ts`) | state, resync timer; transaction count | transitions, resync, reconcileAccount | timer against transitions; a comparison of stale balances | one resync a gap, in its gap; an undisturbed comparison corrects |
| Metered billing contract (`contracts/src/metered_billing`) | deadline, bytes and entries, batches | extend, allocate, deallocate, process a batch | counters kept by division, saturation, wrapping, repeated ids | what is stored is metered; bytes and entries drift by no more than is rounded away |
| Rate limiting (`src/api/middleware/rate_limiter.ts`) | a bucket per device in Redis; attempts per address | checkLimit, reset, applyAuthRateLimiting | callers' clocks differ; keys expire | the rate holds, bursts are apart |
| Aggregate refresh and listener (`pool_manager.ts:519-720`) | lastRefreshTime; client, running flag, timers | refresh; start, reconnect, stop | a shared mark advanced early; two failure handlers | nothing stale behind the mark but what is excused; never deaf |
| Pure helpers (SafeMath, fees, back-off) | none | – | boundaries | agree with their definition |
| HTTP surface, health, metrics; database schema | – | wiring, DDL | – | not modelled |

Interactions the modules keep: the event path and the scheduler share cycle
rows; compaction workers, event inserts and rotation share tables and advisory
locks; writers, direct writers and readers share the event log;
TransactionManager calls NoncePool, which is resynchronised from the ledger, and
queues on SorobanRpcClient; tenant calls share one pg.Pool with the notification
listener, which keeps a client of it while it listens, and with the aggregate
refreshes, which borrow one.
Interactions that do **not** exist in the code, and so not here: nothing calls
compactBatch, rotateBatch or ensureOpenBatch; nothing publishes to or consumes
from the LedgerEventBus, and the synchronizer is not connected to it;
withCycleLock, getCycleForUpdate, confirmTransaction and onFailure have no
caller. PROJECT.json lists all components, and 40 hazards at their lines.

## 2. Modules

`MC*` modules only give constants. `*Proofs` modules hold theorems.

### ExactlyOnce – abstract specification
A job is claimed, its effect performed once, then done. It is the promise of
both the finalizer and charge submission, and each is checked and proved to
implement it under the mapping `Phase`; the login flow is proved to (section 5).

### BillingCycle – `src/billing/{finalizer,scheduler,cycle*}.ts`
State: the row (`state`, `lockVersion`), the stable keys recorded (`log`), each
call's place `pc`, cycle, key and the version it read, the scheduler's `timer`
and `running`, and what was just returned (`result`). finalizeBillingCycle is
cut at every await: `ReadCycle`, `ClaimCycle` (UPDATE .. WHERE state and
lock_version), `ReReadCycle` of the loser, `RecordFinalization` (the
idempotency gate, *after* the claim as in the code), `ComputeReturns`,
`FinishCycle` (the second UPDATE; its result is ignored, as in the code).
`Die` is a crash or a rejected query at any of these. `Tick` makes one call of
finalizeBillingCycle; what onTick does is outside src, this is its least use.
Keys: a caller's stable key or `FreshKey`, a uuidv7 never seen before.
Cycle rows are created outside the repository; no code writes SETTLED.

### BatchCompaction – `src/ingestion/{batchManager,batchCompactor,telemetryStore}.ts`
One device; a batch is named by its window. Lock, read, claim, read events,
write each summary, close, unlock are separate steps; `Throw` is a rejected
query (the finally block still unlocks). The unlock is a query too: `UnlockFails`
is its rejection, after which the client goes back to the pool with a session that
keeps the lock (`kept`) until it ends; a worker that is given the same session
takes the lock once more and gives it back once. `Crash` is the end of a session, of a
worker or in the pool (the database drops its locks). `rotateBatch` swaps both rows in one transaction.
A summary is the set of events it aggregates; avg/min/max are functions of it.
`LockOf` need not be injective, as batchLockId is a hash.

### EventStore – `src/ingestion/eventStore.ts`
appendEvent statement by statement at READ COMMITTED: lock, MAX+1, INSERT,
COMMIT. An uncommitted INSERT blocks another of the same number (`Blocked`). A
conflict is zero rows from ON CONFLICT DO NOTHING: the transaction goes on,
and the loop reads MAX again, up to MAX_RETRY_ATTEMPTS. (Error 23505, which the
code also counts as an attempt, cannot come from the constraint the INSERT names.)
`DirectWrite` is the bypassing write the code's own comment allows for.
`ReadEvents`/`HandleEvent` page through the log as its doc describes.

### TxSubmission – `nonce_pool.ts`, `tx_manager.ts`, `rpc_client.ts`
`Submit` queues on the pool; `Serve` gives the next number and queues the
envelope on the client (or refuses it, when the queue is full; the number is
spent); the ledger `Accept`s, `Refuse`s or never sees (`Drop`) the posted
request; `AnswerSuccess`/`AnswerFailure` resume the caller, which after a
bad-sequence answer synchronizes and submits once more. `SyncRead`/`SyncApply`
are the two sides of synchronize's await, by a retry, the 30 s timer or start
up. Left out: circuit states other than CLOSED (unreachable, see finding
`circuit`), the nonces map (read by nothing), confirmTransaction (no caller).

### LedgerSync – `event_listener.ts`
`Poll` tests inProgress, then awaits the latest ledger; `StartCatchUp` sets it,
caps the gap and starts a batch; `ProcessLedger` takes the ledgers of a batch
in any order, each processed or skipped after its retries; `EndBatch` moves the
mark; `Checkpoint`/`CheckpointFails`; `Restart` loses memory and reads the
stored row.

### TenantPool – `pool_manager.ts`
`Loop` is the synchronous part of processQueue up to its next await: reject the
late, choose a request (of tenants below their minimum first) and await its client,
or end and arm the timer. The counters grow at the grant, two awaits after the choice. `GetClient`, `Grant`, `SetFails` and
`ConnectFails` are the answers of pg.Pool and of SET search_path; `Release`,
`TimerFires`, `GrowLate` run between. pg.Pool is external: `GlobalMax` clients,
handed out in its time or never. `TakeDirect` and `ReturnDirect` are its other
users, which the proxy does not count: TelemetryNotificationListener, which keeps
its client, and refreshAggregatesAdaptively. `RemovePool` is the end of
closeTimescalePool, after which the loop finds no pool and `RejectAll`s who waits.
Left out: adjustPoolSize (no caller).

### LedgerEventBus – `ledger_event_bus.ts`, `backpressure.ts`
publish (XADD with MAXLEN ~, so a trim may or may not happen), ensureGroup
(XGROUP CREATE at `$`, BUSYGROUP is success), consume (pending first, then
new), ack, and the gap detector's record. Redis is a primary and a lagging
replica; `Failover` loses what was not replicated. `ReplyLost` hands entries
out without the caller seeing them; `Crash` clears groupReady and lastSeq.

### AdvisoryLock – `src/core/ingestion/lock_manager.ts`
Managers (processes) share PostgreSQL. acquireLock is cut at its two queries:
`ToPool` gets a client, `TryLock` is pg_try_advisory_lock (a session that has
the lock already gets it once more), `Acquired` puts the entry into heldLocks. Anybody may release (`ReleaseLock`), the TTL timer
releases (`AutoRelease`), and `Unlock` is the query of either, which may fail:
the client then goes back to the pool with the lock. Breaking connections and
dying processes end sessions. tryAcquireWithRetry and releaseAll are sequences
of these. Left out: the per-lock listeners.

### MigrationLock – `pool_manager.ts:418-506`
Instances of releases share the keys migration_lock (SET NX, 300 s) and
migration_done. A leader migrates, sets the marker, deletes the lock; a follower
polls for the marker until 300 s are over. Expiry of either key, failing
migrations, Redis errors, lost answers and stopping instances are actions.
Left out: SKIP_MIGRATION_ON_STARTUP, which turns the function off, the
in-memory flags of one process, and a migration child that outlives its parent.

### CertificateCache – `mtls_verifier.ts`, `admin.ts:224-278`
verifyConnection at each await (Redis GET, row, Redis SET, the OCSP request, the
body of its answer), the revocation in two steps, its NOTIFY as a message that may not arrive, and key expiry.
The 200 ms timer bounds the request only: it is cleared before `res.text()`, so
`ReadBody` is an action nobody has to take.

### SessionRefresh – `session.ts:243-367`
One session: hash, cooldown key and lock key, and the calls of refreshSession at
each Redis command. The device is external: it presents the newest tokens it
has. `CooldownExpires` waits until every refresh that was under way when the
cooldown was set, and every one begun meanwhile, has been answered: five seconds
outlast two refreshes in a row.

### ReorderBuffer – `validator.ts:262-336`
One device; submit command by command. A frame is its number. A call that
rejects may have applied its last command. The drop counter is left out. Of the
history, `calm` says that no calls overlapped or rejected, and `handedTwice` that
a frame was returned again.

### VersionedConfig – `src/config/index.ts`, `validator.ts` processBatch
`Stage`/`Rename` are the two writes of commitConfig, with other commits between
them: the staging key is shared. `StartWatcher` is EXISTS, followed by
`WriteDefaults` (a process that found no configuration overwrites whatever was
activated since) or `ReadActive`; `Poll`/`ApplyPoll` are the two sides of the
50 ms poll, which does not wait for the last answer. `StartBatch`, `RateEvent`
and `EndBatch` are processBatch, which starts again when the version moved. A
version is named by who generated it.

### SseFanout – `sse_manager.ts`
Handlers are synchronous, so a step is a whole handler; the choice is what the
stream does: how many writes fit before one returns false (`Writes`), when it
drains, fails or closes. `broadcast`, `sendToClient`, keepalive, `Shutdown`.

### TokenBucket, LoginFlow – `rate_limiter.ts`, `routes/auth.ts`, `session.ts`
`CheckLimit(lag, base, compliant)` is the Lua script, one step in Redis; the time in
it is the caller's, which lags by up to `MaxLag` ticks, and the rate and the leave
to burst come from the device's compliance at the call. The history variable
`debt` is what was allowed beyond the rate, in the span in which that is most, as
long as the compliance stays low (`modest`). Where it moves there is no such bound:
a lagging caller takes tokens back at one rate, and the next refills them at another.
LoginFlow is POST /challenge and POST /verify: the attempt counter of the
process, the delays it imposes (awaits), and the challenge in Redis, which is
read and deleted by one GETDEL.

### MeteredContract – `contracts/src/metered_billing`
The host runs invocations one after another and a panic undoes one, so an
invocation is a step. `Allocate`, `Deallocate`, `ProcessBatch` keep the
code's order of checks, its saturating and wrapping arithmetic (`CountRange`; the
release profile does not check for overflow) and its division by ENTRY_SIZE. Of
the history, `freed` says that part of the usage was given back, `uneven` counts
the allocations up to that which were no number of entries, and `covered` holds
the batches stored since.

### FragmentReassembler – `stream_parser.ts`
A device's messages arrive in chunks that end anywhere; the buffer, its size
limit and its timer. A byte is named by its message and its place in it, the
last being the terminator; `Split` joins a chunk to the buffer byte by byte, as
the code's loop does, and `Rest` is what it keeps.

### NonceWindow – `validator.ts` createValidator, validateSignature
Payloads delivered again and again; `Look` reads the clock, `TryConsume` is the
SET NX EX of a node, `Validated` its answer. The local map and the shared key
are two initial states. `CountUp` is the counter that triggers a refresh.

### RecordLifecycle, BalanceReconciliation – `state_machine.ts`, `balance_manager.ts`
One record of IngestionStateMachine with its resync timer, and
handleOnChainRejection of BillingStateMachine. BalanceReconciliation is
reconcileAccount with its two awaits (Horizon, then the callback); the callback
is external and stores the corrected balance.

### AggregateRefresh, NotificationListener – `pool_manager.ts:519-720`
A refresh reads the window of the rows since the mark, moves the mark, then
materializes view after view, each an await; a row is stamped when its
transaction starts and seen when it commits. Each view's window is cut at the
retention boundary, and as the database materializes whole buckets, a view leaves
out the bucket that reaches behind it (`Aged`, of a view). The listener is one LISTENing
client whose 'error' event and whose own failed call both reconnect.

## 3. Runs

| run | constants | what it shows |
|---|---|---|
| `billing` | 2 cycles, 1 event caller, 2 ticks, 1 stable key + fresh keys | ClaimsHold; refines ExactlyOnce; SchedulerFinalizesAll |
| `watchers` | certificates, batches, configuration, tenant pool; one chosen at Init. Batches: 1 kept lock. Pool: 4 calls of A, 1 of B, minimum 2, maximum 3, 4 clients, 1 direct user, 1 failing SET | RevocationTakesHold; CompactionIsExclusive, SummariesHold, LocksAreReleased; VersionsHold, PodsConverge; SharesHold, ConnectsSettle |
| `ensure_open` (violation) | 1 worker | EnsuredBatchIsOpen fails: an OPEN batch is returned that does not exist |
| `charges` | 3 charges, queue of 1, 1 background event | NumbersHold; refines ExactlyOnce; ChargesReturn |
| `circuit` (violation) | as above | FailuresStopRequests fails: the circuit never opens |
| `ledger_sync` | 2 polls, ledgers 0..4, batches of 2, checkpoint every 2, gap of 3, 1 restart | SyncIsSound, EveryLedgerIsHandled |
| `catch_up_overlap` (violation) | as above | OneCatchUpAtATime fails: two catch-ups at once |
| `ledger_bus` | 1 consumer, batches of 2, stream trimmed to 1, 3 numbers, 3 entries, 2 faults | ReportsHold, EventsAreHandled |
| `services` | fifteen components, one chosen at Init; constants in MCServices.cfg | the safety of each (below) |
| `refresh_refused` (violation) | 3 refreshes at once | OverlappingRefreshesSucceed fails: the third is refused |
| `events_twice` (violation) | 1 dashboard, 3 events | EachEventOnce fails: an event is written twice |
| `storage_drift` (violation) | storage of 3 entries, 1 batch | UsageIsEntries fails: bytes and entries drift |

The two composite runs put components side by side **that share no state**: one
is chosen at Init and runs alone, so their states add up and do not multiply.
They compose nothing; they are one run because each component by itself is small.
The event log's tenants (which hash to one lock) and its writers are
interchangeable there, so `services` declares them symmetric; all its
properties are invariants and action properties, for which that is sound.

Several properties are conjunctions of named parts, so that one name says what
a component promises:

- ClaimsHold: OwnerHoldsCycle, OutcomeIsTruthful, StrandedOnlyByFault.
- SummariesHold: ClosedBatchIsSummarised, AbandonedOnlyByFailure, ClosedIsFinal.
- VersionsHold: BatchIsOfOneVersion, LoneCommitActivates.
- NumbersHold: NumbersReachLedgerInOrder, RetryHeals.
- SyncIsSound: NothingMissedBehindSync, RestartRepeatsLittle.
- SharesHold: GrantsWithinCaps, ReservesYieldToNewcomersOnly.
- ReportsHold: JumpsAreReported, NoReportIsPremature.
- in `services`: LockHasOneHolder (advisory locks); MigrationHolds (one migrator
  until a lock lapses, who serves is migrated); RefusedOnlyAfterLoss (sessions);
  FramesInOrder (reorder buffer); LoginsHold (a challenge admits one call, a
  minute two windows' attempts); LogIsSound (dense, read without loss,
  conflicts paid for); ReassemblyHolds; DeliveriesCountOnce (nonces);
  ResyncAnswersItsGap; NothingStaleBehindMark; QuietReconcileCorrects;
  StreamIsAccountedFor (dashboards); RateHolds; StorageIsMetered; ListenerHolds.

Why the bounds are enough to be interesting:
- *billing*: two ticks and an event call are the smallest set in which a loser
  re-reads while the winner goes on and a third call comes after it; two cycles
  and one stable key are what a replayed key for a foreign cycle needs.
- *charges*: with a queue of one, three charges are one posted, one queued and
  one refused, which spends a number and makes the next answer a bad sequence.
- *ledger_sync*: 4 ledgers with a gap cap of 3 need two catch-ups, batches that
  do not end on a checkpoint boundary, and a last, cut batch.
- *ledger_bus*: the trim length below the batch size makes an entry disappear
  while pending; two faults are a lost reply followed by a failover, or either
  twice. Several consumers are left out, as each process has its own
  detector and sees false gaps: every second number went to the other.
- *watchers*: two workers race every step; two windows are a rotation and its
  successor; two metrics make the summary loop stop half-way. One device only:
  batches of different devices share nothing but, through the hash, a lock; with
  distinct locks the run explores more interleavings, a shared lock only
  removes some (the proof takes any `LockOf`). Two gateways and two
  administrators race on one serial. One lock kept by a session is enough for a
  worker to be given that session, and for another to find the lock taken. Two
  processes, one of which rates batches of one event (the proof takes any size),
  and two commits, whose Stage and Rename interleave.
- *watchers*, pool: A alone can meet its cap (4 calls, cap 3), and the reserve for
  B's minimum competes with it for the 4 clients; with one direct user and one
  leaked client the loop can wait for a client that never comes.
- *services*: two managers with three clients and two locks: two clients of one
  process, on which a session could be re-entered, and one of another; two
  faults are a failed unlock and the connection that breaks after it. Three
  instances of two releases, with three faults: two may lead although a third
  wrote a marker. Two refreshes at once (with three the property fails, see
  finding 4). Two submits, four frames, a window of two: eviction, a drain of
  two frames, and a gap behind an evicted frame. Two tenants that hash to one
  lock, two writers, three events, pages of two: a page can end between an
  append and a direct write. Two payloads with one nonce, a life of one tick
  and three ticks: the nonce expires while the payload is still near (the
  payloads are interchangeable, so their stamps are ordered). Two
  gaps of a record: the second begins while the timer of the first could run. Two rows,
  one aged in the second view and not in the first, two refreshes, two views. The
  listener's five calls allow a double reconnect and a third failure after it. A
  bucket over nine ticks, with a rate that moves between two: a burst, its
  cooldown, expiry, and a second burst. Storage of three entries, two batches
  of up to two events.

Properties are negated on purpose once each: every property has a mutant in
PROJECT.json, a plausible bug in a modelled definition (a dropped guard, an
off-by-one, a missing reset) under which TLC finds it violated.

### Fairness
- *billing*: WF on a call's next step (the database answers, or the call dies)
  and SF on a tick finding a given cycle: setInterval goes on as long as the
  scheduler is not stopped. SchedulerFinalizesAll is conditional on that, and
  claims nothing for cycles whose call died: those stay FINALIZING for ever.
- *charges*: WF on queues and on the ledger's answer. `fetch` has no timeout in
  the code, so this is an assumption on the network; without it one unanswered
  request holds the queue.
- *ledger_sync*: WF on the synchronizer's steps; SF on the latest-ledger request:
  the RPC server is not down for ever.
- *ledger_bus*: consumers keep consuming and acknowledging. EventsAreHandled has
  the premise `Durable`: no failover, no unhandled entry trimmed. Without it the
  code does lose events, and a consumer whose group vanished in a failover keeps
  groupReady and rejects for ever.

- *watchers*: WF on a verification's queries, each answered or rejected, and on
  key expiry (EX 3600): no call has to be made and no notification has to
  arrive, so RevocationTakesHold rests on expiry alone (an entry is written only
  on a miss; hits do not prolong it). WF on the steps of a compaction worker,
  its finally block included. WF on every process's poll and its answer; nobody
  has to commit or stop. Of the pool, time passes, its timers fire and SET
  search_path is answered. pool.connect() is *not* assumed to be answered, as it has
  no time limit, and nobody has to return a client: callers need not release, and
  the listener does not. ConnectsSettle therefore excepts the behaviours in which
  the loop stands at that await for good (`AwaitsClient`). There no queued call times
  out, as only the loop looks at their age. RevocationTakesHold excepts a call that
  waits for the body of an OCSP answer, and LocksAreReleased a lock whose unlock
  was rejected.
- *services* assumes none: its properties are about safety.

`CHECK_DEADLOCK FALSE` is in MCTxSubmission.cfg, MCTxCircuit.cfg,
MCServices.cfg and MCSseFanout.cfg: calls are made once, clocks and counters are
bounded, and the system rests when they are used up.

## 4. Findings

1. `ensure_open` (`batchCompactor.ts:211`): ensureOpenBatch returns an OPEN
   batch although the bucket's row is COMPACTING or CLOSED.
2. `circuit` (`rpc_client.ts:167`): onFailure is never called; the circuit
   breaker the README promises cannot open.
3. `catch_up_overlap` (`event_listener.ts:157`): two catch-ups run at once, as
   inProgress is tested before an await and set after it. Nothing is lost by it
   (NothingMissedBehindSync is proved with overlaps), but ledgers are handled
   twice and the mark moves backwards.
4. `refresh_refused` (`session.ts:309`): the integration test says of five
   refreshes of one token that all succeed. The refresh lock is SET without NX
   and excludes nobody; when two refreshes pass the cooldown check and one reads
   the hash after the other's HSET, the version moves by two, and a third that
   reads it then is refused. With two at once it cannot happen (RefusedOnlyAfterLoss).
5. `events_twice` (`sse_manager.ts:172`): an event whose write returned false is
   put back "to avoid losing events on backpressure", though the stream has it:
   the drain handler writes it again and the dashboard gets it twice.
6. `storage_drift` (`storage.rs:69`): ttl-race-guard.md:149-151 states
   storage_usage_bytes == metered_entries * ENTRY_SIZE, and race_conditions.rs:194
   asserts it for amounts that are no multiple of ENTRY_SIZE. An allocation adds
   the bytes whole and the entries rounded down, so one such amount breaks it.
   What does hold is StorageIsMetered: until bytes are given back the entries
   never exceed the bytes, and fall short by less than one for each such amount.

Observations without a run: a cycle whose call died after the claim is never
taken up again; a COMPACTING batch neither; two ensureOpenBatch calls across a
bucket boundary leave two OPEN batches; events that arrive after compaction
read its window are in no summary; a lost COMMIT answer followed by a retry
appends an event twice; a failed SET search_path leaks the client; a trimmed
pending entry makes every later consume throw. Advisory locks: handlers of
onReleased never run for a held lock (the listeners are removed first); the
heartbeat is shorter than the TTL, so a living process's lock does not expire;
release looks at no owner. Migration lock: a follower trusts any marker, an
older release's too, which is why ServesMigrated makes that exception; waiting
instances never take over from a dead leader; the DEL of an error path may
delete another's lock. Sessions: an HSET after the hash expired revives it
without TTL and without wallet and device. Reorder buffer: overlapping submits
may return a frame twice, or leave one waiting whose turn has come; a call that
rejects loses the frames it held, which are behind the mark then or again to be
sent. Configuration: overlapping commits share the staging key, so one may
activate the other's version and the other fail; a process that starts may
overwrite a committed version by its defaults. Rate limiter: the "1 minute
sliding window limit" (`rate_limiter.ts:218`) is a fixed window, so a minute
admits two windows' attempts, and LoginsHold says that and no more. Aggregates:
rows behind the mark of a refresh that failed, or committed late, are not
refreshed. Listener: a LISTEN that fails because its connection broke reconnects
twice, once from 'error' and once from the call, after which a client is lost
to the pool. Tenant pool: with the listener's client and the calls' own, the limit
that the proxy counts to is more than the pg.Pool can give, so its loop may wait in
pool.connect() while every queued call waits with it, past its timeout. Batches: a
rejected unlock leaves the lock with a pooled session. Contract: after bytes were
given back in other portions than they were taken, entries may exceed the bytes
or wrap below 0. Requests to the ledger have no timeout.

## 5. Proofs

Each theorem holds for every value of the constants under the module's named
assumption (which TLC evaluates in the runs), with no bound on calls or faults
other than those the constants name. The assumptions say that a number the code
sets is positive, that a bound is a number (and a clock reaches 1), that "nobody"
is not somebody, and that what is summed or counted is finite. One theorem
assumes more: RefusalsAreExplained, that at most two refreshes run at once,
because with three it is false (finding 4).

| module | properties proved that the runs check |
|---|---|
| BillingCycleProofs | TypeOK, ClaimsHold, ComputesExactlyOnce |
| TxProofs | TypeOK, NumbersHold, ChargesAtMostOnce |
| LedgerSyncProofs | TypeOK, SyncIsSound |
| WatcherProofs | TypeOK of MCWatchers, CompactionIsExclusive, SummariesHold, VersionsHold, SharesHold |
| ServicesProofs | TypesHold of MCServices, LockHasOneHolder, MigrationHolds, RateHolds, LoginsHold, RefusedOnlyAfterLoss, StreamIsAccountedFor, QuietReconcileCorrects, StorageIsMetered |
| IngestionProofs | LogIsSound, DeliveriesCountOnce, ResyncAnswersItsGap, NothingStaleBehindMark, ListenerHolds, FramesInOrder, ReassemblyHolds |
| ChainProofs | TypeOK and ReportsHold of the bus |
| DataLemmas | none: sums and induction for the others |

So every invariant and every action property of a passing run is a theorem
(RefusedOnlyAfterLoss for two refreshes at once); the eight liveness properties stay
with TLC, and of each the safety half is a theorem.

### Billing, charges, ledger

**BillingCycleProofs**, from BillingAssumption. `Inductive` shows `IInv`, which
adds to TypeOK and the properties what they need to be inductive: a call past
its read saw an OPEN row with the version it remembers (SawOpenRow), versions
only grow, and so the winner of a claim is the only one whose version matches.
From it: TypeCorrect, OneOwner, Truthful, GateIsForForeignKeys,
StrandedNeedsFault, together ClaimsAreSound, and the refinement FinalizerIsExactlyOnce
(Spec => Once!OnceSpec): every step is a Claim, Perform, Complete or stutter.
TicksTakeTurns: `running` is set exactly while one tick's call is in flight, so a
tick never finds the flag of a tick that is gone, whether it returned or threw.

**TxProofs**, from TxAssumption. `TxInv`: a call is in one place (posted, queued
or waiting), no pending number is above the counter unless a sync lowered it
(Ordered), an envelope was accepted only if its call is over or about to be told
(AppliedSound, so a retry, which follows a refusal, is never a second charge),
and where an undisturbed retry stands (CalmSound): after a bad sequence number,
whether or not the drift is beyond the tolerance, its sync leaves the counter
equal to the account. The last is the subtle one: `Drifted` leaves a counter one
above the account alone, and a refused latest number is never that.
NoChargeTwice is the refinement of ExactlyOnce. NoCallIsForgotten: a call that has
not returned is in the pool's queue, posted, in the request queue or behind a sync
that resumes it, and while the pool is not ready its first sync is under way.

**LedgerSyncProofs**, from SyncAssumption. `IInv`: all ledgers before a
catch-up's batch are handled, as is each of the batch no longer in `todo`;
hence the mark and every checkpoint only ever name covered ledgers, although
overlapping catch-ups and late checkpoints move both backwards. `RInv`, for runs
in which catch-ups have not overlapped: one at most runs, and where it stands
says how far the checkpoint is behind (no interval boundary lies between).
Theorems: TypeCorrect, NothingIsMissed, RestartsRepeatLittle, together SyncHolds.
SyncIsNeverStuck: what is not handled is ahead of the mark, where the next poll
finds it, and `inProgress` holds polls back only while a catch-up runs. The
converse is false: overlapping catch-ups share the flag, and the first to end
clears it.

### WatcherProofs: what processes watch and share

*Configuration.* `ConfigInv`: what a batch has rated is of the captured version,
and while a commit is alone what is staged is its own. NoPodFallsBack: a poll
brings the process the active version, and one that holds it, or has it on its way,
keeps it until another becomes active, because one Redis connection answers the
overlapping polls in their order.

*Certificates.* `CertInv`: what is cached, or about to be, was in the table, so no
certificate is refused that was not revoked. RevocationsLast: once it is, no call
takes it up as valid, and the cache admits it again only by a call that had read
the row before. As such calls end and entries expire, that is why
RevocationTakesHold holds; the ending itself needs fairness and stays with TLC.

*Compaction.* `BInv`: a worker between its lock and its unlock has the lock of
its window (LockHeld); past its claim the batch is COMPACTING (ClaimStands),
which the lock keeps so: it is why a batch's row, read before, is still good. An
unclaimed batch has no summary (NoSummaryYet), and the loop over the metrics has
left none behind it (LoopIsOnTrack): from that a closed batch is summarised in full.
LocksAreNotLeaked: a lock that is taken belongs to a worker in the section its
`finally` ends, on a window of that lock, or to a session on which an unlock was
rejected; no other error path keeps one.

*Tenant pool.* processQueue decides, then awaits a client and a SET. `PoolInv`:
each counter is the number of calls that hold a client (Counts), the queue lists
the waiting calls and the fair order their tenants, each once (Waits), and there
is still Room for the call whose client is awaited: one loop runs at a time, so
between its choice and its grant others only release, and the counters that
decide for it only fall. From that SharesAreKept. The queue's scan is
a recursive function, of which the proof shows by induction what it selects.
NoQueueIsForgotten: while a call waits, the loop is under way, possibly at the await
of a client, or a timer is set.

### ServicesProofs: locks, the API, balances and the contract

*Advisory locks.* A heldLocks entry says nothing of the sessions: `LockInv` adds
that one session at most has a lock (OneSession), that a client from its grant
to its unlock has it (UserHasLock), that entries and clients held correspond
(EntryIsInUse, HolderHasEntry), and that a session on which no unlock failed has
nothing else (CleanSession). Theorems: LockInductive, OneHolder, NoLockIsLost.

*Migration lock.* `MigrationInv`: unless a lock lapsed, whoever migrates is named
by the key (LeaderIsNamed), and a marker or an instance about to set one is not
ahead of the schema (MarkerIsBehind). Theorems: MigrationInductive, OneMigrator,
ServingIsMigrated, together MigrationIsSound.

*Rate limit.* `RateInv` is a potential argument: what the bucket may still give,
with what it would be refilled up to now, plus what was taken beyond the rate,
stays below a full bucket and the refill of the greatest lag (DebtIsCovered); and
the excess is repaid before the key can expire (DebtLapsesFirst), as a new bucket
would be full. It is of a device whose compliance stays low.

*Login.* `LoginInv`: of each challenge, at most one call was admitted or is
entitled to be, and only while no other is (ChallengesInv: GETDEL hands it to
one). Attempts are counted by age, and the start of the counter's window divides
them: those in it are at most the counter, those before it at most the limit, and
a tick moves both sums with the division (AttemptsInv). So a minute, which meets
two windows at most, has two windows' attempts.
ChallengesAreUsedOnce: the flow is a third implementation of ExactlyOnce, with a
challenge as the job (ByOnce): it is pending while it is on its key or not yet
created, whoever takes it off, a call or its expiry, claims it, and the effect is
the call that is let in. So nobody is let in by a challenge that another call
could still consume, and a challenge that is gone never comes back.

*Sessions.* `RefreshInv`: each version after the first was some call's answer,
which is with the device, lost, or on its way (Written, Cached); and a call that
may still be refused presents the hash's version or the one before it, the
second only while nobody adds another or the cooldown stands (Admits, Marks),
unless newer tokens were lost. With two calls, one of which is the refused one,
the other can add one version before the cooldown is set; TLC's third refresh is
what adds the second.
RefreshTypeCorrect needs no such assumption: the types hold of any number of calls.

*Streams.* `SseInv`: a queue is in the order sent and behind all that was
written, and what an open connection was offered and neither waits nor was
written is counted as dropped.

*Balances.* `BalanceInv`: a comparison nothing disturbed has the balances as they
are (QuietSeesBalances). *Contract.* `ContractInv` is of any amounts: what the entries
fall short of the bytes is less than an entry for each amount that was none, until
bytes are given back (EntriesFallShort); and the batches stored since then take at
most the bytes in use, as each adds what it stores, whatever its id replaces
(StoredIsMetered).

### IngestionProofs

*Event log.* The log is dense because the number committed is MAX+1 *and* the
unique constraint admits it: `IInv` bounds every number a writer holds by the
length of the log plus one and shows that an inserted number is not stored. The
lock is not needed for density; it is what LockSerialises is about (`attempt`
counts conflicts, each paid for by a direct write). The reader's cursor is the
length of what it was handed, and a page the numbers after it. Theorems:
LogInductive, LogTypeCorrect, LogIsDense, ReaderIsExactlyOnce, LockSerialises,
together LogHolds.

*Nonces.* `NonceInv`: unless the cache was lost, each claim's nonce is remembered
for its life from the claim (ClaimsAreRemembered), so claims of a nonce are a
life apart (ClaimsAreApart); a call claims with the time it looked at, and the
time may have gone on before the claim (CallsLooked, ClaimsAreInTime).

*Billing record.* `RecordInv`: a timer that runs belongs to the gap the record is
in, and gaps are numbered, so each is asked for once, while it lasts.

*Aggregates.* `AggregateInv`: a row behind the mark is in each view, aged there, or
excused, or a call has it in its window with the view still to come (RowsAreCarried): the mark
moves before the views do, and other calls may move it further.

*Listener.* `ListenerInv`: while it runs there is a call, a client or a timer
(NeverDeaf); until a failure was met by two handlers, or a stop missed a client,
one call at a time, with its own client (OneCallAtATime).

*Reorder buffer.* `ReorderInv`: every frame up to a draining call's count was
handed over, lost, or is in its hands (CallsCount), so the mark it sets passes none
by. While calls have not overlapped or rejected, what was handed over is exactly the
frames up to the mark, none of them twice, what waits is beyond the next one, and a
draining call holds the frames beyond the mark (CalmIsInOrder): these were not handed
over before.

*Fragments.* `ReassemblerInv`: what was sent and not returned is a stretch of the
stream; the buffer is the tail of it, goes up to the next byte and belongs to
that byte's message (Reads), so a terminator makes it that message's end. What
Split returns of any chunk is shown by induction over the chunk.

### ChainProofs: the event bus

`BusInv`: numbers grow along the stream (EntriesGrow), what a consumer has in hand
is of the stream, every jump its detector saw is reported (JumpsAreReported), and
before a failover it reads new entries with none of its own pending. ReportsAreSound adds that a report lies between two numbers
seen, so that nothing yet to come is reported; the detector's run over a reply
is a recursive function, shown by induction to keep this.

NoEntryIsDropped: from the creation of the group on, a step other than a failover
leaves an entry not yet delivered in the stream, trims it, or makes it pending for
the consumer it hands it to, whether or not the reply arrives; and a pending entry
ends only by an acknowledgement, which counts its number as handled.

### The runs of the composite modules

MCServices and MCWatchers choose one component at Init, and the others rest. The
theorems above are about each component's own specification; ServicesAreEach and
WatchersAreEach show that every behaviour of the composite module is one of each
component's, and with them ServicesTypeCorrect, ServicesAreSound,
WatchersTypeCorrect and WatchersAreSound state of the runs' specifications what TLC
checks there. ServicesAreSound needs AtMostTwo, for RefusedOnlyAfterLoss; nothing
else does.

### Induction over data

The library's induction theorems take an operator, which no installed prover can
instantiate. DataLemmas states induction for *sets*: a set of numbers that holds 0
and successors is Nat (NatSet), a set of subsets closed under adding an element
holds every subset of a finite set (FiniteSubsets); both follow from the
well-foundedness of < on Nat. A recursive function is the CHOICE of a function
with its equation, so the proof first shows by induction that one exists. On that
rest the sums (MapThenSumSet: SumsExist, SumChanges, SumAdds, ...), the pool's scan,
the detector and Split, which are written as recursive functions for it.

### Proved and not run, run and not proved

GateStopsForeignKeysOnly (GateIsForForeignKeys), PooledClientsHoldNothing
(NoLockIsLost) and ChallengesAreUsedOnce's refinement are proved and no run checks
them again. Nor does a run check the safety halves below, which say why a property
that TLC checks under fairness can be kept at all: nothing that must happen is
ever out of reach of the step that does it.

| liveness, checked by TLC | its safety half, proved |
|---|---|
| SchedulerFinalizesAll | TicksDoNotOverlap (TicksTakeTurns) |
| ChargesReturn | CallsAreInHand (NoCallIsForgotten) |
| EveryLedgerIsHandled | UnhandledIsAhead (SyncIsNeverStuck) |
| ConnectsSettle | QueueIsServed (NoQueueIsForgotten) |
| EventsAreHandled | EntriesAreCarried (NoEntryIsDropped) |
| LocksAreReleased | LocksAreInUse (LocksAreNotLeaked) |
| PodsConverge | ReadersKeepUp (NoPodFallsBack) |
| RevocationTakesHold | RevocationIsLasting (RevocationsLast) |

The liveness properties themselves need fairness and ENABLED, which the prover
does not reach. MaxVersion bounds a guard of SessionRefresh and is no part of a
type: the versions of a session are numbers.

## 6. Not modelled

- Wiring, HTTP handlers, health, metrics (prometheus.ts is declarations) and
  tracing: no state that another part reads.
- Pure helpers: SafeMath, fee_optimizer, uuidv7, the samplers: stateless
  arithmetic that unit tests reach in full.
- Certificate parsing, OCSP, signatures, token encoding, zk verification
  (library calls); parseFrame and encodeFrame (decoding without state;
  METRICS_ENTRY_SIZE is 12 where the bound is checked, and the loop reads 10 bytes
  of each entry); telemetry_validator's messages.
- DeviceComplianceTracker, a score per device in Redis: it is the input that
  makes a call of the rate limiter compliant. ConnectionBudgetTracker,
  BackpressureController, adjustPoolSize: no caller outside tests.
- The loss of an idle session that holds an advisory lock on the server's side,
  unseen by its client. What a successful answer of the ledger says of the
  transaction's own result: submitChargeUsage does not look at it.
- BalanceManager and BillingStateMachine have no production caller either, and
  the hook of periodic reconciliation does nothing; they are modelled from what
  they promise a caller. The admin routes' force-settle and rollback make a fresh
  TENTATIVE machine for each request, so no state of theirs outlives one.
- The contract's TtlExtensionConflict, which no sequence of invocations reaches,
  and its admin address.
- DDL, compression and retention run by TimescaleDB. Overflow of the INTEGER
  `sequence`.

## 7. What is left

In the order in which it would add most: several consumers of the event bus with
detectors that share what they have seen, should the code get one; the boundaries
of SafeMath, fees and back-off as operators against reference definitions.
