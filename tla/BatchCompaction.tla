--------------------------- MODULE BatchCompaction ---------------------------
(***************************************************************************)
(* Rotation and compaction of one device's telemetry batches               *)
(* (src/ingestion: batchManager, batchCompactor, telemetryStore).  A batch *)
(* is named by its window: window w is [w, w+1) in units of the batch      *)
(* window, so a successor starts where its predecessor ends.  Workers run  *)
(* compactBatch, rotateBatch and ensureOpenBatch, each await a step, while *)
(* events are inserted and the clock moves.                                *)
(***************************************************************************)
EXTENDS Naturals, FiniteSets

CONSTANTS
    Workers,    \* pool clients, one session each
    LastWindow,  \* bound: the last window the clock and rotation may reach
    Events,     \* raw telemetry events
    Metrics,
    MetricOf,   \* MetricOf[e]: the metric of event e
    LockOf,     \* LockOf[w]: batchLockId, a hash: two batches may share a lock
    MaxKept,    \* bound: locks kept by sessions whose unlock failed
    Nobody

Windows == 0..LastWindow

ASSUME CompactionAssumption ==
    /\ LastWindow \in Nat
    /\ MetricOf \in [Events -> Metrics]
    /\ DOMAIN LockOf = Windows
    /\ MaxKept \in Nat
    /\ Nobody \notin Workers

VARIABLES
    now,        \* the window the clock is in
    batch,      \* batch[w]: state of the row of window w, "NONE" without a row
    raw,        \* raw[w]: the events whose time lies in window w
    summary,    \* summary[w][m]: the events aggregated in the row, {} without
    lock,       \* lock[l]: the session that holds advisory lock l
    kept,       \* locks whose unlock failed: their session holds them until it ends
    pc, window, \* where worker p stands and the window it works on
    snapshot,   \* snapshot[p]: the events p read for compaction
    arrived,    \* history: events inserted while their batch was OPEN
    failed      \* history: windows whose compaction was cut short

tables == <<batch, raw, summary>>
history == <<arrived, failed>>
batchVars == <<now, tables, lock, kept, pc, window, snapshot, history>>

BatchStates == {"OPEN", "COMPACTING", "CLOSED"}
ValidTransitions == [OPEN |-> {"COMPACTING"}, COMPACTING |-> {"CLOSED"}, CLOSED |-> {}]
Compacting == {"read", "write", "close"}
Locked == {"c_read", "c_claim", "r_read", "r_swap", "unlock"} \cup Compacting
BatchPlaces == {"idle", "r_lock", "e_bucket", "e_insert"} \cup Locked

BatchTypeOK ==
    /\ now \in Windows
    /\ batch \in [Windows -> BatchStates \cup {"NONE"}]
    /\ raw \in [Windows -> SUBSET Events]
    /\ summary \in [Windows -> [Metrics -> SUBSET Events]]
    /\ lock \in [{LockOf[w] : w \in Windows} -> Workers \cup {Nobody}]
    /\ kept \in SUBSET {LockOf[w] : w \in Windows}
    /\ pc \in [Workers -> BatchPlaces]
    /\ window \in [Workers -> Windows]
    /\ snapshot \in [Workers -> SUBSET Events]
    /\ arrived \in [Windows -> SUBSET Events]
    /\ failed \in SUBSET Windows

BatchInit ==
    /\ now = 0
    /\ batch = [w \in Windows |-> "NONE"]
    /\ raw = [w \in Windows |-> {}]
    /\ summary = [w \in Windows |-> [m \in Metrics |-> {}]]
    /\ lock = [l \in {LockOf[w] : w \in Windows} |-> Nobody] /\ kept = {}
    /\ pc = [p \in Workers |-> "idle"]
    /\ window = [p \in Workers |-> 0]
    /\ snapshot = [p \in Workers |-> {}]
    /\ arrived = [w \in Windows |-> {}]
    /\ failed = {}

-----------------------------------------------------------------------------
(* The world: time passes and events are inserted, on time or late. *)

AdvanceClock ==
    /\ now < LastWindow
    /\ now' = now + 1
    /\ UNCHANGED <<tables, lock, kept, pc, window, snapshot, history>>

InsertRawEvent(e, w) ==
    /\ w <= now
    /\ \A v \in Windows : e \notin raw[v]
    /\ raw' = [raw EXCEPT ![w] = @ \cup {e}]
    /\ arrived' = IF batch[w] = "OPEN" THEN [arrived EXCEPT ![w] = @ \cup {e}] ELSE arrived
    /\ UNCHANGED <<now, batch, summary, lock, kept, pc, window, snapshot, failed>>

-----------------------------------------------------------------------------
(* Queries. *)

OpenWindows == {w \in Windows : batch[w] = "OPEN"}

\* ORDER BY batch_start DESC LIMIT 1
IsOpenBatch(w) == w \in OpenWindows /\ \A v \in OpenWindows : v <= w

\* Mutant: pg_try_advisory_lock answered true although another session has it.
LockFreeAlways(p, w) == TRUE

\* pg_try_advisory_lock: a session is granted the lock that it holds itself.
LockFree(p, w) == lock[LockOf[w]] \in {Nobody, p}

\* transitionBatchState: the guarded UPDATE finds the row in state `from`.
MayMove(w, from, to) == batch[w] = from /\ to \in ValidTransitions[from]

Go(p, where) == pc' = [pc EXCEPT ![p] = where]

-----------------------------------------------------------------------------
(* compactBatch(w), up to the claim. *)

CompactLock(p, w) ==
    /\ pc[p] = "idle"
    /\ batch[w] # "NONE"
    /\ LockFree(p, w)
    /\ lock' = [lock EXCEPT ![LockOf[w]] = p]
    /\ window' = [window EXCEPT ![p] = w]
    /\ Go(p, "c_read")
    /\ UNCHANGED <<now, tables, kept, snapshot, history>>

CompactReadState(p) ==
    /\ pc[p] = "c_read"
    /\ Go(p, IF batch[window[p]] = "OPEN" THEN "c_claim" ELSE "unlock")
    /\ UNCHANGED <<now, tables, lock, kept, window, snapshot, history>>

CompactClaim(p) ==
    LET w == window[p] IN
    /\ pc[p] = "c_claim"
    /\ IF MayMove(w, "OPEN", "COMPACTING")
       THEN batch' = [batch EXCEPT ![w] = "COMPACTING"] /\ Go(p, "read")
       ELSE UNCHANGED batch /\ Go(p, "unlock")
    /\ UNCHANGED <<now, raw, summary, lock, kept, window, snapshot, history>>

-----------------------------------------------------------------------------
(* rotateBatch, up to the claim. *)

RotateFind(p) ==
    /\ pc[p] = "idle"
    /\ \E w \in Windows :
          /\ IsOpenBatch(w)
          /\ w < LastWindow      \* the successor is a window of the model
          /\ window' = [window EXCEPT ![p] = w]
    /\ Go(p, "r_lock")
    /\ UNCHANGED <<now, tables, lock, kept, snapshot, history>>

RotateLock(p) ==
    LET w == window[p] IN
    /\ pc[p] = "r_lock"
    /\ IF LockFree(p, w)
       THEN lock' = [lock EXCEPT ![LockOf[w]] = p] /\ Go(p, "r_read")
       ELSE UNCHANGED lock /\ Go(p, "idle")
    /\ UNCHANGED <<now, tables, kept, window, snapshot, history>>

RotateReadState(p) ==
    /\ pc[p] = "r_read"
    /\ Go(p, IF batch[window[p]] = "OPEN" THEN "r_swap" ELSE "unlock")
    /\ UNCHANGED <<now, tables, lock, kept, window, snapshot, history>>

\* rotateBatch goes on to compact the old batch itself.
AfterSwap == "read"

\* One transaction: claim the old batch and INSERT the successor, whose primary
\* key may already exist: then the transaction is rolled back and the call throws.
RotateSwap(p) ==
    LET w == window[p] IN
    /\ pc[p] = "r_swap"
    /\ IF MayMove(w, "OPEN", "COMPACTING") /\ batch[w + 1] = "NONE"
       THEN /\ batch' = [batch EXCEPT ![w] = "COMPACTING", ![w + 1] = "OPEN"]
            /\ Go(p, AfterSwap)
       ELSE UNCHANGED batch /\ Go(p, "unlock")
    /\ UNCHANGED <<now, raw, summary, lock, kept, window, snapshot, history>>

-----------------------------------------------------------------------------
(* doCompact, the close and the unlock, the same for both. *)

\* readRawEvents: time in [batch_start, batch_end)
EventsIn(w) == raw[w]

CompactRead(p) ==
    /\ pc[p] = "read"
    /\ snapshot' = [snapshot EXCEPT ![p] = EventsIn(window[p])]
    /\ Go(p, "write")
    /\ UNCHANGED <<now, tables, lock, kept, window, history>>

\* Events of the snapshot's next metric; ON CONFLICT DO NOTHING keeps a row
\* that is already there.
WriteSummary(p) ==
    LET w == window[p] IN
    /\ pc[p] = "write"
    /\ snapshot[p] # {}
    /\ \E m \in {MetricOf[e] : e \in snapshot[p]} :
          LET group == {e \in snapshot[p] : MetricOf[e] = m} IN
          /\ summary' = [summary EXCEPT ![w][m] = IF @ = {} THEN group ELSE @]
          /\ snapshot' = [snapshot EXCEPT ![p] = @ \ group]
    /\ UNCHANGED <<now, batch, raw, lock, kept, pc, window, history>>

\* Mutant: the loop over the metrics ends early.
AllWrittenAlways(p) == TRUE

AllWritten(p) == snapshot[p] = {}

SummariesDone(p) ==
    /\ pc[p] = "write"
    /\ AllWritten(p)
    /\ Go(p, "close")
    /\ UNCHANGED <<now, tables, lock, kept, window, snapshot, history>>

CloseBatch(p) ==
    LET w == window[p] IN
    /\ pc[p] = "close"
    /\ batch' = IF MayMove(w, "COMPACTING", "CLOSED")
                THEN [batch EXCEPT ![w] = "CLOSED"] ELSE batch
    /\ Go(p, "unlock")
    /\ UNCHANGED <<now, raw, summary, lock, kept, window, snapshot, history>>

\* pg_advisory_unlock undoes one lock of the session, and the client goes back
\* to the pool.
UnlockBatch(p) ==
    LET l == LockOf[window[p]] IN
    /\ pc[p] = "unlock"
    /\ lock' = [lock EXCEPT ![l] = IF l \in kept THEN p ELSE Nobody]
    /\ window' = [window EXCEPT ![p] = 0]
    /\ Go(p, "idle")
    /\ UNCHANGED <<now, tables, kept, snapshot, history>>

-----------------------------------------------------------------------------
(* ensureOpenBatch. *)

EnsureFind(p) ==
    /\ pc[p] = "idle"
    /\ OpenWindows = {}
    /\ Go(p, "e_bucket")
    /\ UNCHANGED <<now, tables, lock, kept, window, snapshot, history>>

\* Mutant: the bucket is rounded up.
BucketRoundedUp == now + 1

\* now - (now % BATCH_WINDOW_MS)
Bucket == now

EnsureBucket(p) ==
    /\ pc[p] = "e_bucket"
    /\ window' = [window EXCEPT ![p] = Bucket]
    /\ Go(p, "e_insert")
    /\ UNCHANGED <<now, tables, lock, kept, snapshot, history>>

\* INSERT ... ON CONFLICT (id) DO NOTHING
InsertIfAbsent(w) ==
    batch' = IF batch[w] = "NONE" THEN [batch EXCEPT ![w] = "OPEN"] ELSE batch

EnsureInsert(p) ==
    /\ pc[p] = "e_insert"
    /\ InsertIfAbsent(window[p])
    /\ window' = [window EXCEPT ![p] = 0]
    /\ Go(p, "idle")
    /\ UNCHANGED <<now, raw, summary, lock, kept, snapshot, history>>

-----------------------------------------------------------------------------
(* Failures. *)

CutShort(p) == failed' = IF pc[p] \in Compacting THEN failed \cup {window[p]} ELSE failed

\* Mutant: no finally around the locked section.
AfterThrowNoFinally(p) == "idle"

AfterThrow(p) == "unlock"

\* A query under the lock rejects: the finally block still sends the unlock.
Throw(p) ==
    /\ pc[p] \in Locked \ {"unlock"}
    /\ Go(p, AfterThrow(p))
    /\ snapshot' = [snapshot EXCEPT ![p] = {}]
    /\ CutShort(p)
    /\ UNCHANGED <<now, tables, lock, kept, window, arrived>>

\* The unlock itself rejects and the session goes on: client.release() puts it
\* into the pool with its lock.
UnlockFails(p) ==
    /\ pc[p] = "unlock"
    /\ kept' = kept \cup {LockOf[window[p]]} /\ Cardinality(kept') <= MaxKept
    /\ window' = [window EXCEPT ![p] = 0]
    /\ Go(p, "idle")
    /\ UNCHANGED <<now, tables, lock, snapshot, history>>

\* The process or its connection dies, or the pool closes an idle client: the
\* server ends the session's locks.
Crash(p) ==
    /\ pc[p] # "idle" \/ \E l \in kept : lock[l] = p
    /\ CutShort(p)
    /\ kept' = {l \in kept : lock[l] # p}
    /\ lock' = [l \in DOMAIN lock |-> IF lock[l] = p THEN Nobody ELSE lock[l]]
    /\ window' = [window EXCEPT ![p] = 0]
    /\ snapshot' = [snapshot EXCEPT ![p] = {}]
    /\ Go(p, "idle")
    /\ UNCHANGED <<now, tables, arrived>>

-----------------------------------------------------------------------------
Step(p) ==
    \/ CompactReadState(p) \/ CompactClaim(p)
    \/ RotateLock(p) \/ RotateReadState(p) \/ RotateSwap(p)
    \/ CompactRead(p) \/ WriteSummary(p) \/ SummariesDone(p) \/ CloseBatch(p)
    \/ UnlockBatch(p)
    \/ EnsureBucket(p) \/ EnsureInsert(p)

Call(p) ==
    \/ \E w \in Windows : CompactLock(p, w)
    \/ RotateFind(p)
    \/ EnsureFind(p)

BatchNext ==
    \/ AdvanceClock
    \/ \E e \in Events, w \in Windows : InsertRawEvent(e, w)
    \/ \E p \in Workers : Call(p) \/ Step(p) \/ Throw(p) \/ UnlockFails(p) \/ Crash(p)

BatchSpec == BatchInit /\ [][BatchNext]_batchVars

\* A call that was made goes on: the event loop runs and the database answers.
BatchFairness == \A p \in Workers : WF_batchVars(Step(p))

-----------------------------------------------------------------------------
(* Properties. *)

CompactsWindow(p, w) == pc[p] \in Compacting /\ window[p] = w

\* batchCompactor.ts, "serialises with rotateBatch": a worker past the claim
\* holds the batch's lock and the batch is COMPACTING, so no other worker
\* compacts it, even when two batches hash to one lock.
CompactionIsExclusive ==
    \A p \in Workers, w \in Windows :
        CompactsWindow(p, w) =>
            /\ lock[LockOf[w]] = p
            /\ batch[w] = "COMPACTING"
            /\ \A q \in Workers \ {p} : ~CompactsWindow(q, w)

\* doCompact and the claim before it: a CLOSED batch's summaries hold every
\* event that arrived while the batch was OPEN (no matter which worker closed
\* it or failed before), and only events of the window, under their own metric.
ClosedBatchIsSummarised ==
    \A w \in Windows :
        /\ batch[w] = "CLOSED" => arrived[w] \subseteq UNION {summary[w][m] : m \in Metrics}
        /\ \A m \in Metrics : summary[w][m] \subseteq {e \in raw[w] : MetricOf[e] = m}

\* No path reopens a CLOSED batch or touches its summaries: not a second
\* compaction, a rotation that meets its row, nor ensureOpenBatch's INSERT.
ClosedIsFinal ==
    [][\A w \in Windows :
          batch[w] = "CLOSED" => batch'[w] = "CLOSED" /\ summary'[w] = summary[w]]_batchVars

\* compactBatch skips a COMPACTING batch and rotateBatch never finds it: a batch
\* that stays COMPACTING with no worker on it was abandoned by a failure.
AbandonedOnlyByFailure ==
    \A w \in Windows :
        batch[w] = "COMPACTING" /\ w \notin failed => \E p \in Workers : CompactsWindow(p, w)

\* batchCompactor.ts: a batch that is CLOSED was compacted once and for all, and
\* one that is COMPACTING is in somebody's hands.
SummariesHold == [](ClosedBatchIsSummarised /\ AbandonedOnlyByFailure) /\ ClosedIsFinal

\* The finally blocks: whatever fails under it, a lock is given back, unless the
\* query that gives it back is what fails. Then its session keeps it, in the
\* pool, and no other worker is granted it while that session lives.
LocksAreReleased ==
    \A p \in Workers : []<>(\A l \in DOMAIN lock \ kept : lock[l] # p)

\* ensureOpenBatch, "Ensure an OPEN batch exists for the device": the row of the
\* batch it returns is OPEN when it returns.
EnsuredBatchIsOpen ==
    [][\A p \in Workers : EnsureInsert(p) => batch'[window[p]] = "OPEN"]_batchVars
=============================================================================
