----------------------------- MODULE LedgerSync -----------------------------
(***************************************************************************)
(* LedgerEventSynchronizer (src/core/blockchain/event_listener.ts): a      *)
(* timer polls the RPC server for the latest ledger and catchUp processes  *)
(* the ledgers after lastSyncedLedger in batches of concurrent fetches,    *)
(* skipping a ledger that fails MAX_RETRIES times and checkpointing its    *)
(* progress in the database. inProgress is set only after the poll's own   *)
(* request returned, so polls overlap. The process may die and restart.    *)
(***************************************************************************)
EXTENDS Naturals, FiniteSets

CONSTANTS
    Polls,              \* slots for calls of pollLatestLedger under way
    StartingLedger,     \* startingLedger
    Concurrency,        \* concurrency
    CheckpointInterval, \* CHECKPOINT_INTERVAL
    MaxGap,             \* MAX_GAP
    MaxLedger,          \* bound: ledgers the chain closes
    MaxCrashes          \* bound: restarts of the process

ASSUME SyncAssumption ==
    /\ StartingLedger \in Nat
    /\ Concurrency \in Nat \ {0}
    /\ CheckpointInterval \in Nat \ {0}
    /\ MaxGap \in Nat \ {0}
    /\ MaxLedger \in Nat /\ StartingLedger <= MaxLedger
    /\ MaxCrashes \in Nat

VARIABLES
    chain,      \* the latest ledger the network has closed
    synced,     \* lastSyncedLedger
    inProgress, \* inProgress
    stored,     \* ledgerSyncState.lastSyncedLedger, startingLedger for no row
    pc,         \* pc[p]: where poll p stands
    start,      \* start[p]: batchStart
    target,     \* target[p]: what the poll read, then cappedTo
    todo,       \* todo[p]: ledgers of the batch not yet processed or skipped
    handled,    \* history: ledgers processed, or skipped (errorCount)
    crashes,
    clean       \* history: since the start no checkpoint failed and no two
                \* catch-ups overlapped

pollVars == <<pc, start, target, todo>>
vars == <<chain, synced, inProgress, stored, pollVars, handled,
          crashes, clean>>

Ledgers == (StartingLedger + 1)..MaxLedger

CatchingUp == {p \in Polls : pc[p] \in {"batch", "checkpoint"}}

TypeOK ==
    /\ {chain, synced, stored} \subseteq StartingLedger..MaxLedger
    /\ inProgress \in BOOLEAN /\ clean \in BOOLEAN
    /\ pc \in [Polls -> {"idle", "latest", "answer", "batch", "checkpoint"}]
    /\ start \in [Polls -> 0..MaxLedger]
    /\ target \in [Polls -> 0..MaxLedger]
    /\ todo \in [Polls -> SUBSET Ledgers]
    /\ handled \subseteq Ledgers
    /\ crashes \in 0..MaxCrashes

Init ==
    /\ chain = StartingLedger /\ stored = StartingLedger
    /\ synced = stored
    /\ inProgress = FALSE
    /\ pc = [p \in Polls |-> "idle"]
    /\ start = [p \in Polls |-> 0]
    /\ target = [p \in Polls |-> 0]
    /\ todo = [p \in Polls |-> {}]
    /\ handled = {}
    /\ crashes = 0 /\ clean = TRUE

LedgerCloses ==
    /\ chain < MaxLedger
    /\ chain' = chain + 1
    /\ UNCHANGED <<synced, inProgress, stored, pollVars, handled,
                   crashes, clean>>

-----------------------------------------------------------------------------
(* pollLatestLedger, and the start of catchUp. *)

\* The poll of slot p is over.
Idle(p) ==
    /\ pc' = [pc EXCEPT ![p] = "idle"]
    /\ start' = [start EXCEPT ![p] = 0]
    /\ target' = [target EXCEPT ![p] = 0]

\* The interval timer fires; it does not wait for earlier polls.
Poll(p) ==
    /\ pc[p] = "idle"
    /\ ~inProgress
    /\ pc' = [pc EXCEPT ![p] = "latest"]
    /\ UNCHANGED <<chain, synced, inProgress, stored, start, target, todo,
                   handled, crashes, clean>>

\* The RPC server reads its latest ledger; the answer is on its way.
ReadLatest(p) ==
    /\ pc[p] = "latest"
    /\ pc' = [pc EXCEPT ![p] = "answer"]
    /\ target' = [target EXCEPT ![p] = chain]
    /\ UNCHANGED <<chain, synced, inProgress, stored, start, todo, handled, crashes, clean>>

PollError(p) ==
    /\ pc[p] = "latest"
    /\ Idle(p)
    /\ UNCHANGED <<chain, synced, inProgress, stored, todo, handled,
                   crashes, clean>>

NothingNew(p) ==
    /\ pc[p] = "answer"
    /\ target[p] <= synced
    /\ Idle(p)
    /\ UNCHANGED <<chain, synced, inProgress, stored, todo, handled,
                   crashes, clean>>

Lesser(m, n) == IF m <= n THEN m ELSE n

\* Mutant: a batch is not cut off at the last ledger.
BatchEndUncut(first, last) == first + Concurrency - 1

BatchEnd(first, last) == Lesser(first + Concurrency - 1, last)

Batch(first, last) == first..BatchEnd(first, last)

StartCatchUp(p) ==
    /\ pc[p] = "answer"
    /\ target[p] > synced
    /\ LET cappedTo == Lesser(target[p], synced + MaxGap)
       IN /\ target' = [target EXCEPT ![p] = cappedTo]
          /\ start' = [start EXCEPT ![p] = synced + 1]
          /\ todo' = [todo EXCEPT ![p] = Batch(synced + 1, cappedTo)]
    /\ inProgress' = TRUE
    /\ pc' = [pc EXCEPT ![p] = "batch"]
    /\ clean' = (clean /\ CatchingUp = {})
    /\ UNCHANGED <<chain, synced, stored, handled, crashes>>

-----------------------------------------------------------------------------
(* A batch: concurrent fetches, each retried up to MAX_RETRIES times. *)

\* One attempt succeeds, or the last one fails and the ledger is skipped.
ProcessLedger(p) ==
    \E n \in todo[p] :
        /\ handled' = handled \cup {n}
        /\ todo' = [todo EXCEPT ![p] = @ \ {n}]
        /\ UNCHANGED <<chain, synced, inProgress, stored, pc, start, target,
                       crashes, clean>>

\* await Promise.all(...)
Settled(p) == todo[p] = {}

\* Mutant: a batch ends on a boundary, or none is crossed.
CrossedBoundaryExactly(first, end) == end % CheckpointInterval = 0

CrossedBoundary(first, end) ==
    end \div CheckpointInterval > (first - 1) \div CheckpointInterval

\* Promise.all has settled: on to the checkpoint, or to the next batch.
EndBatch(p) ==
    /\ pc[p] = "batch"
    /\ Settled(p)
    /\ LET end == BatchEnd(start[p], target[p])
       IN /\ synced' = end
          /\ IF CrossedBoundary(start[p], end) \/ end = target[p]
             THEN /\ pc' = [pc EXCEPT ![p] = "checkpoint"]
                  /\ UNCHANGED <<start, todo>>
             ELSE /\ start' = [start EXCEPT ![p] = end + 1]
                  /\ todo' = [todo EXCEPT ![p] = Batch(end + 1, target[p])]
                  /\ UNCHANGED pc
    /\ UNCHANGED <<chain, inProgress, stored, target, handled,
                   crashes, clean>>

\* The upsert of the value synced had when the batch ended; then the next batch,
\* or catchUp returns.
Checkpoint(p) ==
    /\ pc[p] = "checkpoint"
    /\ LET end == BatchEnd(start[p], target[p])
       IN /\ stored' = end
          /\ IF end = target[p]
             THEN Idle(p) /\ inProgress' = FALSE /\ UNCHANGED todo
             ELSE /\ pc' = [pc EXCEPT ![p] = "batch"]
                  /\ start' = [start EXCEPT ![p] = end + 1]
                  /\ todo' = [todo EXCEPT ![p] = Batch(end + 1, target[p])]
                  /\ UNCHANGED <<target, inProgress>>
    /\ UNCHANGED <<chain, synced, handled, crashes, clean>>

\* Mutant: inProgress = false after the loop, not in a finally.
AfterThrowLeaveIt == inProgress

AfterThrow == FALSE

\* The upsert rejects: catchUp throws, the poll logs it.
CheckpointFails(p) ==
    /\ pc[p] = "checkpoint"
    /\ Idle(p)
    /\ inProgress' = AfterThrow
    /\ clean' = FALSE
    /\ UNCHANGED <<chain, synced, stored, todo, handled, crashes>>

Restart ==
    /\ crashes < MaxCrashes
    /\ crashes' = crashes + 1
    /\ synced' = stored
    /\ inProgress' = FALSE
    /\ pc' = [p \in Polls |-> "idle"]
    /\ start' = [p \in Polls |-> 0]
    /\ target' = [p \in Polls |-> 0]
    /\ todo' = [p \in Polls |-> {}]
    /\ clean' = TRUE
    /\ UNCHANGED <<chain, stored, handled>>

-----------------------------------------------------------------------------
Next ==
    \/ LedgerCloses
    \/ \E p \in Polls :
          \/ Poll(p) \/ ReadLatest(p) \/ PollError(p) \/ NothingNew(p)
          \/ StartCatchUp(p) \/ ProcessLedger(p)
          \/ EndBatch(p) \/ Checkpoint(p) \/ CheckpointFails(p)
    \/ Restart

\* The timer keeps firing, every request is answered or fails, and the RPC
\* server does not fail every single poll.
Fairness ==
    \A p \in Polls :
        /\ WF_vars(Poll(p))
        /\ WF_vars(ReadLatest(p) \/ PollError(p)) /\ SF_vars(ReadLatest(p))
        /\ WF_vars(NothingNew(p) \/ StartCatchUp(p))
        /\ WF_vars(ProcessLedger(p))
        /\ WF_vars(EndBatch(p))
        /\ WF_vars(Checkpoint(p) \/ CheckpointFails(p))

Spec == Init /\ [][Next]_vars /\ Fairness

-----------------------------------------------------------------------------
(* Properties. *)

Covered(n) == ((StartingLedger + 1)..n) \subseteq handled

\* "lastSyncedLedger: most recent sequence the synchronizer has persisted": no
\* ledger up to it, or up to the checkpoint a restart resumes from, is missed,
\* however polls overlap and checkpoints fail.
NothingMissedBehindSync == Covered(synced) /\ Covered(stored)

\* While catch-ups do not overlap and checkpoints succeed, a restart repeats at
\* most the ledgers since the last interval boundary, the batch being
\* checkpointed, and nothing between catch-ups.
RestartRepeatsLittle ==
    clean => /\ stored <= synced
             /\ (\A p \in Polls : pc[p] # "checkpoint") =>
                    synced \div CheckpointInterval = stored \div CheckpointInterval
             /\ CatchingUp = {} => stored = synced

\* event_listener.ts: what synced and stored say is true, and no worse than old.
SyncIsSound == NothingMissedBehindSync /\ RestartRepeatsLittle

\* Every closed ledger is processed, or given up after MAX_RETRIES failures:
\* neither a throwing poll nor an overlap stops the synchronizer for good.
EveryLedgerIsHandled ==
    \A n \in Ledgers : chain >= n ~> n \in handled

\* Test "pollLatestLedger skips if catchUp is already in progress".
OneCatchUpAtATime == Cardinality(CatchingUp) <= 1
=============================================================================
