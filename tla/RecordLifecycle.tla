--------------------------- MODULE RecordLifecycle ---------------------------
(***************************************************************************)
(* IngestionStateMachine (src/core/ingestion/state_machine.ts) and the     *)
(* BillingStateMachine that extends it (src/core/blockchain/               *)
(* balance_manager.ts): one record. In GAP_DETECTED a timer runs that asks *)
(* for a resync of the device. Callers may try any transition.             *)
(***************************************************************************)
EXTENDS Naturals

CONSTANTS
    ResyncAfter,    \* AUTO_RESYNC_TIMEOUT in ticks
    MaxGaps,        \* bound: gaps of the record
    MaxHour         \* bound of the clock

ASSUME RecordAssumption == ResyncAfter \in Nat \ {0} /\ MaxGaps \in Nat \ {0} /\ MaxHour \in Nat \ {0}

VARIABLES
    hour,       \* the clock
    record,     \* state of the machine
    dueAt,      \* when resyncTimer fires; 0 without one
    disposed,   \* dispose() was called in this gap
    gap,        \* history: number of the last gap, its start
    asked       \* history: asked[g]: resyncs asked for in the gap g; 0: outside of one

recordVars == <<hour, record, dueAt, disposed, gap, asked>>

IngestionState == {"PENDING", "TENTATIVE", "SETTLED", "ROLLED_BACK", "RECONCILING", "FAILED", "GAP_DETECTED"}

RecordTypeOK ==
    /\ hour \in 1..MaxHour /\ record \in IngestionState
    /\ dueAt \in 0..MaxHour + ResyncAfter /\ disposed \in BOOLEAN
    /\ gap \in [number : 0..MaxGaps, since : 1..MaxHour]
    /\ asked \in [0..MaxGaps -> Nat]

Allowed ==
    [PENDING      |-> {"TENTATIVE", "FAILED", "GAP_DETECTED"},
     TENTATIVE    |-> {"SETTLED", "ROLLED_BACK", "FAILED", "GAP_DETECTED"},
     SETTLED      |-> {},
     ROLLED_BACK  |-> {"RECONCILING"},
     RECONCILING  |-> {"PENDING", "FAILED"},
     FAILED       |-> {},
     GAP_DETECTED |-> {"PENDING", "FAILED"}]

\* The constructor, in any state; GAP_DETECTED starts the timer.
RecordInit ==
    /\ hour = 1 /\ disposed = FALSE
    /\ record \in IngestionState
    /\ dueAt = IF record = "GAP_DETECTED" THEN 1 + ResyncAfter ELSE 0
    /\ gap = [number |-> IF record = "GAP_DETECTED" THEN 1 ELSE 0, since |-> 1]
    /\ asked = [g \in 0..MaxGaps |-> 0]

-----------------------------------------------------------------------------
\* Mutant: the timer is cleared only where one is started.
NotCleared == dueAt

Cleared == 0

\* transition(): refused, it changes nothing.
Transition(to) ==
    /\ to \in Allowed[record]
    /\ to = "GAP_DETECTED" => gap.number < MaxGaps
    /\ record' = to
    /\ IF to = "GAP_DETECTED"
       THEN /\ dueAt' = hour + ResyncAfter
            /\ gap' = [number |-> gap.number + 1, since |-> hour]
            /\ disposed' = FALSE
       ELSE /\ dueAt' = IF record = "GAP_DETECTED" THEN Cleared ELSE dueAt
            /\ UNCHANGED <<gap, disposed>>
    /\ UNCHANGED <<hour, asked>>

\* handleOnChainRejection: rolled back and reconciling at once.
OnChainRejection ==
    /\ record = "TENTATIVE"
    /\ record' = "RECONCILING"
    /\ UNCHANGED <<hour, dueAt, disposed, gap, asked>>

DisposeRecord ==
    /\ dueAt' = 0 /\ disposed' = TRUE
    /\ UNCHANGED <<hour, record, gap, asked>>

TriggerAutoResync ==
    /\ dueAt # 0 /\ dueAt <= hour
    /\ dueAt' = 0
    /\ asked' = [asked EXCEPT ![IF record = "GAP_DETECTED" THEN gap.number ELSE 0] = @ + 1]
    /\ UNCHANGED <<hour, record, disposed, gap>>

HourPasses ==
    /\ hour < MaxHour
    /\ hour' = hour + 1
    /\ UNCHANGED <<record, dueAt, disposed, gap, asked>>

RecordNext ==
    \/ \E to \in IngestionState : Transition(to)
    \/ OnChainRejection \/ DisposeRecord \/ TriggerAutoResync \/ HourPasses

RecordSpec == RecordInit /\ [][RecordNext]_recordVars

-----------------------------------------------------------------------------
(* Properties. *)

\* state_machine.ts: a gap asks for one resync at most, none before it is
\* ResyncAfter old, none once it is left, and in a gap that has not asked the
\* timer runs, unless it was disposed of; however gaps follow one another.
ResyncAnswersItsGap ==
    /\ asked[0] = 0
    /\ \A g \in 0..MaxGaps : asked[g] <= 1
    /\ record = "GAP_DETECTED" =>
          /\ asked[gap.number] = 1 => gap.since + ResyncAfter <= hour
          /\ asked[gap.number] = 0 => dueAt = gap.since + ResyncAfter \/ disposed
=============================================================================
