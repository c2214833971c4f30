---------------------------- MODULE BillingCycle ----------------------------
(***************************************************************************)
(* Finalization of billing cycles (src/billing): finalizeBillingCycle run  *)
(* by the event path and by the scheduler's tick on one table of cycles.   *)
(* Every await of the code is a step boundary; a call can die at any of    *)
(* them (the process crashes, or the query or the computation rejects).    *)
(*                                                                         *)
(* Cycle rows are created outside the repository (the table's defaults are *)
(* OPEN and lock_version 1); no code writes SETTLED.                       *)
(***************************************************************************)
EXTENDS Naturals

CONSTANTS
    Cycles,         \* billing cycle ids
    EventCallers,   \* calls of the event path (one in flight per element)
    Ticks,          \* runs of the scheduler's onTick that could be in flight
    Keys,           \* stable idempotency keys a caller may supply
    FreshKey,       \* "no key supplied": uuidv7() mints one never seen before
    NoCycle

ASSUME BillingAssumption ==
    /\ EventCallers \cap Ticks = {}
    /\ FreshKey \notin Keys
    /\ NoCycle \notin Cycles

Callers == EventCallers \cup Ticks

VARIABLES
    state,      \* state[c]: the row's state, "ABSENT" when there is no row
    lockVersion,\* lockVersion[c]: the row's lock_version
    log,        \* log[k]: the cycle stable key k was recorded for, or NoCycle
    pc,         \* pc[p]: where call p stands
    target,     \* target[p]: the cycle call p is about
    key,        \* key[p]: the key call p uses
    version,    \* version[p]: the lockVersion call p read
    result,     \* what the step just taken returned to its caller, or NoResult
    timer,      \* the scheduler's interval is armed
    running,    \* the scheduler's running flag
    computed,   \* history: how often the computation was invoked for c
    disturbed   \* history: cycles one of whose calls died or replayed a key

cycleVars == <<state, lockVersion>>
callVars  == <<pc, target, key, version, result>>
schedVars == <<timer, running>>
histVars  == <<computed, disturbed>>
vars == <<cycleVars, log, callVars, schedVars, histVars>>

CycleStates == {"OPEN", "FINALIZING", "FINALIZED", "SETTLED"}
InFlight == {"read", "claim", "reread", "record", "compute", "finish"}
Outcomes == {"finalized", "not_found", "not_open", "lost_race",
             "duplicate_replay", "threw"}
NoResult == [outcome |-> "none", cycle |-> NoCycle, key |-> FreshKey, state |-> "none"]
Results == [outcome : Outcomes, cycle : Cycles, key : Keys \cup {FreshKey},
            state : CycleStates \cup {"none"}]

\* Legal successor states.
ValidTransitions ==
    [s \in CycleStates |->
        CASE s = "OPEN"       -> {"FINALIZING"}
          [] s = "FINALIZING" -> {"FINALIZED"}
          [] s = "FINALIZED"  -> {"SETTLED"}
          [] s = "SETTLED"    -> {}]

AssertTransition(from, to) == to \in ValidTransitions[from]

TypeOK ==
    /\ state \in [Cycles -> CycleStates \cup {"ABSENT"}]
    /\ lockVersion \in [Cycles -> Nat]
    /\ log \in [Keys -> Cycles \cup {NoCycle}]
    /\ pc \in [Callers -> InFlight \cup {"idle"}]
    /\ target \in [Callers -> Cycles \cup {NoCycle}]
    /\ \A p \in Callers : pc[p] \in InFlight => target[p] \in Cycles
    /\ key \in [Callers -> Keys \cup {FreshKey}]
    /\ version \in [Callers -> Nat]
    /\ result \in Results \cup {NoResult}
    /\ timer \in BOOLEAN
    /\ running \in BOOLEAN
    /\ computed \in [Cycles -> Nat]
    /\ disturbed \in SUBSET Cycles

Init ==
    /\ state \in [Cycles -> {"ABSENT", "OPEN"}]
    /\ lockVersion = [c \in Cycles |-> 1]
    /\ log = [k \in Keys |-> NoCycle]
    /\ pc = [p \in Callers |-> "idle"]
    /\ target = [p \in Callers |-> NoCycle]
    /\ key = [p \in Callers |-> FreshKey]
    /\ version = [p \in Callers |-> 0]
    /\ result = NoResult
    /\ timer = FALSE
    /\ running = FALSE
    /\ computed = [c \in Cycles |-> 0]
    /\ disturbed = {}

-----------------------------------------------------------------------------
(* The store. *)

\* Mutant: UPDATE ... WHERE id = $2, without the optimistic guard.
MatchesUnguarded(c, from, v) == TRUE

\* Does the WHERE clause of the guarded UPDATE find the row?
Matches(c, from, v) == state[c] = from /\ lockVersion[c] = v

ApplyTransition(c, to) ==
    /\ state' = [state EXCEPT ![c] = to]
    /\ lockVersion' = [lockVersion EXCEPT ![c] = @ + 1]

-----------------------------------------------------------------------------
(* One call of finalizeBillingCycle. *)

\* Mutant: running is reset after await onTick(), not in a finally.
EndsTickUnlessThrown(p, o) == p \in Ticks /\ o # "threw"

\* A call made by a tick, however it ends, lets go of the running flag.
EndsTick(p, o) == p \in Ticks

Return(p, o, s) ==
    /\ result' = [outcome |-> o, cycle |-> target[p], key |-> key[p], state |-> s]
    /\ pc' = [pc EXCEPT ![p] = "idle"]
    /\ target' = [target EXCEPT ![p] = NoCycle]
    /\ key' = [key EXCEPT ![p] = FreshKey]
    /\ version' = [version EXCEPT ![p] = 0]
    /\ running' = (running /\ ~EndsTick(p, o))
    /\ UNCHANGED timer

GoTo(p, where) ==
    /\ pc' = [pc EXCEPT ![p] = where]
    /\ result' = NoResult
    /\ UNCHANGED <<target, key, schedVars>>

Enter(p, c, k) ==
    /\ pc[p] = "idle"
    /\ pc' = [pc EXCEPT ![p] = "read"]
    /\ target' = [target EXCEPT ![p] = c]
    /\ key' = [key EXCEPT ![p] = k]
    /\ result' = NoResult
    /\ UNCHANGED <<version, cycleVars, log, histVars>>

\* Mutant: no test for a missing row.
NotFoundNever(c) == FALSE

NotFound(c) == state[c] = "ABSENT"

ReadCycle(p) ==
    LET c == target[p] IN
    /\ pc[p] = "read"
    /\ \/ /\ NotFound(c)
          /\ Return(p, "not_found", "none")
       \/ /\ ~NotFound(c)
          /\ state[c] # "OPEN"
          /\ Return(p, "not_open", state[c])
       \/ /\ state[c] = "OPEN"
          /\ version' = [version EXCEPT ![p] = lockVersion[c]]
          /\ GoTo(p, "claim")
    /\ UNCHANGED <<cycleVars, log, histVars>>

ClaimCycle(p) ==
    LET c == target[p] IN
    /\ pc[p] = "claim"
    /\ AssertTransition("OPEN", "FINALIZING")
    /\ IF Matches(c, "OPEN", version[p])
       THEN ApplyTransition(c, "FINALIZING") /\ GoTo(p, "record")
       ELSE UNCHANGED cycleVars /\ GoTo(p, "reread")
    /\ UNCHANGED <<version, log, histVars>>

StateToldLoser(p) == state[target[p]]

ReReadCycle(p) ==
    /\ pc[p] = "reread"
    /\ Return(p, "lost_race", StateToldLoser(p))
    /\ UNCHANGED <<cycleVars, log, histVars>>

\* INSERT ... ON CONFLICT DO NOTHING, then the computation is invoked.
RecordFinalization(p) ==
    LET k == key[p]
        fresh == k \in Keys => log[k] = NoCycle IN
    /\ pc[p] = "record"
    /\ IF fresh
       THEN /\ log' = IF k \in Keys THEN [log EXCEPT ![k] = target[p]] ELSE log
            /\ computed' = [computed EXCEPT ![target[p]] = @ + 1]
            /\ GoTo(p, "compute")
            /\ UNCHANGED <<version, disturbed>>
       ELSE /\ Return(p, "duplicate_replay", "FINALIZING")
            /\ disturbed' = disturbed \cup {target[p]}
            /\ UNCHANGED <<log, computed>>
    /\ UNCHANGED cycleVars

ComputeReturns(p) ==
    /\ pc[p] = "compute"
    /\ GoTo(p, "finish")
    /\ UNCHANGED <<cycleVars, log, version, histVars>>

\* Mutant: the version read at the start.
FinishVersionStale(p) == version[p]

\* "We won the CAS above, so lockVersion advanced by 1."
FinishVersion(p) == version[p] + 1

\* The result of the second guarded UPDATE is not looked at.
FinishCycle(p) ==
    LET c == target[p] IN
    /\ pc[p] = "finish"
    /\ AssertTransition("FINALIZING", "FINALIZED")
    /\ IF Matches(c, "FINALIZING", FinishVersion(p))
       THEN ApplyTransition(c, "FINALIZED")
       ELSE UNCHANGED cycleVars
    /\ Return(p, "finalized", "FINALIZED")
    /\ UNCHANGED <<log, histVars>>

\* A query or the computation rejects, or the process dies between two awaits.
Die(p) ==
    /\ pc[p] \in InFlight
    /\ Return(p, "threw", "none")
    /\ disturbed' = disturbed \cup {target[p]}
    /\ UNCHANGED <<cycleVars, log, computed>>

-----------------------------------------------------------------------------
(* Who calls. *)

EventCall(p, c, k) ==
    /\ p \in EventCallers
    /\ Enter(p, c, k)
    /\ UNCHANGED schedVars

\* A tick that fires while the previous one runs is skipped.
Tick(p, c, k) ==
    /\ p \in Ticks
    /\ timer
    /\ ~running
    /\ running' = TRUE
    /\ Enter(p, c, k)
    /\ UNCHANGED timer

StartScheduler ==
    /\ ~timer
    /\ timer' = TRUE
    /\ result' = NoResult
    /\ UNCHANGED <<cycleVars, log, pc, target, key, version, running, histVars>>

\* An in-flight tick is not cancelled.
StopScheduler ==
    /\ timer
    /\ timer' = FALSE
    /\ result' = NoResult
    /\ UNCHANGED <<cycleVars, log, pc, target, key, version, running, histVars>>

Step(p) ==
    \/ ReadCycle(p)
    \/ ClaimCycle(p)
    \/ ReReadCycle(p)
    \/ RecordFinalization(p)
    \/ ComputeReturns(p)
    \/ FinishCycle(p)

Next ==
    \/ \E p \in Callers, c \in Cycles, k \in Keys \cup {FreshKey} :
          EventCall(p, c, k) \/ Tick(p, c, k)
    \/ \E p \in Callers : Step(p) \/ Die(p)
    \/ StartScheduler
    \/ StopScheduler

Spec == Init /\ [][Next]_vars

\* A started call runs on (the event loop and the database answer); a timer
\* that stays armed keeps firing and the onTick it runs visits every cycle.
Fairness ==
    /\ \A p \in Callers : WF_vars(Step(p))
    /\ \A c \in Cycles : SF_vars(\E p \in Ticks : Tick(p, c, FreshKey))

FairSpec == Spec /\ Fairness

-----------------------------------------------------------------------------
(* Properties. *)

Owns(p, c) == pc[p] \in {"record", "compute", "finish"} /\ target[p] = c

\* finalizer.ts: only one racing caller wins the claim, and nothing else writes
\* the row until it is done.  At most one call is past the claim of a cycle, it
\* still has the row exactly as it left it (so the second guarded UPDATE, whose
\* result the code ignores, cannot be lost), the computation ran iff it is past
\* the idempotency gate, and a finalized cycle was computed exactly once.
OwnerHoldsCycle ==
    /\ \A p, q \in Callers, c \in Cycles : Owns(p, c) /\ Owns(q, c) => p = q
    /\ \A p \in Callers, c \in Cycles :
          Owns(p, c) =>
            /\ state[c] = "FINALIZING" /\ lockVersion[c] = version[p] + 1
            /\ computed[c] = IF pc[p] = "record" THEN 0 ELSE 1
    /\ \A c \in Cycles :
          /\ state[c] \in {"ABSENT", "OPEN"} => computed[c] = 0
          /\ state[c] = "FINALIZED" => computed[c] = 1

\* finalizer.ts, the outcome of a call: "finalized" is only told of a row that
\* is finalized, and a call that did not finalize never reports OPEN (whoever
\* loses the race already sees the winner's claim).
OutcomeIsTruthful ==
    /\ result.outcome = "finalized" => state[result.cycle] = "FINALIZED"
    /\ result.state # "OPEN"

\* finalizer.ts, "makes a replay of the same logical finalization a no-op":
\* a replay for the same cycle is stopped before the claim, so the gate itself
\* only ever turns away a key that was recorded for ANOTHER cycle.
GateStopsForeignKeysOnly ==
    result.outcome = "duplicate_replay" => log[result.key] \in Cycles \ {result.cycle}

\* finalizer.ts: nobody picks a FINALIZING cycle up again ("not_open"), so a
\* cycle is left there only when a call that claimed it died or replayed a key.
StrandedOnlyByFault ==
    \A c \in Cycles :
        state[c] = "FINALIZING" /\ c \notin disturbed => \E p \in Callers : Owns(p, c)

\* finalizer.ts: what callers, rows and answers say of a cycle agrees.
ClaimsHold == OwnerHoldsCycle /\ OutcomeIsTruthful /\ StrandedOnlyByFault

Phase ==
    [c \in Cycles |->
        CASE state[c] = "ABSENT"     -> "absent"
          [] state[c] = "OPEN"       -> "pending"
          [] state[c] = "FINALIZING" -> "claimed"
          [] OTHER                   -> "done"]

Once == INSTANCE ExactlyOnce WITH Jobs <- Cycles, phase <- Phase, performed <- computed

\* finalizer.ts: "it executes at most once per cycle", and before FINALIZED.
ComputesExactlyOnce == Once!OnceSpec

\* scheduler.ts: while the timer stays armed every OPEN cycle is finalized,
\* unless a call for it failed: a tick that throws never blocks later ticks.
SchedulerFinalizesAll ==
    <>[]timer =>
        \A c \in Cycles :
            state[c] = "OPEN" ~> (state[c] = "FINALIZED" \/ c \in disturbed)
=============================================================================
