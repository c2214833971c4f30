------------------------- MODULE BillingCycleProofs -------------------------
(***************************************************************************)
(* Finalization is safe for any number of cycles, callers, ticks and keys. *)
(* The inductive invariant is OwnerHoldsCycle with what a call remembers:  *)
(* a call past its read saw a row that was OPEN, so the row exists and, as *)
(* long as it is OPEN, still has the version the call read.                *)
(***************************************************************************)
EXTENDS BillingCycle, TLAPS

SawOpenRow ==
    \A p \in Callers :
        /\ pc[p] \in InFlight \ {"read"} => state[target[p]] # "ABSENT"
        /\ pc[p] = "claim" /\ state[target[p]] = "OPEN"
              => lockVersion[target[p]] = version[p]
        /\ pc[p] = "reread" => state[target[p]] # "OPEN"

\* A recorded key belongs to a cycle whose computation was invoked.
LoggedWasComputed ==
    \A k \in Keys : log[k] \in Cycles => computed[log[k]] = 1

IInv ==
    /\ TypeOK
    /\ SawOpenRow
    /\ LoggedWasComputed
    /\ OwnerHoldsCycle
    /\ OutcomeIsTruthful
    /\ GateStopsForeignKeysOnly
    /\ StrandedOnlyByFault

LEMMA InitIInv == ASSUME Init PROVE IInv
<1> USE BillingAssumption DEF Init
<1>1. TypeOK
  BY DEF TypeOK, NoResult, InFlight, CycleStates
<1>2. SawOpenRow /\ LoggedWasComputed
  BY DEF SawOpenRow, LoggedWasComputed, InFlight
<1>3. OwnerHoldsCycle
  BY DEF OwnerHoldsCycle, Owns
<1>4. OutcomeIsTruthful /\ GateStopsForeignKeysOnly /\ StrandedOnlyByFault
  BY DEF OutcomeIsTruthful, GateStopsForeignKeysOnly, StrandedOnlyByFault, NoResult
<1> QED BY <1>1, <1>2, <1>3, <1>4 DEF IInv

\* What a call writes when it returns is well typed.
LEMMA ReturnTypes ==
    ASSUME TypeOK, NEW p \in Callers, pc[p] \in InFlight,
           NEW o \in Outcomes, NEW s \in CycleStates \cup {"none"}, Return(p, o, s)
    PROVE  /\ pc' \in [Callers -> InFlight \cup {"idle"}]
           /\ target' \in [Callers -> Cycles \cup {NoCycle}]
           /\ \A q \in Callers : pc'[q] \in InFlight => target'[q] \in Cycles
           /\ key' \in [Callers -> Keys \cup {FreshKey}]
           /\ version' \in [Callers -> Nat]
           /\ result' \in Results \cup {NoResult}
           /\ timer' \in BOOLEAN
           /\ running' \in BOOLEAN
<1>1. running' \in BOOLEAN
  BY Zenon DEF Return
<1>2. result' \in Results
  BY DEF TypeOK, Return, Results, InFlight
<1> QED BY <1>1, <1>2 DEF TypeOK, Return, InFlight

LEMMA EventCallIInv ==
    ASSUME IInv, NEW p \in Callers, NEW c \in Cycles, NEW k \in Keys \cup {FreshKey}, EventCall(p, c, k)
    PROVE  IInv'
<1> USE BillingAssumption DEF IInv, EventCall, Enter, TypeOK, InFlight, CycleStates, NoResult,
                              cycleVars, histVars, schedVars
<1>1. TypeOK'
  BY DEF Results, Outcomes, SawOpenRow
<1>2. SawOpenRow'
  BY DEF SawOpenRow
<1>3. LoggedWasComputed'
  BY DEF LoggedWasComputed, OwnerHoldsCycle, Owns
<1>4. OwnerHoldsCycle'
  BY DEF OwnerHoldsCycle, Owns, SawOpenRow
<1>5. OutcomeIsTruthful'
  BY DEF OutcomeIsTruthful, SawOpenRow, OwnerHoldsCycle, Owns
<1>6. GateStopsForeignKeysOnly'
  BY DEF GateStopsForeignKeysOnly, LoggedWasComputed, OwnerHoldsCycle, Owns
<1>7. StrandedOnlyByFault'
  BY DEF StrandedOnlyByFault, Owns
<1> QED BY <1>1, <1>2, <1>3, <1>4, <1>5, <1>6, <1>7

LEMMA TickIInv ==
    ASSUME IInv, NEW p \in Callers, NEW c \in Cycles, NEW k \in Keys \cup {FreshKey}, Tick(p, c, k)
    PROVE  IInv'
<1> USE BillingAssumption DEF IInv, Tick, Enter, TypeOK, InFlight, CycleStates, NoResult,
                              cycleVars, histVars, schedVars
<1>1. TypeOK'
  BY DEF Results, Outcomes, SawOpenRow
<1>2. SawOpenRow'
  BY DEF SawOpenRow
<1>3. LoggedWasComputed'
  BY DEF LoggedWasComputed, OwnerHoldsCycle, Owns
<1>4. OwnerHoldsCycle'
  BY DEF OwnerHoldsCycle, Owns, SawOpenRow
<1>5. OutcomeIsTruthful'
  BY DEF OutcomeIsTruthful, SawOpenRow, OwnerHoldsCycle, Owns
<1>6. GateStopsForeignKeysOnly'
  BY DEF GateStopsForeignKeysOnly, LoggedWasComputed, OwnerHoldsCycle, Owns
<1>7. StrandedOnlyByFault'
  BY DEF StrandedOnlyByFault, Owns
<1> QED BY <1>1, <1>2, <1>3, <1>4, <1>5, <1>6, <1>7

LEMMA ReadCycleIInv ==
    ASSUME IInv, NEW p \in Callers, ReadCycle(p)
    PROVE  IInv'
<1> USE BillingAssumption DEF IInv, ReadCycle, Return, GoTo, NotFound, TypeOK, InFlight, CycleStates, NoResult,
                              cycleVars, histVars, schedVars
<1>1. TypeOK'
  <2> DEFINE c == target[p]
  <2>1. CASE state[c] = "ABSENT"
    BY <2>1, ReturnTypes, "not_found" \in Outcomes DEF Outcomes
  <2>2. CASE state[c] \notin {"ABSENT", "OPEN"}
    BY <2>2, ReturnTypes, "not_open" \in Outcomes DEF Outcomes
  <2>3. CASE state[c] = "OPEN"
    BY <2>3
  <2> QED BY <2>1, <2>2, <2>3
<1>2. SawOpenRow'
  BY DEF SawOpenRow
<1>3. LoggedWasComputed'
  BY DEF LoggedWasComputed, OwnerHoldsCycle, Owns
<1>4. OwnerHoldsCycle'
  BY DEF OwnerHoldsCycle, Owns, SawOpenRow
<1>5. OutcomeIsTruthful'
  BY DEF OutcomeIsTruthful, SawOpenRow, OwnerHoldsCycle, Owns
<1>6. GateStopsForeignKeysOnly'
  BY DEF GateStopsForeignKeysOnly, LoggedWasComputed, OwnerHoldsCycle, Owns
<1>7. StrandedOnlyByFault'
  BY DEF StrandedOnlyByFault, Owns
<1> QED BY <1>1, <1>2, <1>3, <1>4, <1>5, <1>6, <1>7

LEMMA ClaimCycleIInv ==
    ASSUME IInv, NEW p \in Callers, ClaimCycle(p)
    PROVE  IInv'
<1> USE BillingAssumption DEF IInv, ClaimCycle, Matches, ApplyTransition, GoTo, TypeOK, InFlight, CycleStates, NoResult,
                              cycleVars, histVars, schedVars
<1>1. TypeOK'
  BY DEF Results, Outcomes, SawOpenRow
<1>2. SawOpenRow'
  BY DEF SawOpenRow
<1>3. LoggedWasComputed'
  BY DEF LoggedWasComputed, OwnerHoldsCycle, Owns
<1>4. OwnerHoldsCycle'
  BY DEF OwnerHoldsCycle, Owns, SawOpenRow
<1>5. OutcomeIsTruthful'
  BY DEF OutcomeIsTruthful, SawOpenRow, OwnerHoldsCycle, Owns
<1>6. GateStopsForeignKeysOnly'
  BY DEF GateStopsForeignKeysOnly, LoggedWasComputed, OwnerHoldsCycle, Owns
<1>7. StrandedOnlyByFault'
  BY DEF StrandedOnlyByFault, Owns
<1> QED BY <1>1, <1>2, <1>3, <1>4, <1>5, <1>6, <1>7

LEMMA ReReadCycleIInv ==
    ASSUME IInv, NEW p \in Callers, ReReadCycle(p)
    PROVE  IInv'
<1> USE BillingAssumption DEF IInv, ReReadCycle, StateToldLoser, Return, TypeOK, InFlight, CycleStates, NoResult,
                              cycleVars, histVars, schedVars
<1>1. TypeOK'
  BY DEF Results, Outcomes, SawOpenRow
<1>2. SawOpenRow'
  BY DEF SawOpenRow
<1>3. LoggedWasComputed'
  BY DEF LoggedWasComputed, OwnerHoldsCycle, Owns
<1>4. OwnerHoldsCycle'
  BY DEF OwnerHoldsCycle, Owns, SawOpenRow
<1>5. OutcomeIsTruthful'
  BY DEF OutcomeIsTruthful, SawOpenRow, OwnerHoldsCycle, Owns
<1>6. GateStopsForeignKeysOnly'
  BY DEF GateStopsForeignKeysOnly, LoggedWasComputed, OwnerHoldsCycle, Owns
<1>7. StrandedOnlyByFault'
  BY DEF StrandedOnlyByFault, Owns
<1> QED BY <1>1, <1>2, <1>3, <1>4, <1>5, <1>6, <1>7

LEMMA RecordFinalizationIInv ==
    ASSUME IInv, NEW p \in Callers, RecordFinalization(p)
    PROVE  IInv'
<1> USE BillingAssumption DEF IInv, RecordFinalization, Return, GoTo, TypeOK, InFlight, CycleStates, NoResult,
                              cycleVars, histVars, schedVars
<1>1. TypeOK'
  <2>1. CASE key[p] \in Keys /\ log[key[p]] # NoCycle
    BY <2>1, ReturnTypes, "duplicate_replay" \in Outcomes DEF Outcomes
  <2>2. CASE ~(key[p] \in Keys /\ log[key[p]] # NoCycle)
    BY <2>2
  <2> QED BY <2>1, <2>2
<1>2. SawOpenRow'
  BY DEF SawOpenRow
<1>3. LoggedWasComputed'
  BY DEF LoggedWasComputed, OwnerHoldsCycle, Owns
<1>4. OwnerHoldsCycle'
  BY DEF OwnerHoldsCycle, Owns, SawOpenRow
<1>5. OutcomeIsTruthful'
  BY DEF OutcomeIsTruthful, SawOpenRow, OwnerHoldsCycle, Owns
<1>6. GateStopsForeignKeysOnly'
  BY DEF GateStopsForeignKeysOnly, LoggedWasComputed, OwnerHoldsCycle, Owns
<1>7. StrandedOnlyByFault'
  BY DEF StrandedOnlyByFault, Owns
<1> QED BY <1>1, <1>2, <1>3, <1>4, <1>5, <1>6, <1>7

LEMMA ComputeReturnsIInv ==
    ASSUME IInv, NEW p \in Callers, ComputeReturns(p)
    PROVE  IInv'
<1> USE BillingAssumption DEF IInv, ComputeReturns, GoTo, TypeOK, InFlight, CycleStates, NoResult,
                              cycleVars, histVars, schedVars
<1>1. TypeOK'
  BY DEF Results, Outcomes, SawOpenRow
<1>2. SawOpenRow'
  BY DEF SawOpenRow
<1>3. LoggedWasComputed'
  BY DEF LoggedWasComputed, OwnerHoldsCycle, Owns
<1>4. OwnerHoldsCycle'
  BY DEF OwnerHoldsCycle, Owns, SawOpenRow
<1>5. OutcomeIsTruthful'
  BY DEF OutcomeIsTruthful, SawOpenRow, OwnerHoldsCycle, Owns
<1>6. GateStopsForeignKeysOnly'
  BY DEF GateStopsForeignKeysOnly, LoggedWasComputed, OwnerHoldsCycle, Owns
<1>7. StrandedOnlyByFault'
  BY DEF StrandedOnlyByFault, Owns
<1> QED BY <1>1, <1>2, <1>3, <1>4, <1>5, <1>6, <1>7

LEMMA FinishCycleIInv ==
    ASSUME IInv, NEW p \in Callers, FinishCycle(p)
    PROVE  IInv'
<1> USE BillingAssumption DEF IInv, FinishCycle, Matches, FinishVersion, ApplyTransition, Return, TypeOK, InFlight, CycleStates, NoResult,
                              cycleVars, histVars, schedVars
<1>1. TypeOK'
  <2>1. "finalized" \in Outcomes /\ Return(p, "finalized", "FINALIZED")
    BY DEF Outcomes
  <2>2. /\ state' \in [Cycles -> CycleStates \cup {"ABSENT"}]
        /\ lockVersion' \in [Cycles -> Nat]
    OBVIOUS
  <2> QED BY <2>1, <2>2, ReturnTypes
<1>2. SawOpenRow'
  BY DEF SawOpenRow
<1>3. LoggedWasComputed'
  BY DEF LoggedWasComputed, OwnerHoldsCycle, Owns
<1>4. OwnerHoldsCycle'
  BY DEF OwnerHoldsCycle, Owns, SawOpenRow
<1>5. OutcomeIsTruthful'
  BY DEF OutcomeIsTruthful, SawOpenRow, OwnerHoldsCycle, Owns
<1>6. GateStopsForeignKeysOnly'
  BY DEF GateStopsForeignKeysOnly, LoggedWasComputed, OwnerHoldsCycle, Owns
<1>7. StrandedOnlyByFault'
  BY DEF StrandedOnlyByFault, OwnerHoldsCycle, Owns
<1> QED BY <1>1, <1>2, <1>3, <1>4, <1>5, <1>6, <1>7

LEMMA DieIInv ==
    ASSUME IInv, NEW p \in Callers, Die(p)
    PROVE  IInv'
<1> USE BillingAssumption DEF IInv, Die, Return, TypeOK, InFlight, CycleStates, NoResult,
                              cycleVars, histVars, schedVars
<1>1. TypeOK'
  BY DEF Results, Outcomes, SawOpenRow
<1>2. SawOpenRow'
  BY DEF SawOpenRow
<1>3. LoggedWasComputed'
  BY DEF LoggedWasComputed, OwnerHoldsCycle, Owns
<1>4. OwnerHoldsCycle'
  BY DEF OwnerHoldsCycle, Owns, SawOpenRow
<1>5. OutcomeIsTruthful'
  BY DEF OutcomeIsTruthful, SawOpenRow, OwnerHoldsCycle, Owns
<1>6. GateStopsForeignKeysOnly'
  BY DEF GateStopsForeignKeysOnly, LoggedWasComputed, OwnerHoldsCycle, Owns
<1>7. StrandedOnlyByFault'
  BY DEF StrandedOnlyByFault, Owns
<1> QED BY <1>1, <1>2, <1>3, <1>4, <1>5, <1>6, <1>7

LEMMA StartSchedulerIInv ==
    ASSUME IInv, StartScheduler
    PROVE  IInv'
<1> USE BillingAssumption DEF IInv, StartScheduler, TypeOK, InFlight, CycleStates, NoResult,
                              cycleVars, histVars, schedVars
<1>1. TypeOK'
  BY DEF Results, Outcomes, SawOpenRow
<1>2. SawOpenRow'
  BY DEF SawOpenRow
<1>3. LoggedWasComputed'
  BY DEF LoggedWasComputed, OwnerHoldsCycle, Owns
<1>4. OwnerHoldsCycle'
  BY DEF OwnerHoldsCycle, Owns, SawOpenRow
<1>5. OutcomeIsTruthful'
  BY DEF OutcomeIsTruthful, SawOpenRow, OwnerHoldsCycle, Owns
<1>6. GateStopsForeignKeysOnly'
  BY DEF GateStopsForeignKeysOnly, LoggedWasComputed, OwnerHoldsCycle, Owns
<1>7. StrandedOnlyByFault'
  BY DEF StrandedOnlyByFault, Owns
<1> QED BY <1>1, <1>2, <1>3, <1>4, <1>5, <1>6, <1>7

LEMMA StopSchedulerIInv ==
    ASSUME IInv, StopScheduler
    PROVE  IInv'
<1> USE BillingAssumption DEF IInv, StopScheduler, TypeOK, InFlight, CycleStates, NoResult,
                              cycleVars, histVars, schedVars
<1>1. TypeOK'
  BY DEF Results, Outcomes, SawOpenRow
<1>2. SawOpenRow'
  BY DEF SawOpenRow
<1>3. LoggedWasComputed'
  BY DEF LoggedWasComputed, OwnerHoldsCycle, Owns
<1>4. OwnerHoldsCycle'
  BY DEF OwnerHoldsCycle, Owns, SawOpenRow
<1>5. OutcomeIsTruthful'
  BY DEF OutcomeIsTruthful, SawOpenRow, OwnerHoldsCycle, Owns
<1>6. GateStopsForeignKeysOnly'
  BY DEF GateStopsForeignKeysOnly, LoggedWasComputed, OwnerHoldsCycle, Owns
<1>7. StrandedOnlyByFault'
  BY DEF StrandedOnlyByFault, Owns
<1> QED BY <1>1, <1>2, <1>3, <1>4, <1>5, <1>6, <1>7

LEMMA NextIInv == ASSUME IInv, [Next]_vars PROVE IInv'
<1>1. CASE UNCHANGED vars
  BY <1>1 DEF vars, cycleVars, callVars, schedVars, histVars, IInv, TypeOK, SawOpenRow,
     LoggedWasComputed, OwnerHoldsCycle, Owns, Matches, OutcomeIsTruthful,
     GateStopsForeignKeysOnly, StrandedOnlyByFault
<1>2. CASE Next
  BY <1>2, EventCallIInv, TickIInv, ReadCycleIInv, ClaimCycleIInv, ReReadCycleIInv,
     RecordFinalizationIInv, ComputeReturnsIInv, FinishCycleIInv, DieIInv,
     StartSchedulerIInv, StopSchedulerIInv DEF Next, Step
<1> QED BY <1>1, <1>2

\* IInv holds in every reachable state, whatever the constants.
THEOREM Inductive == Spec => []IInv
<1>1. Init => IInv
  BY InitIInv
<1>2. IInv /\ [Next]_vars => IInv'
  BY NextIInv
<1> QED BY <1>1, <1>2, PTL DEF Spec

\* finalizer.ts: the variables keep their types; no call is told of a row that
\* does not exist, which is not inductive without SawOpenRow.
THEOREM TypeCorrect == Spec => []TypeOK
<1>1. IInv => TypeOK
  BY DEF IInv
<1> QED BY <1>1, Inductive, PTL

\* finalizer.ts: exactly one racing call owns a claimed cycle, its second
\* guarded UPDATE cannot be lost, and FINALIZED cycles were computed once.
THEOREM OneOwner == Spec => []OwnerHoldsCycle
<1>1. IInv => OwnerHoldsCycle
  BY DEF IInv
<1> QED BY <1>1, Inductive, PTL

\* finalizer.ts: a caller is told "finalized" only of a finalized cycle, and a
\* caller that loses is never told OPEN.
THEOREM Truthful == Spec => []OutcomeIsTruthful
<1>1. IInv => OutcomeIsTruthful
  BY DEF IInv
<1> QED BY <1>1, Inductive, PTL

\* finalizer.ts: the idempotency gate only turns away keys of other cycles.
THEOREM GateIsForForeignKeys == Spec => []GateStopsForeignKeysOnly
<1>1. IInv => GateStopsForeignKeysOnly
  BY DEF IInv
<1> QED BY <1>1, Inductive, PTL

\* finalizer.ts: without a failed call no cycle is left in FINALIZING unowned.
THEOREM StrandedNeedsFault == Spec => []StrandedOnlyByFault
<1>1. IInv => StrandedOnlyByFault
  BY DEF IInv
<1> QED BY <1>1, Inductive, PTL

\* finalizer.ts: rows, callers and answers agree on who finalizes a cycle, on
\* what was answered, and on what is left in FINALIZING.
THEOREM ClaimsAreSound == Spec => []ClaimsHold
<1> QED BY OneOwner, Truthful, StrandedNeedsFault, PTL DEF ClaimsHold

-----------------------------------------------------------------------------
(* Refinement: a claim is Claim, passing the gate is Perform, the second    *)
(* UPDATE is Complete, and every other step leaves phase and computed alone. *)

LEMMA ClaimRefines ==
    ASSUME IInv, NEW p \in Callers, ClaimCycle(p)
    PROVE  [Once!OnceNext]_Once!onceVars
<1> DEFINE c == target[p]
<1>1. c \in Cycles
  BY DEF IInv, TypeOK, ClaimCycle, InFlight
<1>2. CASE Matches(c, "OPEN", version[p])
  <2>1. Phase[c] = "pending" /\ UNCHANGED computed
    BY <1>1, <1>2 DEF ClaimCycle, Phase, Matches, histVars
  <2>2. Phase' = [Phase EXCEPT ![c] = "claimed"]
    BY <1>1, <1>2 DEF ClaimCycle, Phase, ApplyTransition, IInv, TypeOK
  <2> QED BY <1>1, <2>1, <2>2 DEF Once!OnceNext, Once!Claim
<1>3. CASE ~Matches(c, "OPEN", version[p])
  BY <1>3 DEF ClaimCycle, Phase, Once!onceVars, cycleVars, histVars
<1> QED BY <1>2, <1>3

LEMMA RecordRefines ==
    ASSUME IInv, NEW p \in Callers, RecordFinalization(p)
    PROVE  [Once!OnceNext]_Once!onceVars
<1> DEFINE c == target[p]
<1>1. /\ c \in Cycles
      /\ Phase[c] = "claimed"
      /\ computed[c] = 0
      /\ Phase' = Phase
  BY DEF IInv, TypeOK, RecordFinalization, InFlight, OwnerHoldsCycle, Owns, Phase, cycleVars
<1>2. CASE computed' = [computed EXCEPT ![c] = @ + 1]
  <2>1. computed' = [computed EXCEPT ![c] = 1]
    BY <1>1, <1>2
  <2> HIDE DEF c
  <2> QED BY <1>1, <2>1 DEF Once!OnceNext, Once!Perform
<1>3. CASE UNCHANGED computed
  BY <1>1, <1>3 DEF Once!onceVars
<1> QED BY <1>2, <1>3 DEF RecordFinalization

LEMMA FinishRefines ==
    ASSUME IInv, NEW p \in Callers, FinishCycle(p)
    PROVE  [Once!OnceNext]_Once!onceVars
<1> DEFINE c == target[p]
<1>1. /\ c \in Cycles
      /\ state[c] = "FINALIZING"
      /\ computed[c] = 1
      /\ UNCHANGED computed
      /\ Matches(c, "FINALIZING", FinishVersion(p))
  BY DEF IInv, TypeOK, FinishCycle, FinishVersion, InFlight, OwnerHoldsCycle, Owns,
     Matches, histVars
<1>2. Phase[c] = "claimed" /\ Phase' = [Phase EXCEPT ![c] = "done"]
  <2>1. state' = [state EXCEPT ![c] = "FINALIZED"]
    BY <1>1 DEF FinishCycle, ApplyTransition
  <2>2. DOMAIN state = Cycles
    BY DEF IInv, TypeOK
  <2> HIDE DEF c
  <2>3. state'[c] = "FINALIZED" /\ \A d \in Cycles \ {c} : state'[d] = state[d]
    BY <1>1, <2>1, <2>2
  <2> QED BY <1>1, <2>3 DEF Phase
<1> QED BY <1>1, <1>2 DEF Once!OnceNext, Once!Complete

LEMMA StepRefines ==
    ASSUME IInv, [Next]_vars
    PROVE  [Once!OnceNext]_Once!onceVars
<1>1. CASE UNCHANGED <<cycleVars, histVars>> \/ UNCHANGED <<cycleVars, computed>>
  BY <1>1 DEF Once!onceVars, Phase, cycleVars, histVars
<1>2. ASSUME NEW p \in Callers, ClaimCycle(p) \/ RecordFinalization(p) \/ FinishCycle(p)
      PROVE  [Once!OnceNext]_Once!onceVars
  BY <1>2, ClaimRefines, RecordRefines, FinishRefines
<1>3. ASSUME NEW p \in Callers, ReadCycle(p) \/ ReReadCycle(p) \/ ComputeReturns(p) \/ Die(p)
      PROVE  UNCHANGED <<cycleVars, computed>>
  BY <1>3 DEF ReadCycle, ReReadCycle, ComputeReturns, Die, histVars
<1>4. ASSUME NEW p \in Callers, NEW c \in Cycles, NEW k \in Keys \cup {FreshKey},
             EventCall(p, c, k) \/ Tick(p, c, k)
      PROVE  UNCHANGED <<cycleVars, histVars>>
  BY <1>4 DEF EventCall, Tick, Enter
<1>5. CASE StartScheduler \/ StopScheduler
  BY <1>1, <1>5 DEF StartScheduler, StopScheduler
<1>6. CASE UNCHANGED vars
  BY <1>1, <1>6 DEF vars
<1> QED BY <1>1, <1>2, <1>3, <1>4, <1>5, <1>6 DEF Next, Step

\* finalizer.ts: "it executes at most once per cycle", strictly between the
\* claim and FINALIZED: the finalizer implements ExactlyOnce.
THEOREM FinalizerIsExactlyOnce == Spec => ComputesExactlyOnce
<1>1. Init => Once!OnceInit
  BY DEF Init, Once!OnceInit, Phase
<1>2. IInv /\ [Next]_vars => [Once!OnceNext]_Once!onceVars
  BY StepRefines
<1> QED BY <1>1, <1>2, Inductive, PTL DEF Spec, ComputesExactlyOnce, Once!OnceSpec

-----------------------------------------------------------------------------
(* The scheduler's running flag. *)

\* running is set exactly while a call of a tick is in flight, and there is one
\* such call at most.
TicksDoNotOverlap ==
    /\ running <=> \E p \in Ticks : pc[p] \in InFlight
    /\ \A p, q \in Ticks : pc[p] \in InFlight /\ pc[q] \in InFlight => p = q

LEMMA TicksStep == ASSUME IInv, TicksDoNotOverlap, [Next]_vars PROVE TicksDoNotOverlap'
<1> USE BillingAssumption DEF TicksDoNotOverlap, InFlight
<1>1. pc \in [Callers -> InFlight \cup {"idle"}] /\ Ticks \subseteq Callers
  BY DEF IInv, TypeOK, Callers
\* A call that goes on is in flight before and after.
<1>2. ASSUME NEW p \in Callers, NEW w \in InFlight, pc[p] \in InFlight, GoTo(p, w)
      PROVE  TicksDoNotOverlap'
  <2>1. running' = running /\ \A q \in Callers : pc'[q] \in InFlight <=> pc[q] \in InFlight
    BY <1>1, <1>2 DEF GoTo, schedVars
  <2> HIDE DEF InFlight
  <2> QED BY <1>1, <2>1
\* A call that returns lets go of the flag when a tick made it.
<1>3. ASSUME NEW p \in Callers, pc[p] \in InFlight, NEW o, NEW s, Return(p, o, s)
      PROVE  TicksDoNotOverlap'
  <2>1. /\ \A q \in Callers : pc'[q] \in InFlight <=> q # p /\ pc[q] \in InFlight
        /\ running' <=> running /\ p \notin Ticks
    BY <1>1, <1>3, Zenon DEF Return, EndsTick
  <2> HIDE DEF InFlight
  <2> QED BY <1>1, <1>3, <2>1
<1>4. ASSUME NEW p \in Callers, Step(p) \/ Die(p) PROVE TicksDoNotOverlap'
  <2>1. pc[p] \in InFlight
    BY <1>4 DEF Step, Die, ReadCycle, ClaimCycle, ReReadCycle, RecordFinalization, ComputeReturns,
                FinishCycle
  <2>2. \/ \E w \in InFlight : GoTo(p, w)
        \/ \E o, s : Return(p, o, s)
    BY <1>4 DEF Step, Die, ReadCycle, ClaimCycle, ReReadCycle, RecordFinalization, ComputeReturns,
                FinishCycle
  <2> QED BY <2>1, <2>2, <1>2, <1>3
<1>5. ASSUME NEW p \in Callers, NEW c \in Cycles, NEW k \in Keys \cup {FreshKey}, EventCall(p, c, k)
      PROVE  TicksDoNotOverlap'
  <2>1. running' = running /\ \A q \in Ticks : pc'[q] = pc[q]
    BY <1>1, <1>5 DEF EventCall, Enter, schedVars
  <2> QED BY <2>1
<1>6. ASSUME NEW p \in Callers, NEW c \in Cycles, NEW k \in Keys \cup {FreshKey}, Tick(p, c, k)
      PROVE  TicksDoNotOverlap'
  <2>1. p \in Ticks /\ running' /\ \A q \in Ticks : pc'[q] \in InFlight <=> q = p
    BY <1>1, <1>6 DEF Tick, Enter
  <2> HIDE DEF InFlight
  <2> QED BY <2>1
<1>7. CASE StartScheduler \/ StopScheduler \/ UNCHANGED vars
  BY <1>7 DEF StartScheduler, StopScheduler, vars, callVars, schedVars
<1> QED BY <1>4, <1>5, <1>6, <1>7 DEF Next

\* scheduler.ts (12-13): "if a tick is still running when the next fires, the next
\* is skipped"; and a tick lets go of the flag however it ends, so no later tick is
\* blocked: the safety half of SchedulerFinalizesAll.
THEOREM TicksTakeTurns == Spec => []TicksDoNotOverlap
<1>1. Init => TicksDoNotOverlap
  BY DEF Init, TicksDoNotOverlap, InFlight, Callers
<1> QED BY <1>1, TicksStep, Inductive, PTL DEF Spec
=============================================================================
