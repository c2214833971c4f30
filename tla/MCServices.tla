----------------------------- MODULE MCServices -----------------------------
(* Fifteen components that share no state: one is chosen and runs alone.   *)
(* EventStore's definitions have no prefix; those of this module have.     *)
EXTENDS AdvisoryLock, MigrationLock, SessionRefresh, ReorderBuffer, LoginFlow,
        EventStore, FragmentReassembler, NonceWindow, RecordLifecycle, AggregateRefresh,
        BalanceReconciliation, SseFanout, TokenBucket, MeteredContract, NotificationListener

CONSTANTS l1, l2, m1, m2, c1, c2, c3, i1, i2, i3, t1, t2, l3, y1, y2, n1, x1, x3

VARIABLE running    \* the one that runs

MCHome == [c \in Clients |-> IF c = c3 THEN m2 ELSE m1]

\* Two instances of a new release, one of the release before it.
MCRelease == [i \in Instances |-> IF i = i1 THEN 1 ELSE 2]

\* The two tenants hash to the same lock.
MCLockId == [t \in Tenants |-> l3]

\* Two devices chose the same nonce.
MCNonceOf == [p \in Payloads |-> n1]

\* The month that x3 is in reaches behind the boundary, its quarter of an hour not.
MCAged == [v \in 1..Views |-> IF v = 1 THEN {} ELSE {x3}]

SharedVars == <<lockVars, migrationVars, refreshVars, reorderVars, loginVars>>
TelemetryVars == <<vars, reassemblerVars, nonceVars, recordVars, aggregateVars>>
EdgesVars == <<balanceVars, sseVars, bucketVars, contractVars, listenerVars>>

allVars == <<SharedVars, TelemetryVars, EdgesVars, running>>

AllInit ==
    /\ running \in {"locks", "migration", "sessions", "frames", "logins",
          "log", "fragments", "nonces", "records", "aggregates",
          "balances", "dashboards", "limits", "contract", "listener"}
    /\ LockInit /\ MigrationInit /\ RefreshInit /\ ReorderInit /\ LoginInit
    /\ Init /\ ReassemblerInit /\ NonceInit /\ RecordInit /\ AggregateInit
    /\ BalanceInit /\ SseInit /\ BucketInit /\ ContractInit /\ ListenerInit
    \* Those with more than one initial state have one where they do not run;
    \* the two payloads are interchangeable.
    /\ stamp[y1] <= stamp[y2]
    /\ running # "nonces" => shared /\ \A p \in Payloads : stamp[p] = 1
    /\ running # "records" => record = "PENDING"
    /\ running # "balances" => localBalance = 0 /\ chainBalance = 0

Runs(component) == running = component /\ UNCHANGED running

AllNext ==
    \/ /\ Runs("locks") /\ LockNext
       /\ UNCHANGED <<migrationVars, refreshVars, reorderVars, loginVars, TelemetryVars, EdgesVars>>
    \/ /\ Runs("migration") /\ MigrationNext
       /\ UNCHANGED <<lockVars, refreshVars, reorderVars, loginVars, TelemetryVars, EdgesVars>>
    \/ /\ Runs("sessions") /\ RefreshNext
       /\ UNCHANGED <<lockVars, migrationVars, reorderVars, loginVars, TelemetryVars, EdgesVars>>
    \/ /\ Runs("frames") /\ ReorderNext
       /\ UNCHANGED <<lockVars, migrationVars, refreshVars, loginVars, TelemetryVars, EdgesVars>>
    \/ /\ Runs("logins") /\ LoginNext
       /\ UNCHANGED <<lockVars, migrationVars, refreshVars, reorderVars, TelemetryVars, EdgesVars>>
    \/ /\ Runs("log") /\ Next
       /\ UNCHANGED <<reassemblerVars, nonceVars, recordVars, aggregateVars, SharedVars, EdgesVars>>
    \/ /\ Runs("fragments") /\ ReassemblerNext
       /\ UNCHANGED <<vars, nonceVars, recordVars, aggregateVars, SharedVars, EdgesVars>>
    \/ /\ Runs("nonces") /\ NonceNext
       /\ UNCHANGED <<vars, reassemblerVars, recordVars, aggregateVars, SharedVars, EdgesVars>>
    \/ /\ Runs("records") /\ RecordNext
       /\ UNCHANGED <<vars, reassemblerVars, nonceVars, aggregateVars, SharedVars, EdgesVars>>
    \/ /\ Runs("aggregates") /\ AggregateNext
       /\ UNCHANGED <<vars, reassemblerVars, nonceVars, recordVars, SharedVars, EdgesVars>>
    \/ /\ Runs("balances") /\ BalanceNext
       /\ UNCHANGED <<sseVars, bucketVars, contractVars, listenerVars, SharedVars, TelemetryVars>>
    \/ /\ Runs("dashboards") /\ SseNext
       /\ UNCHANGED <<balanceVars, bucketVars, contractVars, listenerVars, SharedVars, TelemetryVars>>
    \/ /\ Runs("limits") /\ BucketNext
       /\ UNCHANGED <<balanceVars, sseVars, contractVars, listenerVars, SharedVars, TelemetryVars>>
    \/ /\ Runs("contract") /\ ContractNext
       /\ UNCHANGED <<balanceVars, sseVars, bucketVars, listenerVars, SharedVars, TelemetryVars>>
    \/ /\ Runs("listener") /\ ListenerNext
       /\ UNCHANGED <<balanceVars, sseVars, bucketVars, contractVars, SharedVars, TelemetryVars>>

\* Of the log: its tenants hash to one lock, and its writers are alike.
MCSymmetry == Permutations(Tenants) \cup Permutations(Writers)

AllSpec == AllInit /\ [][AllNext]_allVars

\* The type invariants of the modules: every variable of them keeps its type.
TypesHold ==
    /\ LockTypeOK /\ MigrationTypeOK /\ RefreshTypeOK /\ ReorderTypeOK /\ LoginTypeOK
    /\ TypeOK /\ ReassemblerTypeOK /\ NonceTypeOK /\ RecordTypeOK /\ AggregateTypeOK
    /\ BalanceTypeOK /\ SseTypeOK /\ BucketTypeOK /\ ContractTypeOK /\ ListenerTypeOK
=============================================================================
