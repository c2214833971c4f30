----------------------------- MODULE MCWatchers -----------------------------
(* Four components that share no state: one is chosen and runs alone.      *)
EXTENDS CertificateCache, BatchCompaction, VersionedConfig, TenantPool

CONSTANTS g1, g2, a1, a2, s1, e1, e2, u1, u2, b1, b2

VARIABLE running    \* the one that runs

MCMetricOf == [e \in Events |-> IF e = e1 THEN u1 ELSE u2]

MCLockOf == [w \in Windows |-> IF w = 0 THEN b1 ELSE b2]

\* Tenant A makes enough calls to meet its own cap, and A and B together more
\* than the pool has clients.
MCRequests == {"A1", "A2", "A3", "A4", "B1"}

MCTenant == [r \in MCRequests |-> IF r = "B1" THEN "B" ELSE "A"]

vars == <<certVars, batchVars, configVars, poolVars, running>>

Init ==
    /\ CertInit /\ BatchInit /\ ConfigInit /\ PoolInit
    /\ running \in {"certificates", "batches", "config", "pool"}

Runs(component) == running = component /\ UNCHANGED running

Next ==
    \/ Runs("certificates") /\ CertNext /\ UNCHANGED <<batchVars, configVars, poolVars>>
    \/ Runs("batches") /\ BatchNext /\ UNCHANGED <<certVars, configVars, poolVars>>
    \/ Runs("config") /\ ConfigNext /\ UNCHANGED <<certVars, batchVars, poolVars>>
    \/ Runs("pool") /\ PoolNext /\ UNCHANGED <<certVars, batchVars, configVars>>

\* A component that does not run has no step of its fairness to take.
Spec ==
    /\ Init /\ [][Next]_vars
    /\ CertFairness /\ BatchFairness /\ ConfigFairness /\ PoolFairness

\* The type invariants of the modules: every variable of them keeps its type.
TypeOK == CertTypeOK /\ BatchTypeOK /\ ConfigTypeOK /\ PoolTypeOK
=============================================================================
