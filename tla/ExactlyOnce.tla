----------------------------- MODULE ExactlyOnce -----------------------------
(***************************************************************************)
(* What the finalizer promises, with none of its mechanism: a job is       *)
(* claimed by someone, its effect is performed once, and only then is the  *)
(* job done.  A job may stay claimed for ever (the claimant died), but its *)
(* effect never happens twice and a done job has had its effect.           *)
(***************************************************************************)
EXTENDS Naturals

CONSTANT Jobs

VARIABLES
    phase,      \* phase[j] \in {"absent", "pending", "claimed", "done"}
    performed   \* performed[j]: how often the effect of j was performed

onceVars == <<phase, performed>>

OnceInit ==
    /\ phase \in [Jobs -> {"absent", "pending"}]
    /\ performed = [j \in Jobs |-> 0]

Claim(j) ==
    /\ phase[j] = "pending"
    /\ phase' = [phase EXCEPT ![j] = "claimed"]
    /\ UNCHANGED performed

Perform(j) ==
    /\ phase[j] = "claimed"
    /\ performed[j] = 0
    /\ performed' = [performed EXCEPT ![j] = 1]
    /\ UNCHANGED phase

Complete(j) ==
    /\ phase[j] = "claimed"
    /\ performed[j] = 1
    /\ phase' = [phase EXCEPT ![j] = "done"]
    /\ UNCHANGED performed

OnceNext == \E j \in Jobs : Claim(j) \/ Perform(j) \/ Complete(j)

OnceSpec == OnceInit /\ [][OnceNext]_onceVars
==============================================================================
