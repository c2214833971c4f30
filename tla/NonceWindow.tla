----------------------------- MODULE NonceWindow -----------------------------
(***************************************************************************)
(* createValidator and validateSignature (src/core/ingestion/validator.ts):*)
(* a signed payload whose timestamp is near is accepted once its nonce is  *)
(* claimed in a cache that remembers it for a window: a Redis key shared   *)
(* by the nodes, awaited, or a map of the process. Payloads are delivered  *)
(* again and again. The nodes' clocks agree; the device's is anywhere.     *)
(***************************************************************************)
EXTENDS Integers, FiniteSets

CONSTANTS
    Payloads,       \* signed payloads
    PayloadNonces,
    NonceOf,        \* NonceOf[p]: two devices may choose the same
    Validations,    \* concurrent calls
    NonceLife,      \* NONCE_WINDOW_MS in ticks
    RefreshEvery,   \* 10000: payloads from one refresh of the aggregates to the next
    MaxTick         \* bound of the clock

ASSUME NonceAssumption ==
    /\ Payloads # {} /\ NonceOf \in [Payloads -> PayloadNonces]
    /\ NonceLife \in Nat \ {0} /\ RefreshEvery \in Nat \ {0} /\ MaxTick \in Nat \ {0}

VARIABLES
    tick,       \* the nodes' clock
    shared,     \* whether the cache is Redis
    stamp,      \* stamp[p]: the payload's timestamp
    expiry,     \* expiry[n]: when the cache forgets the nonce
    validation, \* validation[c]: place of the call, its payload, when it looked at the
                \* clock and when it claimed (0: not)
    validated,  \* validatedCount
    grants,     \* history: payloads accepted, with both times
    unanswered, \* history: claims whose answer was lost
    restarted   \* history: the process restarted with an empty map

nonceVars == <<tick, shared, stamp, expiry, validation, validated, grants, unanswered, restarted>>

Ticks == 1..MaxTick

Claims == [payload : Payloads, looked : Ticks, claimed : Ticks]

NoValidation == [at |-> "none", payload |-> CHOOSE p \in Payloads : TRUE, looked |-> 1, claimed |-> 0]

NonceTypeOK ==
    /\ tick \in Ticks /\ shared \in BOOLEAN /\ restarted \in BOOLEAN
    /\ stamp \in [Payloads -> Ticks]
    /\ expiry \in [PayloadNonces -> 0..MaxTick + NonceLife]
    /\ validation \in [Validations ->
          [at : {"none", "claim", "answer"}, payload : Payloads, looked : Ticks, claimed : 0..MaxTick]]
    /\ validated \in 0..RefreshEvery - 1
    /\ grants \in SUBSET Claims /\ unanswered \in SUBSET Claims

NonceInit ==
    /\ tick = 1 /\ shared \in BOOLEAN /\ restarted = FALSE
    /\ stamp \in [Payloads -> Ticks]
    /\ expiry = [n \in PayloadNonces |-> 0]
    /\ validation = [c \in Validations |-> NoValidation]
    /\ validated = 0 /\ grants = {} /\ unanswered = {}

-----------------------------------------------------------------------------
\* verifyAuthenticity: the timestamp is in the sliding window.
Near(p) == stamp[p] - tick \in -NonceLife..NonceLife

\* Mutant: the key is gone one tick early.
UntilShort == tick + NonceLife - 1

Until == tick + NonceLife

\* The time of a claim that is granted now; 0 if the nonce is remembered.
Granted(p) == IF expiry[NonceOf[p]] <= tick THEN tick ELSE 0

Remember(p) == expiry' = IF Granted(p) = 0 THEN expiry ELSE [expiry EXCEPT ![NonceOf[p]] = Until]

Claim(c) == [payload |-> validation[c].payload, looked |-> validation[c].looked,
             claimed |-> validation[c].claimed]

\* incrementValidationCount.
CountUp == validated' = (validated + 1) % RefreshEvery

\* A payload that is not near is refused at once: nothing changes.
Look(c, p) ==
    /\ shared /\ validation[c].at = "none" /\ Near(p)
    /\ validation' = [validation EXCEPT ![c] =
          [at |-> "claim", payload |-> p, looked |-> tick, claimed |-> 0]]
    /\ UNCHANGED <<tick, shared, stamp, expiry, validated, grants, unanswered, restarted>>

\* SET EX NX reaches Redis.
TryConsume(c) ==
    /\ validation[c].at = "claim"
    /\ Remember(validation[c].payload)
    /\ validation' = [validation EXCEPT ![c].at = "answer",
                                        ![c].claimed = Granted(validation[c].payload)]
    /\ UNCHANGED <<tick, shared, stamp, validated, grants, unanswered, restarted>>

Validated(c) ==
    /\ validation[c].at = "answer"
    /\ IF validation[c].claimed = 0 THEN UNCHANGED <<grants, validated>>
       ELSE grants' = grants \cup {Claim(c)} /\ CountUp
    /\ validation' = [validation EXCEPT ![c] = NoValidation]
    /\ UNCHANGED <<tick, shared, stamp, expiry, unanswered, restarted>>

\* The command rejects, applied or not, or the node dies.
ValidationFails(c) ==
    /\ validation[c].at \in {"claim", "answer"}
    /\ unanswered' = IF validation[c].claimed = 0 THEN unanswered ELSE unanswered \cup {Claim(c)}
    /\ validation' = [validation EXCEPT ![c] = NoValidation]
    /\ UNCHANGED <<tick, shared, stamp, expiry, validated, grants, restarted>>

\* validateSignature: no await between the look and the claim.
ValidateSignature(p) ==
    /\ ~shared /\ Near(p) /\ Remember(p)
    /\ IF Granted(p) = 0 THEN UNCHANGED <<grants, validated>>
       ELSE grants' = grants \cup {[payload |-> p, looked |-> tick, claimed |-> tick]} /\ CountUp
    /\ UNCHANGED <<tick, shared, stamp, validation, unanswered, restarted>>

ProcessRestarts ==
    /\ ~shared
    /\ expiry' = [n \in PayloadNonces |-> 0]
    /\ validated' = 0 /\ restarted' = TRUE
    /\ UNCHANGED <<tick, shared, stamp, validation, grants, unanswered>>

Ticking ==
    /\ tick < MaxTick
    /\ tick' = tick + 1
    /\ UNCHANGED <<shared, stamp, expiry, validation, validated, grants, unanswered, restarted>>

NonceNext ==
    \/ Ticking \/ ProcessRestarts
    \/ \E p \in Payloads : ValidateSignature(p)
    \/ \E c \in Validations :
          \/ \E p \in Payloads : Look(c, p)
          \/ TryConsume(c) \/ Validated(c) \/ ValidationFails(c)

NonceSpec == NonceInit /\ [][NonceNext]_nonceVars

-----------------------------------------------------------------------------
(* Properties. *)

Claiming == {c \in Validations : validation[c].claimed # 0}

Granting == {Claim(c) : c \in Claiming}

\* validator.ts, "a nonce may only be consumed once within the window": of two
\* claims of a nonce the later comes a window after the earlier, whoever made
\* them and whether or not their answers arrive. A payload delivered again is
\* therefore refused, unless the device's clock was not behind at the first
\* claim or the later call waited between its look at the clock and its claim.
\* Of two calls that look alike and claim in the same tick one is refused.
DeliveriesCountOnce ==
    ~restarted =>
       /\ \A g, h \in grants \cup unanswered \cup Granting :
             g # h /\ NonceOf[g.payload] = NonceOf[h.payload] /\ g.claimed <= h.claimed =>
                /\ g.claimed + NonceLife <= h.claimed
                /\ g.payload = h.payload => stamp[g.payload] >= g.claimed \/ h.looked < h.claimed
       /\ \A c, d \in Claiming : c # d => Claim(c) # Claim(d)
       /\ Granting \cap (grants \cup unanswered) = {}
=============================================================================
