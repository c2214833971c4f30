----------------------------- MODULE TokenBucket -----------------------------
(***************************************************************************)
(* DynamicRateLimiter (src/api/middleware/rate_limiter.ts): one device's  *)
(* bucket in Redis, updated by a script that is one step. The time comes   *)
(* from the process that asks, read before the script runs: it may be      *)
(* behind by the clock's skew and by the way to Redis. A tick is a second. *)
(***************************************************************************)
EXTENDS Integers, FiniteSetsExt

CONSTANTS
    NormalMax,      \* maxTokens of the device's tier
    SlowRate,       \* tokens per tick of a device of the lower compliance,
    FastRate,       \* and of the higher one, at which it may burst
    BurstFactor,    \* BURST_MULTIPLIER
    BurstTicks,     \* BURST_DURATION_S
    Cooldown,       \* BURST_COOLDOWN_S
    BucketTtl,      \* BUCKET_TTL_S
    MaxLag,         \* bound: how far behind a caller's time may be
    MaxDeficit,     \* bound: how far below 0 tokens are followed; callers' clocks take them there
    MaxTime         \* bound of the clock

ASSUME BucketAssumption ==
    /\ NormalMax \in Nat \ {0} /\ SlowRate \in Nat \ {0} /\ FastRate \in Nat \ {0}
    /\ BurstFactor \in Nat \ {0} /\ BurstTicks \in Nat \ {0} /\ MaxLag \in Nat
    /\ MaxDeficit \in Nat /\ MaxTime \in Nat
    /\ Cooldown \in Nat /\ BucketTtl \in Nat /\ BurstTicks < Cooldown /\ Cooldown < BucketTtl
    /\ NormalMax + SlowRate * MaxLag <= SlowRate * BucketTtl

VARIABLES
    now,        \* the clock
    bucket,     \* the hash rate:bucket:<device>
    touched,    \* when the script last set its expiry
    debt,       \* history, while modest: most requests allowed in a span up to now, beyond
                \* SlowRate times its length
    bursting,   \* history: the clock when the last burst started; 0 after a reset
    modest      \* history: every call so far came with the lower compliance

bucketVars == <<now, bucket, touched, debt, bursting, modest>>

NoBucket == [tokens |-> 0, refilled |-> 0, burstAt |-> 0]

MaxTokens == NormalMax * BurstFactor

BucketTypeOK ==
    /\ now \in Nat /\ now > MaxLag
    /\ bucket \in [tokens : -MaxDeficit..MaxTokens, refilled : 0..now, burstAt : 0..now]
    /\ touched \in 0..now /\ debt \in Nat /\ bursting \in 0..now /\ modest \in BOOLEAN

BucketInit ==
    /\ now = MaxLag + 1
    /\ bucket = NoBucket /\ touched = 0
    /\ debt = 0 /\ bursting = 0 /\ modest = TRUE

-----------------------------------------------------------------------------
\* The bucket a script finds at the time: Redis expires it by its own clock.
Found == IF now - touched < BucketTtl THEN bucket ELSE NoBucket

\* Mutant: the cooldown runs for the duration of a burst.
RestedAfterBurst(b, t) == b.burstAt = 0 \/ t - b.burstAt >= BurstTicks

Rested(b, t) == b.burstAt = 0 \/ t - b.burstAt >= Cooldown

InBurst(b, t) == b.burstAt > 0 /\ t - b.burstAt < BurstTicks

Refilled(tokens, gained, max) == Min({max, tokens + gained})

\* checkLimit of a caller that is lag ticks behind; BUCKET_LUA. The rate it passes
\* grows with the device's compliance of the moment, and so does leave to burst.
CheckLimit(lag, base, compliant) ==
    LET t       == now - lag
        found   == Found
        starts  == compliant /\ Rested(found, t) /\ ~InBurst(found, t)
        burst   == starts \/ InBurst(found, t)
        rate    == base * (IF burst THEN BurstFactor ELSE 1)
        low     == ~compliant /\ base = SlowRate
        max     == IF burst THEN MaxTokens ELSE NormalMax
        fresh   == found = NoBucket
        tokens  == Refilled(IF fresh THEN max ELSE found.tokens,
                            IF fresh THEN 0 ELSE (t - found.refilled) * rate, max)
        allowed == tokens >= 1
    IN  /\ compliant => base = FastRate
        /\ tokens >= -MaxDeficit
        /\ bucket' = [tokens   |-> IF allowed THEN tokens - 1 ELSE tokens,
                      refilled |-> t,
                      burstAt  |-> IF starts THEN t ELSE found.burstAt]
        /\ touched' = now
        /\ bursting' = IF starts THEN now ELSE bursting
        /\ modest' = (modest /\ low)
        /\ debt' = IF modest /\ low THEN debt + (IF allowed THEN 1 ELSE 0) ELSE 0
        /\ UNCHANGED now

\* DEL
Reset ==
    /\ bucket' = NoBucket /\ touched' = 0
    /\ debt' = 0 /\ bursting' = 0
    /\ UNCHANGED <<now, modest>>

Tick ==
    /\ now < MaxTime
    /\ now' = now + 1
    /\ debt' = Max({0, debt - SlowRate})
    /\ UNCHANGED <<bucket, touched, bursting, modest>>

BucketNext ==
    \/ \E lag \in 0..MaxLag, base \in {SlowRate, FastRate}, compliant \in BOOLEAN :
          CheckLimit(lag, base, compliant)
    \/ Reset \/ Tick

BucketSpec == BucketInit /\ [][BucketNext]_bucketVars

-----------------------------------------------------------------------------
(* Properties. *)

\* rate_limiter.ts: over every span of time, a device whose compliance stays where
\* it may not burst is allowed no more than a full bucket and what its rate refills
\* in the span, however callers' clocks differ; their difference refills once at
\* most. (Where compliance moves, a lagging caller takes tokens back at one rate and
\* the next one refills them at another.)
WithinRate == modest => debt <= NormalMax + SlowRate * MaxLag

\* rate_limiter.ts: bursts start a cooldown apart, to within the callers'
\* difference, even when the bucket expired in between.
BurstsAreSpaced ==
    [][bursting' # bursting /\ bursting' # 0 /\ bursting # 0 =>
          bursting' - bursting >= Cooldown - MaxLag]_bucketVars

\* rate_limiter.ts: requests and bursts alike stay within the configured rate, to
\* within what the callers' clocks differ.
RateHolds == []WithinRate /\ BurstsAreSpaced
=============================================================================
