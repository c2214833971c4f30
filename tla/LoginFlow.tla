------------------------------ MODULE LoginFlow ------------------------------
(***************************************************************************)
(* POST /api/auth/challenge and /api/auth/verify (src/api/routes/auth.ts): *)
(* a wallet asks for a challenge and answers it with a signature. The      *)
(* challenge is a Redis key (ChallengeStore, src/api/auth/session.ts);     *)
(* attempts to answer pass a per-address limit kept in the process         *)
(* (applyAuthRateLimiting, src/api/middleware/rate_limiter.ts). One        *)
(* wallet, one address, one process. A challenge is named by its order.    *)
(***************************************************************************)
EXTENDS Integers, FiniteSetsExt

CONSTANTS
    Logins,         \* concurrent calls of /api/auth/verify
    AttemptLimit,    \* 5 in the code
    FreeAttempts,   \* 3: those after are delayed
    Window,         \* WINDOW_MS in ticks
    MaxNonce,       \* bound: challenges created
    MaxMoment       \* bound of the clock

ASSUME LoginAssumption ==
    /\ AttemptLimit \in Nat \ {0} /\ FreeAttempts \in Nat /\ Window \in Nat \ {0}
    /\ MaxNonce \in Nat /\ MaxMoment \in Nat \ {0}

VARIABLES
    moment,     \* the process's clock
    tracker,    \* authWindowTracker of the address
    challenge,  \* the key auth:challenge:<wallet>; 0 without it
    created,    \* number of the last challenge
    login,      \* login[c]: place of the call, challenge its signature answers (0: none), its verdict
    admitted,   \* history: admitted[n], calls let in for challenge n
    expired,    \* history: challenges that expired unanswered
    recent      \* history: recent[k], attempts that passed the limit k ticks ago

loginVars == <<moment, tracker, challenge, created, login, admitted, expired, recent>>

Nonces == 0..MaxNonce

NoLogin == [at |-> "none", signs |-> 0, valid |-> FALSE]

LoginTypeOK ==
    /\ moment \in 1..MaxMoment
    /\ tracker \in [attempts : 0..AttemptLimit, resetAt : 0..MaxMoment + Window]
    /\ challenge \in Nonces /\ created \in Nonces
    /\ login \in [Logins -> [at : {"none", "delayed", "consume", "issue"}, signs : Nonces, valid : BOOLEAN]]
    /\ admitted \in [Nonces -> Nat] /\ expired \in SUBSET Nonces
    /\ recent \in [0..Window - 1 -> Nat]

LoginInit ==
    /\ moment = 1
    /\ tracker = [attempts |-> 0, resetAt |-> 0]
    /\ challenge = 0 /\ created = 0
    /\ login = [c \in Logins |-> NoLogin]
    /\ admitted = [n \in Nonces |-> 0] /\ expired = {}
    /\ recent = [k \in 0..Window - 1 |-> 0]

-----------------------------------------------------------------------------
\* SET EX NX: no second challenge while one is pending.
CreateChallenge ==
    /\ created < MaxNonce /\ challenge = 0
    /\ created' = created + 1 /\ challenge' = created + 1
    /\ UNCHANGED <<moment, tracker, login, admitted, expired, recent>>

ChallengeExpires ==
    /\ challenge # 0
    /\ challenge' = 0 /\ expired' = expired \cup {challenge}
    /\ UNCHANGED <<moment, tracker, created, login, admitted, recent>>

\* The attempts of the window that is open now.
InWindow == IF tracker.resetAt < moment THEN [attempts |-> 0, resetAt |-> moment + Window] ELSE tracker

Counted(w) == [w EXCEPT !.attempts = @ + 1]

\* A call arrives: refused at the limit, else counted, and delayed from the
\* fourth on. Its signature answers a challenge the wallet has seen, or none.
Arrive(c, n) ==
    /\ login[c].at = "none" /\ n <= created
    /\ IF InWindow.attempts >= AttemptLimit
       THEN tracker' = InWindow /\ UNCHANGED <<login, recent>>
       ELSE /\ tracker' = Counted(InWindow)
            /\ recent' = [recent EXCEPT ![0] = @ + 1]
            /\ login' = [login EXCEPT ![c] =
                  [at |-> IF InWindow.attempts + 1 > FreeAttempts THEN "delayed" ELSE "consume",
                   signs |-> n, valid |-> FALSE]]
    /\ UNCHANGED <<moment, challenge, created, admitted, expired>>

\* A request with the test header passes by the limit.
ArriveUnlimited(c, n) ==
    /\ login[c].at = "none" /\ n <= created
    /\ login' = [login EXCEPT ![c] = [at |-> "consume", signs |-> n, valid |-> FALSE]]
    /\ UNCHANGED <<moment, tracker, challenge, created, admitted, expired, recent>>

DelayEnds(c) ==
    /\ login[c].at = "delayed"
    /\ login' = [login EXCEPT ![c].at = "consume"]
    /\ UNCHANGED <<moment, tracker, challenge, created, admitted, expired, recent>>

\* Mutant: GET without DEL; the key is left to expire.
KeptChallenge == challenge

LeftChallenge == 0

\* verifyChallenge: GET and DEL in one transaction, then the signature is
\* checked; a wrong answer uses the challenge up.
Consume(c) ==
    /\ login[c].at = "consume"
    /\ challenge' = LeftChallenge
    /\ login' = [login EXCEPT ![c] = [at |-> "issue", signs |-> login[c].signs,
                                       valid |-> challenge # 0 /\ login[c].signs = challenge]]
    /\ UNCHANGED <<moment, tracker, created, admitted, expired, recent>>

\* Tokens are issued either way; only a valid answer is sent them.
Answered(c) ==
    /\ login[c].at = "issue"
    /\ admitted' = IF login[c].valid THEN [admitted EXCEPT ![login[c].signs] = @ + 1] ELSE admitted
    /\ login' = [login EXCEPT ![c] = NoLogin]
    /\ UNCHANGED <<moment, tracker, challenge, created, expired, recent>>

\* Redis rejects a command, applied or not: 500.
LoginFails(c) ==
    /\ login[c].at \in {"consume", "issue"}
    /\ challenge' \in IF login[c].at = "consume" THEN {challenge, 0} ELSE {challenge}
    /\ login' = [login EXCEPT ![c] = NoLogin]
    /\ UNCHANGED <<moment, tracker, created, admitted, expired, recent>>

ClockAdvances ==
    /\ moment < MaxMoment
    /\ moment' = moment + 1
    /\ recent' = [k \in 0..Window - 1 |-> IF k = 0 THEN 0 ELSE recent[k - 1]]
    /\ UNCHANGED <<tracker, challenge, created, login, admitted, expired>>

LoginNext ==
    \/ CreateChallenge \/ ChallengeExpires \/ ClockAdvances
    \/ \E c \in Logins :
          \/ \E n \in Nonces : Arrive(c, n) \/ ArriveUnlimited(c, n)
          \/ DelayEnds(c) \/ Consume(c) \/ Answered(c) \/ LoginFails(c)

LoginSpec == LoginInit /\ [][LoginNext]_loginVars

-----------------------------------------------------------------------------
(* Properties. *)

\* session.ts consume: a challenge lets in one call at most, and none once it
\* expired, however calls that hold its signature overlap.
ChallengeAdmitsOnce ==
    \A n \in Nonces :
       LET entitled == {c \in Logins : login[c].at = "issue" /\ login[c].valid /\ login[c].signs = n}
       IN  admitted[n] + Cardinality(entitled) <= (IF n \in expired THEN 0 ELSE 1)

AttemptsInSpan == MapThenSumSet(LAMBDA k : recent[k], 0..Window - 1)

\* rate_limiter.ts: the window is fixed, so a minute holds up to two windows'
\* attempts (line 218 says one's), never more, however long delayed calls take.
TwoWindowsAtMost == AttemptsInSpan <= 2 * AttemptLimit

\* session.ts, rate_limiter.ts: a challenge admits one login, and a minute no
\* more attempts than two windows do, however the calls interleave.
LoginsHold == ChallengeAdmitsOnce /\ TwoWindowsAtMost
=============================================================================
