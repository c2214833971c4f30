---------------------------- MODULE SessionRefresh ----------------------------
(***************************************************************************)
(* issueSessionTokens and refreshSession (src/api/auth/session.ts): a      *)
(* session is a Redis hash with a token_version; a refresh adds one to it  *)
(* and returns tokens of that version, which for five seconds are returned *)
(* to every other refresh. Each Redis command is an await. The lock is SET *)
(* without NX and refuses no refresh: only verifyJwt                       *)
(* (src/api/middleware/auth.ts) asks for it. Tokens are named by their     *)
(* version, as session and version determine them. The device is external. *)
(***************************************************************************)
EXTENDS Naturals, FiniteSets, FiniteSetsExt

CONSTANTS
    Refreshes,      \* concurrent calls of refreshSession for the session
    MaxVersion      \* bound: no refresh begins at this version

ASSUME RefreshAssumption == MaxVersion \in Nat \ {0} /\ IsFiniteSet(Refreshes)

VARIABLES
    tokenVersion,   \* token_version of the hash, 0 without a hash
    cooldown,       \* version of the tokens in the cooldown key, 0 without it
    refreshLock,    \* the key refresh_lock exists
    refresh,        \* refresh[c]: place, token presented, version read, answer,
                    \*   and early: 1 if it was under way when the cooldown was
                    \*   set, 2 if it began while such a one was under way
    held,           \* the newest tokens the device has, 0 before the login
    unheard         \* history: versions of answers that did not reach the device

refreshVars == <<tokenVersion, cooldown, refreshLock, refresh, held, unheard>>

NoRefresh == [at |-> "none", token |-> 0, stored |-> 0, answer |-> 0, early |-> 0]

RefreshTypeOK ==
    /\ tokenVersion \in Nat /\ cooldown \in Nat /\ held \in Nat
    /\ refreshLock \in BOOLEAN
    /\ refresh \in [Refreshes ->
          [at : {"none", "cooldown", "read", "write", "cache", "unlock", "answer"},
           token : Nat, stored : Nat, answer : Nat, early : 0..2]]
    /\ unheard \in SUBSET Nat

RefreshInit ==
    /\ tokenVersion = 0 /\ cooldown = 0 /\ refreshLock = FALSE
    /\ refresh = [c \in Refreshes |-> NoRefresh]
    /\ held = 0 /\ unheard = {}

-----------------------------------------------------------------------------
\* issueSessionTokens: HSET and EXPIRE of a session nobody else knows yet.
IssueTokens ==
    /\ held = 0
    /\ tokenVersion' = 1 /\ held' = 1
    /\ UNCHANGED <<cooldown, refreshLock, refresh, unheard>>

\* The device presents the newest tokens it has, a retry while its first
\* request is under way included. The lock is set, taken or not.
RefreshSession(c) ==
    /\ refresh[c].at = "none"
    /\ held # 0 /\ tokenVersion < MaxVersion
    /\ refresh' = [refresh EXCEPT ![c] =
                      [at |-> "cooldown", token |-> held, stored |-> 0, answer |-> 0,
                       early |-> IF \E d \in Refreshes : refresh[d].early = 1 THEN 2 ELSE 0]]
    /\ refreshLock' = TRUE
    /\ UNCHANGED <<tokenVersion, cooldown, held, unheard>>

\* GET of the cooldown key: cached tokens are returned whatever is presented.
ReadCooldown(c) ==
    /\ refresh[c].at = "cooldown"
    /\ refresh' = IF cooldown # 0
                  THEN [refresh EXCEPT ![c].at = "unlock", ![c].answer = cooldown]
                  ELSE [refresh EXCEPT ![c].at = "read"]
    /\ UNCHANGED <<tokenVersion, cooldown, refreshLock, held, unheard>>

\* Mutant: only the tokens of the stored version are taken.
TooOldByOne(token, stored) == token < stored

TooOld(token, stored) == token + 1 < stored

\* HGETALL: no such session, tokens too old, or a new version is due.
ReadSession(c) ==
    /\ refresh[c].at = "read"
    /\ refresh' = IF tokenVersion = 0 \/ TooOld(refresh[c].token, tokenVersion)
                  THEN [refresh EXCEPT ![c].at = "unlock"]
                  ELSE [refresh EXCEPT ![c].at = "write", ![c].stored = tokenVersion]
    /\ UNCHANGED <<tokenVersion, cooldown, refreshLock, held, unheard>>

\* HSET of the version read plus one, on a hash that may have moved or expired.
WriteVersion(c) ==
    /\ refresh[c].at = "write"
    /\ tokenVersion' = refresh[c].stored + 1
    /\ refresh' = [refresh EXCEPT ![c].at = "cache", ![c].answer = refresh[c].stored + 1]
    /\ UNCHANGED <<cooldown, refreshLock, held, unheard>>

\* SET of the cooldown key, EX 5.
CacheTokens(c) ==
    /\ refresh[c].at = "cache"
    /\ cooldown' = refresh[c].answer
    /\ refresh' = [d \in Refreshes |->
                      [at |-> IF d = c THEN "unlock" ELSE refresh[d].at,
                       token |-> refresh[d].token, stored |-> refresh[d].stored,
                       answer |-> refresh[d].answer,
                       early |-> IF refresh[d].at = "none" THEN 0 ELSE 1]]
    /\ UNCHANGED <<tokenVersion, refreshLock, held, unheard>>

\* finally: DEL of the lock, another refresh's or not.
UnlockRefresh(c) ==
    /\ refresh[c].at = "unlock"
    /\ refreshLock' = FALSE
    /\ refresh' = [refresh EXCEPT ![c].at = "answer"]
    /\ UNCHANGED <<tokenVersion, cooldown, held, unheard>>

\* The answer, 200 with tokens or 401, reaches the device.
Answer(c) ==
    /\ refresh[c].at = "answer"
    /\ held' = Max({held, refresh[c].answer})
    /\ refresh' = [refresh EXCEPT ![c] = NoRefresh]
    /\ UNCHANGED <<tokenVersion, cooldown, refreshLock, unheard>>

\* The answer is lost, or a command rejects (the DEL of finally is still sent),
\* or the process dies (it is not).
RefreshFails(c) ==
    /\ refresh[c].at # "none"
    /\ refreshLock' \in {refreshLock, FALSE}
    /\ unheard' = unheard \cup ({refresh[c].answer} \ {0})
    /\ refresh' = [refresh EXCEPT ![c] = NoRefresh]
    /\ UNCHANGED <<tokenVersion, cooldown, held>>

\* Five seconds have passed: longer than two refreshes, each with its answer,
\* take one after the other.
CooldownExpires ==
    /\ cooldown # 0
    /\ \A c \in Refreshes : refresh[c].early = 0
    /\ cooldown' = 0
    /\ UNCHANGED <<tokenVersion, refreshLock, refresh, held, unheard>>

\* EX 10
RefreshLockExpires ==
    /\ refreshLock' = FALSE
    /\ UNCHANGED <<tokenVersion, cooldown, refresh, held, unheard>>

\* EXPIRE after seven days
SessionExpires ==
    /\ tokenVersion # 0
    /\ tokenVersion' = 0
    /\ UNCHANGED <<cooldown, refreshLock, refresh, held, unheard>>

RefreshNext ==
    \/ IssueTokens \/ CooldownExpires \/ RefreshLockExpires \/ SessionExpires
    \/ \E c \in Refreshes :
          \/ RefreshSession(c) \/ ReadCooldown(c) \/ ReadSession(c) \/ WriteVersion(c)
          \/ CacheTokens(c) \/ UnlockRefresh(c) \/ Answer(c) \/ RefreshFails(c)

RefreshSpec == RefreshInit /\ [][RefreshNext]_refreshVars

-----------------------------------------------------------------------------
(* Properties. *)

\* A refresh that is about to be refused although its session lives.
IsRefused(c) ==
    /\ refresh[c].at = "read" /\ tokenVersion # 0
    /\ TooOld(refresh[c].token, tokenVersion)

\* session.ts, with no more than two refreshes at once: one is refused only if
\* an answer with newer tokens was lost, and if its tokens are still the
\* device's newest, only if two were or one is on its way. The window of one
\* version and the cooldown are there for this.
RefusedOnlyAfterLoss ==
    \A c \in Refreshes :
        IsRefused(c) =>
            LET newer(versions) == {v \in versions : v > refresh[c].token}
            IN  /\ newer(unheard) # {}
                /\ refresh[c].token = held =>
                      Cardinality(newer(unheard \cup {refresh[d].answer : d \in Refreshes})) >= 2

\* tests/integration/auth.test.ts:375, of refreshes of one token at once: "All
\* should succeed (1 actual rotation, 4 cached responses)". While no answer is
\* lost and all present the device's newest tokens, none is refused.
OverlappingRefreshesSucceed ==
    /\ unheard = {}
    /\ \A c \in Refreshes : refresh[c].at # "none" => refresh[c].token = held
    => \A c \in Refreshes : ~IsRefused(c)
=============================================================================
