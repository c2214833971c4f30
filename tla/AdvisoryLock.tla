---------------------------- MODULE AdvisoryLock ----------------------------
(***************************************************************************)
(* AdvisoryLockManager (src/core/ingestion/lock_manager.ts): each process  *)
(* keeps a map from lock id to the pg client whose session holds the       *)
(* session-level advisory lock, with a TTL timer and perhaps a heartbeat   *)
(* that rearms it. PostgreSQL, where a session may take a lock it already  *)
(* holds once more, and the pg.Pool are external. Listeners are left out.  *)
(* Names carry a prefix so that one model can extend several components.   *)
(***************************************************************************)
EXTENDS Naturals

CONSTANTS
    Managers,       \* processes
    Clients,        \* pg clients, one session each
    Home,           \* Home[c]: the process whose pool client c is in
    Locks,          \* lock ids; compositeLockId hashes device and bucket
    MaxLockFaults,  \* bound: failed queries and crashes
    NoClient, NoLock

ASSUME LockAssumption ==
    /\ Home \in [Clients -> Managers]
    /\ MaxLockFaults \in Nat
    /\ NoClient \notin Clients
    /\ NoLock \notin Locks

VARIABLES
    heldLocks,  \* heldLocks[m][l]: the client of the entry, or NoClient
    beating,    \* beating[m][l]: a heartbeat rearms the timer before it fires
    use,        \* use[c]: what client c is out of the pool for
    subject,    \* subject[c]: the lock it is out for
    session,    \* session[c][l]: how often c's session has taken l
    dirty,      \* history: sessions that outlived a failed unlock
    lockFaults

lockVars == <<heldLocks, beating, use, subject, session, dirty, lockFaults>>

Uses == {"locking", "granted", "refused", "held", "unlocking"}

LockTypeOK ==
    /\ heldLocks \in [Managers -> [Locks -> Clients \cup {NoClient}]]
    /\ beating \in [Managers -> [Locks -> BOOLEAN]]
    /\ use \in [Clients -> Uses \cup {"pooled"}]
    /\ subject \in [Clients -> Locks \cup {NoLock}]
    /\ \A c \in Clients : (use[c] = "pooled") <=> (subject[c] = NoLock)
    /\ session \in [Clients -> [Locks -> Nat]]
    /\ dirty \in SUBSET Clients
    /\ lockFaults \in 0..MaxLockFaults

LockInit ==
    /\ heldLocks = [m \in Managers |-> [l \in Locks |-> NoClient]]
    /\ beating = [m \in Managers |-> [l \in Locks |-> FALSE]]
    /\ use = [c \in Clients |-> "pooled"]
    /\ subject = [c \in Clients |-> NoLock]
    /\ session = [c \in Clients |-> [l \in Locks |-> 0]]
    /\ dirty = {}
    /\ lockFaults = 0

-----------------------------------------------------------------------------
ToPool(c) ==
    /\ use' = [use EXCEPT ![c] = "pooled"]
    /\ subject' = [subject EXCEPT ![c] = NoLock]

LockFault == lockFaults < MaxLockFaults /\ lockFaults' = lockFaults + 1

\* acquireLock: pool.connect(), and the query is sent.
Acquire(c, l) ==
    /\ use[c] = "pooled"
    /\ use' = [use EXCEPT ![c] = "locking"]
    /\ subject' = [subject EXCEPT ![c] = l]
    /\ UNCHANGED <<heldLocks, beating, session, dirty, lockFaults>>

\* pg_try_advisory_lock: another session's lock refuses it, the session's own
\* does not.
TryLock(c) ==
    LET l == subject[c] IN
    /\ use[c] = "locking"
    /\ IF \A d \in Clients \ {c} : session[d][l] = 0
       THEN /\ use' = [use EXCEPT ![c] = "granted"]
            /\ session' = [session EXCEPT ![c][l] = @ + 1]
       ELSE /\ use' = [use EXCEPT ![c] = "refused"]
            /\ UNCHANGED session
    /\ UNCHANGED <<heldLocks, beating, subject, dirty, lockFaults>>

\* acquired: true; with a heartbeat shorter than the TTL the lock never expires.
Acquired(c, beats) ==
    /\ use[c] = "granted"
    /\ use' = [use EXCEPT ![c] = "held"]
    /\ heldLocks' = [heldLocks EXCEPT ![Home[c]][subject[c]] = c]
    /\ beating' = [beating EXCEPT ![Home[c]][subject[c]] = beats]
    /\ UNCHANGED <<subject, session, dirty, lockFaults>>

NotAcquired(c) ==
    /\ use[c] = "refused"
    /\ ToPool(c)
    /\ UNCHANGED <<heldLocks, beating, session, dirty, lockFaults>>

\* Mutant: the entry is deleted after the unlock is awaited, not before.
ForgottenLater(m, l) == heldLocks

Forgotten(m, l) == [heldLocks EXCEPT ![m][l] = NoClient]

\* Timers cleared, entry deleted, unlock sent. Nothing says whose entry it is.
LetGo(m, l) ==
    /\ heldLocks[m][l] # NoClient
    /\ use' = [use EXCEPT ![heldLocks[m][l]] = "unlocking"]
    /\ beating' = [beating EXCEPT ![m][l] = FALSE]
    /\ heldLocks' = Forgotten(m, l)
    /\ UNCHANGED <<subject, session, dirty, lockFaults>>

\* releaseLockById by any caller, the one that acquired the lock or another.
ReleaseLock(m, l) == LetGo(m, l)

\* autoRelease: the TTL timer fires.
AutoRelease(m, l) == ~beating[m][l] /\ LetGo(m, l)

Unlocked(c) == [session EXCEPT ![c][subject[c]] = IF @ = 0 THEN 0 ELSE @ - 1]

\* pg_advisory_unlock, then held.client.release()
Unlock(c) ==
    /\ use[c] = "unlocking"
    /\ session' = Unlocked(c)
    /\ ToPool(c)
    /\ UNCHANGED <<heldLocks, beating, dirty, lockFaults>>

\* A query rejects and the session goes on: the client is released all the same.
QueryFails(c) ==
    /\ use[c] \in {"locking", "unlocking"}
    /\ LockFault
    /\ dirty' = IF use[c] = "unlocking" THEN dirty \cup {c} ELSE dirty
    /\ ToPool(c)
    /\ UNCHANGED <<heldLocks, beating, session>>

SessionsEnd(ended) ==
    /\ session' = [c \in Clients |-> IF c \in ended THEN [l \in Locks |-> 0] ELSE session[c]]
    /\ dirty' = dirty \ ended
    /\ use' = [c \in Clients |-> IF c \in ended THEN "pooled" ELSE use[c]]
    /\ subject' = [c \in Clients |-> IF c \in ended THEN NoLock ELSE subject[c]]

\* The connection breaks under a query; pg.Pool replaces the client.
ConnectionBreaks(c) ==
    /\ use[c] \in {"locking", "unlocking"}
    /\ LockFault
    /\ SessionsEnd({c})
    /\ UNCHANGED <<heldLocks, beating>>

ProcessDies(m) ==
    /\ LockFault
    /\ SessionsEnd({c \in Clients : Home[c] = m})
    /\ heldLocks' = [heldLocks EXCEPT ![m] = [l \in Locks |-> NoClient]]
    /\ beating' = [beating EXCEPT ![m] = [l \in Locks |-> FALSE]]

LockNext ==
    \/ \E c \in Clients :
          \/ \E l \in Locks : Acquire(c, l)
          \/ TryLock(c) \/ NotAcquired(c) \/ \E beats \in BOOLEAN : Acquired(c, beats)
          \/ Unlock(c) \/ QueryFails(c) \/ ConnectionBreaks(c)
    \/ \E m \in Managers :
          \/ \E l \in Locks : ReleaseLock(m, l) \/ AutoRelease(m, l)
          \/ ProcessDies(m)

LockSpec == LockInit /\ [][LockNext]_lockVars

-----------------------------------------------------------------------------
(* Properties. *)

\* lock_manager.ts: whatever is released, by whom, or expires while other calls
\* wait for their queries: a lock is in the map of one process at most, the
\* session of the entry's client does hold it, and the client is in no other use.
LockHasOneHolder ==
    \A l \in Locks :
        /\ \A m \in Managers :
              LET c == heldLocks[m][l] IN
              c # NoClient => /\ Home[c] = m /\ use[c] = "held" /\ subject[c] = l
                              /\ session[c][l] > 0
        /\ \A m, n \in Managers :
              heldLocks[m][l] # NoClient /\ heldLocks[n][l] # NoClient => m = n

\* lock_manager.ts: a client goes back to the pool with a lock on its session
\* only if an unlock of it failed; otherwise every lock has somebody to free it.
PooledClientsHoldNothing ==
    \A c \in Clients : \A l \in Locks :
        session[c][l] > 0 /\ c \notin dirty =>
            /\ use[c] \in {"granted", "held", "unlocking"} /\ subject[c] = l
            /\ use[c] = "held" => heldLocks[Home[c]][l] = c
=============================================================================
