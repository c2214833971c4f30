---------------------------- MODULE ServicesProofs ---------------------------
(***************************************************************************)
(* Proofs about the services of MCServices: locks and logins, sessions,    *)
(* streams and limits, balances and the contract, for any clients,         *)
(* instances, challenges, dashboards, reconciliations, batches and sizes;  *)
(* and, with IngestionProofs, what they say of the runs of MCServices.     *)
(***************************************************************************)
EXTENDS MCServices, IngestionProofs

-----------------------------------------------------------------------------
(***************************************************************************)
(* The two lock services.                                                  *)
(***************************************************************************)
(* Advisory locks. *)

\* PostgreSQL: an advisory lock is on one session at most.
OneSession ==
    \A c, d \in Clients : \A l \in Locks :
        session[c][l] # 0 /\ session[d][l] # 0 => c = d

\* A client that was granted its lock and has not given it back has it.
UserHasLock ==
    \A c \in Clients :
        use[c] \in {"granted", "held", "unlocking"} => session[c][subject[c]] # 0

\* Entries of the maps and clients in use as holders correspond.
EntryIsInUse ==
    \A m \in Managers : \A l \in Locks : \A c \in Clients :
        heldLocks[m][l] = c => Home[c] = m /\ use[c] = "held" /\ subject[c] = l

HolderHasEntry ==
    \A c \in Clients : use[c] = "held" => heldLocks[Home[c]][subject[c]] = c

\* A session no unlock failed on has its lock once, and only while in use for it.
CleanSession ==
    \A c \in Clients : \A l \in Locks :
        c \notin dirty /\ session[c][l] # 0 =>
            /\ session[c][l] = 1
            /\ use[c] \in {"granted", "held", "unlocking"} /\ subject[c] = l

LockInv == LockTypeOK /\ OneSession /\ UserHasLock /\ EntryIsInUse /\ HolderHasEntry
              /\ CleanSession

LEMMA LockInitInv == LockInit => LockInv
<1> USE LockAssumption
<1> SUFFICES ASSUME LockInit PROVE LockInv
  OBVIOUS
<1>1. LockTypeOK
  BY DEF LockInit, LockTypeOK
<1>2. OneSession /\ UserHasLock /\ EntryIsInUse /\ HolderHasEntry /\ CleanSession
  BY DEF LockInit, OneSession, UserHasLock, EntryIsInUse, HolderHasEntry, CleanSession
<1> QED BY <1>1, <1>2 DEF LockInv

\* A client out of the pool is out for a lock.
LEMMA SubjectOfUse ==
    ASSUME LockTypeOK, NEW c \in Clients, use[c] # "pooled"
    PROVE  subject[c] \in Locks
BY LockAssumption DEF LockTypeOK

LEMMA AcquireInv ==
    ASSUME LockInv, NEW c \in Clients, NEW l \in Locks, Acquire(c, l)
    PROVE  LockInv'
<1> USE LockAssumption DEF LockInv, Acquire
<1>1. LockTypeOK'
  BY DEF LockTypeOK, Uses
<1>2. OneSession'
  BY DEF OneSession
<1>3. UserHasLock' /\ EntryIsInUse' /\ HolderHasEntry' /\ CleanSession'
  BY DEF LockTypeOK, UserHasLock, EntryIsInUse, HolderHasEntry, CleanSession
<1> QED BY <1>1, <1>2, <1>3

\* A client is granted a lock that no other session has.
LEMMA TryLockInv ==
    ASSUME LockInv, NEW c \in Clients, TryLock(c)
    PROVE  LockInv'
<1> USE LockAssumption
<1> DEFINE l == subject[c]
<1>1. use[c] = "locking" /\ l \in Locks
  BY SubjectOfUse DEF LockInv, TryLock
<1> HIDE DEF l
<1>2. UNCHANGED <<heldLocks, beating, subject, dirty, lockFaults>>
  BY DEF TryLock
<1>3. CASE \A d \in Clients \ {c} : session[d][l] = 0
  <2>1. use' = [use EXCEPT ![c] = "granted"] /\ session' = [session EXCEPT ![c][l] = @ + 1]
    BY <1>3 DEF TryLock, l
  <2>2. session[c][l] \in Nat /\ session'[c][l] = session[c][l] + 1
    BY <1>1, <2>1 DEF LockInv, LockTypeOK
  <2>3. LockTypeOK'
    BY <1>1, <1>2, <2>1, <2>2 DEF LockInv, LockTypeOK, Uses
  <2>4. \A d \in Clients : \A k \in Locks :
           d # c \/ k # l => session'[d][k] = session[d][k]
    BY <1>1, <2>1 DEF LockInv, LockTypeOK
  <2>5. session'[c][l] # 0
    BY <2>2
  <2>6. OneSession'
    BY <1>3, <2>4 DEF LockInv, OneSession
  <2>7. UserHasLock'
    BY <1>1, <1>2, <2>1, <2>4, <2>5 DEF LockInv, LockTypeOK, UserHasLock, l
  <2>8. EntryIsInUse' /\ HolderHasEntry'
    BY <1>1, <1>2, <2>1 DEF LockInv, LockTypeOK, EntryIsInUse, HolderHasEntry
  <2>9. c \notin dirty => \A k \in Locks : session[c][k] = 0
    BY <1>1 DEF LockInv, CleanSession
  <2>10. c \notin dirty => session'[c][l] = 1
    BY <1>1, <2>2, <2>9
  <2>11. CleanSession'
    BY <1>1, <1>2, <2>1, <2>4, <2>9, <2>10 DEF LockInv, LockTypeOK, CleanSession, l
  <2> QED BY <2>3, <2>6, <2>7, <2>8, <2>11 DEF LockInv
<1>4. CASE ~ \A d \in Clients \ {c} : session[d][l] = 0
  <2>1. use' = [use EXCEPT ![c] = "refused"] /\ UNCHANGED session
    BY <1>4 DEF TryLock, l
  <2> QED
    BY <1>1, <1>2, <2>1
       DEF LockInv, LockTypeOK, Uses, OneSession, UserHasLock, EntryIsInUse, HolderHasEntry,
           CleanSession
<1> QED BY <1>3, <1>4

\* The entry is written where there was none: its holder would have the lock.
LEMMA AcquiredInv ==
    ASSUME LockInv, NEW c \in Clients, NEW beats \in BOOLEAN, Acquired(c, beats)
    PROVE  LockInv'
<1> USE LockAssumption
<1> DEFINE l == subject[c]
           m == Home[c]
<1>1. use[c] = "granted" /\ l \in Locks /\ m \in Managers
  BY SubjectOfUse DEF LockInv, Acquired
<1>2. /\ use' = [use EXCEPT ![c] = "held"]
      /\ heldLocks' = [heldLocks EXCEPT ![m][l] = c]
      /\ beating' = [beating EXCEPT ![m][l] = beats]
      /\ UNCHANGED <<subject, session, dirty, lockFaults>>
  BY DEF Acquired
<1>3. \A d \in Clients : heldLocks[m][l] # d
  BY <1>1 DEF LockInv, EntryIsInUse, UserHasLock, OneSession
<1>4. beating' \in [Managers -> [Locks -> BOOLEAN]]
  BY <1>1, <1>2, Zenon DEF LockInv, LockTypeOK
<1>5. heldLocks' \in [Managers -> [Locks -> Clients \cup {NoClient}]]
  BY <1>1, <1>2 DEF LockInv, LockTypeOK
<1>6. LockTypeOK'
  BY <1>1, <1>2, <1>4, <1>5 DEF LockInv, LockTypeOK, Uses
<1>7. /\ heldLocks'[m][l] = c
      /\ \A n \in Managers : \A k \in Locks :
            n # m \/ k # l => heldLocks'[n][k] = heldLocks[n][k]
  BY <1>1, <1>2 DEF LockInv, LockTypeOK
<1>8. use'[c] = "held" /\ \A d \in Clients \ {c} : use'[d] = use[d]
  BY <1>2 DEF LockInv, LockTypeOK
<1>9. subject'[c] = l /\ \A d \in Clients : subject'[d] = subject[d]
  BY <1>2
<1> HIDE DEF l, m
<1>10. OneSession' /\ UserHasLock' /\ CleanSession'
  BY <1>1, <1>2, <1>8 DEF LockInv, OneSession, UserHasLock, CleanSession
<1>11. EntryIsInUse'
  <2> SUFFICES ASSUME NEW n \in Managers, NEW k \in Locks, NEW d \in Clients,
                      heldLocks'[n][k] = d
               PROVE  Home[d] = n /\ use'[d] = "held" /\ subject'[d] = k
    BY DEF EntryIsInUse
  <2>1. CASE n = m /\ k = l
    BY <2>1, <1>7, <1>8, <1>9 DEF m
  <2>2. CASE n # m \/ k # l
    BY <2>2, <1>1, <1>7, <1>8, <1>9 DEF LockInv, EntryIsInUse
  <2> QED BY <2>1, <2>2
<1>12. HolderHasEntry'
  <2> SUFFICES ASSUME NEW d \in Clients, use'[d] = "held"
               PROVE  heldLocks'[Home[d]][subject'[d]] = d
    BY DEF HolderHasEntry
  <2>1. CASE d = c
    BY <2>1, <1>7, <1>9 DEF m
  <2>2. CASE d # c
    <3>1. use[d] = "held" /\ heldLocks[Home[d]][subject[d]] = d
      BY <2>2, <1>8 DEF LockInv, HolderHasEntry
    <3>2. Home[d] \in Managers /\ subject[d] \in Locks
      BY <3>1, SubjectOfUse DEF LockInv
    <3> QED BY <3>1, <3>2, <1>3, <1>7, <1>9
  <2> QED BY <2>1, <2>2
<1> QED BY <1>6, <1>10, <1>11, <1>12 DEF LockInv

\* A client goes back to the pool; its session may stay as it is.
LEMMA ToPoolType ==
    ASSUME LockTypeOK, NEW c \in Clients, ToPool(c)
    PROVE  /\ use' \in [Clients -> Uses \cup {"pooled"}]
           /\ subject' \in [Clients -> Locks \cup {NoLock}]
           /\ \A d \in Clients : (use'[d] = "pooled") <=> (subject'[d] = NoLock)
           /\ use'[c] = "pooled"
           /\ \A d \in Clients \ {c} : use'[d] = use[d] /\ subject'[d] = subject[d]
BY LockAssumption DEF LockTypeOK, ToPool

LEMMA NotAcquiredInv ==
    ASSUME LockInv, NEW c \in Clients, NotAcquired(c)
    PROVE  LockInv'
<1>1. /\ use[c] = "refused" /\ ToPool(c)
      /\ UNCHANGED <<heldLocks, beating, session, dirty, lockFaults>>
  BY DEF NotAcquired
<1>2. /\ LockTypeOK'
      /\ use'[c] = "pooled"
      /\ \A d \in Clients \ {c} : use'[d] = use[d] /\ subject'[d] = subject[d]
  BY <1>1, ToPoolType DEF LockInv, LockTypeOK
<1>3. OneSession' /\ UserHasLock' /\ EntryIsInUse' /\ HolderHasEntry' /\ CleanSession'
  BY <1>1, <1>2
     DEF LockInv, OneSession, UserHasLock, EntryIsInUse, HolderHasEntry, CleanSession
<1> QED BY <1>2, <1>3 DEF LockInv

\* releaseLockById and autoRelease: the entry goes, and its client unlocks.
LEMMA LetGoInv ==
    ASSUME LockInv, NEW m \in Managers, NEW l \in Locks, LetGo(m, l)
    PROVE  LockInv'
<1> USE LockAssumption
<1> DEFINE c == heldLocks[m][l]
<1>1. c \in Clients
  BY DEF LockInv, LockTypeOK, LetGo
<1>2. Home[c] = m /\ use[c] = "held" /\ subject[c] = l
  BY <1>1 DEF LockInv, EntryIsInUse
<1>3. /\ use' = [use EXCEPT ![c] = "unlocking"]
      /\ beating' = [beating EXCEPT ![m][l] = FALSE]
      /\ heldLocks' = [heldLocks EXCEPT ![m][l] = NoClient]
      /\ UNCHANGED <<subject, session, dirty, lockFaults>>
  BY DEF LetGo, Forgotten
<1>4. beating' \in [Managers -> [Locks -> BOOLEAN]]
  BY <1>3, Zenon DEF LockInv, LockTypeOK
<1>5. heldLocks' \in [Managers -> [Locks -> Clients \cup {NoClient}]]
  BY <1>3 DEF LockInv, LockTypeOK
<1>6. LockTypeOK'
  BY <1>1, <1>2, <1>3, <1>4, <1>5 DEF LockInv, LockTypeOK, Uses
<1>7. /\ heldLocks'[m][l] = NoClient
      /\ \A n \in Managers : \A k \in Locks :
            n # m \/ k # l => heldLocks'[n][k] = heldLocks[n][k]
  BY <1>3 DEF LockInv, LockTypeOK
<1>8. use'[c] = "unlocking" /\ \A d \in Clients \ {c} : use'[d] = use[d]
  BY <1>1, <1>3 DEF LockInv, LockTypeOK
<1>9. \A d \in Clients : subject'[d] = subject[d]
  BY <1>3
<1>10. \A n \in Managers : \A k \in Locks : n # m \/ k # l => heldLocks[n][k] # c
  BY <1>1, <1>2 DEF LockInv, EntryIsInUse
<1>11. \A d \in Clients \ {c} : use[d] = "held" => Home[d] # m \/ subject[d] # l
  BY DEF LockInv, HolderHasEntry
<1> HIDE DEF c
<1>12. OneSession' /\ UserHasLock' /\ CleanSession'
  BY <1>1, <1>2, <1>3, <1>8 DEF LockInv, OneSession, UserHasLock, CleanSession
<1>13. EntryIsInUse'
  BY <1>7, <1>8, <1>9, <1>10 DEF LockInv, EntryIsInUse
<1>14. HolderHasEntry'
  <2> SUFFICES ASSUME NEW d \in Clients, use'[d] = "held"
               PROVE  heldLocks'[Home[d]][subject'[d]] = d
    BY DEF HolderHasEntry
  <2>1. d # c /\ use[d] = "held" /\ heldLocks[Home[d]][subject[d]] = d
    BY <1>1, <1>8 DEF LockInv, HolderHasEntry
  <2>2. Home[d] \in Managers /\ subject[d] \in Locks
    BY <2>1, SubjectOfUse DEF LockInv
  <2> QED BY <2>1, <2>2, <1>7, <1>9, <1>11
<1> QED BY <1>6, <1>12, <1>13, <1>14 DEF LockInv

\* pg_advisory_unlock: a clean session is left with no lock at all.
LEMMA UnlockInv ==
    ASSUME LockInv, NEW c \in Clients, Unlock(c)
    PROVE  LockInv'
<1> DEFINE l == subject[c]
<1>1. use[c] = "unlocking" /\ l \in Locks
  BY SubjectOfUse DEF LockInv, Unlock
<1>2. /\ ToPool(c)
      /\ session' = [session EXCEPT ![c][l] = IF @ = 0 THEN 0 ELSE @ - 1]
      /\ UNCHANGED <<heldLocks, beating, dirty, lockFaults>>
  BY DEF Unlock, Unlocked
<1>3. session[c][l] \in Nat /\ session[c][l] # 0
  BY <1>1 DEF LockInv, LockTypeOK, UserHasLock
<1>4. /\ session'[c][l] = session[c][l] - 1
      /\ \A d \in Clients : \A k \in Locks :
            d # c \/ k # l => session'[d][k] = session[d][k]
  BY <1>1, <1>2, <1>3 DEF LockInv, LockTypeOK
<1>5. session' \in [Clients -> [Locks -> Nat]]
  <2>1. session[c][l] - 1 \in Nat
    BY <1>3
  <2>2. session' = [session EXCEPT ![c] = [session[c] EXCEPT ![l] = session[c][l] - 1]]
    BY <1>2, <1>3
  <2>3. [session[c] EXCEPT ![l] = session[c][l] - 1] \in [Locks -> Nat]
    BY <2>1, <1>1 DEF LockInv, LockTypeOK
  <2> QED BY <2>2, <2>3 DEF LockInv, LockTypeOK
<1>6. /\ LockTypeOK'
      /\ use'[c] = "pooled"
      /\ \A d \in Clients \ {c} : use'[d] = use[d] /\ subject'[d] = subject[d]
  BY <1>2, <1>5, ToPoolType DEF LockInv, LockTypeOK
<1>7. \A d \in Clients : \A k \in Locks : session'[d][k] # 0 => session[d][k] # 0
  BY <1>3, <1>4
<1>8. c \notin dirty => session'[c][l] = 0 /\ \A k \in Locks \ {l} : session[c][k] = 0
  BY <1>1, <1>3, <1>4 DEF LockInv, CleanSession
<1> HIDE DEF l
<1>9. OneSession'
  BY <1>7 DEF LockInv, OneSession
<1>10. UserHasLock' /\ CleanSession'
  BY <1>1, <1>2, <1>4, <1>6, <1>8 DEF LockInv, UserHasLock, CleanSession
<1>11. EntryIsInUse' /\ HolderHasEntry'
  BY <1>1, <1>2, <1>6 DEF LockInv, EntryIsInUse, HolderHasEntry
<1> QED BY <1>6, <1>9, <1>10, <1>11 DEF LockInv

\* A failed unlock makes the session dirty; a failed attempt took no lock.
LEMMA QueryFailsInv ==
    ASSUME LockInv, NEW c \in Clients, QueryFails(c)
    PROVE  LockInv'
<1>1. /\ use[c] \in {"locking", "unlocking"} /\ ToPool(c)
      /\ lockFaults < MaxLockFaults /\ lockFaults' = lockFaults + 1
      /\ dirty' = IF use[c] = "unlocking" THEN dirty \cup {c} ELSE dirty
      /\ UNCHANGED <<heldLocks, beating, session>>
  BY DEF QueryFails, LockFault
<1>2. lockFaults' \in 0..MaxLockFaults
  BY <1>1, LockAssumption DEF LockInv, LockTypeOK
<1>3. /\ LockTypeOK'
      /\ use'[c] = "pooled"
      /\ \A d \in Clients \ {c} : use'[d] = use[d] /\ subject'[d] = subject[d]
  BY <1>1, <1>2, ToPoolType DEF LockInv, LockTypeOK
<1>4. OneSession' /\ UserHasLock'
  BY <1>1, <1>3 DEF LockInv, OneSession, UserHasLock
<1>5. EntryIsInUse' /\ HolderHasEntry'
  BY <1>1, <1>3 DEF LockInv, EntryIsInUse, HolderHasEntry
<1>6. CleanSession'
  BY <1>1, <1>3 DEF LockInv, CleanSession
<1> QED BY <1>3, <1>4, <1>5, <1>6 DEF LockInv

\* Sessions that end leave clean clients in the pool, with no lock.
LEMMA SessionsEndFacts ==
    ASSUME LockInv, NEW ended \in SUBSET Clients, SessionsEnd(ended), LockFault
    PROVE  /\ session' \in [Clients -> [Locks -> Nat]]
           /\ use' \in [Clients -> Uses \cup {"pooled"}]
           /\ subject' \in [Clients -> Locks \cup {NoLock}]
           /\ \A c \in Clients : (use'[c] = "pooled") <=> (subject'[c] = NoLock)
           /\ dirty' \in SUBSET Clients
           /\ lockFaults' \in 0..MaxLockFaults
           /\ OneSession' /\ UserHasLock' /\ CleanSession'
<1>1. session' \in [Clients -> [Locks -> Nat]]
  BY DEF LockInv, LockTypeOK, SessionsEnd
<1>2. /\ use' \in [Clients -> Uses \cup {"pooled"}]
      /\ subject' \in [Clients -> Locks \cup {NoLock}]
      /\ \A c \in Clients : (use'[c] = "pooled") <=> (subject'[c] = NoLock)
  BY DEF LockInv, LockTypeOK, SessionsEnd
<1>3. dirty' \in SUBSET Clients /\ lockFaults' \in 0..MaxLockFaults
  BY LockAssumption DEF LockInv, LockTypeOK, SessionsEnd, LockFault
<1>4. \A c \in Clients :
        IF c \in ended
        THEN use'[c] = "pooled" /\ \A l \in Locks : session'[c][l] = 0
        ELSE use'[c] = use[c] /\ subject'[c] = subject[c] /\ session'[c] = session[c]
  BY DEF SessionsEnd
<1>5. \A c \in Clients \ ended : c \notin dirty' => c \notin dirty
  BY DEF SessionsEnd
<1>6. OneSession'
  BY <1>4 DEF LockInv, OneSession
<1>7. UserHasLock'
  BY <1>4 DEF LockInv, UserHasLock
<1>8. CleanSession'
  BY <1>4, <1>5 DEF LockInv, CleanSession
<1> QED BY <1>1, <1>2, <1>3, <1>6, <1>7, <1>8

LEMMA ConnectionBreaksInv ==
    ASSUME LockInv, NEW c \in Clients, ConnectionBreaks(c)
    PROVE  LockInv'
<1>1. /\ use[c] # "held" /\ SessionsEnd({c}) /\ LockFault
      /\ UNCHANGED <<heldLocks, beating>>
  BY DEF ConnectionBreaks
<1>2. LockTypeOK' /\ OneSession' /\ UserHasLock' /\ CleanSession'
  BY <1>1, SessionsEndFacts DEF LockInv, LockTypeOK
<1>3. /\ use'[c] = "pooled"
      /\ \A d \in Clients \ {c} : use'[d] = use[d] /\ subject'[d] = subject[d]
  BY <1>1 DEF SessionsEnd
<1>4. EntryIsInUse' /\ HolderHasEntry'
  BY <1>1, <1>3 DEF LockInv, EntryIsInUse, HolderHasEntry
<1> QED BY <1>2, <1>4 DEF LockInv

\* A process takes its map and all its sessions with it.
LEMMA ProcessDiesInv ==
    ASSUME LockInv, NEW m \in Managers, ProcessDies(m)
    PROVE  LockInv'
<1> DEFINE ended == {c \in Clients : Home[c] = m}
<1>1. /\ SessionsEnd(ended) /\ LockFault
      /\ heldLocks' = [heldLocks EXCEPT ![m] = [l \in Locks |-> NoClient]]
      /\ beating' = [beating EXCEPT ![m] = [l \in Locks |-> FALSE]]
  BY DEF ProcessDies
<1>2. beating' \in [Managers -> [Locks -> BOOLEAN]]
  BY <1>1, Zenon DEF LockInv, LockTypeOK
<1>3. heldLocks' \in [Managers -> [Locks -> Clients \cup {NoClient}]]
  BY <1>1 DEF LockInv, LockTypeOK
<1>4. LockTypeOK' /\ OneSession' /\ UserHasLock' /\ CleanSession'
  BY <1>1, <1>2, <1>3, SessionsEndFacts DEF LockInv, LockTypeOK
<1>5. \A c \in Clients :
        IF Home[c] = m THEN use'[c] = "pooled"
                       ELSE use'[c] = use[c] /\ subject'[c] = subject[c]
  BY <1>1 DEF SessionsEnd
<1>6. /\ \A l \in Locks : heldLocks'[m][l] = NoClient
      /\ \A n \in Managers \ {m} : heldLocks'[n] = heldLocks[n]
  BY <1>1 DEF LockInv, LockTypeOK
<1>7. EntryIsInUse'
  BY <1>5, <1>6, LockAssumption DEF LockInv, EntryIsInUse
<1>8. HolderHasEntry'
  <2> SUFFICES ASSUME NEW c \in Clients, use'[c] = "held"
               PROVE  heldLocks'[Home[c]][subject'[c]] = c
    BY DEF HolderHasEntry
  <2>1. Home[c] # m /\ use[c] = "held" /\ subject'[c] = subject[c]
    BY <1>5
  <2>2. Home[c] \in Managers
    BY LockAssumption
  <2> QED BY <2>1, <2>2, <1>6 DEF LockInv, HolderHasEntry
<1> QED BY <1>4, <1>7, <1>8 DEF LockInv

LEMMA LockStepInv == LockInv /\ [LockNext]_lockVars => LockInv'
<1> SUFFICES ASSUME LockInv, [LockNext]_lockVars
             PROVE  LockInv'
  OBVIOUS
<1>1. CASE \E c \in Clients, l \in Locks : Acquire(c, l)
  BY <1>1, AcquireInv
<1>2. CASE \E c \in Clients : \E beats \in BOOLEAN : Acquired(c, beats)
  BY <1>2, AcquiredInv
<1>3. CASE \E c \in Clients : TryLock(c) \/ NotAcquired(c) \/ Unlock(c)
  BY <1>3, TryLockInv, NotAcquiredInv, UnlockInv
<1>4. CASE \E c \in Clients : QueryFails(c) \/ ConnectionBreaks(c)
  BY <1>4, QueryFailsInv, ConnectionBreaksInv
<1>5. CASE \E m \in Managers, l \in Locks : ReleaseLock(m, l) \/ AutoRelease(m, l)
  BY <1>5, LetGoInv DEF ReleaseLock, AutoRelease
<1>6. CASE \E m \in Managers : ProcessDies(m)
  BY <1>6, ProcessDiesInv
<1>7. CASE UNCHANGED lockVars
  BY <1>7
     DEF lockVars, LockInv, LockTypeOK, OneSession, UserHasLock, EntryIsInUse,
         HolderHasEntry, CleanSession
<1> QED BY <1>1, <1>2, <1>3, <1>4, <1>5, <1>6, <1>7 DEF LockNext

\* LockInv holds in every state the lock managers reach.
THEOREM LockInductive == LockSpec => []LockInv
<1> QED BY LockInitInv, LockStepInv, PTL DEF LockSpec

\* lock_manager.ts: at most one process holds a lock, with a session that has
\* it, however releases, expiries, failures and crashes interleave.
THEOREM OneHolder == LockSpec => []LockHasOneHolder
<1>1. LockInv => LockHasOneHolder
  <2> SUFFICES ASSUME LockInv, NEW l \in Locks
               PROVE  /\ \A m \in Managers :
                            heldLocks[m][l] # NoClient =>
                              /\ Home[heldLocks[m][l]] = m /\ use[heldLocks[m][l]] = "held"
                              /\ subject[heldLocks[m][l]] = l
                              /\ session[heldLocks[m][l]][l] > 0
                      /\ \A m, n \in Managers :
                            heldLocks[m][l] # NoClient /\ heldLocks[n][l] # NoClient => m = n
    BY DEF LockHasOneHolder
  <2>1. ASSUME NEW m \in Managers, heldLocks[m][l] # NoClient
        PROVE  /\ heldLocks[m][l] \in Clients
               /\ Home[heldLocks[m][l]] = m /\ use[heldLocks[m][l]] = "held"
               /\ subject[heldLocks[m][l]] = l /\ session[heldLocks[m][l]][l] # 0
    <3>1. heldLocks[m][l] \in Clients
      BY <2>1 DEF LockInv, LockTypeOK
    <3> QED BY <3>1 DEF LockInv, EntryIsInUse, UserHasLock
  <2>2. \A c \in Clients : session[c][l] \in Nat
    BY DEF LockInv, LockTypeOK
  <2>3. \A m \in Managers :
           heldLocks[m][l] # NoClient => session[heldLocks[m][l]][l] > 0
    BY <2>1, <2>2
  <2>4. \A m, n \in Managers :
           heldLocks[m][l] # NoClient /\ heldLocks[n][l] # NoClient => m = n
    BY <2>1 DEF LockInv, OneSession
  <2> QED BY <2>1, <2>3, <2>4
<1> QED BY <1>1, LockInductive, PTL

\* lock_manager.ts: a lock nobody is going to free is on a session one of whose
\* unlocks failed.
THEOREM NoLockIsLost == LockSpec => []PooledClientsHoldNothing
<1>1. LockInv => PooledClientsHoldNothing
  <2> SUFFICES ASSUME LockInv, NEW c \in Clients, NEW l \in Locks,
                      session[c][l] > 0, c \notin dirty
               PROVE  /\ use[c] \in {"granted", "held", "unlocking"} /\ subject[c] = l
                      /\ use[c] = "held" => heldLocks[Home[c]][l] = c
    BY DEF PooledClientsHoldNothing
  <2>1. session[c][l] # 0
    OBVIOUS
  <2>2. use[c] \in {"granted", "held", "unlocking"} /\ subject[c] = l
    BY <2>1 DEF LockInv, CleanSession
  <2> QED BY <2>2 DEF LockInv, HolderHasEntry
<1> QED BY <1>1, LockInductive, PTL

-----------------------------------------------------------------------------
(* The migration lock. *)

\* Until a lock lapses, whoever migrates or has migrated and not yet said so
\* is the one the lock names.
LeaderIsNamed ==
    ~lapsed => \A i \in Instances : place[i] \in {"migrating", "marking"} => lockKey = i

\* A marker is set only behind a migration, and serving follows one.
MarkerIsBehind ==
    /\ doneKey <= schema
    /\ \A i \in Instances : place[i] \in {"marking", "clearing"} => Release[i] <= schema

MigrationInv == MigrationTypeOK /\ LeaderIsNamed /\ MarkerIsBehind /\ ServesMigrated

\* Versions are numbers.
LEMMA VersionsAreNumbers ==
    MigrationTypeOK => /\ Releases \subseteq Nat /\ \A i \in Instances : Release[i] \in Releases
                       /\ schema \in Nat /\ doneKey \in Nat
BY MigrationAssumption DEF MigrationTypeOK, Releases

LEMMA MigrationInitInv == MigrationInit => MigrationInv
<1> SUFFICES ASSUME MigrationInit PROVE MigrationInv
  OBVIOUS
<1>1. MigrationTypeOK
  <2>1. trusted = [i \in Instances |-> 0] /\ place = [i \in Instances |-> "down"]
    BY DEF MigrationInit
  <2>2. /\ trusted \in [Instances -> Releases \cup {0}]
        /\ \A i \in Instances : trusted[i] # 0 => place[i] = "serving"
    BY <2>1
  <2>3. migrationFaults \in 0..MaxMigrationFaults
    BY MigrationAssumption DEF MigrationInit
  <2> QED BY <2>1, <2>2, <2>3 DEF MigrationInit, MigrationTypeOK, Places
<1>2. LeaderIsNamed /\ ServesMigrated
  BY DEF MigrationInit, LeaderIsNamed, ServesMigrated
<1>3. MarkerIsBehind
  BY DEF MigrationInit, MarkerIsBehind
<1> QED BY <1>1, <1>2, <1>3 DEF MigrationInv

LEMMA StartInv ==
    ASSUME MigrationInv, NEW i \in Instances, Start(i) \/ StartAnswerLost(i)
    PROVE  MigrationInv'
<1> USE MigrationAssumption DEF MigrationInv, Move, LockKeyFree, MigrationFault
<1>1. MigrationTypeOK'
  BY DEF MigrationTypeOK, Places, Start, StartAnswerLost
<1>2. LeaderIsNamed' /\ MarkerIsBehind' /\ ServesMigrated'
  BY DEF MigrationTypeOK, LeaderIsNamed, MarkerIsBehind, ServesMigrated, Start, StartAnswerLost
<1> QED BY <1>1, <1>2

\* The schema only grows, and the instance that migrated has its own in place.
LEMMA MigrateInv ==
    ASSUME MigrationInv, NEW i \in Instances, Migrate(i)
    PROVE  MigrationInv'
<1>1. /\ place[i] = "migrating" /\ place' = [place EXCEPT ![i] = "marking"]
      /\ schema' = IF schema < Release[i] THEN Release[i] ELSE schema
      /\ UNCHANGED <<lockKey, doneKey, trusted, lapsed, migrationFaults>>
  BY DEF Migrate, Move
<1>2. /\ Release[i] \in Releases /\ Releases \subseteq Nat /\ schema \in Nat /\ doneKey \in Nat
      /\ \A j \in Instances : Release[j] \in Nat
  BY VersionsAreNumbers DEF MigrationInv
<1>3. schema <= schema' /\ Release[i] <= schema' /\ schema' \in Nat
  BY <1>1, <1>2
<1>4. schema' \in Releases \cup {0}
  BY <1>1, <1>2 DEF MigrationInv, MigrationTypeOK
<1>5. MigrationTypeOK'
  BY <1>1, <1>4 DEF MigrationInv, MigrationTypeOK, Places
<1>6. LeaderIsNamed'
  BY <1>1 DEF MigrationInv, MigrationTypeOK, LeaderIsNamed
<1>7. \A n \in Nat : n <= schema => n <= schema'
  BY <1>2, <1>3
<1>8. MarkerIsBehind'
  BY <1>1, <1>2, <1>3, <1>7 DEF MigrationInv, MigrationTypeOK, MarkerIsBehind
<1>9. ServesMigrated'
  <2> SUFFICES ASSUME NEW j \in Instances, place'[j] = "serving"
               PROVE  schema' >= Release[j] \/ trusted'[j] \in 1..(Release[j] - 1)
    BY DEF ServesMigrated
  <2>1. place[j] = "serving" /\ trusted'[j] = trusted[j]
    BY <1>1 DEF MigrationInv, MigrationTypeOK
  <2> QED BY <2>1, <1>2, <1>3 DEF MigrationInv, ServesMigrated
<1> QED BY <1>5, <1>6, <1>8, <1>9 DEF MigrationInv

\* The leader's other steps.
LEMMA LeaderInv ==
    ASSUME MigrationInv, NEW i \in Instances,
           MigrateFails(i) \/ MarkDone(i) \/ ClearLock(i) \/ UnlockAfterError(i) \/ RedisFails(i)
    PROVE  MigrationInv'
<1> USE MigrationAssumption
    DEF MigrationInv, Move, DeleteLock, MigrationFault, MarkAfterFailure
<1>1. /\ Releases \subseteq Nat /\ \A j \in Instances : Release[j] \in Releases
      /\ schema \in Nat /\ doneKey \in Nat
  BY VersionsAreNumbers
<1>2. CASE MigrateFails(i)
  BY <1>1, <1>2
     DEF MigrateFails, MigrationTypeOK, Places, LeaderIsNamed, MarkerIsBehind, ServesMigrated
<1>3. CASE MarkDone(i)
  <2>1. MigrationTypeOK' /\ LeaderIsNamed' /\ ServesMigrated'
    BY <1>1, <1>3 DEF MarkDone, MigrationTypeOK, Places, LeaderIsNamed, ServesMigrated
  <2>2. MarkerIsBehind'
    BY <1>1, <1>3 DEF MarkDone, MigrationTypeOK, MarkerIsBehind
  <2> QED BY <2>1, <2>2
<1>4. CASE ClearLock(i)
  <2>1. MigrationTypeOK'
    BY <1>1, <1>4, Zenon DEF ClearLock, MigrationTypeOK, Places
  <2>2. LeaderIsNamed'
    BY <1>4 DEF ClearLock, MigrationTypeOK, LeaderIsNamed
  <2>3. MarkerIsBehind' /\ ServesMigrated'
    BY <1>1, <1>4 DEF ClearLock, MigrationTypeOK, MarkerIsBehind, ServesMigrated
  <2> QED BY <2>1, <2>2, <2>3
<1>5. CASE UnlockAfterError(i)
  <2>1. MigrationTypeOK'
    BY <1>1, <1>5, Zenon DEF UnlockAfterError, MigrationTypeOK, Places
  <2>2. LeaderIsNamed' /\ MarkerIsBehind' /\ ServesMigrated'
    BY <1>1, <1>5
       DEF UnlockAfterError, MigrationTypeOK, LeaderIsNamed, MarkerIsBehind, ServesMigrated
  <2> QED BY <2>1, <2>2
<1>6. CASE RedisFails(i)
  <2>1. /\ place[i] \in {"marking", "clearing", "unlocking"}
        /\ \E to \in {"unlocking", "down"} : place' = [place EXCEPT ![i] = to]
        /\ doneKey' \in {doneKey, Release[i]}
        /\ migrationFaults < MaxMigrationFaults /\ migrationFaults' = migrationFaults + 1
        /\ UNCHANGED <<schema, trusted>>
    BY <1>6 DEF RedisFails
  <2>2. \/ UNCHANGED <<lockKey, lapsed>>
        \/ lockKey' = NoInstance /\ lapsed' = (lapsed \/ lockKey \notin {i, NoInstance})
    BY <1>6 DEF RedisFails
  <2>3. lapsed' \in BOOLEAN /\ lockKey' \in Instances \cup {NoInstance}
    BY <2>2, Zenon DEF MigrationTypeOK
  <2>4. MigrationTypeOK'
    BY <1>1, <2>1, <2>3 DEF MigrationTypeOK, Places
  <2>5. \A j \in Instances : place'[j] \in {"migrating", "marking"} =>
           j # i /\ place[j] \in {"migrating", "marking"}
    BY <2>1 DEF MigrationTypeOK
  <2>6. ASSUME UNCHANGED <<lockKey, lapsed>>
        PROVE  LeaderIsNamed'
    <3>1. lockKey' = lockKey /\ (lapsed' <=> lapsed)
      BY <2>6
    <3> QED BY <3>1, <2>5 DEF LeaderIsNamed
  <2>7. ASSUME lockKey' = NoInstance, lapsed' = (lapsed \/ lockKey \notin {i, NoInstance})
        PROVE  LeaderIsNamed'
    <3>1. ~lapsed' => ~lapsed /\ lockKey \in {i, NoInstance}
      BY <2>7, Zenon
    <3>2. ~lapsed' => \A j \in Instances : place'[j] \notin {"migrating", "marking"}
      BY <3>1, <2>5, MigrationAssumption DEF LeaderIsNamed
    <3> QED BY <3>2 DEF LeaderIsNamed
  <2>8. LeaderIsNamed'
    BY <2>2, <2>6, <2>7
  <2>9. MarkerIsBehind' /\ ServesMigrated'
    BY <1>1, <1>6 DEF RedisFails, MigrationTypeOK, MarkerIsBehind, ServesMigrated
  <2> QED BY <2>4, <2>8, <2>9
<1> QED BY <1>2, <1>3, <1>4, <1>5, <1>6

\* A follower trusts a marker: of its own release or a later one, its schema is
\* in place; else the marker is an older release's.
LEMMA SeeDoneInv ==
    ASSUME MigrationInv, NEW i \in Instances, SeeDone(i)
    PROVE  MigrationInv'
<1>1. /\ place[i] = "waiting" /\ doneKey # 0
      /\ trusted' = [trusted EXCEPT ![i] = doneKey]
      /\ place' = [place EXCEPT ![i] = "serving"]
      /\ UNCHANGED <<lockKey, doneKey, schema, lapsed, migrationFaults>>
  BY DEF SeeDone, Move
<1>2. /\ Releases \subseteq Nat /\ \A j \in Instances : Release[j] \in Nat
      /\ schema \in Nat /\ doneKey \in Nat
  BY VersionsAreNumbers DEF MigrationInv
<1>3. MigrationTypeOK'
  BY <1>1 DEF MigrationInv, MigrationTypeOK, Places
<1>4. LeaderIsNamed' /\ MarkerIsBehind'
  BY <1>1 DEF MigrationInv, MigrationTypeOK, LeaderIsNamed, MarkerIsBehind
<1>5. schema >= Release[i] \/ doneKey \in 1..(Release[i] - 1)
  BY <1>1, <1>2 DEF MigrationInv, MarkerIsBehind
<1>6. ServesMigrated'
  BY <1>1, <1>5 DEF MigrationInv, MigrationTypeOK, ServesMigrated
<1> QED BY <1>3, <1>4, <1>6 DEF MigrationInv

\* Timeouts, stops and expiries.
LEMMA LapseInv ==
    ASSUME MigrationInv,
           \/ \E i \in Instances : WaitTimeout(i) \/ InstanceStops(i)
           \/ LockExpires \/ DoneExpires
    PROVE  MigrationInv'
<1> USE MigrationAssumption DEF MigrationInv, Move, MigrationFault
<1>1. schema \in Nat
  BY VersionsAreNumbers
<1>2. ASSUME NEW i \in Instances, WaitTimeout(i) \/ InstanceStops(i)
      PROVE  MigrationInv'
  <2>1. MigrationTypeOK'
    BY <1>2 DEF WaitTimeout, InstanceStops, MigrationTypeOK, Places
  <2>2. LeaderIsNamed' /\ MarkerIsBehind' /\ ServesMigrated'
    BY <1>2
       DEF WaitTimeout, InstanceStops, MigrationTypeOK, LeaderIsNamed, MarkerIsBehind,
           ServesMigrated
  <2> QED BY <2>1, <2>2
<1>3. CASE LockExpires
  <2>1. lapsed' \in BOOLEAN
    BY <1>3, Zenon DEF LockExpires, MigrationTypeOK
  <2>2. MigrationTypeOK'
    BY <2>1, <1>3 DEF LockExpires, MigrationTypeOK
  <2>3. LeaderIsNamed' /\ MarkerIsBehind' /\ ServesMigrated'
    BY <1>3 DEF LockExpires, Leaders, LeaderIsNamed, MarkerIsBehind, ServesMigrated
  <2> QED BY <2>2, <2>3
<1>4. CASE DoneExpires
  BY <1>1, <1>4
     DEF DoneExpires, MigrationTypeOK, LeaderIsNamed, MarkerIsBehind, ServesMigrated
<1> QED BY <1>2, <1>3, <1>4

LEMMA MigrationStepInv == MigrationInv /\ [MigrationNext]_migrationVars => MigrationInv'
<1> SUFFICES ASSUME MigrationInv, [MigrationNext]_migrationVars
             PROVE  MigrationInv'
  OBVIOUS
<1>1. CASE \E i \in Instances : Start(i) \/ StartAnswerLost(i) \/ Migrate(i) \/ SeeDone(i)
  BY <1>1, StartInv, MigrateInv, SeeDoneInv
<1>2. CASE \E i \in Instances :
             \/ MigrateFails(i) \/ MarkDone(i) \/ ClearLock(i) \/ UnlockAfterError(i)
             \/ RedisFails(i)
  BY <1>2, LeaderInv
<1>3. CASE \/ \E i \in Instances : WaitTimeout(i) \/ InstanceStops(i)
           \/ LockExpires \/ DoneExpires
  BY <1>3, LapseInv
<1>4. CASE UNCHANGED migrationVars
  BY <1>4
     DEF migrationVars, MigrationInv, MigrationTypeOK, LeaderIsNamed, MarkerIsBehind,
         ServesMigrated
<1> QED BY <1>1, <1>2, <1>3, <1>4 DEF MigrationNext

\* MigrationInv holds in every state the starting instances reach.
THEOREM MigrationInductive == MigrationSpec => []MigrationInv
<1> QED BY MigrationInitInv, MigrationStepInv, PTL DEF MigrationSpec

\* pool_manager.ts: until a lock expires under its holder or is deleted by
\* another, one instance migrates at a time.
THEOREM OneMigrator == MigrationSpec => []OneMigratorUntilLapse
<1>1. MigrationInv => OneMigratorUntilLapse
  BY DEF MigrationInv, LeaderIsNamed, OneMigratorUntilLapse
<1> QED BY <1>1, MigrationInductive, PTL

\* pool_manager.ts: an instance serves with its schema in place, unless the
\* marker it trusted is an older release's.
THEOREM ServingIsMigrated == MigrationSpec => []ServesMigrated
<1>1. MigrationInv => ServesMigrated
  BY DEF MigrationInv
<1> QED BY <1>1, MigrationInductive, PTL

\* pool_manager.ts: one migrator until the lock lapses, and nobody serves on a
\* schema behind its release unless it trusted an older release's marker.
THEOREM MigrationIsSound == MigrationSpec => []MigrationHolds
<1> QED BY OneMigrator, ServingIsMigrated, PTL DEF MigrationHolds

-----------------------------------------------------------------------------
(***************************************************************************)
(* Login. A challenge is pending, expired or consumed; a call that found   *)
(* it pending consumed it, and is the one call entitled to its answer. An  *)
(* attempt is a tick older each tick, on its side of the start of the      *)
(* window that counts it.                                                  *)
(***************************************************************************)
\* A call that found challenge n, and answers it.
Entitled(n, c) == login[c].at = "issue" /\ login[c].valid /\ login[c].signs = n

\* Nobody was let in by n, and nobody will be unless it is consumed yet.
Unused(n) == n \notin expired /\ admitted[n] = 0 /\ \A c \in Logins : ~Entitled(n, c)

\* A challenge that is pending, or still to be created, is unused; one that
\* expired let nobody in; one that was consumed lets in one call.
ChallengesInv ==
    /\ challenge # 0 => challenge <= created /\ Unused(challenge)
    /\ \A n \in Nonces : n > created => Unused(n)
    /\ \A n \in Nonces : n \in expired => admitted[n] = 0 /\ \A c \in Logins : ~Entitled(n, c)
    /\ \A n \in Nonces : admitted[n] \in {0, 1}
    /\ \A n \in Nonces : \A c, d \in Logins :
          Entitled(n, c) => admitted[n] = 0 /\ (Entitled(n, d) => c = d)

Ages == 0..Window - 1

\* When the tracker's window opened, and the attempts before it and in it.
Opened == tracker.resetAt - Window

Before == [k \in Ages |-> IF k > moment - Opened THEN recent[k] ELSE 0]

Within == [k \in Ages |-> IF k > moment - Opened THEN 0 ELSE recent[k]]

AttemptsInv ==
    /\ Opened <= moment
    /\ tracker.resetAt < moment => recent[0] = 0
    /\ SumOf(Before, Ages) <= AttemptLimit
    /\ SumOf(Within, Ages) <= tracker.attempts

LoginInv == LoginTypeOK /\ ChallengesInv /\ AttemptsInv

LEMMA LoginArith ==
    /\ AttemptLimit \in Nat \ {0} /\ FreeAttempts \in Nat /\ Window \in Nat \ {0}
    /\ MaxNonce \in Nat /\ MaxMoment \in Nat \ {0}
    /\ Nonces \subseteq Nat /\ 0 \in Nonces /\ 0 \in Ages /\ Ages \subseteq Nat /\ IsFiniteSet(Ages)
<1>1. IsFiniteSet(0..Window - 1)
  BY LoginAssumption, FS_Interval
<1> QED BY <1>1, LoginAssumption DEF Nonces, Ages

LEMMA LoginTypes ==
    ASSUME LoginTypeOK
    PROVE  /\ moment \in Nat \ {0} /\ moment <= MaxMoment
           /\ tracker.attempts \in Nat /\ tracker.attempts <= AttemptLimit
           /\ tracker.resetAt \in Nat /\ tracker.resetAt <= MaxMoment + Window
           /\ tracker = [attempts |-> tracker.attempts, resetAt |-> tracker.resetAt]
           /\ challenge \in Nat /\ challenge <= MaxNonce /\ created \in Nat /\ created <= MaxNonce
           /\ recent \in [Ages -> Nat] /\ Opened \in Int
           /\ Before \in [Ages -> Nat] /\ Within \in [Ages -> Nat]
           /\ admitted \in [Nonces -> Nat]
<1>1. /\ moment \in Nat \ {0} /\ moment <= MaxMoment
      /\ tracker.attempts \in Nat /\ tracker.attempts <= AttemptLimit
      /\ tracker.resetAt \in Nat /\ tracker.resetAt <= MaxMoment + Window
  BY LoginArith DEF LoginTypeOK
<1>2. tracker = [attempts |-> tracker.attempts, resetAt |-> tracker.resetAt]
  BY DEF LoginTypeOK
<1>3. challenge \in Nat /\ challenge <= MaxNonce /\ created \in Nat /\ created <= MaxNonce
  BY LoginArith DEF LoginTypeOK, Nonces
<1>4. recent \in [Ages -> Nat] /\ admitted \in [Nonces -> Nat]
  BY DEF LoginTypeOK, Ages
<1>5. Opened \in Int
  BY <1>1, LoginArith DEF Opened
<1>6. Before \in [Ages -> Nat] /\ Within \in [Ages -> Nat]
  BY <1>4 DEF Before, Within
<1> QED BY <1>1, <1>2, <1>3, <1>4, <1>5, <1>6

LEMMA CallsInLogin ==
    ASSUME LoginTypeOK, NEW c \in Logins
    PROVE  /\ login[c].at \in {"none", "delayed", "consume", "issue"}
           /\ login[c].signs \in Nonces /\ login[c].valid \in BOOLEAN
           /\ login[c] = [at |-> login[c].at, signs |-> login[c].signs, valid |-> login[c].valid]
BY DEF LoginTypeOK

-----------------------------------------------------------------------------
\* The attempts' part looks at the clock, the tracker and what is recent.
LEMMA AttemptsStay ==
    ASSUME AttemptsInv, UNCHANGED <<moment, tracker, recent>> PROVE AttemptsInv'
BY DEF AttemptsInv, Before, Within, Opened

\* The challenges' part looks at the entitled calls, not at the others.
LEMMA ChallengesStay ==
    ASSUME ChallengesInv, UNCHANGED <<challenge, created, admitted, expired>>,
           \A c \in Logins : \A n \in Nonces : Entitled(n, c)' => Entitled(n, c),
           challenge \in Nonces
    PROVE  ChallengesInv'
BY DEF ChallengesInv, Unused

LEMMA LoginInitInv == LoginInit => LoginInv
<1> SUFFICES ASSUME LoginInit PROVE LoginInv
  OBVIOUS
<1>1. LoginTypeOK
  BY LoginArith DEF LoginInit, LoginTypeOK, NoLogin, Ages
<1>2. ChallengesInv
  BY LoginArith DEF LoginInit, ChallengesInv, Unused, Entitled, NoLogin, Nonces
<1>3. \A k \in Ages : Before[k] = 0 /\ Within[k] = 0
  BY DEF LoginInit, Before, Within, Ages
<1>4. SumOf(Before, Ages) = 0
  BY <1>3, LoginArith, SumOfNothing
<1>5. SumOf(Within, Ages) = 0
  BY <1>3, LoginArith, SumOfNothing
<1>6. AttemptsInv
  <2>1. tracker.resetAt = 0 /\ tracker.attempts = 0 /\ moment = 1 /\ recent[0] = 0
    BY LoginArith DEF LoginInit, Ages
  <2> QED BY <1>4, <1>5, <2>1, LoginArith DEF AttemptsInv, Opened
<1> QED BY <1>1, <1>2, <1>6 DEF LoginInv

LEMMA CreateKeeps == LoginInv /\ CreateChallenge => LoginInv'
<1> SUFFICES ASSUME LoginInv, CreateChallenge PROVE LoginInv'
  OBVIOUS
<1>1. LoginTypeOK' /\ created + 1 \in Nonces /\ created' = created + 1 /\ challenge' = created + 1
  <2>1. created + 1 \in Nonces
    BY SMTT(20), LoginTypes, LoginArith DEF LoginInv, CreateChallenge, Nonces
  <2> QED BY <2>1 DEF LoginInv, CreateChallenge, LoginTypeOK
<1>2. AttemptsInv'
  BY AttemptsStay DEF LoginInv, CreateChallenge
<1>3. ChallengesInv'
  <2>1. \A n \in Nonces : Unused(n)' <=> Unused(n)
    BY DEF CreateChallenge, Unused, Entitled
  <2>2. \A n \in Nonces : n > created' => n > created
    BY <1>1, LoginTypes, LoginArith DEF LoginInv
  <2>3. created + 1 > created
    BY LoginTypes DEF LoginInv
  <2> QED BY <1>1, <2>1, <2>2, <2>3, LoginTypes DEF LoginInv, CreateChallenge, ChallengesInv, Unused, Entitled
<1> QED BY <1>1, <1>2, <1>3 DEF LoginInv

LEMMA ExpireKeeps == LoginInv /\ ChallengeExpires => LoginInv'
<1> SUFFICES ASSUME LoginInv, ChallengeExpires PROVE LoginInv'
  OBVIOUS
<1>1. LoginTypeOK'
  BY LoginArith DEF LoginInv, ChallengeExpires, LoginTypeOK
<1>2. AttemptsInv'
  BY AttemptsStay DEF LoginInv, ChallengeExpires
<1>3. ChallengesInv'
  <2>1. Unused(challenge) /\ challenge \in Nonces /\ challenge <= created
    BY DEF LoginInv, ChallengeExpires, ChallengesInv, LoginTypeOK
  <2>2. \A n \in Nonces : n > created => n # challenge
    BY <2>1, LoginTypes, LoginArith DEF LoginInv
  <2> QED BY <2>1, <2>2 DEF LoginInv, ChallengeExpires, ChallengesInv, Unused, Entitled
<1> QED BY <1>1, <1>2, <1>3 DEF LoginInv

\* A call takes a step that entitles it to nothing.
LEMMA DelayKeeps == ASSUME LoginInv, NEW c \in Logins, DelayEnds(c) PROVE LoginInv'
<1>1. LoginTypeOK'
  BY SMTT(20), CallsInLogin DEF LoginInv, DelayEnds, LoginTypeOK
<1>2. AttemptsInv'
  BY AttemptsStay DEF LoginInv, DelayEnds
<1>3. \A d \in Logins : \A n \in Nonces : Entitled(n, d)' => Entitled(n, d)
  BY DEF LoginInv, LoginTypeOK, DelayEnds, Entitled
<1> QED BY <1>1, <1>2, <1>3, ChallengesStay DEF LoginInv, DelayEnds, LoginTypeOK

LEMMA UnlimitedKeeps ==
    ASSUME LoginInv, NEW c \in Logins, NEW n \in Nonces, ArriveUnlimited(c, n) PROVE LoginInv'
<1>1. LoginTypeOK'
  BY CallsInLogin DEF LoginInv, ArriveUnlimited, LoginTypeOK
<1>2. AttemptsInv'
  BY AttemptsStay DEF LoginInv, ArriveUnlimited
<1>3. \A d \in Logins : \A m \in Nonces : Entitled(m, d)' => Entitled(m, d)
  BY DEF LoginInv, LoginTypeOK, ArriveUnlimited, Entitled
<1> QED BY <1>1, <1>2, <1>3, ChallengesStay DEF LoginInv, ArriveUnlimited, LoginTypeOK

\* A call that fails may use the challenge up, and lets nobody in.
LEMMA FailureKeeps == ASSUME LoginInv, NEW c \in Logins, LoginFails(c) PROVE LoginInv'
<1>1. challenge' \in {challenge, 0} /\ UNCHANGED <<moment, tracker, created, admitted, expired, recent>>
  BY DEF LoginFails
<1>2. LoginTypeOK'
  BY <1>1, CallsInLogin, LoginArith DEF LoginInv, LoginFails, LoginTypeOK, NoLogin
<1>3. AttemptsInv'
  BY <1>1, AttemptsStay DEF LoginInv
<1>4. \A d \in Logins : \A n \in Nonces : Entitled(n, d)' => Entitled(n, d)
  BY DEF LoginInv, LoginTypeOK, LoginFails, Entitled, NoLogin
<1>5. ChallengesInv'
  BY <1>1, <1>4 DEF LoginInv, LoginTypeOK, ChallengesInv, Unused
<1> QED BY <1>2, <1>3, <1>5 DEF LoginInv

\* The one call that finds a challenge is entitled to it.
LEMMA ConsumeKeeps == ASSUME LoginInv, NEW c \in Logins, Consume(c) PROVE LoginInv'
<1>1. /\ challenge' = 0 /\ UNCHANGED <<moment, tracker, created, admitted, expired, recent>>
      /\ challenge \in Nonces
  BY DEF Consume, LeftChallenge, LoginInv, LoginTypeOK
<1> DEFINE v == challenge # 0 /\ login[c].signs = challenge
<1>2. /\ login[c].signs \in Nonces /\ v \in BOOLEAN
      /\ login' = [login EXCEPT ![c] = [at |-> "issue", signs |-> login[c].signs, valid |-> v]]
  BY CallsInLogin DEF LoginInv, LoginTypeOK, Consume
<1>3. LoginTypeOK'
  BY <1>1, <1>2, LoginArith DEF LoginInv, LoginTypeOK
<1>4. AttemptsInv'
  BY <1>1, AttemptsStay DEF LoginInv
<1>5. \A d \in Logins \ {c} : \A n \in Nonces : Entitled(n, d)' <=> Entitled(n, d)
  BY <1>2 DEF LoginInv, LoginTypeOK, Entitled
<1>6. \A n \in Nonces : ~Entitled(n, c) /\ (Entitled(n, c)' <=> challenge # 0 /\ n = challenge /\ login[c].signs = n)
  <2>1. login'[c] = [at |-> "issue", signs |-> login[c].signs, valid |-> v]
    BY <1>2 DEF LoginInv, LoginTypeOK
  <2>2. login[c].at = "consume"
    BY DEF Consume
  <2>3. login'[c].at = "issue" /\ login'[c].signs = login[c].signs /\ login'[c].valid = v
    BY <2>1
  <2> QED BY <1>2, <2>2, <2>3 DEF Entitled
<1>7. challenge # 0 => challenge <= created /\ Unused(challenge)
  BY DEF LoginInv, ChallengesInv
<1>8. \A n \in Nonces : n > created => n # challenge \/ challenge = 0
  BY <1>7, LoginTypes, LoginArith DEF LoginInv
<1>9. ChallengesInv'
  <2>1. \A n \in Nonces : n > created => Unused(n)'
    BY <1>1, <1>5, <1>6, <1>8 DEF LoginInv, ChallengesInv, Unused
  <2>2. \A n \in Nonces : n \in expired => admitted[n] = 0 /\ \A d \in Logins : ~Entitled(n, d)'
    BY <1>1, <1>5, <1>6, <1>7 DEF LoginInv, ChallengesInv, Unused
  <2>3. \A n \in Nonces : \A e, d \in Logins :
           Entitled(n, e)' => admitted[n] = 0 /\ (Entitled(n, d)' => e = d)
    BY <1>1, <1>5, <1>6, <1>7 DEF LoginInv, ChallengesInv, Unused
  <2> QED BY <1>1, <2>1, <2>2, <2>3 DEF LoginInv, ChallengesInv
<1> QED BY <1>3, <1>4, <1>9 DEF LoginInv

\* The entitled call is let in, and no other is entitled.
LEMMA AnswerKeeps == ASSUME LoginInv, NEW c \in Logins, Answered(c) PROVE LoginInv'
<1> DEFINE n == login[c].signs
<1>1. /\ UNCHANGED <<moment, tracker, challenge, created, expired, recent>>
      /\ login' = [login EXCEPT ![c] = NoLogin] /\ n \in Nonces /\ challenge \in Nonces
      /\ login[c].at = "issue"
  BY CallsInLogin DEF Answered, LoginInv, LoginTypeOK
<1>2. admitted \in [Nonces -> Nat]
  BY LoginTypes DEF LoginInv
<1>3. /\ admitted' \in [Nonces -> Nat]
      /\ \A m \in Nonces : admitted'[m] = IF Entitled(m, c) THEN admitted[m] + 1 ELSE admitted[m]
  BY <1>1, <1>2 DEF Answered, Entitled
<1>4. LoginTypeOK'
  BY <1>1, <1>3, LoginArith DEF LoginInv, LoginTypeOK, NoLogin
<1>5. AttemptsInv'
  BY <1>1, AttemptsStay DEF LoginInv
<1>6. \A m \in Nonces : /\ ~Entitled(m, c)'
                        /\ \A d \in Logins \ {c} : Entitled(m, d)' <=> Entitled(m, d)
  BY <1>1 DEF LoginInv, LoginTypeOK, Entitled, NoLogin
<1>7. \A m \in Nonces : Entitled(m, c) => /\ ~Unused(m) /\ m \notin expired /\ admitted[m] = 0
                                          /\ \A d \in Logins \ {c} : ~Entitled(m, d)
  BY DEF LoginInv, ChallengesInv, Unused
<1>8. \A m \in Nonces : Unused(m) => Unused(m)'
  BY <1>1, <1>3, <1>6 DEF Unused
<1>9. ChallengesInv'
  <2>1. \A m \in Nonces : m \in expired => admitted'[m] = 0 /\ \A d \in Logins : ~Entitled(m, d)'
    BY <1>3, <1>6, <1>7 DEF LoginInv, ChallengesInv
  <2>2. \A m \in Nonces : admitted'[m] \in {0, 1}
    BY <1>3, <1>7 DEF LoginInv, ChallengesInv
  <2>3. \A m \in Nonces : \A e, d \in Logins :
           Entitled(m, e)' => admitted'[m] = 0 /\ (Entitled(m, d)' => e = d)
    BY <1>3, <1>6, <1>7 DEF LoginInv, ChallengesInv
  <2> QED BY <1>1, <1>8, <2>1, <2>2, <2>3 DEF LoginInv, ChallengesInv
<1> QED BY <1>4, <1>5, <1>9 DEF LoginInv

-----------------------------------------------------------------------------
\* What is recent is what came before the window and what came within it.
LEMMA TwoParts ==
    ASSUME LoginTypeOK PROVE SumOf(recent, Ages) = SumOf(Before, Ages) + SumOf(Within, Ages)
<1>1. \A k \in Ages : recent[k] = Before[k] + Within[k]
  BY LoginTypes DEF Before, Within
<1> QED BY <1>1, LoginTypes, LoginArith, SumOfSums

\* A tick: every attempt is a tick older, on its side of the window's start.
LEMMA ClockKeeps == LoginInv /\ ClockAdvances => LoginInv'
<1> SUFFICES ASSUME LoginInv, ClockAdvances PROVE LoginInv'
  OBVIOUS
<1> USE DEF LoginInv
<1>1. /\ moment' = moment + 1 /\ moment < MaxMoment
      /\ UNCHANGED <<tracker, challenge, created, login, admitted, expired>>
      /\ recent' = [k \in Ages |-> IF k = 0 THEN 0 ELSE recent[k - 1]]
  BY DEF ClockAdvances, Ages
<1>2. \A k \in Ages : k = 0 \/ k - 1 \in Ages
  BY LoginArith DEF Ages
<1>3. recent' \in [Ages -> Nat]
  BY <1>1, <1>2, LoginTypes
<1>4. LoginTypeOK'
  <2>1. moment' \in 1..MaxMoment
    BY <1>1, LoginTypes, LoginArith
  <2> QED BY <1>1, <1>3, <2>1 DEF LoginTypeOK, Ages
<1>5. ChallengesInv'
  BY <1>1 DEF ChallengesInv, Unused, Entitled
<1>6. Opened' = Opened /\ Before' \in [Ages -> Nat] /\ Within' \in [Ages -> Nat]
  <2>1. Opened' = Opened
    BY <1>1 DEF Opened
  <2>2. Before' \in [Ages -> Nat] /\ Within' \in [Ages -> Nat]
    BY <1>3 DEF Before, Within
  <2> QED BY <2>1, <2>2
<1>7. /\ \A k \in 1..Window - 1 : Before'[k] = Before[k - 1] /\ Within'[k] = Within[k - 1]
      /\ Before'[0] = 0 /\ Within'[0] = 0
  <2>1. \A k \in 1..Window - 1 : /\ k \in Ages /\ k - 1 \in Ages /\ recent'[k] = recent[k - 1]
                                 /\ k > moment' - Opened' <=> k - 1 > moment - Opened
    <3> SUFFICES ASSUME NEW k \in 1..Window - 1
                 PROVE  /\ k \in Ages /\ k - 1 \in Ages /\ recent'[k] = recent[k - 1]
                        /\ k > moment' - Opened' <=> k - 1 > moment - Opened
      OBVIOUS
    <3>1. k \in Ages /\ k - 1 \in Ages /\ k # 0 /\ k \in Int
      BY LoginArith DEF Ages
    <3>2. recent'[k] = recent[k - 1]
      BY <1>1, <3>1
    <3>3. moment \in Int /\ Opened \in Int
      BY LoginTypes
    <3>4. k > moment' - Opened' <=> k - 1 > moment - Opened
      BY <1>1, <1>6, <3>1, <3>3
    <3> QED BY <3>1, <3>2, <3>4
  <2>2. recent'[0] = 0 /\ 0 \in Ages
    BY <1>1, LoginArith
  <2> QED BY <2>1, <2>2 DEF Before, Within
<1>8. SumOf(Before', Ages) <= SumOf(Before, Ages)
  <2>1. Window - 1 \in Nat /\ Window - 1 \in Ages
    BY LoginArith DEF Ages
  <2>2. SumOf(Before', Ages) + Before[Window - 1] = SumOf(Before, Ages) + Before'[0]
    BY ZenonT(30), <1>6, <1>7, <2>1, LoginTypes, SumShifts DEF Ages
  <2>3. Before[Window - 1] \in Nat
    BY <2>1, LoginTypes
  <2>4. SumOf(Before', Ages) \in Nat /\ SumOf(Before, Ages) \in Nat
    BY <1>6, LoginTypes, LoginArith, SumIsNat
  <2> QED BY <1>7, <2>2, <2>3, <2>4
<1>9. SumOf(Within', Ages) <= SumOf(Within, Ages)
  <2>1. Window - 1 \in Nat /\ Window - 1 \in Ages
    BY LoginArith DEF Ages
  <2>2. SumOf(Within', Ages) + Within[Window - 1] = SumOf(Within, Ages) + Within'[0]
    BY <1>6, <1>7, <2>1, LoginTypes, SumShifts DEF Ages
  <2>3. Within[Window - 1] \in Nat
    BY <2>1, LoginTypes
  <2>4. SumOf(Within', Ages) \in Nat /\ SumOf(Within, Ages) \in Nat
    BY <1>6, LoginTypes, LoginArith, SumIsNat
  <2> QED BY <1>7, <2>2, <2>3, <2>4
<1>10. AttemptsInv'
  <2>1. /\ SumOf(Before', Ages) \in Nat /\ SumOf(Before, Ages) \in Nat
    BY <1>6, LoginTypes, LoginArith, SumIsNat
  <2>2. SumOf(Within', Ages) \in Nat /\ SumOf(Within, Ages) \in Nat
    BY <1>6, LoginTypes, LoginArith, SumIsNat
  <2>3. recent'[0] = 0
    BY <1>1, LoginArith
  <2> QED BY <1>1, <1>6, <1>8, <1>9, <2>1, <2>2, <2>3, LoginTypes, LoginArith DEF AttemptsInv
<1> QED BY <1>4, <1>5, <1>10

\* An attempt: in the window that is open it is counted; in a new one it is
\* the first, and what was recent fits the window before.
LEMMA ArriveKeeps == ASSUME LoginInv, NEW c \in Logins, NEW n \in Nonces, Arrive(c, n) PROVE LoginInv'
<1> USE DEF LoginInv
<1>0. UNCHANGED <<moment, challenge, created, admitted, expired>> /\ challenge \in Nonces
  BY DEF Arrive, LoginTypeOK
<1>1. CASE InWindow.attempts >= AttemptLimit
  <2>1. tracker.resetAt >= moment /\ InWindow = tracker
    BY <1>1, LoginArith, LoginTypes DEF InWindow
  <2>2. UNCHANGED <<tracker, login, recent>>
    BY <1>1, <2>1 DEF Arrive
  <2>3. LoginTypeOK' /\ AttemptsInv' /\ ChallengesInv'
    BY <1>0, <2>2, AttemptsStay DEF LoginTypeOK, ChallengesInv, Unused, Entitled
  <2> QED BY <2>3
<1>2. CASE ~(InWindow.attempts >= AttemptLimit)
  <2>1. /\ tracker' = Counted(InWindow) /\ recent' = [recent EXCEPT ![0] = @ + 1]
        /\ login' = [login EXCEPT ![c] =
              [at |-> IF InWindow.attempts + 1 > FreeAttempts THEN "delayed" ELSE "consume",
               signs |-> n, valid |-> FALSE]]
        /\ login[c].at = "none"
    BY <1>2 DEF Arrive
  <2>2. /\ InWindow.attempts \in Nat /\ InWindow.resetAt \in Nat
        /\ InWindow.resetAt <= MaxMoment + Window /\ InWindow.resetAt >= moment
        /\ InWindow = [attempts |-> InWindow.attempts, resetAt |-> InWindow.resetAt]
        /\ tracker.resetAt < moment => InWindow.attempts = 0 /\ InWindow.resetAt = moment + Window
        /\ ~(tracker.resetAt < moment) => InWindow = tracker
    BY LoginArith, LoginTypes DEF InWindow
  <2>3. tracker' = [attempts |-> InWindow.attempts + 1, resetAt |-> InWindow.resetAt]
    BY <2>1, <2>2 DEF Counted
  <2>4. /\ recent' \in [Ages -> Nat] /\ recent'[0] = recent[0] + 1
        /\ \A k \in Ages \ {0} : recent'[k] = recent[k]
    BY <2>1, LoginTypes, LoginArith
  <2>5. LoginTypeOK'
    <3>1. tracker' \in [attempts : 0..AttemptLimit, resetAt : 0..MaxMoment + Window]
      BY <1>2, <2>2, <2>3, LoginArith
    <3>2. login' \in [Logins -> [at : {"none", "delayed", "consume", "issue"}, signs : Nonces, valid : BOOLEAN]]
      BY <2>1 DEF LoginTypeOK
    <3> QED BY <1>0, <2>4, <3>1, <3>2 DEF LoginTypeOK, Ages
  <2>6. ChallengesInv'
    <3>1. \A d \in Logins : \A m \in Nonces : Entitled(m, d)' => Entitled(m, d)
      BY <2>1 DEF LoginTypeOK, Entitled
    <3> QED BY <1>0, <3>1, ChallengesStay
  <2>7. /\ Opened' = InWindow.resetAt - Window /\ moment' = moment
        /\ Before' \in [Ages -> Nat] /\ Within' \in [Ages -> Nat]
    BY <1>0, <2>3, <2>4 DEF Opened, Before, Within
  <2>8. CASE ~(tracker.resetAt < moment)
    <3>1. Opened' = Opened /\ Opened <= moment
      BY <2>2, <2>7, <2>8 DEF Opened, AttemptsInv
    <3>2. /\ \A k \in Ages : Before'[k] = Before[k]
          /\ \A k \in Ages \ {0} : Within'[k] = Within[k]
          /\ Within'[0] = Within[0] + 1
      <4>1. ~(0 > moment - Opened)
        BY <3>1, LoginTypes
      <4> QED BY <2>4, <2>7, <3>1, <4>1, LoginArith DEF Before, Within
    <3>3. Before' = Before
      BY <2>7, <3>2, LoginTypes
    <3>4. SumOf(Within', Ages) = SumOf(Within, Ages) - Within[0] + Within'[0]
      BY <2>7, <3>2, LoginTypes, LoginArith, SumChanges
    <3>5. SumOf(Within, Ages) \in Nat /\ Within[0] \in Nat
      BY LoginTypes, LoginArith, SumIsNat
    <3>6. SumOf(Within', Ages) = SumOf(Within, Ages) + 1
      BY <3>2, <3>4, <3>5
    <3>7. SumOf(Within', Ages) <= tracker'.attempts /\ ~(tracker'.resetAt < moment')
      BY <2>2, <2>3, <2>7, <2>8, <3>5, <3>6, LoginTypes DEF AttemptsInv
    <3> QED BY <2>5, <2>6, <2>7, <3>1, <3>3, <3>7 DEF AttemptsInv
  <2>9. CASE tracker.resetAt < moment
    <3>1. Opened' = moment /\ recent[0] = 0
      BY <2>2, <2>7, <2>9, LoginArith, LoginTypes DEF AttemptsInv
    <3>2. /\ \A k \in Ages : Before'[k] = recent[k]
          /\ \A k \in Ages \ {0} : Within'[k] = 0
          /\ Within'[0] = 1
      <4>1. \A k \in Ages : k > moment' - Opened' <=> k # 0
        BY <2>7, <3>1, LoginTypes, LoginArith
      <4> QED BY <2>4, <3>1, <4>1, LoginArith DEF Before, Within
    <3>3. \A k \in Ages : Before[k] = 0
      <4>1. \A k \in Ages : ~(k > moment - Opened)
        <5> SUFFICES ASSUME NEW k \in Ages PROVE ~(k > moment - Opened)
          OBVIOUS
        <5>1. k \in Nat /\ k <= Window - 1 /\ Window \in Nat
          BY LoginArith DEF Ages
        <5>2. tracker.resetAt \in Nat /\ moment \in Nat /\ Opened = tracker.resetAt - Window
          BY LoginTypes DEF Opened
        <5> QED BY <2>9, <5>1, <5>2
      <4> QED BY <4>1 DEF Before
    <3>4. SumOf(Before', Ages) <= AttemptLimit
      <4>1. Before' = recent
        BY <2>7, <3>2, LoginTypes
      <4>2. SumOf(Before, Ages) = 0
        BY <3>3, LoginArith, SumOfNothing
      <4>3. SumOf(Within, Ages) \in Nat
        BY LoginTypes, LoginArith, SumIsNat
      <4> QED BY <4>1, <4>2, <4>3, TwoParts, LoginTypes, LoginArith DEF AttemptsInv
    <3>5. SumOf(Within', Ages) = 1
      BY <2>7, <3>2, LoginArith, SumOfOne
    <3>6. /\ SumOf(Within', Ages) <= tracker'.attempts /\ ~(tracker'.resetAt < moment')
          /\ Opened' <= moment'
      BY <2>2, <2>3, <2>7, <3>1, <3>5, LoginTypes
    <3> QED BY <2>5, <2>6, <3>4, <3>6 DEF AttemptsInv
  <2> QED BY <2>8, <2>9
<1> QED BY <1>1, <1>2

\* session.ts, rate_limiter.ts: who may still be let in by a challenge, and which
\* attempts the open window counts, in every state.
THEOREM LoginInductive == LoginSpec => []LoginInv
<1>1. LoginInv /\ LoginNext => LoginInv'
  <2> SUFFICES ASSUME LoginInv, LoginNext PROVE LoginInv'
    OBVIOUS
  <2>1. CASE \E c \in Logins : \/ \E n \in Nonces : Arrive(c, n) \/ ArriveUnlimited(c, n)
                               \/ DelayEnds(c) \/ Consume(c) \/ Answered(c) \/ LoginFails(c)
    BY <2>1, ArriveKeeps, UnlimitedKeeps, DelayKeeps, ConsumeKeeps, AnswerKeeps, FailureKeeps
  <2> QED BY <2>1, CreateKeeps, ExpireKeeps, ClockKeeps DEF LoginNext
<1>2. LoginInv /\ UNCHANGED loginVars => LoginInv'
  <2> SUFFICES ASSUME LoginInv, UNCHANGED loginVars PROVE LoginInv'
    OBVIOUS
  <2>1. AttemptsInv'
    BY AttemptsStay DEF LoginInv, loginVars
  <2> QED BY <2>1 DEF LoginInv, loginVars, LoginTypeOK, ChallengesInv, Unused, Entitled
<1> QED BY <1>1, <1>2, LoginInitInv, PTL DEF LoginSpec

LEMMA SpanIs == AttemptsInSpan = SumOf(recent, Ages)
BY Zenon DEF AttemptsInSpan, SumOf, Ages

LEMMA InvAdmitsOnce == LoginInv => ChallengeAdmitsOnce
<1> SUFFICES ASSUME LoginInv, NEW n \in Nonces
             PROVE  LET entitled == {c \in Logins : login[c].at = "issue" /\ login[c].valid /\ login[c].signs = n}
                    IN  admitted[n] + Cardinality(entitled) <= (IF n \in expired THEN 0 ELSE 1)
  BY DEF ChallengeAdmitsOnce
<1> DEFINE entitled == {c \in Logins : login[c].at = "issue" /\ login[c].valid /\ login[c].signs = n}
<1>1. \A c \in Logins : c \in entitled <=> Entitled(n, c)
  BY DEF Entitled
<1>2. entitled \subseteq Logins
  OBVIOUS
<1>3. admitted[n] \in {0, 1} /\ (n \in expired => admitted[n] = 0)
  BY DEF LoginInv, ChallengesInv
<1> HIDE DEF entitled
<1>4. ASSUME entitled = {} PROVE admitted[n] + Cardinality(entitled) <= (IF n \in expired THEN 0 ELSE 1)
  <2>1. Cardinality(entitled) = 0
    BY <1>4, FS_EmptySet
  <2> QED BY <1>3, <2>1
<1>5. ASSUME entitled # {} PROVE admitted[n] + Cardinality(entitled) <= (IF n \in expired THEN 0 ELSE 1)
  <2>1. PICK c \in Logins : Entitled(n, c)
    BY <1>1, <1>2, <1>5
  <2>2. entitled = {c} /\ admitted[n] = 0 /\ n \notin expired
    BY <1>1, <1>2, <2>1 DEF LoginInv, ChallengesInv
  <2>3. Cardinality(entitled) = 1
    BY <2>2, FS_Singleton
  <2> QED BY <2>2, <2>3
<1> QED BY <1>4, <1>5 DEF entitled

\* A challenge admits one login, and a minute two windows' attempts.
THEOREM LoginsAreLimited == LoginSpec => []LoginsHold
<1>1. LoginInv => LoginsHold
  <2> SUFFICES ASSUME LoginInv PROVE LoginsHold
    OBVIOUS
  <2>1. SumOf(recent, Ages) <= 2 * AttemptLimit
    <3>1. SumOf(Before, Ages) \in Nat /\ SumOf(Within, Ages) \in Nat
      BY LoginTypes, LoginArith, SumIsNat DEF LoginInv
    <3> QED BY <3>1, TwoParts, LoginTypes, LoginArith DEF LoginInv, AttemptsInv
  <2> QED BY <2>1, SpanIs, InvAdmitsOnce DEF LoginsHold, TwoWindowsAtMost
<1> QED BY <1>1, LoginInductive, PTL

-----------------------------------------------------------------------------
(* A challenge is ExactlyOnce's job: whoever takes it off its key claims it, *)
(* and its effect is the call it lets in. One that expired stays claimed.    *)

Challenges == Nonces \ {0}

ChallengePhase ==
    [n \in Challenges |-> IF n > created \/ n = challenge THEN "pending" ELSE "claimed"]

LetIn == [n \in Challenges |-> admitted[n]]

ByOnce == INSTANCE ExactlyOnce WITH Jobs <- Challenges, phase <- ChallengePhase, performed <- LetIn

\* Creating a challenge leaves every challenge as it was: to be claimed.
LEMMA CreatedIsPending == LoginInv /\ CreateChallenge => UNCHANGED ByOnce!onceVars
<1> SUFFICES ASSUME LoginInv, CreateChallenge PROVE UNCHANGED ByOnce!onceVars
  OBVIOUS
<1>1. challenge = 0 /\ created' = created + 1 /\ challenge' = created + 1 /\ admitted' = admitted
  BY DEF CreateChallenge
<1>2. \A n \in Challenges : (n > created' \/ n = challenge') <=> (n > created \/ n = challenge)
  BY <1>1, LoginTypes, LoginArith DEF LoginInv, Challenges
<1>3. ChallengePhase' = ChallengePhase
  BY <1>2 DEF ChallengePhase
<1> QED BY <1>1, <1>3 DEF ByOnce!onceVars, LetIn

\* The key goes, or stays: its challenge is claimed by whoever removes it.
LEMMA RemovalClaims ==
    ASSUME LoginInv, challenge' \in {challenge, 0}, UNCHANGED <<created, admitted>>
    PROVE  [ByOnce!OnceNext]_ByOnce!onceVars
<1>1. LetIn' = LetIn
  BY DEF LetIn
<1>2. CASE challenge' = challenge
  <2>1. ChallengePhase' = ChallengePhase
    BY <1>2 DEF ChallengePhase
  <2> QED BY <1>1, <2>1 DEF ByOnce!onceVars
<1>3. CASE challenge' = 0 /\ challenge # 0
  <2>1. challenge \in Challenges /\ ~(challenge > created)
    BY <1>3, LoginTypes, LoginArith DEF LoginInv, LoginTypeOK, Challenges, ChallengesInv
  <2>2. ChallengePhase[challenge] = "pending"
    BY <2>1 DEF ChallengePhase
  <2>3. ChallengePhase' = [ChallengePhase EXCEPT ![challenge] = "claimed"]
    <3>1. \A n \in Challenges : n # 0
      BY DEF Challenges
    <3> QED BY <1>3, <2>1, <3>1 DEF ChallengePhase
  <2> QED BY <1>1, <2>1, <2>2, <2>3 DEF ByOnce!OnceNext, ByOnce!Claim
<1> QED BY <1>2, <1>3

\* The call that took the challenge is let in, once.
LEMMA AnswerPerforms == ASSUME LoginInv, NEW c \in Logins, Answered(c) PROVE [ByOnce!OnceNext]_ByOnce!onceVars
<1> DEFINE n == login[c].signs
<1>1. UNCHANGED <<challenge, created>> /\ n \in Nonces /\ login[c].at = "issue"
  BY CallsInLogin DEF Answered, LoginInv
<1>2. ChallengePhase' = ChallengePhase
  BY <1>1 DEF ChallengePhase
<1>3. CASE n \in Challenges /\ login[c].valid
  <2>1. Entitled(n, c)
    BY <1>1, <1>3 DEF Entitled
  <2>2. admitted[n] = 0 /\ n # challenge /\ ~(n > created)
    BY <1>1, <1>3, <2>1 DEF LoginInv, ChallengesInv, Unused, Challenges
  <2>3. admitted' = [admitted EXCEPT ![n] = 1] /\ admitted \in [Nonces -> Nat]
    BY <1>3, <2>2, LoginTypes DEF Answered, LoginInv
  <2>4. LetIn' = [LetIn EXCEPT ![n] = 1] /\ LetIn[n] = 0
    BY <1>1, <1>3, <2>2, <2>3 DEF LetIn, Challenges
  <2>5. ChallengePhase[n] = "claimed"
    BY <1>3, <2>2 DEF ChallengePhase
  <2> QED BY <1>2, <1>3, <2>4, <2>5 DEF ByOnce!OnceNext, ByOnce!Perform
<1>4. CASE ~(n \in Challenges /\ login[c].valid)
  <2>1. \A m \in Challenges : admitted'[m] = admitted[m]
    BY <1>1, <1>4, LoginTypes DEF Answered, LoginInv, Challenges
  <2>2. LetIn' = LetIn
    BY <2>1 DEF LetIn
  <2> QED BY <1>2, <2>2 DEF ByOnce!onceVars
<1> QED BY <1>3, <1>4

\* session.ts ChallengeStore: a challenge implements ExactlyOnce: nobody is let in
\* by one that is still on its key or was never created, the one call that took it
\* off may be, and a challenge that is gone never comes back.
THEOREM ChallengesAreUsedOnce == LoginSpec => ByOnce!OnceSpec
<1>1. LoginInit => ByOnce!OnceInit
  <2> SUFFICES ASSUME LoginInit PROVE ByOnce!OnceInit
    OBVIOUS
  <2>1. \A n \in Challenges : n > 0 /\ n \in Nonces
    BY LoginArith DEF Challenges
  <2> QED BY <2>1 DEF LoginInit, ByOnce!OnceInit, ChallengePhase, LetIn
<1>2. LoginInv /\ [LoginNext]_loginVars => [ByOnce!OnceNext]_ByOnce!onceVars
  <2> SUFFICES ASSUME LoginInv, [LoginNext]_loginVars PROVE [ByOnce!OnceNext]_ByOnce!onceVars
    OBVIOUS
  <2>1. CASE CreateChallenge
    BY <2>1, CreatedIsPending
  <2>2. ASSUME NEW c \in Logins, Answered(c) PROVE [ByOnce!OnceNext]_ByOnce!onceVars
    BY <2>2, AnswerPerforms
  <2>3. CASE ChallengeExpires \/ ClockAdvances \/ UNCHANGED loginVars
    BY <2>3, RemovalClaims DEF ChallengeExpires, ClockAdvances, loginVars
  <2>4. ASSUME NEW c \in Logins,
               \/ \E n \in Nonces : Arrive(c, n) \/ ArriveUnlimited(c, n)
               \/ DelayEnds(c) \/ Consume(c) \/ LoginFails(c)
        PROVE  [ByOnce!OnceNext]_ByOnce!onceVars
    <3>1. challenge' \in {challenge, 0} /\ UNCHANGED <<created, admitted>>
      BY <2>4 DEF Arrive, ArriveUnlimited, DelayEnds, Consume, LeftChallenge, LoginFails
    <3> QED BY <3>1, RemovalClaims
  <2> QED BY <2>1, <2>2, <2>3, <2>4 DEF LoginNext
<1> QED BY <1>1, <1>2, LoginInductive, PTL DEF LoginSpec, ByOnce!OnceSpec

-----------------------------------------------------------------------------
(***************************************************************************)
(* Session refresh. Each version of the hash was somebody's answer; with   *)
(* two refreshes at once, one that may yet be refused presents the hash's  *)
(* version or the one before it, unless an answer with newer tokens was    *)
(* lost.                                                                   *)
(***************************************************************************)
\* At most two refreshes are under way at once.
AtMostTwo == \A c, d, e \in Refreshes : c = d \/ c = e \/ d = e

RefreshRecord ==
    [at : {"none", "cooldown", "read", "write", "cache", "unlock", "answer"},
     token : Nat, stored : Nat, answer : Nat, early : 0..2]

\* What a refresh has so far.
HasSoFar(r) ==
    /\ r.at = "none" => r.early = 0
    /\ r.at # "none" => r.token >= 1
    /\ r.at \in {"none", "cooldown", "read", "write"} => r.answer = 0
    /\ r.at = "write" => r.stored >= 1
    /\ r.at = "cache" => r.answer >= 1

\* While one is under way that was when the cooldown was set, none under way
\* takes the cooldown for expired, nor does it expire.
Marks(calls, cool) ==
    /\ \A c, d \in Refreshes : calls[c].early = 1 /\ calls[d].at # "none" => calls[d].early # 0
    /\ \A c \in Refreshes : calls[c].early # 0 => cool # 0

\* Version v reached the device, or did not, or the refresh that cached it has
\* yet to answer.
Told(v, calls, newest, missed) ==
    \/ v <= newest \/ v \in missed
    \/ \E e \in Refreshes :
          calls[e].at \in {"unlock", "answer"} /\ calls[e].early = 1 /\ calls[e].answer = v

\* What is cached, and answers that may be from the cooldown.
Cached(calls, cool, newest, missed) ==
    /\ cool # 0 => Told(cool, calls, newest, missed)
    /\ \A d \in Refreshes :
          calls[d].at \in {"unlock", "answer"} /\ calls[d].answer # 0 => Told(calls[d].answer, calls, newest, missed)

\* Each version after the first, up to v, was somebody's answer.
AllTold(v, calls, newest, missed) ==
    \A n \in 2..v : n <= newest \/ n \in missed \/ \E d \in Refreshes : calls[d].answer = n

Written(calls, version, newest, missed) ==
    /\ AllTold(version, calls, newest, missed)
    /\ \A d \in Refreshes : calls[d].at = "write" => AllTold(calls[d].stored, calls, newest, missed)

\* A refresh that may yet be refused presents the version of the hash or the
\* one before it, and in the second case nobody adds another.
UpToDate(c, calls, version) ==
    /\ version <= calls[c].token + 1
    /\ \A d \in Refreshes : calls[d].at = "write" => calls[d].stored <= calls[c].token
    /\ version = calls[c].token + 1 =>
          \/ \E d \in Refreshes : calls[d].at = "cache" /\ calls[d].answer = version
          \/ calls[c].early # 0 /\ \A d \in Refreshes \ {c} : calls[d].at \notin {"read", "write"}

Admits(calls, version, missed) ==
    \A c \in Refreshes :
        calls[c].at \in {"cooldown", "read"} /\ (\A v \in missed : v <= calls[c].token)
        => UpToDate(c, calls, version)

RefreshInv ==
    /\ refresh \in [Refreshes -> RefreshRecord] /\ \A c \in Refreshes : HasSoFar(refresh[c])
    /\ tokenVersion \in Nat /\ cooldown \in Nat /\ held \in Nat
    /\ unheard \in SUBSET Nat /\ IsFiniteSet(unheard)
    /\ held = 0 => tokenVersion = 0 /\ \A c \in Refreshes : refresh[c].at = "none"
    /\ Marks(refresh, cooldown)
    /\ Cached(refresh, cooldown, held, unheard)
    /\ Written(refresh, tokenVersion, held, unheard)
    /\ Admits(refresh, tokenVersion, unheard)

-----------------------------------------------------------------------------
(* What only grows. *)

\* The calls, the device's tokens and the lost answers, before and after.
Follows(calls, after, newest, newer, missed, more) ==
    /\ newest <= newer /\ missed \subseteq more
    /\ \A e \in Refreshes : calls[e].answer # 0 =>
          \/ after[e].answer = calls[e].answer
          \/ calls[e].answer <= newer \/ calls[e].answer \in more
    /\ \A e \in Refreshes : calls[e].at \in {"unlock", "answer"} /\ calls[e].early = 1 =>
          \/ after[e].at \in {"unlock", "answer"} /\ after[e].early = 1 /\ after[e].answer = calls[e].answer
          \/ calls[e].answer <= newer \/ calls[e].answer \in more

LEMMA ToldStays ==
    ASSUME NEW calls, NEW after, NEW newest \in Nat, NEW newer \in Nat, NEW missed, NEW more,
           Follows(calls, after, newest, newer, missed, more), NEW v \in Nat, Told(v, calls, newest, missed)
    PROVE  Told(v, after, newer, more)
BY DEF Follows, Told

LEMMA AllToldStays ==
    ASSUME NEW calls, NEW after, NEW newest \in Nat, NEW newer \in Nat, NEW missed, NEW more,
           Follows(calls, after, newest, newer, missed, more), NEW v \in Nat, AllTold(v, calls, newest, missed)
    PROVE  AllTold(v, after, newer, more)
<1> SUFFICES ASSUME NEW n \in 2..v
             PROVE  n <= newer \/ n \in more \/ \E d \in Refreshes : after[d].answer = n
  BY DEF AllTold
<1>1. n \in Nat /\ n # 0
  OBVIOUS
<1>2. CASE n <= newest \/ n \in missed
  BY <1>1, <1>2 DEF Follows
<1>3. CASE \E d \in Refreshes : calls[d].answer = n
  BY <1>1, <1>3 DEF Follows
<1> QED BY <1>2, <1>3 DEF AllTold

\* What is left to show of a step.
LEMMA RefreshStepKeeps ==
    ASSUME RefreshInv, Follows(refresh, refresh', held, held', unheard, unheard'),
           refresh' \in [Refreshes -> RefreshRecord], \A c \in Refreshes : HasSoFar(refresh'[c]),
           tokenVersion' \in Nat, cooldown' \in Nat, held' \in Nat, unheard' \in SUBSET Nat, IsFiniteSet(unheard'),
           held' = 0 => tokenVersion' = 0 /\ \A c \in Refreshes : refresh'[c].at = "none",
           Marks(refresh', cooldown'),
           \/ cooldown' \in {0, cooldown} \/ Told(cooldown', refresh', held', unheard'),
           \A d \in Refreshes : refresh'[d].at \in {"unlock", "answer"} /\ refresh'[d].answer # 0 =>
              \/ refresh'[d].answer = cooldown /\ cooldown # 0
              \/ refresh[d].at \in {"unlock", "answer"} /\ refresh[d].answer = refresh'[d].answer
              \/ Told(refresh'[d].answer, refresh', held', unheard'),
           \/ tokenVersion' \in {0, tokenVersion} \/ AllTold(tokenVersion', refresh', held', unheard'),
           \A d \in Refreshes : refresh'[d].at = "write" =>
              refresh'[d].stored = tokenVersion \/ (refresh[d].at = "write" /\ refresh[d].stored = refresh'[d].stored),
           Admits(refresh', tokenVersion', unheard')
    PROVE  RefreshInv'
<1>1. /\ held \in Nat /\ cooldown \in Nat /\ tokenVersion \in Nat
      /\ \A d \in Refreshes : refresh[d].answer \in Nat /\ refresh[d].stored \in Nat
      /\ \A d \in Refreshes : refresh'[d].answer \in Nat /\ refresh'[d].stored \in Nat
  <2>1. \A r \in RefreshRecord : r.answer \in Nat /\ r.stored \in Nat
    BY DEF RefreshRecord
  <2> QED BY <2>1 DEF RefreshInv
<1>2. \A v \in Nat : Told(v, refresh, held, unheard) => Told(v, refresh', held', unheard')
  BY <1>1, ToldStays
<1>3. \A v \in Nat : AllTold(v, refresh, held, unheard) => AllTold(v, refresh', held', unheard')
  BY <1>1, AllToldStays
<1>4. Cached(refresh', cooldown', held', unheard')
  BY <1>1, <1>2 DEF Cached, RefreshInv
<1>5. AllTold(0, refresh', held', unheard')
  BY DEF AllTold
<1>6. Written(refresh', tokenVersion', held', unheard')
  BY <1>1, <1>3, <1>5 DEF Written, RefreshInv
<1> QED BY <1>4, <1>6 DEF RefreshInv

LEMMA RecordsAre ==
    /\ NoRefresh \in RefreshRecord /\ NoRefresh.at = "none" /\ NoRefresh.answer = 0 /\ NoRefresh.early = 0
    /\ \A r \in RefreshRecord : /\ r.token \in Nat /\ r.stored \in Nat /\ r.answer \in Nat /\ r.early \in 0..2
                                /\ r.at \in {"none", "cooldown", "read", "write", "cache", "unlock", "answer"}
BY DEF RefreshRecord, NoRefresh

LEMMA RefreshInitInv == RefreshInit => RefreshInv
<1> SUFFICES ASSUME RefreshInit PROVE RefreshInv
  OBVIOUS
<1>1. /\ tokenVersion = 0 /\ cooldown = 0 /\ held = 0 /\ unheard = {}
      /\ refresh = [c \in Refreshes |-> NoRefresh]
  BY DEF RefreshInit
<1>2. refresh \in [Refreshes -> RefreshRecord] /\ \A c \in Refreshes : refresh[c] = NoRefresh
  BY <1>1, RecordsAre
<1>3. \A c \in Refreshes : HasSoFar(refresh[c])
  BY <1>2, RecordsAre DEF HasSoFar
<1>4. Marks(refresh, cooldown) /\ Cached(refresh, cooldown, held, unheard) /\ Written(refresh, tokenVersion, held, unheard)
  BY <1>1, <1>2, RecordsAre DEF Marks, Cached, Written, AllTold
<1>5. Admits(refresh, tokenVersion, unheard)
  BY <1>2, RecordsAre DEF Admits
<1>6. IsFiniteSet(unheard)
  BY <1>1, FS_EmptySet
<1> QED BY <1>1, <1>2, <1>3, <1>4, <1>5, <1>6, RecordsAre DEF RefreshInv

LEMMA IssueKeeps == ASSUME RefreshInv, IssueTokens PROVE RefreshInv'
<1>1. /\ held = 0 /\ tokenVersion' = 1 /\ held' = 1
      /\ cooldown' = cooldown /\ refresh' = refresh /\ unheard' = unheard
  BY DEF IssueTokens
<1>2. \A c \in Refreshes : refresh[c].at = "none"
  BY <1>1 DEF RefreshInv
<1>3. Follows(refresh, refresh', held, held', unheard, unheard')
  BY <1>1 DEF Follows
<1>4. AllTold(1, refresh', held', unheard')
  BY DEF AllTold
<1>5. Admits(refresh', tokenVersion', unheard')
  BY <1>1, <1>2 DEF Admits
<1>6. refresh \in [Refreshes -> RefreshRecord] /\ \A c \in Refreshes : HasSoFar(refresh[c])
  BY DEF RefreshInv
<1>7. cooldown \in Nat /\ unheard \in SUBSET Nat /\ IsFiniteSet(unheard) /\ Marks(refresh, cooldown)
  BY DEF RefreshInv
<1> QED BY <1>1, <1>2, <1>3, <1>4, <1>5, <1>6, <1>7, RefreshStepKeeps

LEMMA ExpiryKeeps == ASSUME RefreshInv, CooldownExpires \/ RefreshLockExpires \/ SessionExpires PROVE RefreshInv'
<1>1. /\ held' = held /\ refresh' = refresh /\ unheard' = unheard
      /\ tokenVersion' \in {0, tokenVersion}
      /\ \/ cooldown' = cooldown
         \/ cooldown' = 0 /\ \A c \in Refreshes : refresh[c].early = 0
  BY DEF CooldownExpires, RefreshLockExpires, SessionExpires
<1>2. /\ refresh \in [Refreshes -> RefreshRecord] /\ \A c \in Refreshes : HasSoFar(refresh[c])
      /\ tokenVersion \in Nat /\ cooldown \in Nat /\ held \in Nat /\ unheard \in SUBSET Nat /\ IsFiniteSet(unheard)
      /\ held = 0 => tokenVersion = 0 /\ \A c \in Refreshes : refresh[c].at = "none"
      /\ Marks(refresh, cooldown) /\ Admits(refresh, tokenVersion, unheard)
  BY DEF RefreshInv
<1>3. Follows(refresh, refresh', held, held', unheard, unheard')
  BY <1>1, <1>2 DEF Follows
<1>4. Marks(refresh', cooldown')
  BY <1>1, <1>2 DEF Marks
<1>5. Admits(refresh', tokenVersion', unheard')
  <2> SUFFICES ASSUME NEW c \in Refreshes, refresh[c].at \in {"cooldown", "read"}, \A v \in unheard : v <= refresh[c].token
               PROVE  UpToDate(c, refresh, tokenVersion')
    BY <1>1 DEF Admits
  <2>1. UpToDate(c, refresh, tokenVersion) /\ refresh[c].token \in Nat
    BY <1>2, RecordsAre DEF Admits
  <2>2. UpToDate(c, refresh, 0)
    BY <2>1 DEF UpToDate
  <2> QED BY <1>1, <2>1, <2>2
<1> QED BY <1>1, <1>2, <1>3, <1>4, <1>5, RefreshStepKeeps

LEMMA RefreshInvParts ==
    ASSUME RefreshInv
    PROVE  /\ refresh \in [Refreshes -> RefreshRecord] /\ \A c \in Refreshes : HasSoFar(refresh[c])
           /\ \A c \in Refreshes : /\ refresh[c].token \in Nat /\ refresh[c].stored \in Nat
                                   /\ refresh[c].answer \in Nat /\ refresh[c].early \in 0..2
           /\ tokenVersion \in Nat /\ cooldown \in Nat /\ held \in Nat
           /\ unheard \in SUBSET Nat /\ IsFiniteSet(unheard)
           /\ held = 0 => tokenVersion = 0 /\ \A c \in Refreshes : refresh[c].at = "none"
           /\ Marks(refresh, cooldown) /\ Cached(refresh, cooldown, held, unheard)
           /\ Written(refresh, tokenVersion, held, unheard) /\ Admits(refresh, tokenVersion, unheard)
BY RecordsAre DEF RefreshInv

\* A refresh that begins is up to date, unless an answer was lost.
LEMMA StartsUpToDate ==
    ASSUME AtMostTwo, RefreshInv, NEW c \in Refreshes, RefreshSession(c), \A v \in unheard : v <= held
    PROVE  UpToDate(c, refresh', tokenVersion)
<1> DEFINE n == [at |-> "cooldown", token |-> held, stored |-> 0, answer |-> 0,
                 early |-> IF \E d \in Refreshes : refresh[d].early = 1 THEN 2 ELSE 0]
<1>1. refresh[c].at = "none" /\ held # 0 /\ refresh' = [refresh EXCEPT ![c] = n]
  BY DEF RefreshSession, NoRefresh
<1>2. /\ refresh'[c] = n /\ \A d \in Refreshes \ {c} : refresh'[d] = refresh[d]
  BY <1>1, RefreshInvParts
<1>3. /\ refresh'[c].at = "cooldown" /\ refresh'[c].token = held
      /\ (\E d \in Refreshes : refresh[d].early = 1) => refresh'[c].early = 2
  <2> HIDE DEF n
  <2> QED BY <1>2 DEF n
<1>4. \A d \in Refreshes : HasSoFar(refresh[d]) /\ refresh[d].answer \in Nat /\ refresh[d].stored \in Nat
  BY RefreshInvParts
<1>5. refresh[c].answer = 0 /\ refresh[c].early = 0
  BY <1>1, <1>4 DEF HasSoFar
<1>6. held \in Nat /\ held >= 1 /\ tokenVersion \in Nat
  BY <1>1, RefreshInvParts
<1>7. \A k \in Nat : AllTold(k, refresh, held, unheard) =>
         \A m \in 2..k : m > held => \E d \in Refreshes \ {c} : refresh[d].answer = m
  BY <1>5, <1>6 DEF AllTold
<1>8. \A d \in Refreshes : refresh[d].at = "write" => refresh[d].stored <= held
  <2> SUFFICES ASSUME NEW d \in Refreshes, refresh[d].at = "write", refresh[d].stored > held PROVE FALSE
    BY <1>4, <1>6
  <2>1. AllTold(refresh[d].stored, refresh, held, unheard) /\ d # c /\ refresh[d].answer = 0
    BY <1>1, <1>4, RefreshInvParts DEF Written, HasSoFar
  <2>2. refresh[d].stored \in 2..refresh[d].stored
    BY <1>4, <1>6
  <2>3. PICK x \in Refreshes \ {c} : refresh[x].answer = refresh[d].stored
    BY <1>4, <1>7, <2>1, <2>2
  <2> QED BY <1>6, <2>1, <2>3 DEF AtMostTwo
<1>9. ASSUME tokenVersion > held
      PROVE  /\ tokenVersion = held + 1
             /\ \E d \in Refreshes \ {c} : refresh[d].answer = held + 1
  <2>1. \A m \in 2..tokenVersion : m > held => \E d \in Refreshes \ {c} : refresh[d].answer = m
    BY <1>6, <1>7, RefreshInvParts DEF Written
  <2>2. PICK d \in Refreshes \ {c} : refresh[d].answer = held + 1
    <3>1. held + 1 \in 2..tokenVersion /\ held + 1 > held
      BY <1>6, <1>9
    <3> QED BY <2>1, <3>1, Zenon
  <2>3. ~(held + 2 <= tokenVersion)
    <3> SUFFICES ASSUME held + 2 <= tokenVersion PROVE FALSE
      OBVIOUS
    <3>1. PICK x \in Refreshes \ {c} : refresh[x].answer = held + 2
      BY <1>6, <2>1
    <3>2. x = d
      BY DEF AtMostTwo
    <3> QED BY <1>6, <2>2, <3>1, <3>2
  <2> QED BY <1>6, <1>9, <2>2, <2>3
<1>10. ASSUME tokenVersion = held + 1
       PROVE  \/ \E d \in Refreshes : refresh'[d].at = "cache" /\ refresh'[d].answer = tokenVersion
              \/ refresh'[c].early # 0 /\ \A d \in Refreshes \ {c} : refresh'[d].at \notin {"read", "write"}
  <2>1. PICK d \in Refreshes \ {c} : refresh[d].answer = held + 1
    BY <1>6, <1>9, <1>10
  <2>2. \A x \in Refreshes \ {c} : x = d
    BY DEF AtMostTwo
  <2>3. refresh[d].at \in {"cache", "unlock", "answer"}
    BY <1>4, <1>6, <2>1, RefreshInvParts, RecordsAre DEF HasSoFar
  <2>4. CASE refresh[d].at = "cache"
    BY <1>2, <1>10, <2>1, <2>4
  <2>5. CASE refresh[d].at \in {"unlock", "answer"}
    <3>1. Told(held + 1, refresh, held, unheard)
      BY <1>6, <2>1, <2>5, RefreshInvParts DEF Cached
    <3>2. \E e \in Refreshes : refresh[e].early = 1
      BY <1>6, <3>1 DEF Told
    <3> QED BY <1>2, <1>3, <2>2, <2>5, <3>2
  <2> QED BY <2>3, <2>4, <2>5
<1>11. \A d \in Refreshes : refresh'[d].at = "write" => refresh'[d].stored <= held
  BY <1>2, <1>3, <1>8
<1> QED BY <1>3, <1>6, <1>9, <1>10, <1>11 DEF UpToDate

LEMMA BeginKeeps == ASSUME AtMostTwo, RefreshInv, NEW c \in Refreshes, RefreshSession(c) PROVE RefreshInv'
<1> DEFINE n == [at |-> "cooldown", token |-> held, stored |-> 0, answer |-> 0,
                 early |-> IF \E d \in Refreshes : refresh[d].early = 1 THEN 2 ELSE 0]
<1>1. /\ refresh[c].at = "none" /\ held # 0 /\ refresh' = [refresh EXCEPT ![c] = n]
      /\ tokenVersion' = tokenVersion /\ cooldown' = cooldown /\ held' = held /\ unheard' = unheard
  BY DEF RefreshSession, NoRefresh
<1>2. /\ refresh \in [Refreshes -> RefreshRecord] /\ \A d \in Refreshes : HasSoFar(refresh[d])
      /\ tokenVersion \in Nat /\ cooldown \in Nat /\ held \in Nat /\ unheard \in SUBSET Nat /\ IsFiniteSet(unheard)
      /\ Marks(refresh, cooldown) /\ Admits(refresh, tokenVersion, unheard)
      /\ \A d \in Refreshes : refresh[d].token \in Nat
  BY RefreshInvParts
<1>3. n \in RefreshRecord
  BY <1>2 DEF RefreshRecord
<1>4. /\ refresh' \in [Refreshes -> RefreshRecord] /\ refresh'[c] = n
      /\ \A d \in Refreshes \ {c} : refresh'[d] = refresh[d]
  BY <1>1, <1>2, <1>3
<1>5. /\ refresh'[c].at = "cooldown" /\ refresh'[c].token = held /\ refresh'[c].answer = 0
      /\ refresh'[c].early \in {0, 2}
      /\ (\E d \in Refreshes : refresh[d].early = 1) <=> refresh'[c].early = 2
  <2> HIDE DEF n
  <2> QED BY <1>4 DEF n
<1> HIDE DEF n
<1>6. \A d \in Refreshes : HasSoFar(refresh'[d])
  BY <1>1, <1>2, <1>4, <1>5 DEF HasSoFar
<1>7. refresh[c].answer = 0 /\ refresh[c].early = 0
  BY <1>1, <1>2 DEF HasSoFar
<1>8. Follows(refresh, refresh', held, held', unheard, unheard')
  BY <1>1, <1>2, <1>4, <1>7 DEF Follows
<1>9. Marks(refresh', cooldown')
  BY <1>1, <1>2, <1>4, <1>5 DEF Marks
<1>10. Admits(refresh', tokenVersion', unheard')
  <2> SUFFICES ASSUME NEW x \in Refreshes, refresh'[x].at \in {"cooldown", "read"},
                      \A v \in unheard : v <= refresh'[x].token
               PROVE  UpToDate(x, refresh', tokenVersion)
    BY <1>1 DEF Admits
  <2>1. CASE x = c
    BY <1>5, <2>1, StartsUpToDate
  <2>2. CASE x # c
    <3>1. UpToDate(x, refresh, tokenVersion)
      BY <1>2, <1>4, <2>2 DEF Admits
    <3> QED BY <1>1, <1>4, <1>5, <2>2, <3>1 DEF UpToDate
  <2> QED BY <2>1, <2>2
<1> QED BY <1>1, <1>2, <1>4, <1>5, <1>6, <1>8, <1>9, <1>10, RefreshStepKeeps

LEMMA ReadCooldownKeeps == ASSUME RefreshInv, NEW c \in Refreshes, ReadCooldown(c) PROVE RefreshInv'
<1> DEFINE old == refresh[c]
<1>1. /\ old.at = "cooldown" /\ refresh' = IF cooldown # 0
                  THEN [refresh EXCEPT ![c].at = "unlock", ![c].answer = cooldown]
                  ELSE [refresh EXCEPT ![c].at = "read"]
      /\ tokenVersion' = tokenVersion /\ cooldown' = cooldown /\ held' = held /\ unheard' = unheard
  BY DEF ReadCooldown
<1>2. /\ refresh \in [Refreshes -> RefreshRecord] /\ \A d \in Refreshes : HasSoFar(refresh[d])
      /\ tokenVersion \in Nat /\ cooldown \in Nat /\ held \in Nat /\ unheard \in SUBSET Nat /\ IsFiniteSet(unheard)
      /\ Marks(refresh, cooldown) /\ Admits(refresh, tokenVersion, unheard)
      /\ held = 0 => \A d \in Refreshes : refresh[d].at = "none"
      /\ \A d \in Refreshes : refresh[d].token \in Nat
  BY RefreshInvParts
<1>3. /\ refresh' \in [Refreshes -> RefreshRecord]
      /\ refresh'[c].token = old.token /\ refresh'[c].stored = old.stored /\ refresh'[c].early = old.early
      /\ \/ cooldown # 0 /\ refresh'[c].at = "unlock" /\ refresh'[c].answer = cooldown
         \/ cooldown = 0 /\ refresh'[c].at = "read" /\ refresh'[c].answer = old.answer
      /\ \A d \in Refreshes \ {c} : refresh'[d] = refresh[d]
  BY <1>1, <1>2 DEF RefreshRecord
<1>4. old.answer = 0 /\ old.token >= 1
  BY <1>1, <1>2 DEF HasSoFar
<1> HIDE DEF old
<1>5. \A d \in Refreshes : HasSoFar(refresh'[d])
  BY <1>2, <1>3, <1>4 DEF HasSoFar
<1>6. Follows(refresh, refresh', held, held', unheard, unheard')
  BY <1>1, <1>2, <1>3, <1>4 DEF Follows, old
<1>7. Marks(refresh', cooldown')
  BY <1>1, <1>2, <1>3 DEF Marks, old
<1>8. Admits(refresh', tokenVersion', unheard')
  <2> SUFFICES ASSUME NEW x \in Refreshes, refresh'[x].at \in {"cooldown", "read"},
                      \A v \in unheard : v <= refresh'[x].token
               PROVE  UpToDate(x, refresh', tokenVersion)
    BY <1>1 DEF Admits
  <2>1. UpToDate(x, refresh, tokenVersion)
    BY <1>1, <1>2, <1>3 DEF Admits, old
  <2>2. refresh'[x].token = refresh[x].token /\ refresh'[x].early = refresh[x].early /\ (refresh[x].early # 0 => cooldown # 0)
    BY <1>2, <1>3 DEF Marks, old
  <2> QED BY <1>1, <1>3, <2>1, <2>2 DEF UpToDate, old
<1> QED BY <1>1, <1>2, <1>3, <1>4, <1>5, <1>6, <1>7, <1>8, RefreshStepKeeps DEF old

LEMMA ReadSessionKeeps == ASSUME AtMostTwo, RefreshInv, NEW c \in Refreshes, ReadSession(c) PROVE RefreshInv'
<1> DEFINE old == refresh[c]
<1>1. /\ old.at = "read" /\ refresh' = IF tokenVersion = 0 \/ TooOld(old.token, tokenVersion)
                  THEN [refresh EXCEPT ![c].at = "unlock"]
                  ELSE [refresh EXCEPT ![c].at = "write", ![c].stored = tokenVersion]
      /\ tokenVersion' = tokenVersion /\ cooldown' = cooldown /\ held' = held /\ unheard' = unheard
  BY DEF ReadSession
<1>2. /\ refresh \in [Refreshes -> RefreshRecord] /\ \A d \in Refreshes : HasSoFar(refresh[d])
      /\ tokenVersion \in Nat /\ cooldown \in Nat /\ held \in Nat /\ unheard \in SUBSET Nat /\ IsFiniteSet(unheard)
      /\ Marks(refresh, cooldown) /\ Admits(refresh, tokenVersion, unheard)
      /\ held = 0 => \A d \in Refreshes : refresh[d].at = "none"
      /\ \A d \in Refreshes : refresh[d].token \in Nat
  BY RefreshInvParts
<1>3. /\ refresh' \in [Refreshes -> RefreshRecord]
      /\ refresh'[c].token = old.token /\ refresh'[c].answer = old.answer /\ refresh'[c].early = old.early
      /\ \/ refresh'[c].at = "unlock"
         \/ tokenVersion # 0 /\ refresh'[c].at = "write" /\ refresh'[c].stored = tokenVersion
      /\ \A d \in Refreshes \ {c} : refresh'[d] = refresh[d]
  BY <1>1, <1>2 DEF RefreshRecord
<1>4. old.answer = 0 /\ old.token >= 1
  BY <1>1, <1>2 DEF HasSoFar
<1> HIDE DEF old
<1>5. \A d \in Refreshes : HasSoFar(refresh'[d])
  BY <1>2, <1>3, <1>4 DEF HasSoFar
<1>6. Follows(refresh, refresh', held, held', unheard, unheard')
  BY <1>1, <1>2, <1>3, <1>4 DEF Follows, old
<1>7. Marks(refresh', cooldown')
  BY <1>1, <1>2, <1>3 DEF Marks, old
<1>8. Admits(refresh', tokenVersion', unheard')
  <2> SUFFICES ASSUME NEW x \in Refreshes, refresh'[x].at \in {"cooldown", "read"},
                      \A v \in unheard : v <= refresh'[x].token
               PROVE  UpToDate(x, refresh', tokenVersion)
    BY <1>1 DEF Admits
  <2>1. x # c
    BY <1>3
  <2>2. UpToDate(x, refresh, tokenVersion) /\ refresh'[x] = refresh[x] /\ refresh[x].token \in Nat
    BY <1>1, <1>2, <1>3, <2>1 DEF Admits
  <2>3. ASSUME refresh'[c].at = "write" PROVE tokenVersion <= refresh[x].token
    <3>1. refresh[c].at = "read" /\ c \in Refreshes \ {x}
      BY <1>1, <2>1 DEF old
    <3>2. tokenVersion # refresh[x].token + 1
      <4> SUFFICES ASSUME tokenVersion = refresh[x].token + 1 PROVE FALSE
        OBVIOUS
      <4>1. PICK d \in Refreshes : refresh[d].at = "cache"
        BY <2>2, <3>1 DEF UpToDate
      <4>2. d # c /\ d # x
        BY <2>2, <3>1, <4>1
      <4> QED BY <2>1, <4>2 DEF AtMostTwo
    <3> QED BY <1>2, <2>2, <3>2 DEF UpToDate
  <2> QED BY <1>1, <1>3, <2>1, <2>2, <2>3 DEF UpToDate, old
<1> QED BY <1>1, <1>2, <1>3, <1>4, <1>5, <1>6, <1>7, <1>8, RefreshStepKeeps DEF old

LEMMA WriteKeeps == ASSUME RefreshInv, NEW c \in Refreshes, WriteVersion(c) PROVE RefreshInv'
<1> DEFINE old == refresh[c]
           v == old.stored + 1
<1>1. /\ old.at = "write" /\ tokenVersion' = v
      /\ refresh' = [refresh EXCEPT ![c].at = "cache", ![c].answer = v]
      /\ cooldown' = cooldown /\ held' = held /\ unheard' = unheard
  BY DEF WriteVersion
<1>2. /\ refresh \in [Refreshes -> RefreshRecord] /\ \A d \in Refreshes : HasSoFar(refresh[d])
      /\ tokenVersion \in Nat /\ cooldown \in Nat /\ held \in Nat /\ unheard \in SUBSET Nat /\ IsFiniteSet(unheard)
      /\ Marks(refresh, cooldown) /\ Admits(refresh, tokenVersion, unheard)
      /\ held = 0 => \A d \in Refreshes : refresh[d].at = "none"
      /\ \A d \in Refreshes : refresh[d].token \in Nat /\ refresh[d].stored \in Nat /\ refresh[d].answer \in Nat
  BY RefreshInvParts
<1>a. v \in Nat /\ v >= 1 /\ v = old.stored + 1 /\ old.stored \in Nat
  BY <1>2
<1> HIDE DEF v
<1>3. /\ refresh' \in [Refreshes -> RefreshRecord]
      /\ refresh'[c].token = old.token /\ refresh'[c].stored = old.stored /\ refresh'[c].early = old.early
      /\ refresh'[c].at = "cache" /\ refresh'[c].answer = v
      /\ \A d \in Refreshes \ {c} : refresh'[d] = refresh[d]
  BY <1>1, <1>2, <1>a DEF RefreshRecord
<1>4. old.answer = 0 /\ old.token >= 1 /\ held # 0
  BY <1>1, <1>2 DEF HasSoFar
<1> HIDE DEF old
<1>5. \A d \in Refreshes : HasSoFar(refresh'[d])
  BY <1>2, <1>3, <1>4, <1>a DEF HasSoFar
<1>6. Follows(refresh, refresh', held, held', unheard, unheard')
  BY <1>1, <1>2, <1>3, <1>4 DEF Follows, old
<1>7. Marks(refresh', cooldown')
  BY <1>1, <1>2, <1>3 DEF Marks, old
<1>8. Admits(refresh', tokenVersion', unheard')
  <2> SUFFICES ASSUME NEW x \in Refreshes, refresh'[x].at \in {"cooldown", "read"},
                      \A w \in unheard : w <= refresh'[x].token
               PROVE  UpToDate(x, refresh', v)
    BY <1>1 DEF Admits
  <2>1. x # c
    BY <1>3
  <2>2. UpToDate(x, refresh, tokenVersion) /\ refresh'[x] = refresh[x] /\ refresh[x].token \in Nat
    BY <1>1, <1>2, <1>3, <2>1 DEF Admits
  <2>3. old.stored <= refresh[x].token
    BY <1>1, <2>2 DEF UpToDate, old
  <2>4. v <= refresh[x].token + 1
    BY <1>a, <2>2, <2>3
  <2> QED BY <1>3, <2>1, <2>2, <2>4 DEF UpToDate
<1>9. AllTold(v, refresh', held', unheard')
  <2>1. AllTold(old.stored, refresh, held, unheard)
    BY <1>1, RefreshInvParts DEF Written, old
  <2>2. AllTold(old.stored, refresh', held', unheard')
    BY <1>1, <1>2, <1>6, <1>a, <2>1, AllToldStays
  <2>3. \A n \in 2..v : n \in 2..old.stored \/ n = v
    BY <1>a
  <2> QED BY <1>3, <2>2, <2>3 DEF AllTold
<1> QED BY <1>1, <1>2, <1>3, <1>4, <1>5, <1>6, <1>7, <1>8, <1>9, <1>a, RefreshStepKeeps DEF old

LEMMA CacheKeeps == ASSUME AtMostTwo, RefreshInv, NEW c \in Refreshes, CacheTokens(c) PROVE RefreshInv'
<1> DEFINE old == refresh[c]
           Cooled(d) == [at |-> IF d = c THEN "unlock" ELSE refresh[d].at, token |-> refresh[d].token,
                        stored |-> refresh[d].stored, answer |-> refresh[d].answer,
                        early |-> IF refresh[d].at = "none" THEN 0 ELSE 1]
<1>1. /\ old.at = "cache" /\ cooldown' = old.answer
      /\ refresh' = [d \in Refreshes |-> Cooled(d)]
      /\ tokenVersion' = tokenVersion /\ held' = held /\ unheard' = unheard
  BY DEF CacheTokens
<1>2. /\ refresh \in [Refreshes -> RefreshRecord] /\ \A d \in Refreshes : HasSoFar(refresh[d])
      /\ tokenVersion \in Nat /\ cooldown \in Nat /\ held \in Nat /\ unheard \in SUBSET Nat /\ IsFiniteSet(unheard)
      /\ Marks(refresh, cooldown) /\ Admits(refresh, tokenVersion, unheard)
      /\ held = 0 => \A d \in Refreshes : refresh[d].at = "none"
      /\ \A d \in Refreshes : refresh[d].token \in Nat /\ refresh[d].stored \in Nat /\ refresh[d].answer \in Nat
  BY RefreshInvParts
<1>3. /\ refresh' \in [Refreshes -> RefreshRecord]
      /\ \A d \in Refreshes : /\ refresh'[d].token = refresh[d].token /\ refresh'[d].stored = refresh[d].stored
                              /\ refresh'[d].answer = refresh[d].answer
                              /\ refresh'[d].early = IF refresh[d].at = "none" THEN 0 ELSE 1
                              /\ refresh'[d].at = IF d = c THEN "unlock" ELSE refresh[d].at
  <2>1. \A d \in Refreshes : refresh[d].at \in {"none", "cooldown", "read", "write", "cache", "unlock", "answer"}
    BY <1>2 DEF RefreshRecord
  <2>2. \A d \in Refreshes : Cooled(d) \in RefreshRecord
    BY <1>2, <2>1 DEF RefreshRecord
  <2> QED BY <1>1, <2>2
<1>4. old.answer >= 1 /\ old.token >= 1 /\ held # 0
  BY <1>1, <1>2 DEF HasSoFar
<1> HIDE DEF old, Cooled
<1>5. \A d \in Refreshes : HasSoFar(refresh'[d])
  BY <1>1, <1>2, <1>3, <1>4 DEF HasSoFar, old
<1>6. Follows(refresh, refresh', held, held', unheard, unheard')
  BY <1>1, <1>2, <1>3, <1>4 DEF Follows, old
<1>7. Marks(refresh', cooldown')
  BY <1>1, <1>2, <1>3, <1>4 DEF Marks, old
<1>8. Admits(refresh', tokenVersion', unheard')
  <2> SUFFICES ASSUME NEW x \in Refreshes, refresh'[x].at \in {"cooldown", "read"},
                      \A w \in unheard : w <= refresh'[x].token
               PROVE  UpToDate(x, refresh', tokenVersion)
    BY <1>1 DEF Admits
  <2>1. x # c
    BY <1>3
  <2>2. UpToDate(x, refresh, tokenVersion) /\ refresh'[x].token = refresh[x].token
    BY <1>1, <1>2, <1>3, <2>1 DEF Admits
  <2>3. refresh'[x].early # 0
    BY <1>3, <2>1
  <2>4. \A d \in Refreshes \ {x} : d = c
    BY <2>1 DEF AtMostTwo
  <2>5. \A d \in Refreshes \ {x} : refresh'[d].at \notin {"read", "write"}
    BY <1>3, <2>4
  <2>6. \A d \in Refreshes : refresh'[d].at = "write" => refresh[d].at = "write" /\ refresh'[d].stored = refresh[d].stored
    BY <1>3
  <2> QED BY <2>2, <2>3, <2>5, <2>6 DEF UpToDate
<1>9. Told(cooldown', refresh', held', unheard')
  BY <1>1, <1>3 DEF Told, old
<1>10. \A d \in Refreshes : refresh'[d].at \in {"unlock", "answer"} /\ refresh'[d].answer # 0 =>
              \/ refresh[d].at \in {"unlock", "answer"} /\ refresh[d].answer = refresh'[d].answer
              \/ Told(refresh'[d].answer, refresh', held', unheard')
  BY <1>1, <1>3, <1>9 DEF old
<1> QED BY <1>1, <1>2, <1>3, <1>4, <1>5, <1>6, <1>7, <1>8, <1>9, <1>10, RefreshStepKeeps DEF old

LEMMA UnlockKeeps == ASSUME RefreshInv, NEW c \in Refreshes, UnlockRefresh(c) PROVE RefreshInv'
<1> DEFINE old == refresh[c]
<1>1. /\ old.at = "unlock" /\ refresh' = [refresh EXCEPT ![c].at = "answer"]
      /\ tokenVersion' = tokenVersion /\ cooldown' = cooldown /\ held' = held /\ unheard' = unheard
  BY DEF UnlockRefresh
<1>2. /\ refresh \in [Refreshes -> RefreshRecord] /\ \A d \in Refreshes : HasSoFar(refresh[d])
      /\ tokenVersion \in Nat /\ cooldown \in Nat /\ held \in Nat /\ unheard \in SUBSET Nat /\ IsFiniteSet(unheard)
      /\ Marks(refresh, cooldown) /\ Admits(refresh, tokenVersion, unheard)
      /\ held = 0 => \A d \in Refreshes : refresh[d].at = "none"
      /\ \A d \in Refreshes : refresh[d].token \in Nat /\ refresh[d].stored \in Nat /\ refresh[d].answer \in Nat
  BY RefreshInvParts
<1>3. /\ refresh' \in [Refreshes -> RefreshRecord]
      /\ refresh'[c].token = old.token /\ refresh'[c].stored = old.stored /\ refresh'[c].early = old.early
      /\ refresh'[c].at = "answer" /\ refresh'[c].answer = old.answer
      /\ \A d \in Refreshes \ {c} : refresh'[d] = refresh[d]
  BY <1>1, <1>2 DEF RefreshRecord
<1>4. old.token >= 1 /\ held # 0
  BY <1>1, <1>2 DEF HasSoFar
<1> HIDE DEF old
<1>5. \A d \in Refreshes : HasSoFar(refresh'[d])
  BY <1>2, <1>3, <1>4 DEF HasSoFar
<1>6. Follows(refresh, refresh', held, held', unheard, unheard')
  BY <1>1, <1>2, <1>3, <1>4 DEF Follows, old
<1>7. Marks(refresh', cooldown')
  BY <1>1, <1>2, <1>3 DEF Marks, old
<1>8. Admits(refresh', tokenVersion', unheard')
  <2> SUFFICES ASSUME NEW x \in Refreshes, refresh'[x].at \in {"cooldown", "read"},
                      \A w \in unheard : w <= refresh'[x].token
               PROVE  UpToDate(x, refresh', tokenVersion)
    BY <1>1 DEF Admits
  <2>1. UpToDate(x, refresh, tokenVersion) /\ refresh'[x] = refresh[x]
    BY <1>1, <1>2, <1>3 DEF Admits
  <2> QED BY <1>1, <1>3, <2>1 DEF UpToDate, old
<1> QED BY <1>1, <1>2, <1>3, <1>4, <1>5, <1>6, <1>7, <1>8, RefreshStepKeeps DEF old

\* A refresh is over: its answer reached the device, or was lost.
LEMMA OverKeeps ==
    ASSUME RefreshInv, NEW c \in Refreshes, refresh[c].at # "none",
           refresh' = [refresh EXCEPT ![c] = NoRefresh], tokenVersion' = tokenVersion, cooldown' = cooldown,
           held' \in Nat, held <= held', unheard \subseteq unheard', unheard' \in SUBSET Nat, IsFiniteSet(unheard'),
           refresh[c].answer # 0 => refresh[c].answer <= held' \/ refresh[c].answer \in unheard',
           refresh[c].at = "answer" \/ (refresh[c].answer # 0 => refresh[c].answer \in unheard')
    PROVE  RefreshInv'
<1> DEFINE old == refresh[c]
<1>2. /\ refresh \in [Refreshes -> RefreshRecord] /\ \A d \in Refreshes : HasSoFar(refresh[d])
      /\ tokenVersion \in Nat /\ cooldown \in Nat /\ held \in Nat /\ unheard \in SUBSET Nat /\ IsFiniteSet(unheard)
      /\ Marks(refresh, cooldown) /\ Admits(refresh, tokenVersion, unheard)
      /\ held = 0 => \A d \in Refreshes : refresh[d].at = "none"
      /\ \A d \in Refreshes : refresh[d].token \in Nat /\ refresh[d].stored \in Nat /\ refresh[d].answer \in Nat
  BY RefreshInvParts
<1>3. /\ refresh' \in [Refreshes -> RefreshRecord] /\ refresh'[c] = NoRefresh
      /\ \A d \in Refreshes \ {c} : refresh'[d] = refresh[d]
  BY <1>2, RecordsAre
<1>4. held # 0 /\ held' # 0
  BY <1>2
<1>5. \A d \in Refreshes : HasSoFar(refresh'[d])
  BY <1>2, <1>3, RecordsAre DEF HasSoFar
<1>6. Follows(refresh, refresh', held, held', unheard, unheard')
  <2>1. \A e \in Refreshes \ {c} : refresh'[e] = refresh[e]
    BY <1>3
  <2>2. refresh[c].at \in {"unlock", "answer"} /\ refresh[c].early = 1 =>
          refresh[c].answer <= held' \/ refresh[c].answer \in unheard'
    BY <1>2
  <2> QED BY <2>1, <2>2 DEF Follows
<1>7. Marks(refresh', cooldown')
  BY <1>2, <1>3, RecordsAre DEF Marks
<1>8. Admits(refresh', tokenVersion', unheard')
  <2> SUFFICES ASSUME NEW x \in Refreshes, refresh'[x].at \in {"cooldown", "read"},
                      \A w \in unheard' : w <= refresh'[x].token
               PROVE  UpToDate(x, refresh', tokenVersion)
    BY DEF Admits
  <2>1. x # c
    BY <1>3, RecordsAre
  <2>2. UpToDate(x, refresh, tokenVersion) /\ refresh'[x] = refresh[x] /\ refresh[x].token \in Nat
    BY <1>2, <1>3, <2>1 DEF Admits
  <2>3. ASSUME refresh[c].at = "cache", refresh[c].answer = tokenVersion, tokenVersion = refresh[x].token + 1
        PROVE  FALSE
    BY <1>2, <2>2, <2>3
  <2>4. ~(refresh'[c].at = "write") /\ refresh'[c].at # "read"
    BY <1>3, RecordsAre
  <2> QED BY <1>3, <2>1, <2>2, <2>3, <2>4 DEF UpToDate
<1> QED BY <1>2, <1>3, <1>4, <1>5, <1>6, <1>7, <1>8, RecordsAre, RefreshStepKeeps

LEMMA MaxOfNats ==
    ASSUME NEW m \in Nat, NEW n \in Nat
    PROVE  Max({m, n}) \in Nat /\ m <= Max({m, n}) /\ n <= Max({m, n})
<1>1. \E x \in {m, n} : \A y \in {m, n} : x >= y
  <2>1. CASE m >= n
    BY <2>1
  <2>2. CASE n >= m
    BY <2>2
  <2> QED BY <2>1, <2>2
<1>2. Max({m, n}) \in {m, n} /\ \A y \in {m, n} : Max({m, n}) >= y
  BY <1>1 DEF Max
<1> QED BY <1>2

LEMMA AnswerHeardKeeps == ASSUME RefreshInv, NEW c \in Refreshes, Answer(c) PROVE RefreshInv'
<1>1. /\ refresh[c].at = "answer" /\ refresh' = [refresh EXCEPT ![c] = NoRefresh]
      /\ held' = Max({held, refresh[c].answer})
      /\ tokenVersion' = tokenVersion /\ cooldown' = cooldown /\ unheard' = unheard
  BY DEF Answer
<1>2. held \in Nat /\ refresh[c].answer \in Nat /\ unheard \in SUBSET Nat /\ IsFiniteSet(unheard)
  BY RefreshInvParts
<1>3. held' \in Nat /\ held <= held' /\ refresh[c].answer <= held'
  BY <1>1, <1>2, MaxOfNats
<1> QED BY <1>1, <1>2, <1>3, OverKeeps

LEMMA FailsKeep == ASSUME RefreshInv, NEW c \in Refreshes, RefreshFails(c) PROVE RefreshInv'
<1>1. /\ refresh[c].at # "none" /\ refresh' = [refresh EXCEPT ![c] = NoRefresh]
      /\ unheard' = unheard \cup ({refresh[c].answer} \ {0})
      /\ tokenVersion' = tokenVersion /\ cooldown' = cooldown /\ held' = held
  BY DEF RefreshFails
<1>2. held \in Nat /\ refresh[c].answer \in Nat /\ unheard \in SUBSET Nat /\ IsFiniteSet(unheard)
  BY RefreshInvParts
<1>3. IsFiniteSet(unheard')
  <2>1. refresh[c].answer = 0 \/ unheard' = unheard \cup {refresh[c].answer}
    BY <1>1
  <2>2. refresh[c].answer = 0 => unheard' = unheard
    BY <1>1
  <2>3. IsFiniteSet(unheard \cup {refresh[c].answer})
    BY <1>2, FS_AddElement
  <2> QED BY <1>2, <2>1, <2>2, <2>3
<1>4. /\ unheard \subseteq unheard' /\ unheard' \in SUBSET Nat
      /\ refresh[c].answer # 0 => refresh[c].answer \in unheard'
  BY <1>1, <1>2
<1>5. held' \in Nat /\ held <= held' /\ (refresh[c].answer # 0 => refresh[c].answer <= held' \/ refresh[c].answer \in unheard')
  BY <1>1, <1>2, <1>4
<1> QED BY <1>1, <1>3, <1>4, <1>5, OverKeeps

LEMMA RefreshNextInv == ASSUME AtMostTwo PROVE RefreshInv /\ [RefreshNext]_refreshVars => RefreshInv'
<1> SUFFICES ASSUME RefreshInv, [RefreshNext]_refreshVars PROVE RefreshInv'
  OBVIOUS
<1>1. ASSUME UNCHANGED refreshVars PROVE RefreshInv'
  <2>1. /\ tokenVersion' = tokenVersion /\ cooldown' = cooldown /\ refresh' = refresh
        /\ held' = held /\ unheard' = unheard
    BY <1>1 DEF refreshVars
  <2> QED BY <2>1 DEF RefreshInv, Marks, Cached, Told, Written, AllTold, Admits, UpToDate, HasSoFar
<1> QED BY <1>1, IssueKeeps, ExpiryKeeps, BeginKeeps, ReadCooldownKeeps, ReadSessionKeeps, WriteKeeps,
           CacheKeeps, UnlockKeeps, AnswerHeardKeeps, FailsKeep DEF RefreshNext

\* session.ts refreshSession: with no more than two refreshes at once, one that
\* may yet be refused is up to date or an answer was lost, in every state.
THEOREM RefreshInductive == ASSUME AtMostTwo PROVE RefreshSpec => []RefreshInv
BY RefreshInitInv, RefreshNextInv, PTL DEF RefreshSpec

LEMMA RefreshNextType == RefreshTypeOK /\ [RefreshNext]_refreshVars => RefreshTypeOK'
<1> SUFFICES ASSUME RefreshTypeOK, [RefreshNext]_refreshVars PROVE RefreshTypeOK'
  OBVIOUS
<1>1. /\ tokenVersion \in Nat /\ cooldown \in Nat /\ held \in Nat /\ refreshLock \in BOOLEAN
      /\ refresh \in [Refreshes -> RefreshRecord] /\ unheard \in SUBSET Nat
  BY DEF RefreshTypeOK, RefreshRecord
<1>2. \A c \in Refreshes : refresh[c] \in RefreshRecord
  BY <1>1
<1>3. NoRefresh \in RefreshRecord
  BY DEF NoRefresh, RefreshRecord
<1> DEFINE Holds == /\ tokenVersion' \in Nat /\ cooldown' \in Nat /\ held' \in Nat
                    /\ refreshLock' \in BOOLEAN
                    /\ refresh' \in [Refreshes -> RefreshRecord] /\ unheard' \in SUBSET Nat
<1>4. ASSUME IssueTokens \/ CooldownExpires \/ RefreshLockExpires \/ SessionExpires PROVE Holds
  <2>1. refreshLock' \in BOOLEAN
    BY <1>1, <1>4, Zenon DEF IssueTokens, CooldownExpires, RefreshLockExpires, SessionExpires
  <2>2. /\ tokenVersion' \in Nat /\ cooldown' \in Nat /\ held' \in Nat
        /\ refresh' = refresh /\ unheard' = unheard
    BY <1>1, <1>4 DEF IssueTokens, CooldownExpires, RefreshLockExpires, SessionExpires
  <2> QED BY <1>1, <2>1, <2>2
<1>5. ASSUME NEW c \in Refreshes, RefreshSession(c) PROVE Holds
  <2> DEFINE n == [at |-> "cooldown", token |-> held, stored |-> 0, answer |-> 0,
                   early |-> IF \E d \in Refreshes : refresh[d].early = 1 THEN 2 ELSE 0]
  <2>1. n \in RefreshRecord
    BY <1>1 DEF RefreshRecord
  <2>2. refresh' = [refresh EXCEPT ![c] = n]
    BY <1>5 DEF RefreshSession
  <2> HIDE DEF n
  <2> QED BY <1>1, <1>5, <2>1, <2>2 DEF RefreshSession
<1>6. ASSUME NEW c \in Refreshes, ReadCooldown(c) PROVE Holds
  BY ZenonT(30), <1>1, <1>2, <1>6 DEF ReadCooldown, RefreshRecord
<1>7. ASSUME NEW c \in Refreshes, ReadSession(c) PROVE Holds
  BY ZenonT(30), <1>1, <1>2, <1>7 DEF ReadSession, RefreshRecord
<1>8. ASSUME NEW c \in Refreshes, WriteVersion(c) PROVE Holds
  <2>1. refresh[c].stored + 1 \in Nat
    BY <1>2 DEF RefreshRecord
  <2> QED BY <1>1, <1>2, <1>8, <2>1 DEF WriteVersion, RefreshRecord
<1>9. ASSUME NEW c \in Refreshes, CacheTokens(c) PROVE Holds
  <2>1. refresh[c].answer \in Nat
    BY <1>2 DEF RefreshRecord
  <2> QED BY <1>1, <1>2, <1>9, <2>1 DEF CacheTokens, RefreshRecord
<1>10. ASSUME NEW c \in Refreshes, UnlockRefresh(c) PROVE Holds
  BY <1>1, <1>2, <1>10 DEF UnlockRefresh, RefreshRecord
<1>11. ASSUME NEW c \in Refreshes, Answer(c) PROVE Holds
  <2>1. refresh[c].answer \in Nat
    BY <1>2 DEF RefreshRecord
  <2>2. Max({held, refresh[c].answer}) \in Nat
    BY <1>1, <2>1, MaxOfNats
  <2> QED BY <1>1, <1>3, <1>11, <2>2 DEF Answer
<1>12. ASSUME NEW c \in Refreshes, RefreshFails(c) PROVE Holds
  <2>1. refresh[c].answer \in Nat
    BY <1>2 DEF RefreshRecord
  <2> QED BY <1>1, <1>3, <1>12, <2>1 DEF RefreshFails
<1>13. ASSUME UNCHANGED refreshVars PROVE Holds
  BY <1>1, <1>13 DEF refreshVars
<1>14. Holds
  <2> HIDE DEF Holds
  <2> QED BY <1>4, <1>5, <1>6, <1>7, <1>8, <1>9, <1>10, <1>11, <1>12, <1>13 DEF RefreshNext
<1> QED BY <1>14 DEF RefreshTypeOK, RefreshRecord

\* session.ts: versions, tokens and answers stay what they are, however many
\* refreshes overlap.
THEOREM RefreshTypeCorrect == RefreshSpec => []RefreshTypeOK
<1>1. RefreshInit => RefreshTypeOK
  <2>1. NoRefresh \in RefreshRecord
    BY DEF NoRefresh, RefreshRecord
  <2> SUFFICES ASSUME RefreshInit PROVE RefreshTypeOK
    OBVIOUS
  <2>2. refresh \in [Refreshes -> RefreshRecord]
    BY <2>1 DEF RefreshInit
  <2>3. tokenVersion = 0 /\ cooldown = 0 /\ held = 0 /\ refreshLock \in BOOLEAN /\ unheard = {}
    BY DEF RefreshInit
  <2> QED BY <2>2, <2>3 DEF RefreshTypeOK, RefreshRecord
<1> QED BY <1>1, RefreshNextType, PTL DEF RefreshSpec

LEMMA InvRefuses == RefreshInv => RefusedOnlyAfterLoss
<1> SUFFICES ASSUME RefreshInv, NEW c \in Refreshes, IsRefused(c)
             PROVE  /\ {v \in unheard : v > refresh[c].token} # {}
                    /\ refresh[c].token = held =>
                         Cardinality({v \in unheard \cup {refresh[d].answer : d \in Refreshes} : v > refresh[c].token}) >= 2
  BY DEF RefusedOnlyAfterLoss
<1> DEFINE t == refresh[c].token
           all == unheard \cup {refresh[d].answer : d \in Refreshes}
           newer == {v \in all : v > t}
<1>1. /\ refresh[c].at = "read" /\ t + 1 < tokenVersion /\ t \in Nat /\ tokenVersion \in Nat /\ t >= 1
      /\ held \in Nat /\ unheard \in SUBSET Nat /\ IsFiniteSet(unheard)
      /\ \A d \in Refreshes : refresh[d].answer \in Nat
  BY RefreshInvParts DEF IsRefused, TooOld, HasSoFar
<1>2. \E v \in unheard : v > t
  <2> SUFFICES ASSUME \A v \in unheard : ~(v > t) PROVE FALSE
    OBVIOUS
  <2>1. \A v \in unheard : v <= t
    <3>1. t \in Nat /\ \A v \in unheard : v \in Nat /\ ~(v > t)
      BY <1>1
    <3> HIDE DEF t
    <3>2. \A v \in Nat : ~(v > t) => v <= t
      BY <3>1
    <3> QED BY <3>1, <3>2
  <2>2. UpToDate(c, refresh, tokenVersion)
    BY <1>1, <2>1, RefreshInvParts DEF Admits
  <2> QED BY <1>1, <2>2 DEF UpToDate
<1>3. ASSUME t = held PROVE Cardinality(newer) >= 2
  <2>1. \A n \in 2..tokenVersion : n <= held \/ n \in unheard \/ \E d \in Refreshes : refresh[d].answer = n
    BY RefreshInvParts DEF Written, AllTold
  <2>2. t + 1 \in newer /\ t + 2 \in newer
    <3>1. t + 1 \in 2..tokenVersion /\ t + 2 \in 2..tokenVersion
      BY <1>1
    <3> HIDE DEF t
    <3> QED BY <1>1, <1>3, <2>1, <3>1
  <2>3. IsFiniteSet(newer)
    <3> DEFINE given == {refresh[d].answer : d \in Refreshes}
    <3>1. IsFiniteSet(given)
      <4> DEFINE f == [d \in Refreshes |-> refresh[d].answer]
      <4>1. f \in Surjection(Refreshes, given)
        BY DEF Surjection
      <4> HIDE DEF f, given
      <4> QED BY <4>1, FS_Surjection, RefreshAssumption
    <3>2. IsFiniteSet(all)
      <4> HIDE DEF given
      <4> QED BY <1>1, <3>1, FS_Union DEF given
    <3> QED BY <3>2, FS_Subset
  <2>4. Cardinality({t + 1, t + 2}) = 2
    <3>1. t + 1 # t + 2
      BY <1>1
    <3> HIDE DEF t
    <3>2. IsFiniteSet({t + 1}) /\ Cardinality({t + 1}) = 1 /\ t + 2 \notin {t + 1} /\ {t + 1, t + 2} = {t + 1} \cup {t + 2}
      BY <3>1, FS_Singleton
    <3> QED BY <3>2, FS_AddElement
  <2>5. Cardinality({t + 1, t + 2}) <= Cardinality(newer) /\ Cardinality(newer) \in Nat
    <3>1. {t + 1, t + 2} \subseteq newer
      BY <2>2
    <3> HIDE DEF newer, t
    <3> QED BY <2>3, <3>1, FS_Subset, FS_CardinalityType
  <2> QED BY <2>4, <2>5
<1> QED BY <1>2, <1>3

\* session.ts refreshSession: with no more than two refreshes at once, one is
\* refused only if newer tokens were lost on their way to the device.
THEOREM RefusalsAreExplained == ASSUME AtMostTwo PROVE RefreshSpec => []RefusedOnlyAfterLoss
BY RefreshInductive, InvRefuses, PTL

-----------------------------------------------------------------------------
(***************************************************************************)
(* Rate limit. The script keeps its rate although every caller brings its  *)
(* own clock and the bucket may expire: what a bucket may still give, with *)
(* what it would be refilled up to now, plus what was taken beyond the     *)
(* rate, is bounded.                                                       *)
(***************************************************************************)
Bound == NormalMax + SlowRate * MaxLag

BucketTypes ==
    /\ now \in Nat /\ MaxLag < now
    /\ bucket \in [tokens : Int, refilled : Nat, burstAt : Nat]
    /\ touched \in Nat /\ touched <= now
    /\ debt \in Nat /\ bursting \in Nat /\ modest \in BOOLEAN

\* A bucket of a device that may not burst, from which more was taken lately
\* than the rate allows, exists and cannot give the excess again.
DebtIsCovered ==
    modest =>
        /\ bucket.burstAt = 0
        /\ debt > 0 =>
              /\ bucket.refilled > 0
              /\ bucket.tokens + (now - bucket.refilled) * SlowRate + debt <= Bound

\* Nor would a new bucket, once this one expires.
DebtLapsesFirst == modest /\ debt > 0 => debt + SlowRate * (now - touched) <= Bound

\* The bucket remembers its last burst, or that burst is long over.
BurstIsRemembered ==
    bursting # 0 =>
        /\ bursting <= touched
        /\ \/ bucket.burstAt # 0 /\ bursting - MaxLag <= bucket.burstAt
           \/ bucket.burstAt = 0 /\ Cooldown <= now - bursting

RateInv == BucketTypes /\ DebtIsCovered /\ DebtLapsesFirst /\ BurstIsRemembered

LEMMA MinOfTwo ==
    ASSUME NEW a \in Int, NEW b \in Int
    PROVE  Min({a, b}) \in Int /\ Min({a, b}) <= a /\ Min({a, b}) <= b
<1>1. \E x \in {a, b} : \A y \in {a, b} : x <= y
  <2>1. CASE a <= b
    BY <2>1
  <2>2. CASE b <= a
    BY <2>2
  <2> QED BY <2>1, <2>2
<1> QED BY <1>1 DEF Min

LEMMA MaxOfTwo ==
    ASSUME NEW a \in Int
    PROVE  Max({0, a}) = IF a >= 0 THEN a ELSE 0
<1>1. \E x \in {0, a} : \A y \in {0, a} : x >= y
  <2>1. CASE a <= 0
    BY <2>1
  <2>2. CASE 0 <= a
    BY <2>2
  <2> QED BY <2>1, <2>2
<1>2. Max({0, a}) \in {0, a} /\ \A y \in {0, a} : Max({0, a}) >= y
  BY <1>1 DEF Max
<1> QED BY <1>2

LEMMA Distributes ==
    ASSUME NEW a \in Int, NEW b \in Int, NEW c \in Int
    PROVE  (a + b) * c = a * c + b * c
OBVIOUS

LEMMA GrowsWithFactor ==
    ASSUME NEW a \in Int, NEW b \in Int, a <= b, NEW c \in Nat
    PROVE  c * a <= c * b /\ a * c = c * a
<1>1. c * (b - a) >= 0
  OBVIOUS
<1> QED BY <1>1

LEMMA InitRateInv == ASSUME BucketInit PROVE RateInv
BY BucketAssumption DEF BucketInit, NoBucket, RateInv, BucketTypes, DebtIsCovered,
   DebtLapsesFirst, BurstIsRemembered

LEMMA TickRateInv == ASSUME RateInv, Tick PROVE RateInv'
<1> USE DEF Tick
<1>1. debt - SlowRate \in Int /\ SlowRate \in Nat /\ now' = now + 1 /\ now \in Nat
  BY BucketAssumption DEF RateInv, BucketTypes
<1>2. debt' = IF debt - SlowRate >= 0 THEN debt - SlowRate ELSE 0
  BY <1>1, MaxOfTwo
<1>3. BucketTypes'
  <2>1. modest' \in BOOLEAN
    BY Zenon DEF RateInv, BucketTypes
  <2>2. debt' \in Nat
    BY <1>1, <1>2
  <2>3. MaxLag < now'
    BY <1>1, BucketAssumption DEF RateInv, BucketTypes
  <2> QED BY <1>1, <2>1, <2>2, <2>3 DEF RateInv, BucketTypes
<1>4. BurstIsRemembered'
  BY <1>1, BucketAssumption DEF RateInv, BucketTypes, BurstIsRemembered
<1>5. ASSUME modest, debt' > 0 PROVE debt = debt' + SlowRate /\ debt > 0
  BY <1>1, <1>2, <1>5 DEF RateInv, BucketTypes
<1>6. DebtIsCovered'
  <2>1. (now' - bucket.refilled) * SlowRate = (now - bucket.refilled) * SlowRate + SlowRate
    <3>1. bucket.refilled \in Nat
      BY DEF RateInv, BucketTypes
    <3>2. now - bucket.refilled \in Int /\ now' - bucket.refilled = (now - bucket.refilled) + 1
      BY <1>1, <3>1
    <3> QED BY <1>1, <3>2, Distributes
  <2>2. /\ bucket.tokens \in Int /\ (now - bucket.refilled) * SlowRate \in Int
        /\ Bound \in Int /\ debt \in Nat /\ debt' \in Nat
    BY <1>1, <1>3, BucketAssumption DEF RateInv, BucketTypes, Bound
  <2> QED BY <1>1, <1>5, <2>1, <2>2 DEF RateInv, DebtIsCovered, Bound
<1>7. DebtLapsesFirst'
  <2>1. SlowRate * (now' - touched) = SlowRate * (now - touched) + SlowRate
    <3>1. touched \in Nat
      BY DEF RateInv, BucketTypes
    <3> QED BY <1>1, <3>1
  <2>2. SlowRate * (now - touched) \in Int /\ Bound \in Int /\ debt \in Nat /\ debt' \in Nat
    BY <1>1, <1>3, BucketAssumption DEF RateInv, BucketTypes, Bound
  <2> QED BY <1>1, <1>5, <2>1, <2>2 DEF RateInv, DebtLapsesFirst, Bound
<1> QED BY <1>3, <1>4, <1>6, <1>7 DEF RateInv

LEMMA ResetRateInv == ASSUME RateInv, Reset PROVE RateInv'
BY DEF Reset, NoBucket, RateInv, BucketTypes, DebtIsCovered, DebtLapsesFirst, BurstIsRemembered
\* A bucket with debt is there: it is neither new nor expired.
LEMMA DebtorIsFound ==
    ASSUME RateInv, modest, debt > 0
    PROVE  Found = bucket /\ bucket # NoBucket
<1>1. /\ debt + SlowRate * (now - touched) <= Bound /\ bucket.refilled > 0
      /\ now \in Nat /\ touched \in Nat /\ touched <= now /\ debt \in Nat
  BY DEF RateInv, BucketTypes, DebtLapsesFirst, DebtIsCovered
<1>2. Bound <= SlowRate * BucketTtl /\ SlowRate \in Nat /\ BucketTtl \in Nat
      /\ Bound \in Int
  BY BucketAssumption DEF Bound
<1>3. CASE BucketTtl <= now - touched
  <2>1. SlowRate * BucketTtl <= SlowRate * (now - touched)
    BY <1>1, <1>2, <1>3, GrowsWithFactor
  <2>2. SlowRate * BucketTtl \in Int /\ SlowRate * (now - touched) \in Int
    BY <1>1, <1>2
  <2> QED BY <1>1, <1>2, <2>1, <2>2
<1>4. CASE now - touched < BucketTtl
  BY <1>1, <1>4 DEF Found, NoBucket
<1> QED BY <1>1, <1>2, <1>3, <1>4

LEMMA CheckLimitRateInv ==
    ASSUME RateInv, NEW lag \in 0..MaxLag, NEW base \in {SlowRate, FastRate},
           NEW compliant \in BOOLEAN, CheckLimit(lag, base, compliant)
    PROVE  RateInv'
<1> DEFINE t       == now - lag
           found   == Found
           starts  == compliant /\ Rested(found, t) /\ ~InBurst(found, t)
           burst   == starts \/ InBurst(found, t)
           rate    == base * (IF burst THEN BurstFactor ELSE 1)
           low     == ~compliant /\ base = SlowRate
           max     == IF burst THEN MaxTokens ELSE NormalMax
           newly   == found = NoBucket
           tokens  == Refilled(IF newly THEN max ELSE found.tokens,
                               IF newly THEN 0 ELSE (t - found.refilled) * rate, max)
           allowed == tokens >= 1
<1>1. /\ bucket' = [tokens   |-> IF allowed THEN tokens - 1 ELSE tokens,
                    refilled |-> t,
                    burstAt  |-> IF starts THEN t ELSE found.burstAt]
      /\ touched' = now /\ now' = now
      /\ bursting' = IF starts THEN now ELSE bursting
      /\ debt' = IF modest /\ low THEN debt + (IF allowed THEN 1 ELSE 0) ELSE 0
  BY DEF CheckLimit
<1>2. modest' = (modest /\ low)
  BY Zenon DEF CheckLimit
<1>3. /\ t \in Nat /\ 0 < t /\ t <= now /\ now - MaxLag <= t /\ lag = now - t
      /\ now \in Nat /\ MaxLag \in Nat /\ lag \in Nat /\ lag <= MaxLag
      /\ SlowRate \in Nat /\ FastRate \in Nat /\ BurstFactor \in Nat /\ NormalMax \in Nat
  BY BucketAssumption DEF RateInv, BucketTypes
<1>4. found \in [tokens : Int, refilled : Nat, burstAt : Nat]
  BY DEF RateInv, BucketTypes, Found, NoBucket
<1>5. rate \in Int /\ max \in Int
  <2> HIDE DEF burst
  <2> QED BY <1>3 DEF MaxTokens
<1>6. /\ tokens \in Int /\ tokens <= max
      /\ ~newly => tokens <= found.tokens + (t - found.refilled) * rate
  <2> HIDE DEF rate, max, found
  <2> DEFINE had    == IF newly THEN max ELSE found.tokens
             gained == IF newly THEN 0 ELSE (t - found.refilled) * rate
  <2>1. had \in Int /\ gained \in Int
    BY <1>3, <1>4, <1>5
  <2>2. tokens = Min({max, had + gained})
    BY DEF Refilled
  <2>3. ~newly => had + gained = found.tokens + (t - found.refilled) * rate
    OBVIOUS
  <2> HIDE DEF had, gained, tokens, newly
  <2>4. had + gained \in Int
    BY <2>1
  <2>5. tokens \in Int /\ tokens <= max /\ tokens <= had + gained
    BY <1>5, <2>2, <2>4, MinOfTwo
  <2> QED BY <2>3, <2>5
<1>7. BucketTypes'
  <2>1. modest' \in BOOLEAN
    BY <1>2
  <2>2. debt' \in Nat
    <3> HIDE DEF allowed
    <3> QED BY <1>1 DEF RateInv, BucketTypes
  <2>3. bucket' \in [tokens : Int, refilled : Nat, burstAt : Nat]
    <3> HIDE DEF tokens, starts, found, t
    <3> QED BY <1>1, <1>3, <1>4, <1>6
  <2>4. touched' \in Nat /\ touched' <= now' /\ bursting' \in Nat /\ now' \in Nat /\ MaxLag < now'
    <3> HIDE DEF starts
    <3> QED BY <1>1 DEF RateInv, BucketTypes
  <2> QED BY <2>1, <2>2, <2>3, <2>4 DEF BucketTypes
<1>8. BurstIsRemembered'
  <2> HIDE DEF starts, tokens, t
  <2>1. CASE starts
    BY <1>1, <1>3, <2>1 DEF BurstIsRemembered
  <2>2. ASSUME ~starts, bursting # 0
        PROVE  \/ found.burstAt # 0 /\ bursting - MaxLag <= found.burstAt
               \/ found.burstAt = 0 /\ Cooldown <= now - bursting
    BY <2>2, BucketAssumption DEF RateInv, BucketTypes, BurstIsRemembered, Found, NoBucket
  <2>3. bursting # 0 => bursting <= now
    BY DEF RateInv, BucketTypes, BurstIsRemembered
  <2> HIDE DEF found
  <2>4. CASE ~starts
    BY <1>1, <2>2, <2>3, <2>4 DEF BurstIsRemembered
  <2> QED BY <2>1, <2>4
<1>9. ASSUME modest' PROVE /\ found.burstAt = 0 /\ ~starts /\ low /\ modest
                           /\ rate = SlowRate /\ max = NormalMax
  <2>1. modest /\ low
    BY <1>2, <1>9
  <2>2. found.burstAt = 0
    BY <2>1 DEF RateInv, DebtIsCovered, Found, NoBucket
  <2>3. ~starts /\ ~InBurst(found, t)
    BY <2>1, <2>2 DEF InBurst
  <2> HIDE DEF found, starts
  <2>4. ~burst
    BY <2>3
  <2>5. rate = SlowRate * 1 /\ max = NormalMax
    BY <2>1, <2>4
  <2> HIDE DEF rate, max
  <2> QED BY <1>3, <2>1, <2>2, <2>3, <2>5
<1>10. ASSUME modest' PROVE tokens + lag * SlowRate + debt <= Bound
  <2>1. debt \in Nat /\ lag * SlowRate \in Int /\ Bound \in Int /\ lag * SlowRate <= SlowRate * MaxLag
    BY <1>3, GrowsWithFactor DEF RateInv, BucketTypes, Bound
  <2>2. CASE debt = 0
    <3> HIDE DEF tokens, max
    <3> QED BY <1>3, <1>6, <1>9, <1>10, <2>1, <2>2 DEF Bound
  <2>3. CASE debt > 0
    <3>1. found = bucket /\ ~newly
      BY <1>9, <1>10, <2>3, DebtorIsFound
    <3>2. bucket.tokens + (now - bucket.refilled) * SlowRate + debt <= Bound
      BY <1>9, <1>10, <2>3 DEF RateInv, DebtIsCovered
    <3>3. bucket.tokens \in Int /\ bucket.refilled \in Nat
      BY DEF RateInv, BucketTypes
    <3>4. (t - bucket.refilled) * SlowRate + lag * SlowRate = (now - bucket.refilled) * SlowRate
      <4>1. (t - bucket.refilled) + lag = now - bucket.refilled
        BY <1>3, <3>3
      <4>2. t - bucket.refilled \in Int /\ lag \in Int /\ SlowRate \in Int
        BY <1>3, <3>3
      <4> HIDE DEF t
      <4> QED BY <4>1, <4>2, Distributes
    <3>5. tokens <= bucket.tokens + (t - bucket.refilled) * SlowRate
      <4> HIDE DEF tokens, rate, t, found
      <4> QED BY <1>6, <1>9, <1>10, <3>1
    <3>6. (t - bucket.refilled) * SlowRate \in Int /\ (now - bucket.refilled) * SlowRate \in Int
      BY <1>3, <3>3
    <3> HIDE DEF tokens, t
    <3> QED BY <1>6, <2>1, <3>2, <3>3, <3>4, <3>5, <3>6
  <2> QED BY <2>1, <2>2, <2>3
<1>11. DebtIsCovered'
  <2> SUFFICES ASSUME modest'
               PROVE  /\ bucket'.burstAt = 0 /\ bucket'.refilled > 0
                      /\ bucket'.tokens + (now' - bucket'.refilled) * SlowRate + debt' <= Bound
    BY DEF DebtIsCovered, Bound
  <2>1. debt \in Nat /\ debt' = debt + (IF allowed THEN 1 ELSE 0)
    <3> HIDE DEF allowed
    <3> QED BY <1>1, <1>9 DEF RateInv, BucketTypes
  <2>2. bucket'.burstAt = 0 /\ bucket'.refilled = t /\ now' - bucket'.refilled = lag
    <3> HIDE DEF tokens, starts, found
    <3> QED BY <1>1, <1>3, <1>9
  <2>3. bucket'.tokens + debt' = tokens + debt
    <3> HIDE DEF tokens, starts, found
    <3> QED BY <1>1, <1>6, <2>1
  <2>4. bucket'.tokens \in Int /\ debt' \in Int /\ lag * SlowRate \in Int /\ Bound \in Int
    BY <1>3, <1>7 DEF BucketTypes, Bound
  <2> HIDE DEF tokens, t
  <2> QED BY <1>3, <1>6, <1>10, <2>1, <2>2, <2>3, <2>4
<1>12. DebtLapsesFirst'
  <2> SUFFICES ASSUME modest', debt' > 0 PROVE debt' <= Bound
    <3>1. now' - touched' = 0 /\ SlowRate * 0 = 0
      BY <1>1, <1>3
    <3>2. debt' \in Nat
      BY <1>7 DEF BucketTypes
    <3>3. debt' + SlowRate * (now' - touched') = debt'
      BY <3>1, <3>2
    <3> QED BY <3>3 DEF DebtLapsesFirst, Bound
  <2>1. debt \in Nat /\ debt' = debt + (IF allowed THEN 1 ELSE 0) /\ Bound \in Int
    <3> HIDE DEF allowed
    <3> QED BY <1>1, <1>3, <1>9 DEF RateInv, BucketTypes, Bound
  <2>2. CASE allowed
    <3>1. 0 <= lag * SlowRate /\ lag * SlowRate \in Int
      BY <1>3
    <3> HIDE DEF tokens
    <3> QED BY <1>6, <1>10, <2>1, <2>2, <3>1
  <2>3. CASE ~allowed
    <3>1. debt' = debt /\ modest
      <4> HIDE DEF allowed
      <4> QED BY <1>9, <2>1, <2>3
    <3>2. debt + SlowRate * (now - touched) <= Bound
      BY <3>1 DEF RateInv, DebtLapsesFirst
    <3>3. 0 <= SlowRate * (now - touched) /\ SlowRate * (now - touched) \in Int
      <4>1. now - touched \in Nat
        BY DEF RateInv, BucketTypes
      <4> QED BY <1>3, <4>1
    <3> QED BY <2>1, <3>1, <3>2, <3>3
  <2> QED BY <2>2, <2>3
<1> QED BY <1>7, <1>8, <1>11, <1>12 DEF RateInv

LEMMA StepRateInv == ASSUME RateInv, [BucketNext]_bucketVars PROVE RateInv'
<1>1. CASE UNCHANGED bucketVars
  BY <1>1 DEF bucketVars, RateInv, BucketTypes, DebtIsCovered, DebtLapsesFirst, BurstIsRemembered
<1> QED BY <1>1, TickRateInv, ResetRateInv, CheckLimitRateInv DEF BucketNext

\* RateInv holds in every state the bucket reaches.
THEOREM RateInductive == BucketSpec => []RateInv
<1> QED BY InitRateInv, StepRateInv, PTL DEF BucketSpec

\* rate_limiter.ts: over every span a device of the lower compliance is allowed a full
\* bucket and its rate, and bursts are a cooldown apart, to within the lag of the
\* callers' clocks.
THEOREM RateIsKept == BucketSpec => RateHolds
<1>1. RateInv => WithinRate
  <2> SUFFICES ASSUME RateInv, modest, debt > 0 PROVE debt <= Bound
    BY BucketAssumption DEF WithinRate, Bound, RateInv, BucketTypes
  <2>1. debt + SlowRate * (now - touched) <= Bound /\ debt \in Nat /\ now - touched \in Nat
    BY DEF RateInv, BucketTypes, DebtLapsesFirst
  <2>2. SlowRate * (now - touched) \in Nat /\ Bound \in Int
    BY <2>1, BucketAssumption DEF Bound
  <2> QED BY <2>1, <2>2
<1>2. RateInv /\ [BucketNext]_bucketVars =>
          [bursting' # bursting /\ bursting' # 0 /\ bursting # 0 =>
              bursting' - bursting >= Cooldown - MaxLag]_bucketVars
  <2> SUFFICES ASSUME RateInv, BucketNext, bursting' # bursting, bursting' # 0, bursting # 0
               PROVE  bursting' - bursting >= Cooldown - MaxLag
    OBVIOUS
  <2>1. PICK lag \in 0..MaxLag, base \in {SlowRate, FastRate}, compliant \in BOOLEAN :
           CheckLimit(lag, base, compliant)
    BY DEF BucketNext, Tick, Reset
  <2>2. bursting' = now /\ Rested(Found, now - lag)
    BY <2>1 DEF CheckLimit
  <2>3. \/ Found.burstAt # 0 /\ bursting - MaxLag <= Found.burstAt
        \/ Found.burstAt = 0 /\ Cooldown <= now - bursting
    BY BucketAssumption DEF RateInv, BucketTypes, BurstIsRemembered, Found, NoBucket
  <2>4. Found.burstAt \in Nat /\ now \in Nat /\ bursting \in Nat /\ lag \in Nat
    BY BucketAssumption DEF RateInv, BucketTypes, Found, NoBucket
  <2> QED BY <2>2, <2>3, <2>4, BucketAssumption DEF Rested
<1> QED BY <1>1, <1>2, RateInductive, PTL DEF BucketSpec, RateHolds, BurstsAreSpaced

LEMMA MaxTokensIs == MaxTokens \in Nat /\ NormalMax <= MaxTokens /\ NormalMax \in Nat
<1>1. NormalMax \in Nat /\ BurstFactor \in Nat /\ 1 <= BurstFactor
  BY BucketAssumption
<1>2. NormalMax * 1 <= NormalMax * BurstFactor /\ NormalMax * BurstFactor \in Nat
  BY <1>1, GrowsWithFactor
<1> QED BY <1>1, <1>2 DEF MaxTokens

LEMMA CheckLimitType ==
    ASSUME BucketTypeOK, NEW lag \in 0..MaxLag, NEW base \in {SlowRate, FastRate},
           NEW compliant \in BOOLEAN, CheckLimit(lag, base, compliant)
    PROVE  BucketTypeOK'
<1> DEFINE t       == now - lag
           found   == Found
           starts  == compliant /\ Rested(found, t) /\ ~InBurst(found, t)
           burst   == starts \/ InBurst(found, t)
           rate    == base * (IF burst THEN BurstFactor ELSE 1)
           low     == ~compliant /\ base = SlowRate
           max     == IF burst THEN MaxTokens ELSE NormalMax
           had     == IF found = NoBucket THEN max ELSE found.tokens
           gained  == IF found = NoBucket THEN 0 ELSE (t - found.refilled) * rate
           tokens  == Min({max, had + gained})
           allowed == tokens >= 1
<1>1. /\ tokens >= -MaxDeficit
      /\ bucket' = [tokens   |-> IF allowed THEN tokens - 1 ELSE tokens,
                    refilled |-> t,
                    burstAt  |-> IF starts THEN t ELSE found.burstAt]
      /\ touched' = now /\ now' = now
      /\ bursting' = IF starts THEN now ELSE bursting
      /\ debt' = IF modest /\ low THEN debt + (IF allowed THEN 1 ELSE 0) ELSE 0
  BY DEF CheckLimit, Refilled
<1>2. modest' = (modest /\ low)
  BY Zenon DEF CheckLimit
<1>3. /\ now \in Nat /\ MaxLag < now /\ t \in 0..now /\ MaxDeficit \in Nat
      /\ SlowRate \in Nat /\ FastRate \in Nat /\ BurstFactor \in Nat
  BY BucketAssumption DEF BucketTypeOK
<1>4. found \in [tokens : -MaxDeficit..MaxTokens, refilled : 0..now, burstAt : 0..now]
  <2>1. NoBucket \in [tokens : -MaxDeficit..MaxTokens, refilled : 0..now, burstAt : 0..now]
    BY <1>3, MaxTokensIs DEF NoBucket
  <2> QED BY <2>1 DEF BucketTypeOK, Found
<1>5. rate \in Int /\ max \in Int /\ max <= MaxTokens
  <2> HIDE DEF burst
  <2> QED BY <1>3, MaxTokensIs
<1>6. tokens \in -MaxDeficit..MaxTokens
  <2> HIDE DEF rate, max, found
  <2>1. had \in Int /\ gained \in Int
    BY <1>3, <1>4, <1>5, MaxTokensIs
  <2> HIDE DEF had, gained
  <2>2. had + gained \in Int
    BY <2>1
  <2>3. tokens \in Int /\ tokens <= max
    BY <1>5, <2>2, MinOfTwo
  <2> HIDE DEF tokens
  <2> QED BY <1>1, <1>3, <1>5, <2>3, MaxTokensIs
<1>7. modest' \in BOOLEAN
  BY <1>2
<1>8. debt' \in Nat
  <2> HIDE DEF allowed
  <2> QED BY <1>1 DEF BucketTypeOK
<1>9. bucket' \in [tokens : -MaxDeficit..MaxTokens, refilled : 0..now', burstAt : 0..now']
  <2> HIDE DEF tokens, starts, found, t
  <2>1. (IF allowed THEN tokens - 1 ELSE tokens) \in -MaxDeficit..MaxTokens
    BY <1>3, <1>6, MaxTokensIs
  <2>2. (IF starts THEN t ELSE found.burstAt) \in 0..now
    BY <1>3, <1>4
  <2> QED BY <1>1, <1>3, <2>1, <2>2
<1>10. now' \in Nat /\ now' > MaxLag /\ touched' \in 0..now' /\ bursting' \in 0..now'
  <2> HIDE DEF starts
  <2> QED BY <1>1, <1>3 DEF BucketTypeOK
<1> QED BY <1>7, <1>8, <1>9, <1>10 DEF BucketTypeOK

LEMMA BucketNextType == BucketTypeOK /\ [BucketNext]_bucketVars => BucketTypeOK'
<1> SUFFICES ASSUME BucketTypeOK, [BucketNext]_bucketVars PROVE BucketTypeOK'
  OBVIOUS
<1>1. CASE Reset
  <2>1. modest' \in BOOLEAN
    BY <1>1, Zenon DEF Reset, BucketTypeOK
  <2>2. NoBucket \in [tokens : -MaxDeficit..MaxTokens, refilled : 0..now, burstAt : 0..now]
    BY MaxTokensIs, BucketAssumption DEF NoBucket, BucketTypeOK
  <2> QED BY <1>1, <2>1, <2>2 DEF Reset, BucketTypeOK
<1>2. CASE Tick
  <2>1. modest' \in BOOLEAN
    BY <1>2, Zenon DEF Tick, BucketTypeOK
  <2>2. debt' \in Nat
    <3>1. debt - SlowRate \in Int /\ debt' = Max({0, debt - SlowRate})
      BY <1>2, BucketAssumption DEF Tick, BucketTypeOK
    <3> QED BY <3>1, MaxOfTwo
  <2>3. now \in Nat /\ now' = now + 1 /\ now' > MaxLag /\ 0..now \subseteq 0..now'
    BY <1>2, BucketAssumption DEF Tick, BucketTypeOK
  <2>4. bucket' \in [tokens : -MaxDeficit..MaxTokens, refilled : 0..now', burstAt : 0..now']
    BY <1>2, <2>3 DEF Tick, BucketTypeOK
  <2> QED BY <1>2, <2>1, <2>2, <2>3, <2>4 DEF Tick, BucketTypeOK
<1>3. CASE UNCHANGED bucketVars
  BY <1>3 DEF bucketVars, BucketTypeOK
<1> QED BY <1>1, <1>2, <1>3, CheckLimitType DEF BucketNext

\* rate_limiter.ts: no field of a bucket is of a time to come, and its tokens
\* never exceed a full bucket of a burst.
THEOREM BucketTypeCorrect == BucketSpec => []BucketTypeOK
<1>1. BucketInit => BucketTypeOK
  BY BucketAssumption, MaxTokensIs DEF BucketInit, NoBucket, BucketTypeOK
<1> QED BY <1>1, BucketNextType, PTL DEF BucketSpec

-----------------------------------------------------------------------------
(***************************************************************************)
(* Streams. What waits in a queue is in the order sent, and behind what    *)
(* was written; each event an open connection was given and that neither   *)
(* waits nor was written is one that was dropped.                          *)
(***************************************************************************)
\* What waits: in the order sent, none of it sent later than the last event,
\* and none of it before what was written.
Increasing(q) == \A i, j \in 1..Len(q) : i < j => q[i] < q[j]

Behind(w, q) == q # <<>> => \A e \in w : e <= q[1]

Missing(d) == offered[d] \ (written[d] \cup ToSet(queue[d]))

SseInv ==
    /\ SseTypeOK /\ NothingWaitsForNothing
    /\ \A d \in Dashboards :
          /\ Increasing(queue[d]) /\ Behind(written[d], queue[d])
          /\ \A e \in ToSet(queue[d]) \cup offered[d] \cup written[d] : e <= sent
          /\ dropped[d] <= sent
          /\ ~closed[d] => Cardinality(Missing(d)) <= dropped[d]

LEMMA SeqIs ==
    ASSUME NEW q \in Seq(Events)
    PROVE  /\ Len(q) \in Nat /\ DOMAIN q = 1..Len(q) /\ (\A i \in 1..Len(q) : q[i] \in Events /\ q[i] \in Nat)
           /\ ToSet(q) = {q[i] : i \in 1..Len(q)} /\ ToSet(q) \subseteq Events
           /\ (q = <<>> <=> Len(q) = 0)
<1>1. Len(q) \in Nat /\ DOMAIN q = 1..Len(q) /\ (\A i \in 1..Len(q) : q[i] \in Events)
  OBVIOUS
<1>2. Events \subseteq Nat
  BY DEF Events
<1>3. ToSet(q) = {q[i] : i \in 1..Len(q)}
  BY <1>1 DEF ToSet
<1>4. q = <<>> <=> Len(q) = 0
  OBVIOUS
<1> QED BY <1>1, <1>2, <1>3, <1>4

LEMMA EmptyIs == <<>> \in Seq(Events) /\ Len(<<>>) = 0 /\ ToSet(<<>>) = {} /\ Increasing(<<>>)
BY DEF ToSet, Increasing

\* A part of a queue, up to its n-th event or from it on.
LEMMA PartIs ==
    ASSUME NEW q \in Seq(Events), NEW n \in 1..Len(q)
    PROVE  /\ SubSeq(q, n, Len(q)) \in Seq(Events) /\ Len(SubSeq(q, n, Len(q))) = Len(q) - n + 1
           /\ \A i \in 1..Len(q) - n + 1 : SubSeq(q, n, Len(q))[i] = q[n + i - 1]
           /\ SubSeq(q, 1, n) \in Seq(Events) /\ Len(SubSeq(q, 1, n)) = n
           /\ \A i \in 1..n : SubSeq(q, 1, n)[i] = q[i]
OBVIOUS

\* flushQueue: nothing is lost, and what is put back is the last one written.
LEMMA FlushIs ==
    ASSUME NEW q \in Seq(Events), Increasing(q), NEW r \in Flushed(q)
    PROVE  /\ r.queue \in Seq(Events) /\ Len(r.queue) <= Len(q) /\ r.written \in Seq(Events) /\ r.draining \in BOOLEAN
           /\ Increasing(r.queue) /\ (r.queue # <<>> => r.draining)
           /\ ToSet(r.queue) \cup ToSet(r.written) = ToSet(q)
           /\ r.queue # <<>> => \A e \in ToSet(r.written) : e <= r.queue[1]
           /\ \A w \in SUBSET Nat : Behind(w, q) => Behind(w, r.queue)
<1>1. CASE r = [queue |-> <<>>, draining |-> FALSE, written |-> q]
  BY <1>1, EmptyIs, SeqIs DEF Behind
<1>2. ASSUME NEW n \in 1..Len(q),
             r = [queue |-> Requeued(q, n), draining |-> TRUE, written |-> SubSeq(q, 1, n)]
      PROVE  /\ r.queue \in Seq(Events) /\ Len(r.queue) <= Len(q) /\ r.written \in Seq(Events) /\ r.draining \in BOOLEAN
             /\ Increasing(r.queue) /\ (r.queue # <<>> => r.draining)
             /\ ToSet(r.queue) \cup ToSet(r.written) = ToSet(q)
             /\ r.queue # <<>> => \A e \in ToSet(r.written) : e <= r.queue[1]
             /\ \A w \in SUBSET Nat : Behind(w, q) => Behind(w, r.queue)
  <2> DEFINE b == SubSeq(q, n, Len(q))
             a == SubSeq(q, 1, n)
  <2>1. /\ b \in Seq(Events) /\ Len(b) = Len(q) - n + 1
        /\ \A i \in 1..Len(q) - n + 1 : b[i] = q[n + i - 1]
        /\ a \in Seq(Events) /\ Len(a) = n
        /\ \A i \in 1..n : a[i] = q[i]
    BY PartIs
  <2>2. r.queue = b /\ r.draining = TRUE /\ r.written = a
    BY <1>2 DEF Requeued
  <2> HIDE DEF a, b
  <2>3. Len(q) \in Nat /\ n \in Nat /\ \A i \in 1..Len(q) : q[i] \in Nat
    BY SeqIs
  <2>4. Increasing(b)
    <3> SUFFICES ASSUME NEW i \in 1..Len(b), NEW j \in 1..Len(b), i < j PROVE b[i] < b[j]
      BY DEF Increasing
    <3>1. /\ i \in 1..Len(q) - n + 1 /\ j \in 1..Len(q) - n + 1
          /\ n + i - 1 \in 1..Len(q) /\ n + j - 1 \in 1..Len(q) /\ n + i - 1 < n + j - 1
      BY <2>1, <2>3
    <3>2. b[i] = q[n + i - 1] /\ b[j] = q[n + j - 1]
      BY <2>1, <3>1
    <3> QED BY <3>1, <3>2 DEF Increasing
  <2>5. b[1] = q[n] /\ b # <<>>
    <3>1. 1 \in 1..Len(q) - n + 1 /\ n + 1 - 1 = n /\ Len(b) # 0
      BY <2>1, <2>3
    <3> QED BY <2>1, <3>1, SeqIs
  <2>6. \A i \in 1..n : i \in 1..Len(q) /\ q[i] <= q[n]
    BY <2>3 DEF Increasing
  <2>7. ToSet(b) = {b[i] : i \in 1..Len(b)} /\ ToSet(a) = {a[i] : i \in 1..Len(a)} /\ ToSet(q) = {q[i] : i \in 1..Len(q)}
    BY <2>1, SeqIs
  <2>8. ToSet(b) \cup ToSet(a) = ToSet(q)
    <3>1. ToSet(b) \subseteq ToSet(q)
      <4> SUFFICES ASSUME NEW i \in 1..Len(b) PROVE b[i] \in ToSet(q)
        BY <2>7
      <4>1. i \in 1..Len(q) - n + 1 /\ n + i - 1 \in 1..Len(q)
        BY <2>1, <2>3
      <4> QED BY <2>1, <2>7, <4>1
    <3>2. ToSet(a) \subseteq ToSet(q)
      BY <2>1, <2>6, <2>7
    <3>3. ASSUME NEW i \in 1..Len(q) PROVE q[i] \in ToSet(b) \cup ToSet(a)
      <4>1. CASE i <= n
        <5>1. i \in 1..n
          BY <2>3, <4>1
        <5> QED BY <2>1, <2>7, <5>1
      <4>2. CASE i > n
        <5>1. i - n + 1 \in 1..Len(q) - n + 1 /\ n + (i - n + 1) - 1 = i
          BY <2>3, <4>2
        <5>2. b[i - n + 1] = q[i] /\ i - n + 1 \in 1..Len(b)
          BY <2>1, <5>1
        <5> QED BY <2>7, <5>2
      <4> QED BY <2>3, <4>1, <4>2
    <3> QED BY <2>7, <3>1, <3>2, <3>3
  <2>9. \A e \in ToSet(a) : e <= b[1]
    BY <2>1, <2>5, <2>6, <2>7
  <2>10. \A w \in SUBSET Nat : Behind(w, q) => Behind(w, b)
    <3> SUFFICES ASSUME NEW w \in SUBSET Nat, q # <<>> => \A e \in w : e <= q[1] PROVE \A e \in w : e <= b[1]
      BY DEF Behind
    <3>1. q # <<>> /\ 1 \in 1..Len(q) /\ q[1] <= q[n]
      BY <2>3, <2>6, SeqIs
    <3>2. q[1] \in Nat /\ q[n] \in Nat /\ b[1] = q[n] /\ \A e \in w : e \in Nat /\ e <= q[1]
      BY <2>3, <2>5, <3>1
    <3> QED BY <3>1, <3>2
  <2>11. Len(b) <= Len(q)
    BY <2>1, <2>3
  <2> QED BY <2>1, <2>2, <2>4, <2>8, <2>9, <2>10, <2>11
<1> QED BY <1>1, <1>2 DEF Flushed

\* enqueue: the event goes to the end, and the oldest goes when there is no
\* room for both.
LEMMA KeptIs ==
    ASSUME NEW q \in Seq(Events), Len(q) <= MaxQueue, Increasing(q), NEW e \in Events, \A i \in 1..Len(q) : q[i] < e
    PROVE  /\ Kept(q, e) \in Seq(Events) /\ Len(Kept(q, e)) <= MaxQueue /\ Len(Kept(q, e)) # 0
           /\ Increasing(Kept(q, e)) /\ e \in ToSet(Kept(q, e))
           /\ ToSet(Kept(q, e)) \subseteq ToSet(q) \cup {e}
           /\ Len(q) < MaxQueue => ToSet(q) \subseteq ToSet(Kept(q, e))
           /\ \E o : ToSet(q) \subseteq ToSet(Kept(q, e)) \cup {o}
           /\ \A w \in SUBSET Nat : Behind(w, q) /\ (\A x \in w : x < e) => Behind(w, Kept(q, e))
<1> DEFINE k == Kept(q, e)
<1>1. Len(q) \in Nat /\ MaxQueue \in Nat \ {0} /\ (\A i \in 1..Len(q) : q[i] \in Nat) /\ e \in Nat
  BY SeqIs, SseAssumption DEF Events
<1>2. ToSet(q) = {q[i] : i \in 1..Len(q)}
  BY SeqIs
<1>3. CASE Len(q) < MaxQueue
  <2>1. k = Append(q, e)
    BY <1>1, <1>3 DEF Kept
  <2>2. /\ k \in Seq(Events) /\ Len(k) = Len(q) + 1 /\ k[Len(q) + 1] = e
        /\ \A i \in 1..Len(q) : k[i] = q[i]
    BY <2>1
  <2> HIDE DEF k
  <2>3. ToSet(k) = {k[i] : i \in 1..Len(k)}
    BY <2>2, SeqIs
  <2>4. \A i \in 1..Len(k) : i \in 1..Len(q) \/ i = Len(q) + 1
    BY <1>1, <2>2
  <2>5. ToSet(k) = ToSet(q) \cup {e}
    <3>1. 1..Len(q) \subseteq 1..Len(k) /\ Len(q) + 1 \in 1..Len(k)
      BY <1>1, <2>2
    <3>2. \A i \in 1..Len(k) : k[i] \in ToSet(q) \cup {e}
      BY <1>2, <2>2, <2>4
    <3>3. \A i \in 1..Len(q) : q[i] \in ToSet(k)
      BY <2>2, <2>3, <3>1
    <3>4. ToSet(k) \subseteq ToSet(q) \cup {e}
      BY <2>3, <3>2
    <3>5. ToSet(q) \subseteq ToSet(k)
      BY <1>2, <3>3
    <3>6. e \in ToSet(k)
      BY <2>2, <2>3, <3>1
    <3> QED BY <3>4, <3>5, <3>6
  <2>6. Increasing(k)
    <3> SUFFICES ASSUME NEW i \in 1..Len(k), NEW j \in 1..Len(k), i < j PROVE k[i] < k[j]
      BY DEF Increasing
    <3>1. i \in 1..Len(q)
      BY <1>1, <2>2
    <3>2. j \in 1..Len(q) \/ j = Len(q) + 1
      BY <2>4
    <3> QED BY <2>2, <3>1, <3>2 DEF Increasing
  <2>7. \A w \in SUBSET Nat : Behind(w, q) /\ (\A x \in w : x < e) => Behind(w, k)
    <3> SUFFICES ASSUME NEW w \in SUBSET Nat, Behind(w, q), \A x \in w : x < e, NEW x \in w PROVE x <= k[1]
      BY DEF Behind
    <3>1. CASE Len(q) = 0
      <4>1. k[1] = e /\ x < e /\ x \in Nat
        BY <1>1, <2>2, <3>1
      <4> QED BY <1>1, <4>1
    <3>2. CASE Len(q) # 0
      <4>1. k[1] = q[1] /\ q # <<>>
        BY <1>1, <2>2, <3>2, SeqIs
      <4> QED BY <4>1 DEF Behind
    <3> QED BY <3>1, <3>2
  <2> QED BY <1>1, <1>3, <2>2, <2>5, <2>6, <2>7 DEF k
<1>4. CASE ~(Len(q) < MaxQueue)
  <2>1. k = Append(Tail(q), e) /\ Len(q) = MaxQueue /\ Len(q) \in Nat \ {0} /\ q # <<>>
    BY <1>1, <1>4 DEF Kept
  <2> DEFINE t == Tail(q)
  <2>2. t \in Seq(Events) /\ Len(t) = Len(q) - 1 /\ \A i \in 1..Len(q) - 1 : t[i] = q[i + 1]
    BY <2>1
  <2>3. k = Append(t, e)
    BY <2>1
  <2> HIDE DEF t
  <2>4. /\ k \in Seq(Events) /\ Len(k) = Len(t) + 1 /\ k[Len(t) + 1] = e
        /\ \A i \in 1..Len(t) : k[i] = t[i]
    BY <2>2, <2>3
  <2>5. Len(k) = Len(q) /\ k[Len(q)] = e /\ \A i \in 1..Len(q) - 1 : k[i] = q[i + 1]
    BY <2>1, <2>2, <2>4
  <2> HIDE DEF k
  <2>6. ToSet(k) = {k[i] : i \in 1..Len(k)}
    BY <2>4, SeqIs
  <2>7. \A i \in 1..Len(q) : i \in 1..Len(q) - 1 \/ i = Len(q)
    BY <2>1
  <2>8. \A i \in 1..Len(q) - 1 : i \in 1..Len(q) /\ i + 1 \in 1..Len(q)
    BY <2>1
  <2>9. ToSet(k) \subseteq ToSet(q) \cup {e}
    BY <1>2, <2>5, <2>6, <2>7, <2>8
  <2>10. e \in ToSet(k)
    <3>1. Len(q) \in 1..Len(q)
      BY <2>1
    <3> QED BY <2>5, <2>6, <3>1
  <2>11. ToSet(q) \subseteq ToSet(k) \cup {q[1]}
    <3> SUFFICES ASSUME NEW i \in 1..Len(q), i # 1 PROVE q[i] \in ToSet(k)
      BY <1>2
    <3>1. i - 1 \in 1..Len(q) - 1 /\ (i - 1) + 1 = i
      BY <2>1
    <3>2. i - 1 \in 1..Len(k) /\ k[i - 1] = q[i]
      BY <2>5, <2>8, <3>1
    <3> QED BY <2>6, <3>2
  <2>12. Increasing(k)
    <3> SUFFICES ASSUME NEW i \in 1..Len(k), NEW j \in 1..Len(k), i < j PROVE k[i] < k[j]
      BY DEF Increasing
    <3>1. i \in 1..Len(q) - 1 /\ i \in Nat /\ j \in Nat
      BY <2>1, <2>5
    <3>2. CASE j = Len(q)
      BY <2>5, <2>8, <3>1, <3>2
    <3>3. CASE j \in 1..Len(q) - 1
      <4>1. i + 1 \in 1..Len(q) /\ j + 1 \in 1..Len(q) /\ i + 1 < j + 1
        BY <2>8, <3>1, <3>3
      <4> QED BY <2>5, <3>1, <3>3, <4>1 DEF Increasing
    <3> QED BY <2>5, <2>7, <3>2, <3>3
  <2>13. \A w \in SUBSET Nat : Behind(w, q) /\ (\A x \in w : x < e) => Behind(w, k)
    <3> SUFFICES ASSUME NEW w \in SUBSET Nat, Behind(w, q), \A x \in w : x < e, NEW x \in w PROVE x <= k[1]
      BY DEF Behind
    <3>1. CASE Len(q) = 1
      <4>1. k[1] = e /\ x < e /\ x \in Nat
        BY <2>5, <3>1
      <4> QED BY <1>1, <4>1
    <3>2. CASE Len(q) # 1
      <4>1. 1 \in 1..Len(q) - 1 /\ 1 \in 1..Len(q) /\ 2 \in 1..Len(q) /\ 1 < 2 /\ 1 + 1 = 2
        BY <2>1, <3>2
      <4>2. k[1] = q[2] /\ q[1] < q[2] /\ q[1] \in Nat /\ q[2] \in Nat
        BY <1>1, <2>5, <4>1 DEF Increasing
      <4>3. x <= q[1] /\ x \in Nat
        BY <2>1 DEF Behind
      <4> QED BY <4>2, <4>3
    <3> QED BY <3>1, <3>2
  <2>14. \E o : ToSet(q) \subseteq ToSet(k) \cup {o}
    BY <2>11
  <2> QED BY <1>4, <2>1, <2>4, <2>5, <2>9, <2>10, <2>12, <2>13, <2>14 DEF k
<1> QED BY <1>3, <1>4

-----------------------------------------------------------------------------
\* The invariant, dashboard by dashboard.
DashTypes(d) ==
    /\ stream[d] \in {"none", "open", "closed"} /\ closed[d] \in BOOLEAN
    /\ queue[d] \in Seq(Events) /\ Len(queue[d]) <= MaxQueue
    /\ draining[d] \in BOOLEAN /\ dropped[d] \in Nat
    /\ offered[d] \in SUBSET Events /\ written[d] \in SUBSET Events /\ repeated[d] \in BOOLEAN

Dash(d) ==
    /\ DashTypes(d)
    /\ queue[d] # <<>> => draining[d] /\ ~closed[d]
    /\ Increasing(queue[d]) /\ Behind(written[d], queue[d])
    /\ \A e \in ToSet(queue[d]) \cup offered[d] \cup written[d] : e <= sent
    /\ dropped[d] <= sent
    /\ ~closed[d] => Cardinality(Missing(d)) <= dropped[d]

LEMMA SseArith ==
    /\ MaxQueue \in Nat \ {0} /\ MaxPublished \in Nat /\ Events \subseteq Nat \ {0}
    /\ IsFiniteSet(Events) /\ {} \in SUBSET Events
<1>1. IsFiniteSet(1..MaxPublished)
  BY SseAssumption, FS_Interval
<1> QED BY <1>1, SseAssumption DEF Events

LEMMA InvOfDash == ASSUME SseInv, NEW d \in Dashboards PROVE Dash(d)
<1>1. DashTypes(d)
  <2>1. dropped[d] \in Nat
    BY SseArith DEF SseInv, SseTypeOK
  <2> QED BY <2>1 DEF SseInv, SseTypeOK, DashTypes
<1> QED BY <1>1 DEF SseInv, NothingWaitsForNothing, Dash

\* Every variable is a function of the dashboards.
Functions ==
    /\ stream = [d \in Dashboards |-> stream[d]] /\ closed = [d \in Dashboards |-> closed[d]]
    /\ queue = [d \in Dashboards |-> queue[d]] /\ draining = [d \in Dashboards |-> draining[d]]
    /\ dropped = [d \in Dashboards |-> dropped[d]] /\ offered = [d \in Dashboards |-> offered[d]]
    /\ written = [d \in Dashboards |-> written[d]] /\ repeated = [d \in Dashboards |-> repeated[d]]

LEMMA FunctionsAre == SseTypeOK => Functions
BY DEF SseTypeOK, Functions

LEMMA DashesAreInv ==
    ASSUME listed' \in SUBSET Dashboards, sent' \in 0..MaxPublished, Functions',
           \A d \in Dashboards : Dash(d)'
    PROVE  SseInv'
<1>1. sent' \in Nat /\ sent' <= MaxPublished
  BY SseArith
<1>2. \A d \in Dashboards : dropped'[d] \in 0..MaxPublished
  <2> SUFFICES ASSUME NEW d \in Dashboards PROVE dropped'[d] \in 0..MaxPublished
    OBVIOUS
  <2>1. dropped'[d] \in Nat /\ dropped'[d] <= sent'
    BY DEF Dash, DashTypes
  <2> QED BY <1>1, <2>1, SseArith
<1>3. \A d \in Dashboards : DashTypes(d)'
  BY DEF Dash
<1>4. stream' \in [Dashboards -> {"none", "open", "closed"}] /\ closed' \in [Dashboards -> BOOLEAN]
  BY <1>3 DEF DashTypes, Functions
<1>5. queue' \in [Dashboards -> Seq(Events)] /\ \A d \in Dashboards : Len(queue'[d]) <= MaxQueue
  BY <1>3 DEF DashTypes, Functions
<1>6. draining' \in [Dashboards -> BOOLEAN] /\ repeated' \in [Dashboards -> BOOLEAN]
  BY <1>3 DEF DashTypes, Functions
<1>7. offered' \in [Dashboards -> SUBSET Events] /\ written' \in [Dashboards -> SUBSET Events]
  BY <1>3 DEF DashTypes, Functions
<1>8. dropped' \in [Dashboards -> 0..MaxPublished]
  BY <1>2 DEF Functions
<1>9. SseTypeOK'
  BY <1>4, <1>5, <1>6, <1>7, <1>8 DEF SseTypeOK
<1> QED BY <1>9 DEF SseInv, NothingWaitsForNothing, Dash

LEMMA SseInitInv == SseInit => SseInv
<1> SUFFICES ASSUME SseInit PROVE SseInv
  OBVIOUS
<1>1. SseTypeOK
  <2>1. 0 \in 0..MaxPublished /\ Len(<<>>) <= MaxQueue
    BY EmptyIs, SseArith
  <2> QED BY <2>1, EmptyIs, SseArith DEF SseInit, SseTypeOK
<1>2. ASSUME NEW d \in Dashboards
      PROVE  /\ queue[d] = <<>> /\ offered[d] = {} /\ written[d] = {} /\ dropped[d] = 0 /\ sent = 0
             /\ Missing(d) = {}
  BY DEF SseInit, Missing
<1>3. Cardinality({}) = 0
  BY FS_EmptySet
<1>4. ASSUME NEW d \in Dashboards
      PROVE  /\ Increasing(queue[d]) /\ Behind(written[d], queue[d])
             /\ \A e \in ToSet(queue[d]) \cup offered[d] \cup written[d] : e <= sent
             /\ dropped[d] <= sent
             /\ ~closed[d] => Cardinality(Missing(d)) <= dropped[d]
  <2>1. ToSet(queue[d]) = {} /\ Increasing(queue[d]) /\ queue[d] = <<>>
    BY <1>2, EmptyIs
  <2>2. Cardinality(Missing(d)) = 0 /\ dropped[d] = 0 /\ sent = 0 /\ offered[d] = {} /\ written[d] = {}
    BY <1>2, <1>3
  <2>3. Behind(written[d], queue[d])
    BY <2>2 DEF Behind
  <2> QED BY <2>1, <2>2, <2>3
<1>5. NothingWaitsForNothing
  BY <1>2 DEF NothingWaitsForNothing
<1> QED BY <1>1, <1>4, <1>5 DEF SseInv

\* What enqueue leaves of an open connection: r, when d is offered e.
Taken(d, e, r) ==
    /\ r.queue \in Seq(Events) /\ Len(r.queue) <= MaxQueue /\ r.draining \in BOOLEAN
    /\ r.written \in Seq(Events)
    /\ r.queue # <<>> => r.draining
    /\ Increasing(r.queue) /\ Behind(written[d] \cup ToSet(r.written), r.queue)
    /\ ToSet(r.queue) \cup ToSet(r.written) \subseteq ToSet(queue[d]) \cup {e}
    /\ e \in ToSet(r.queue) \cup ToSet(r.written)
    /\ Len(queue[d]) < MaxQueue => ToSet(queue[d]) \subseteq ToSet(r.queue) \cup ToSet(r.written)
    /\ \E o : ToSet(queue[d]) \subseteq ToSet(r.queue) \cup ToSet(r.written) \cup {o}

LEMMA EnqueueIs ==
    ASSUME NEW d \in Dashboards, Dash(d), ~closed[d], sent \in Nat, NEW e \in Events, e = sent + 1,
           NEW r \in Enqueued(d, e)
    PROVE  Taken(d, e, r)
<1> DEFINE q == queue[d]
           k == Kept(q, e)
           w == written[d]
<1>1. /\ q \in Seq(Events) /\ Len(q) <= MaxQueue /\ Increasing(q) /\ Behind(w, q) /\ w \in SUBSET Nat
      /\ \A x \in ToSet(q) \cup w : x \in Nat /\ x <= sent
      /\ q # <<>> => draining[d]
      /\ draining[d] \in BOOLEAN
  <2>1. q \in Seq(Events) /\ w \in SUBSET Events /\ ToSet(q) \subseteq Events
    BY SeqIs DEF Dash, DashTypes
  <2> QED BY <2>1, SseArith DEF Dash, DashTypes
<1>2. (\A i \in 1..Len(q) : q[i] < e) /\ \A x \in w : x < e
  <2>1. \A x \in ToSet(q) \cup w : x < e
    <3>1. \A x \in ToSet(q) \cup w : x \in Nat /\ x <= sent
      BY <1>1
    <3> QED BY <3>1
  <2>2. ToSet(q) = {q[i] : i \in 1..Len(q)}
    BY <1>1, SeqIs
  <2> QED BY <2>1, <2>2
<1>3. /\ k \in Seq(Events) /\ Len(k) <= MaxQueue /\ Len(k) # 0 /\ Increasing(k) /\ e \in ToSet(k)
      /\ ToSet(k) \subseteq ToSet(q) \cup {e}
      /\ Len(q) < MaxQueue => ToSet(q) \subseteq ToSet(k)
      /\ \E o : ToSet(q) \subseteq ToSet(k) \cup {o}
      /\ Behind(w, k)
  <2> HIDE DEF q, w
  <2>1. /\ k \in Seq(Events) /\ Len(k) <= MaxQueue /\ Len(k) # 0 /\ Increasing(k) /\ e \in ToSet(k)
        /\ ToSet(k) \subseteq ToSet(q) \cup {e}
        /\ Len(q) < MaxQueue => ToSet(q) \subseteq ToSet(k)
        /\ \E o : ToSet(q) \subseteq ToSet(k) \cup {o}
        /\ \A v \in SUBSET Nat : Behind(v, q) /\ (\A x \in v : x < e) => Behind(v, k)
    <3>1. q \in Seq(Events) /\ Len(q) <= MaxQueue /\ Increasing(q) /\ e \in Events /\ \A i \in 1..Len(q) : q[i] < e
      BY <1>1, <1>2
    <3> QED BY ONLY <3>1, KeptIs
  <2> HIDE DEF k
  <2>2. Behind(w, k)
    BY <1>1, <1>2, <2>1
  <2> QED BY <2>1, <2>2
<1>4. CASE draining[d]
  <2>1. r.queue = k /\ r.draining = TRUE /\ r.written = <<>>
    BY <1>4 DEF Enqueued
  <2>2. w \cup ToSet(<<>>) = w
    BY EmptyIs
  <2> HIDE DEF q, k, w
  <2>3. Behind(w \cup ToSet(r.written), r.queue)
    BY <1>3, <2>1, <2>2
  <2>4. ToSet(r.queue) \cup ToSet(r.written) = ToSet(k)
    BY <2>1, EmptyIs
  <2> QED BY <1>3, <2>1, <2>3, <2>4, EmptyIs DEF q, w, Taken
<1>5. CASE ~draining[d]
  <2>1. r \in Flushed(k)
    BY <1>5 DEF Enqueued
  <2> HIDE DEF k
  <2>2. /\ r.queue \in Seq(Events) /\ Len(r.queue) <= Len(k) /\ r.written \in Seq(Events) /\ r.draining \in BOOLEAN
        /\ Increasing(r.queue) /\ (r.queue # <<>> => r.draining)
        /\ ToSet(r.queue) \cup ToSet(r.written) = ToSet(k)
        /\ r.queue # <<>> => \A x \in ToSet(r.written) : x <= r.queue[1]
        /\ Behind(w, r.queue)
    BY <1>1, <1>3, <2>1, FlushIs
  <2>3. Len(r.queue) <= MaxQueue
    BY <1>3, <2>2, SseArith, SeqIs
  <2>4. Behind(w \cup ToSet(r.written), r.queue)
    BY <2>2 DEF Behind
  <2> QED BY <1>3, <2>2, <2>3, <2>4 DEF Taken
<1> QED BY <1>1, <1>4, <1>5

LEMMA DeliverKeeps == ASSUME SseInv, NEW ds \in SUBSET Dashboards, Deliver(ds) PROVE SseInv'
<1> DEFINE e == sent + 1
<1>1. /\ sent \in Nat /\ sent < MaxPublished /\ sent' = e /\ listed' = listed /\ listed \in SUBSET Dashboards
      /\ stream' = stream /\ closed' = closed /\ Functions /\ e \in Events /\ sent' \in 0..MaxPublished
  <2>1. sent \in Nat /\ sent < MaxPublished
    BY SseArith DEF SseInv, SseTypeOK, Deliver
  <2>2. e \in Events /\ e \in 0..MaxPublished
    BY <2>1, SseArith DEF Events
  <2> QED BY <2>1, <2>2, FunctionsAre DEF SseInv, SseTypeOK, Deliver
<1>2. PICK result :
         /\ \A d \in Dashboards :
               result[d] \in IF d \in ds /\ ~closed[d] THEN Enqueued(d, e)
                             ELSE {[queue |-> queue[d], draining |-> draining[d], written |-> <<>>]}
         /\ queue' = [d \in Dashboards |-> result[d].queue]
         /\ draining' = [d \in Dashboards |-> result[d].draining]
         /\ Writes([d \in Dashboards |-> ToSet(result[d].written)])
  BY DEF Deliver
<1> DEFINE ev == [d \in Dashboards |-> ToSet(result[d].written)]
<1>3. /\ \A d \in Dashboards : /\ written'[d] = written[d] \cup ToSet(result[d].written)
                               /\ repeated'[d] \in BOOLEAN
      /\ written' = [d \in Dashboards |-> written'[d]] /\ repeated' = [d \in Dashboards |-> repeated'[d]]
  <2>1. /\ written' = [d \in Dashboards |-> written[d] \cup ev[d]]
        /\ repeated' = [d \in Dashboards |-> repeated[d] \/ written[d] \cap ev[d] # {}]
    BY <1>2 DEF Writes
  <2>2. \A d \in Dashboards : ev[d] = ToSet(result[d].written)
    OBVIOUS
  <2> HIDE DEF ev
  <2> QED BY <2>1, <2>2
<1>4. /\ offered' = [d \in Dashboards |-> IF d \in ds /\ ~closed[d] THEN offered[d] \cup {e} ELSE offered[d]]
      /\ dropped' = [d \in Dashboards |->
                       IF d \in ds /\ (closed[d] \/ Len(queue[d]) >= MaxQueue) THEN dropped[d] + 1
                                                                             ELSE dropped[d]]
  BY DEF Deliver
<1>5. Functions'
  BY <1>1, <1>2, <1>3, <1>4 DEF Functions
<1>6. ASSUME NEW d \in Dashboards PROVE Dash(d)'
  <2> DEFINE r == result[d]
  <2>1. /\ queue'[d] = r.queue /\ draining'[d] = r.draining /\ written'[d] = written[d] \cup ToSet(r.written)
        /\ closed'[d] = closed[d] /\ stream'[d] = stream[d] /\ repeated'[d] \in BOOLEAN
        /\ offered'[d] = (IF d \in ds /\ ~closed[d] THEN offered[d] \cup {e} ELSE offered[d])
        /\ dropped'[d] = IF d \in ds /\ (closed[d] \/ Len(queue[d]) >= MaxQueue) THEN dropped[d] + 1 ELSE dropped[d]
    BY <1>1, <1>2, <1>3, <1>4
  <2>2. Dash(d) /\ dropped[d] \in Nat /\ dropped[d] <= sent /\ offered[d] \in SUBSET Events /\ written[d] \in SUBSET Events
        /\ queue[d] \in Seq(Events) /\ Len(queue[d]) <= MaxQueue
    BY InvOfDash DEF Dash, DashTypes
  <2>3. dropped'[d] \in Nat /\ dropped'[d] <= sent'
    BY <1>1, <2>1, <2>2
  <2>4. CASE ~(d \in ds /\ ~closed[d])
    <3>1. r = [queue |-> queue[d], draining |-> draining[d], written |-> <<>>]
      BY <1>2, <2>4
    <3>2. /\ queue'[d] = queue[d] /\ draining'[d] = draining[d] /\ written'[d] = written[d]
          /\ offered'[d] = offered[d] /\ (~closed[d] => dropped'[d] = dropped[d])
      BY <2>1, <2>4, <3>1, EmptyIs
    <3>3. \A x \in ToSet(queue[d]) \cup offered[d] \cup written[d] : x <= sent'
      <4>1. \A x \in ToSet(queue[d]) \cup offered[d] \cup written[d] : x \in Nat /\ x <= sent
        BY <2>2, SeqIs, SseArith DEF Dash
      <4> QED BY <1>1, <4>1
    <3>4. Missing(d)' = Missing(d)
      BY <3>2 DEF Missing
    <3> QED BY <2>1, <2>2, <2>3, <3>2, <3>3, <3>4 DEF Dash, DashTypes
  <2>5. CASE d \in ds /\ ~closed[d]
    <3>1. r \in Enqueued(d, e)
      BY <1>2, <2>5
    <3> HIDE DEF r
    <3>2. Taken(d, e, r)
      <4>1. e = sent + 1 /\ Dash(d) /\ ~closed[d] /\ sent \in Nat /\ e \in Events
        BY <1>1, <2>2, <2>5
      <4> HIDE DEF e
      <4> QED BY ONLY <3>1, <4>1, EnqueueIs, d \in Dashboards
    <3> USE DEF Taken
    <3>3. offered'[d] = offered[d] \cup {e} /\ ToSet(r.written) \subseteq Events /\ ToSet(queue[d]) \subseteq Events
      BY <2>1, <2>2, <2>5, <3>2, SeqIs
    <3>4. \A x \in ToSet(r.queue) \cup offered'[d] \cup (written[d] \cup ToSet(r.written)) : x <= sent'
      <4>1. \A x \in ToSet(queue[d]) \cup offered[d] \cup written[d] : x \in Nat /\ x <= sent
        BY <2>2, <3>3, SseArith DEF Dash
      <4>2. \A x \in ToSet(queue[d]) \cup offered[d] \cup written[d] \cup {e} : x <= e
        BY <1>1, <4>1
      <4> QED BY <1>1, <3>2, <3>3, <4>2
    <3>5. Cardinality(Missing(d)') <= dropped'[d]
      <4>1. Missing(d)' = (offered[d] \cup {e}) \ (written[d] \cup ToSet(r.written) \cup ToSet(r.queue))
        BY <2>1, <3>3 DEF Missing
      <4>2. /\ IsFiniteSet(Missing(d)) /\ Cardinality(Missing(d)) \in Nat
            /\ Cardinality(Missing(d)) <= dropped[d]
        <5>1. Missing(d) \in SUBSET Events
          BY <2>2 DEF Missing
        <5>2. IsFiniteSet(Missing(d))
          BY <5>1, SseArith, FS_Subset
        <5> QED BY <2>2, <2>5, <5>2, FS_CardinalityType DEF Dash
      <4>3. CASE Len(queue[d]) < MaxQueue
        <5>1. Missing(d)' \in SUBSET Missing(d)
          BY <3>2, <4>1, <4>3 DEF Missing
        <5>2. Cardinality(Missing(d)') <= Cardinality(Missing(d)) /\ Cardinality(Missing(d)') \in Nat
          BY <4>2, <5>1, FS_Subset, FS_CardinalityType
        <5> QED BY <2>1, <2>2, <2>3, <2>5, <4>2, <4>3, <5>2
      <4>4. CASE ~(Len(queue[d]) < MaxQueue)
        <5>1. PICK o : ToSet(queue[d]) \subseteq ToSet(r.queue) \cup ToSet(r.written) \cup {o}
          BY <3>2
        <5>2. Missing(d)' \in SUBSET (Missing(d) \cup {o})
          BY <3>2, <4>1, <5>1 DEF Missing
        <5>3. /\ IsFiniteSet(Missing(d) \cup {o})
              /\ Cardinality(Missing(d) \cup {o}) \in {Cardinality(Missing(d)), Cardinality(Missing(d)) + 1}
          BY <4>2, FS_AddElement
        <5>4. Cardinality(Missing(d)') <= Cardinality(Missing(d) \cup {o}) /\ Cardinality(Missing(d)') \in Nat
          BY <5>2, <5>3, FS_Subset, FS_CardinalityType
        <5>5. dropped'[d] = dropped[d] + 1
          <6>1. Len(queue[d]) \in Nat /\ MaxQueue \in Nat
            BY <2>2, SeqIs, SseArith
          <6> QED BY <2>1, <2>5, <4>4, <6>1
        <5> QED BY <2>2, <4>2, <5>3, <5>4, <5>5
      <4> QED BY <4>3, <4>4
    <3>6. DashTypes(d)'
      <4>1. written'[d] \in SUBSET Events /\ offered'[d] \in SUBSET Events
        BY <1>1, <2>1, <2>2, <3>3
      <4> QED BY <2>1, <2>2, <2>3, <3>2, <4>1 DEF Dash, DashTypes
    <3> QED BY <2>1, <2>3, <2>5, <3>2, <3>4, <3>5, <3>6 DEF Dash
  <2> QED BY <2>4, <2>5
<1> QED BY <1>1, <1>5, <1>6, DashesAreInv

\* A dashboard of which only the stream, or draining for more, changes.
LEMMA DashStays ==
    ASSUME SseInv, NEW d \in Dashboards, sent' = sent,
           closed'[d] = closed[d], queue'[d] = queue[d], dropped'[d] = dropped[d], offered'[d] = offered[d],
           written'[d] = written[d], repeated'[d] = repeated[d],
           stream'[d] \in {"none", "open", "closed"}, draining'[d] \in BOOLEAN, draining[d] => draining'[d]
    PROVE  Dash(d)'
<1>1. Dash(d)
  BY InvOfDash
<1>2. Missing(d)' = Missing(d)
  BY DEF Missing
<1> QED BY <1>1, <1>2 DEF Dash, DashTypes

LEMMA AddKeeps == ASSUME SseInv, NEW d \in Dashboards, AddClient(d) PROVE SseInv'
<1>1. /\ listed' \in SUBSET Dashboards /\ sent' = sent /\ sent' \in 0..MaxPublished
      /\ stream' \in [Dashboards -> {"none", "open", "closed"}]
      /\ UNCHANGED <<closed, queue, draining, dropped, sent, offered, written, repeated>>
  BY DEF SseInv, SseTypeOK, AddClient
<1>2. Functions'
  BY <1>1, FunctionsAre DEF SseInv, Functions
<1>3. \A x \in Dashboards : draining[x] \in BOOLEAN
  BY DEF SseInv, SseTypeOK
<1>4. ASSUME NEW x \in Dashboards PROVE Dash(x)'
  BY <1>1, <1>3, DashStays
<1> QED BY <1>1, <1>2, <1>4, DashesAreInv

LEMMA KeepaliveKeeps == ASSUME SseInv, NEW d \in Dashboards, SendKeepalive(d) PROVE SseInv'
<1>1. /\ draining' \in [Dashboards -> BOOLEAN] /\ (\A x \in Dashboards : draining[x] => draining'[x])
      /\ UNCHANGED <<listed, stream, closed, queue, dropped, sent, offered, written, repeated>>
      /\ listed \in SUBSET Dashboards /\ sent \in 0..MaxPublished
      /\ stream \in [Dashboards -> {"none", "open", "closed"}]
  BY DEF SseInv, SseTypeOK, SendKeepalive
<1>2. Functions'
  BY <1>1, FunctionsAre DEF SseInv, Functions
<1>3. ASSUME NEW x \in Dashboards PROVE Dash(x)'
  BY <1>1, DashStays
<1> QED BY <1>1, <1>2, <1>3, DashesAreInv

\* Connections close: nothing waits, and what is missing no longer counts.
LEMMA CloseKeeps ==
    ASSUME SseInv, NEW ds \in SUBSET Dashboards, Close(ds), listed' \in SUBSET Dashboards,
           stream' \in [Dashboards -> {"none", "open", "closed"}]
    PROVE  SseInv'
<1>1. /\ closed' = [d \in Dashboards |-> closed[d] \/ d \in ds]
      /\ queue' = [d \in Dashboards |-> IF d \in ds THEN <<>> ELSE queue[d]]
      /\ UNCHANGED <<draining, dropped, sent, offered, written, repeated>>
      /\ sent' \in 0..MaxPublished /\ draining \in [Dashboards -> BOOLEAN]
      /\ closed \in [Dashboards -> BOOLEAN]
  BY DEF SseInv, SseTypeOK, Close
<1>2. Functions'
  BY <1>1, FunctionsAre DEF SseInv, Functions
<1>3. ASSUME NEW d \in Dashboards PROVE Dash(d)'
  <2>1. CASE d \notin ds
    <3>1. closed'[d] = closed[d] /\ queue'[d] = queue[d]
      BY <1>1, <2>1
    <3> QED BY <1>1, <3>1, DashStays
  <2>2. CASE d \in ds
    <3>1. closed'[d] = TRUE /\ queue'[d] = <<>>
      BY <1>1, <2>2
    <3>2. Dash(d)
      BY InvOfDash
    <3>3. Len(<<>>) <= MaxQueue
      BY EmptyIs, SseArith
    <3> QED BY <1>1, <3>1, <3>2, <3>3, EmptyIs DEF Dash, DashTypes, Behind
  <2> QED BY <2>1, <2>2
<1> QED BY <1>1, <1>2, <1>3, DashesAreInv

LEMMA DrainKeeps == ASSUME SseInv, NEW d \in Dashboards, Drain(d) PROVE SseInv'
<1>1. /\ UNCHANGED <<listed, stream, closed, dropped, sent, offered>> /\ SseTypeOK /\ Functions
      /\ draining[d] = TRUE
  BY FunctionsAre DEF SseInv, SseTypeOK, Drain
<1>2. CASE closed[d]
  <2>1. draining' = [draining EXCEPT ![d] = FALSE] /\ UNCHANGED <<queue, written, repeated>>
    BY <1>2 DEF Drain
  <2>2. Functions'
    BY <1>1, <2>1 DEF Functions
  <2>3. ASSUME NEW x \in Dashboards PROVE Dash(x)'
    <3>1. CASE x # d
      <4>1. draining'[x] = draining[x] /\ draining[x] \in BOOLEAN /\ stream[x] \in {"none", "open", "closed"}
        BY <1>1, <2>1, <3>1 DEF SseTypeOK
      <4> QED BY <1>1, <2>1, <4>1, DashStays
    <3>2. CASE x = d
      <4>1. Dash(d)
        BY InvOfDash
      <4>2. queue[d] = <<>>
        BY <1>2, <4>1 DEF Dash
      <4>3. Missing(d)' = Missing(d)
        BY <1>1, <2>1 DEF Missing
      <4>4. draining'[d] = FALSE
        BY <1>1, <2>1 DEF SseTypeOK
      <4> QED BY <1>1, <2>1, <3>2, <4>1, <4>2, <4>3, <4>4 DEF Dash, DashTypes
    <3> QED BY <3>1, <3>2
  <2> QED BY <1>1, <2>2, <2>3, DashesAreInv DEF SseTypeOK
<1>3. CASE ~closed[d]
  <2>1. PICK r \in Flushed(queue[d]) :
           /\ queue' = [queue EXCEPT ![d] = r.queue]
           /\ draining' = [draining EXCEPT ![d] = r.draining]
           /\ Writes([x \in Dashboards |-> IF x = d THEN ToSet(r.written) ELSE {}])
    BY <1>3 DEF Drain
  <2> DEFINE ev == [x \in Dashboards |-> IF x = d THEN ToSet(r.written) ELSE {}]
  <2>2. /\ written' = [x \in Dashboards |-> written[x] \cup ev[x]]
        /\ repeated' = [x \in Dashboards |-> repeated[x] \/ written[x] \cap ev[x] # {}]
    BY <2>1 DEF Writes
  <2>3. ev[d] = ToSet(r.written) /\ \A x \in Dashboards \ {d} : ev[x] = {}
    OBVIOUS
  <2> HIDE DEF ev
  <2>4. Functions'
    BY <1>1, <2>1, <2>2 DEF Functions
  <2>5. ASSUME NEW x \in Dashboards PROVE Dash(x)'
    <3>1. CASE x # d
      <4>1. /\ draining'[x] = draining[x] /\ draining[x] \in BOOLEAN /\ stream[x] \in {"none", "open", "closed"}
            /\ queue'[x] = queue[x] /\ written'[x] = written[x]
        BY <1>1, <2>1, <2>2, <2>3, <3>1 DEF SseTypeOK
      <4>2. repeated'[x] = (repeated[x] \/ written[x] \cap ev[x] # {}) /\ ev[x] = {} /\ repeated[x] \in BOOLEAN
        BY <1>1, <2>2, <2>3, <3>1 DEF SseTypeOK
      <4>3. repeated'[x] = repeated[x]
        BY <4>2
      <4> QED BY <1>1, <4>1, <4>3, DashStays
    <3>2. CASE x = d
      <4>1. Dash(d)
        BY InvOfDash
      <4>2. /\ r.queue \in Seq(Events) /\ Len(r.queue) <= Len(queue[d]) /\ r.written \in Seq(Events) /\ r.draining \in BOOLEAN
            /\ Increasing(r.queue) /\ (r.queue # <<>> => r.draining)
            /\ ToSet(r.queue) \cup ToSet(r.written) = ToSet(queue[d])
            /\ r.queue # <<>> => \A e \in ToSet(r.written) : e <= r.queue[1]
            /\ Behind(written[d], r.queue)
        <5>1. written[d] \in SUBSET Nat /\ queue[d] \in Seq(Events) /\ Increasing(queue[d]) /\ Behind(written[d], queue[d])
          BY <4>1, SseArith DEF Dash, DashTypes
        <5> QED BY <5>1, FlushIs
      <4>3. /\ queue'[d] = r.queue /\ draining'[d] = r.draining /\ written'[d] = written[d] \cup ToSet(r.written)
            /\ repeated'[d] \in BOOLEAN
        BY <1>1, <2>1, <2>2, <2>3 DEF SseTypeOK
      <4>4. Behind(written'[d], queue'[d])
        BY <4>2, <4>3 DEF Behind
      <4>5. Missing(d)' = Missing(d)
        BY <1>1, <4>2, <4>3 DEF Missing
      <4>6. Len(r.queue) <= MaxQueue
        <5>1. Len(r.queue) \in Nat /\ Len(queue[d]) \in Nat /\ MaxQueue \in Nat /\ Len(queue[d]) <= MaxQueue
          BY <4>1, <4>2, SeqIs, SseArith DEF Dash, DashTypes
        <5> QED BY <4>2, <5>1
      <4>7. written'[d] \in SUBSET Events
        BY <4>1, <4>2, <4>3, SeqIs DEF Dash, DashTypes
      <4>8. DashTypes(d)'
        BY <1>1, <4>1, <4>2, <4>3, <4>6, <4>7 DEF Dash, DashTypes
      <4>9. \A e \in ToSet(queue'[d]) \cup offered'[d] \cup written'[d] : e <= sent'
        BY <1>1, <4>1, <4>2, <4>3 DEF Dash
      <4> QED BY <1>1, <1>3, <3>2, <4>1, <4>2, <4>3, <4>4, <4>5, <4>8, <4>9 DEF Dash
    <3> QED BY <3>1, <3>2
  <2> QED BY <1>1, <2>4, <2>5, DashesAreInv DEF SseTypeOK
<1> QED BY <1>2, <1>3

\* sse_manager.ts enqueue, flushQueue: queues are in order and drops are counted
\* in every state.
THEOREM SseInductive == SseSpec => []SseInv
<1>1. SseInv /\ SseNext => SseInv'
  <2> SUFFICES ASSUME SseInv, SseNext PROVE SseInv'
    OBVIOUS
  <2>1. listed \in SUBSET Dashboards /\ stream \in [Dashboards -> {"none", "open", "closed"}]
    BY DEF SseInv, SseTypeOK
  <2>2. CASE Broadcast
    BY <2>1, <2>2, DeliverKeeps DEF Broadcast
  <2>3. CASE Shutdown
    BY <2>1, <2>3, CloseKeeps DEF Shutdown
  <2>4. ASSUME NEW d \in Dashboards, SendToClient(d) PROVE SseInv'
    BY <2>4, DeliverKeeps DEF SendToClient
  <2>5. ASSUME NEW d \in Dashboards, StreamCloses(d) \/ StreamFails(d) PROVE SseInv'
    <3>1. Close({d}) /\ listed' \in SUBSET Dashboards /\ stream' \in [Dashboards -> {"none", "open", "closed"}]
      BY <2>1, <2>5 DEF StreamCloses, StreamFails
    <3> QED BY <3>1, CloseKeeps
  <2> QED BY <2>2, <2>3, <2>4, <2>5, AddKeeps, DrainKeeps, KeepaliveKeeps DEF SseNext
<1>2. SseInv /\ UNCHANGED sseVars => SseInv'
  BY DEF sseVars, SseInv, SseTypeOK, NothingWaitsForNothing, Missing
<1> QED BY <1>1, <1>2, SseInitInv, PTL DEF SseSpec

\* sse_manager.ts: what a stream left out is counted, and the rest is in order.
THEOREM StreamsAreAccountedFor == SseSpec => []StreamIsAccountedFor
<1>1. SseInv => StreamIsAccountedFor
  <2> SUFFICES ASSUME SseInv PROVE StreamIsAccountedFor
    OBVIOUS
  <2>1. OrderIsKept
    <3> SUFFICES ASSUME NEW d \in Dashboards, NEW i \in 1..Len(queue[d])
                 PROVE  /\ \A j \in 1..(i - 1) : queue[d][j] < queue[d][i]
                        /\ \A e \in written[d] : e < queue[d][i] \/ (i = 1 /\ e = queue[d][1])
      BY DEF OrderIsKept
    <3>1. /\ Increasing(queue[d]) /\ Behind(written[d], queue[d]) /\ queue[d] \in Seq(Events)
          /\ Len(queue[d]) \in Nat /\ \A j \in 1..Len(queue[d]) : queue[d][j] \in Nat
          /\ written[d] \subseteq Nat
      BY InvOfDash, SeqIs, SseArith DEF Dash, DashTypes
    <3>2. \A j \in 1..(i - 1) : queue[d][j] < queue[d][i]
      <4>1. \A j \in 1..(i - 1) : j \in 1..Len(queue[d]) /\ j < i
        BY <3>1
      <4> QED BY <3>1, <4>1 DEF Increasing
    <3>3. ASSUME NEW e \in written[d] PROVE e < queue[d][i] \/ (i = 1 /\ e = queue[d][1])
      <4>1. queue[d] # <<>> /\ 1 \in 1..Len(queue[d])
        BY <3>1
      <4>2. e <= queue[d][1] /\ e \in Nat /\ queue[d][1] \in Nat /\ queue[d][i] \in Nat
        BY <3>1, <4>1 DEF Behind
      <4>3. i = 1 \/ queue[d][1] < queue[d][i]
        <5>1. i = 1 \/ 1 < i
          BY <3>1
        <5> QED BY <3>1, <4>1, <5>1 DEF Increasing
      <4> QED BY <4>2, <4>3
    <3> QED BY <3>2, <3>3
  <2>2. DropsAreCounted
    BY DEF SseInv, DropsAreCounted, Missing
  <2> QED BY <2>1, <2>2 DEF SseInv, StreamIsAccountedFor
<1> QED BY <1>1, SseInductive, PTL

-----------------------------------------------------------------------------
(***************************************************************************)
(* Balance reconciliation. A comparison that nothing disturbed was passed  *)
(* and fetched what the balances are when it corrects.                     *)
(***************************************************************************)
\* What a quiet comparison was passed and fetched is what the balances are now.
QuietSeesBalances ==
    \A r \in quiet :
       /\ compare[r].at # "none" => compare[r].passed = localBalance
       /\ compare[r].at = "compare" => compare[r].fetched = chainBalance

BalanceInv == BalanceTypeOK /\ QuietSeesBalances

LEMMA BalanceInitInv == BalanceInit => BalanceInv
BY BalanceAssumption DEF BalanceInit, BalanceInv, BalanceTypeOK, QuietSeesBalances, NoComparison, Balances

LEMMA BalanceStepInv ==
    ASSUME BalanceInv, NEW r \in Comparisons,
           \/ ReconcileAfterRollback(r) \/ RecordTransaction(r) \/ Fetch(r)
           \/ Agrees(r) \/ Corrects(r) \/ ComparisonFails(r)
    PROVE  BalanceInv'
<1> USE DEF BalanceInv, BalanceTypeOK, QuietSeesBalances
<1>1. NoComparison \in [at : {"none", "fetch", "compare"}, passed : Balances, fetched : Balances]
      /\ NoComparison.at = "none" /\ 0 \in Balances
  BY BalanceAssumption DEF NoComparison, Balances
<1>2. CASE ReconcileAfterRollback(r)
  BY <1>1, <1>2 DEF ReconcileAfterRollback, Starts
<1>3. CASE RecordTransaction(r)
  <2>1. transactionCount' \in 0..CompareEvery
    BY <1>3, BalanceAssumption DEF RecordTransaction
  <2>2. CASE Starts(r)
    BY <1>1, <1>3, <2>1, <2>2 DEF RecordTransaction, Starts
  <2>3. CASE UNCHANGED <<compare, quiet>>
    BY <1>3, <2>1, <2>3 DEF RecordTransaction
  <2> QED BY <1>3, <2>2, <2>3 DEF RecordTransaction
<1>4. CASE Fetch(r)
  BY <1>4 DEF Fetch
<1>5. CASE Agrees(r)
  BY <1>1, <1>5 DEF Agrees
<1>6. CASE Corrects(r)
  BY <1>1, <1>6 DEF Corrects
<1>7. CASE ComparisonFails(r)
  BY <1>1, <1>7 DEF ComparisonFails
<1> QED BY <1>2, <1>3, <1>4, <1>5, <1>6, <1>7

LEMMA BalanceNextInv == BalanceInv /\ [BalanceNext]_balanceVars => BalanceInv'
<1> SUFFICES ASSUME BalanceInv, [BalanceNext]_balanceVars PROVE BalanceInv'
  OBVIOUS
<1> USE DEF BalanceInv, BalanceTypeOK, QuietSeesBalances
<1>1. CASE BalanceMoves
  BY <1>1 DEF BalanceMoves
<1>2. CASE ResetTransactionCount
  BY <1>2, BalanceAssumption DEF ResetTransactionCount
<1>3. CASE UNCHANGED balanceVars
  BY <1>3 DEF balanceVars
<1> QED BY <1>1, <1>2, <1>3, BalanceStepInv DEF BalanceNext

\* balance_manager.ts reconcileAccount: an undisturbed comparison has the
\* balances as they are.
THEOREM BalanceInductive == BalanceSpec => []BalanceInv
<1>1. BalanceInit => BalanceInv
  BY BalanceInitInv
<1>2. BalanceInv /\ [BalanceNext]_balanceVars => BalanceInv'
  BY BalanceNextInv
<1> QED BY <1>1, <1>2, PTL DEF BalanceSpec

LEMMA QuietCorrects ==
    ASSUME BalanceInv, [BalanceNext]_balanceVars, NEW r \in Comparisons,
           compare[r].at = "compare", compare'[r].at = "none", r \in quiet'
    PROVE  localBalance' = chainBalance'
<1> USE DEF BalanceInv, BalanceTypeOK, QuietSeesBalances
<1>1. \E s \in Comparisons : Agrees(s) \/ Corrects(s)
  <2>1. \A s \in Comparisons : ReconcileAfterRollback(s) \/ RecordTransaction(s) \/ Fetch(s)
                                  => compare'[r].at # "none"
    BY DEF ReconcileAfterRollback, RecordTransaction, Starts, Fetch
  <2>2. \A s \in Comparisons : ~ComparisonFails(s)
    BY DEF ComparisonFails
  <2> QED BY <2>1, <2>2 DEF BalanceNext, BalanceMoves, ResetTransactionCount, balanceVars
<1>2. PICK s \in Comparisons : Agrees(s) \/ Corrects(s)
  BY <1>1
<1>3. s = r
  BY <1>2 DEF Agrees, Corrects
<1>4. CASE Agrees(r)
  BY <1>4 DEF Agrees, Differs
<1>5. CASE Corrects(r)
  BY <1>5 DEF Corrects
<1> QED BY <1>2, <1>3, <1>4, <1>5

\* balance_manager.ts reconcileAccount: it corrects to the balance on chain when
\* neither balance moved under it.
THEOREM QuietReconcileIsRight == BalanceSpec => QuietReconcileCorrects
<1> DEFINE Right == \A r \in Comparisons :
                       compare[r].at = "compare" /\ compare'[r].at = "none" /\ r \in quiet'
                          => localBalance' = chainBalance'
<1>1. BalanceInv /\ [BalanceNext]_balanceVars => [Right]_balanceVars
  BY QuietCorrects
<1>2. BalanceSpec => [][Right]_balanceVars
  BY <1>1, BalanceInductive, PTL DEF BalanceSpec
<1> QED BY <1>2 DEF QuietReconcileCorrects

-----------------------------------------------------------------------------
(***************************************************************************)
(* Metered contract. Bytes exceed the entries by less than an entry for    *)
(* each uneven allocation, so entries do not wrap before bytes are given   *)
(* back, and what is stored is a sum over the batches.                     *)
(***************************************************************************)
\* An uneven allocation is of one byte at least.
ContractInv ==
    ContractTypeOK /\ StorageIsMetered /\ uneven <= usage.bytes /\ (freed => uneven = 0)

LEMMA ContractArith ==
    /\ EntrySize \in Nat \ {0} /\ MaxStorage \in Nat /\ MaxBurst \in Nat /\ TtlWindow \in Nat
    /\ MaxLedgerTime \in Nat \ {0} /\ CountRange \in Nat /\ MaxStorage < CountRange
    /\ IsFiniteSet(BatchIds)
BY ContractAssumption

LEMMA EntriesWithin ==
    ASSUME NEW bytes \in Nat
    PROVE  /\ Entries(bytes) \in Nat
           /\ bytes % EntrySize \in 0..EntrySize - 1
           /\ bytes = Entries(bytes) * EntrySize + (bytes % EntrySize)
<1> DEFINE q == bytes \div EntrySize
<1>1. q \in Nat /\ bytes % EntrySize \in 0..EntrySize - 1 /\ bytes = EntrySize * q + (bytes % EntrySize)
  BY DivMod, ContractArith
<1>2. EntrySize * q = q * EntrySize
  <2> HIDE DEF q
  <2> QED BY <1>1, ContractArith
<1> QED BY <1>1, <1>2 DEF Entries

LEMMA EntriesOfBatch ==
    ASSUME NEW n \in Nat
    PROVE  n * EntrySize \in Nat /\ (n * EntrySize) % EntrySize = 0 /\ Entries(n * EntrySize) = n
BY ContractArith DEF Entries

\* A number of entries is no more than their bytes.
LEMMA EntriesFit ==
    ASSUME NEW n \in Nat, NEW m \in Nat, n * EntrySize <= m
    PROVE  n <= m
<1>1. n * EntrySize >= n
  BY ContractArith
<1> QED BY <1>1, ContractArith

LEMMA EntriesAdd ==
    ASSUME NEW c \in Nat, NEW d \in Nat
    PROVE  /\ (c + d) * EntrySize = c * EntrySize + d * EntrySize
           /\ (c + 1) * (EntrySize - 1) = c * (EntrySize - 1) + (EntrySize - 1)
           /\ c * EntrySize \in Nat /\ c * (EntrySize - 1) \in Nat
BY ContractArith

\* usage and history after an allocation that fits.
LEMMA AllocatedIs ==
    ASSUME ContractInv, NEW bytes \in Nat, usage.bytes + bytes <= MaxStorage,
           usage' = Allocated(bytes),
           uneven' = IF freed \/ bytes % EntrySize = 0 THEN uneven ELSE uneven + 1,
           freed' = freed
    PROVE  /\ usage' \in [bytes : Amounts, entries : 0..CountRange - 1]
           /\ usage'.bytes = usage.bytes + bytes /\ usage'.bytes <= MaxStorage
           /\ uneven' \in Amounts /\ uneven' <= usage'.bytes /\ (freed' => uneven' = 0)
           /\ EntriesFallShort'
<1> DEFINE q == Entries(bytes)
<1> DEFINE e == usage.entries + q
<1>1. /\ usage.bytes \in Nat /\ usage.bytes <= MaxStorage /\ usage.entries \in Nat /\ q \in Nat
      /\ uneven \in Nat /\ uneven <= usage.bytes /\ freed \in BOOLEAN
  BY EntriesWithin, ContractArith DEF ContractInv, ContractTypeOK, Amounts
<1>2. /\ usage' = [bytes |-> usage.bytes + bytes, entries |-> e % CountRange]
      /\ usage.bytes + bytes \in Amounts /\ e % CountRange \in 0..CountRange - 1
  BY <1>1, ContractArith DEF Allocated, Amounts
<1>3. uneven' \in Amounts /\ uneven' <= usage'.bytes /\ (freed' => uneven' = 0)
  <2>1. bytes % EntrySize # 0 => bytes >= 1
    BY ContractArith
  <2>2. usage'.bytes = usage.bytes + bytes
    BY <1>2
  <2> QED BY <1>1, <1>2, <2>1, <2>2, ContractArith DEF Amounts, ContractInv
<1>4. ASSUME ~freed
      PROVE  /\ (e % CountRange) * EntrySize <= usage.bytes + bytes
             /\ usage.bytes + bytes <= (e % CountRange) * EntrySize + uneven' * (EntrySize - 1)
  <2>1. /\ usage.entries * EntrySize <= usage.bytes
        /\ usage.bytes <= usage.entries * EntrySize + uneven * (EntrySize - 1)
    BY <1>4 DEF ContractInv, StorageIsMetered, EntriesFallShort
  <2>2. bytes = q * EntrySize + (bytes % EntrySize) /\ bytes % EntrySize \in 0..EntrySize - 1
    BY EntriesWithin
  <2>3. uneven' * (EntrySize - 1) =
           uneven * (EntrySize - 1) + (IF bytes % EntrySize = 0 THEN 0 ELSE EntrySize - 1)
    BY <1>1, <1>4, EntriesAdd, ContractArith
  <2> HIDE DEF q
  <2>4. /\ e * EntrySize = usage.entries * EntrySize + q * EntrySize
        /\ usage.entries * EntrySize \in Nat /\ q * EntrySize \in Nat
        /\ uneven * (EntrySize - 1) \in Nat
    BY <1>1, EntriesAdd
  <2>5. e \in Nat
    BY <1>1
  <2> HIDE DEF e
  <2>6. e * EntrySize <= usage.bytes + bytes
    <3> DEFINE ue == usage.entries * EntrySize
               qe == q * EntrySize
               rest == bytes % EntrySize
    <3>1. /\ ue <= usage.bytes /\ bytes = qe + rest /\ rest \in 0..EntrySize - 1
          /\ e * EntrySize = ue + qe /\ ue \in Nat /\ qe \in Nat
      BY <2>1, <2>2, <2>4
    <3> HIDE DEF ue, qe, rest
    <3> DEFINE ee == e * EntrySize
    <3>2. ee = ue + qe /\ rest >= 0 /\ rest \in Int
      BY <3>1, ContractArith
    <3> HIDE DEF ee
    <3>3. ee <= usage.bytes + bytes
      BY <1>1, <3>1, <3>2
    <3> QED BY <3>3 DEF ee
  <2>7. usage.bytes + bytes <= e * EntrySize + uneven' * (EntrySize - 1)
    <3> DEFINE ue == usage.entries * EntrySize
               qe == q * EntrySize
               rest == bytes % EntrySize
               un == uneven * (EntrySize - 1)
               step == IF rest = 0 THEN 0 ELSE EntrySize - 1
    <3>1. /\ usage.bytes <= ue + un /\ bytes = qe + rest /\ rest \in 0..EntrySize - 1
          /\ e * EntrySize = ue + qe /\ uneven' * (EntrySize - 1) = un + step
          /\ ue \in Nat /\ qe \in Nat /\ un \in Nat
      BY <2>1, <2>2, <2>3, <2>4
    <3>2. rest <= step /\ rest \in Nat /\ step \in Nat
      BY <3>1, ContractArith
    <3> DEFINE ee == e * EntrySize
               more == uneven' * (EntrySize - 1)
    <3>3. ee = ue + qe /\ more = un + step
      BY <3>1
    <3> HIDE DEF ue, qe, rest, un, step, ee, more
    <3>4. usage.bytes + bytes <= ee + more
      BY <1>1, <3>1, <3>2, <3>3
    <3> QED BY <3>4 DEF ee, more
  <2>8. e <= usage.bytes + bytes
    BY <1>1, <2>5, <2>6, EntriesFit
  <2>9. e % CountRange = e
    BY <1>1, <2>5, <2>8, ContractArith
  <2> QED BY <2>6, <2>7, <2>9
<1>5. EntriesFallShort'
  BY <1>2, <1>4 DEF EntriesFallShort
<1>6. usage' \in [bytes : Amounts, entries : 0..CountRange - 1] /\ usage'.bytes = usage.bytes + bytes
  BY <1>2
<1> QED BY <1>3, <1>5, <1>6

-----------------------------------------------------------------------------
\* What lies under the batch ids, in bytes, if s is stored.
Metered(s) == MapThenSumSet(LAMBDA b : s[b] * EntrySize, BatchIds)

BytesOf(s) == [b \in BatchIds |-> s[b] * EntrySize]

LEMMA MeteredNow == StoredIsMetered <=> Metered(CoveredEvents) <= usage.bytes
BY Zenon DEF StoredIsMetered, Metered

LEMMA MeteredNext == StoredIsMetered' <=> Metered(CoveredEvents') <= usage'.bytes
<1>1. (StoredIsMetered <=> Metered(CoveredEvents) <= usage.bytes)'
  BY MeteredNow, PTL
<1> QED BY <1>1

\* The sum the property states is the sum of that function.
LEMMA MeteredIsSum == ASSUME NEW t PROVE Metered(t) = SumOf(BytesOf(t), BatchIds)
<1> DEFINE f == BytesOf(t)
<1> DEFINE Recursion(g) == [s \in SUBSET BatchIds |->
                         IF s = {} THEN 0 ELSE t[OneOf(s)] * EntrySize + g[s \ {OneOf(s)}]]
<1>1. Metered(t) = (CHOOSE g : g = Recursion(g))[BatchIds]
  BY Zenon DEF Metered, MapThenSumSet, MapThenFoldSet, OneOf
<1>2. ASSUME NEW g PROVE Recursion(g) = SumStep(f, BatchIds, g)
  <2>1. ASSUME NEW s \in SUBSET BatchIds, s # {} PROVE f[OneOf(s)] = t[OneOf(s)] * EntrySize
    <3>1. OneOf(s) \in BatchIds
      BY <2>1 DEF OneOf
    <3> QED BY <3>1 DEF BytesOf
  <2> HIDE DEF f
  <2> QED BY <2>1 DEF SumStep
<1>3. (CHOOSE g : g = Recursion(g)) = Sums(f, BatchIds)
  <2> HIDE DEF f, Recursion
  <2> QED BY <1>2, Zenon DEF Sums
<1> QED BY <1>1, <1>3, SumIs

LEMMA MeteredTypes ==
    ASSUME ContractInv
    PROVE  /\ CoveredEvents \in [BatchIds -> 0..MaxBurst]
           /\ BytesOf(CoveredEvents) \in [BatchIds -> Nat] /\ Metered(CoveredEvents) \in Nat
<1>1. CoveredEvents \in [BatchIds -> 0..MaxBurst]
  BY ContractArith DEF ContractInv, ContractTypeOK, CoveredEvents
<1>2. BytesOf(CoveredEvents) \in [BatchIds -> Nat]
  <2> SUFFICES ASSUME NEW b \in BatchIds PROVE CoveredEvents[b] * EntrySize \in Nat
    BY DEF BytesOf
  <2>1. CoveredEvents[b] \in Nat
    BY <1>1, ContractArith
  <2> QED BY <2>1, EntriesOfBatch
<1> QED BY <1>1, <1>2, MeteredIsSum, SumIsNat, ContractArith

\* No batch is covered, and the sum is 0.
LEMMA NothingCovered == ASSUME covered = {} PROVE Metered(CoveredEvents) = 0
<1>1. \A b \in BatchIds : BytesOf(CoveredEvents)[b] = 0
  BY ContractArith DEF CoveredEvents, BytesOf
<1> QED BY <1>1, ContractArith, SumOfNothing, MeteredIsSum

LEMMA NothingCoveredNext == ASSUME covered' = {} PROVE Metered(CoveredEvents') = 0
<1>1. \A b \in BatchIds : BytesOf(CoveredEvents')[b] = 0
  BY ContractArith DEF CoveredEvents, BytesOf
<1> QED BY <1>1, ContractArith, SumOfNothing, MeteredIsSum

LEMMA ContractInitInv == ContractInit => ContractInv
<1> SUFFICES ASSUME ContractInit PROVE ContractInv
  OBVIOUS
<1>1. ContractTypeOK
  <2>1. 0 \in Amounts /\ 0 \in 0..CountRange - 1 /\ 0 \in 0..MaxBurst
        /\ 0 \in 0..MaxLedgerTime + TtlWindow /\ 1 \in 1..MaxLedgerTime
    BY ContractArith DEF Amounts
  <2> QED BY <2>1 DEF ContractInit, ContractTypeOK
<1>2. EntriesFallShort /\ usage.bytes <= MaxStorage /\ uneven <= usage.bytes /\ (freed => uneven = 0)
  BY ContractArith DEF ContractInit, EntriesFallShort
<1>3. StoredIsMetered
  BY NothingCovered, MeteredNow DEF ContractInit
<1> QED BY <1>1, <1>2, <1>3 DEF ContractInv, StorageIsMetered

LEMMA AllocateInv == ASSUME ContractInv, NEW bytes \in Amounts, Allocate(bytes) PROVE ContractInv'
<1>1. /\ bytes \in Nat /\ usage.bytes \in Nat /\ usage.bytes + bytes <= MaxStorage
      /\ usage' = Allocated(bytes)
      /\ uneven' = IF freed \/ bytes % EntrySize = 0 THEN uneven ELSE uneven + 1
      /\ UNCHANGED <<ledgerTime, deadline, stored, freed, covered>>
  BY ContractArith DEF Allocate, ContractInv, ContractTypeOK, Amounts
<1>2. /\ usage' \in [bytes : Amounts, entries : 0..CountRange - 1]
      /\ usage'.bytes = usage.bytes + bytes /\ usage'.bytes <= MaxStorage
      /\ uneven' \in Amounts /\ uneven' <= usage'.bytes /\ (freed' => uneven' = 0)
      /\ EntriesFallShort'
  BY <1>1, AllocatedIs
<1>3. ContractTypeOK'
  BY <1>1, <1>2 DEF ContractInv, ContractTypeOK
<1>4. StoredIsMetered'
  <2>1. Metered(CoveredEvents) <= usage.bytes
    BY MeteredNow DEF ContractInv, StorageIsMetered
  <2>2. CoveredEvents' = CoveredEvents /\ Metered(CoveredEvents) \in Nat
    BY <1>1, MeteredTypes DEF CoveredEvents
  <2> QED BY <1>1, <1>2, <2>1, <2>2, MeteredNext
<1> QED BY <1>2, <1>3, <1>4 DEF ContractInv, StorageIsMetered

LEMMA ResetInv ==
    ASSUME ContractInv, ResetUsage, UNCHANGED <<ledgerTime, deadline, stored>>
    PROVE  ContractInv'
<1>1. /\ usage' = [bytes |-> 0, entries |-> 0]
      /\ freed' = FALSE /\ uneven' = 0 /\ covered' = {}
  BY DEF ResetUsage
<1>2. 0 \in Amounts /\ 0 \in 0..CountRange - 1 /\ usage'.bytes = 0
  BY <1>1, ContractArith DEF Amounts
<1>3. ContractTypeOK'
  BY <1>1, <1>2 DEF ContractInv, ContractTypeOK
<1>4. EntriesFallShort' /\ usage'.bytes <= MaxStorage /\ uneven' <= usage'.bytes
  BY <1>1, ContractArith DEF EntriesFallShort
<1>5. StoredIsMetered'
  BY <1>1, <1>2, NothingCoveredNext, MeteredNext
<1> QED BY <1>1, <1>3, <1>4, <1>5 DEF ContractInv, StorageIsMetered

LEMMA DeallocateInv == ASSUME ContractInv, NEW bytes \in Amounts, Deallocate(bytes) PROVE ContractInv'
<1>1. CASE ResetUsage
  BY <1>1, ResetInv DEF Deallocate
<1>2. CASE ~ResetUsage
  <2> DEFINE e == usage.entries - Entries(bytes)
  <2>1. /\ bytes <= usage.bytes
        /\ usage' = [bytes |-> usage.bytes - bytes, entries |-> e % CountRange]
        /\ freed' = TRUE /\ uneven' = 0 /\ covered' = {}
        /\ UNCHANGED <<ledgerTime, deadline, stored>>
    BY <1>2 DEF Deallocate
  <2>2. bytes \in Nat /\ usage.bytes \in Nat /\ usage.bytes <= MaxStorage /\ e \in Int
    BY EntriesWithin, ContractArith DEF ContractInv, ContractTypeOK, Amounts
  <2> HIDE DEF e
  <2>3. /\ usage.bytes - bytes \in Amounts /\ usage.bytes - bytes <= MaxStorage
        /\ e % CountRange \in 0..CountRange - 1 /\ 0 \in Amounts /\ 0 <= usage.bytes - bytes
    BY <2>1, <2>2, ContractArith DEF Amounts
  <2>4. ContractTypeOK'
    BY <2>1, <2>3 DEF ContractInv, ContractTypeOK
  <2>5. EntriesFallShort' /\ usage'.bytes <= MaxStorage /\ uneven' <= usage'.bytes
    BY <2>1, <2>3 DEF EntriesFallShort
  <2>6. StoredIsMetered'
    BY <2>1, <2>3, NothingCoveredNext, MeteredNext
  <2> QED BY <2>1, <2>4, <2>5, <2>6 DEF ContractInv, StorageIsMetered
<1> QED BY <1>1, <1>2

LEMMA ProcessInv ==
    ASSUME ContractInv, NEW b \in BatchIds, NEW n \in 0..MaxBurst, ProcessBatch(b, n)
    PROVE  ContractInv'
<1> DEFINE bytes == n * EntrySize
<1>1. n \in Nat /\ bytes \in Nat /\ bytes % EntrySize = 0
  BY ContractArith, EntriesOfBatch
<1>2. /\ usage.bytes + bytes <= MaxStorage
      /\ deadline' = ledgerTime + TtlWindow
      /\ usage' = Allocated(bytes)
      /\ stored' = [stored EXCEPT ![b] = n] /\ covered' = covered \cup {b}
      /\ UNCHANGED <<ledgerTime, freed, uneven>>
  BY DEF ProcessBatch, Fits
<1> HIDE DEF bytes
<1>3. /\ usage' \in [bytes : Amounts, entries : 0..CountRange - 1]
      /\ usage'.bytes = usage.bytes + bytes /\ usage'.bytes <= MaxStorage
      /\ uneven' \in Amounts /\ uneven' <= usage'.bytes /\ (freed' => uneven' = 0)
      /\ EntriesFallShort'
  BY <1>1, <1>2, AllocatedIs
<1>4. usage.bytes \in Nat /\ stored \in [BatchIds -> 0..MaxBurst] /\ stored[b] \in Nat
  BY ContractArith DEF ContractInv, ContractTypeOK, Amounts
<1>5. deadline' \in 0..MaxLedgerTime + TtlWindow
  BY <1>2, ContractArith DEF ContractInv, ContractTypeOK
<1>6. ContractTypeOK'
  BY <1>2, <1>3, <1>5 DEF ContractInv, ContractTypeOK
<1>7. StoredIsMetered'
  <2>1. Metered(CoveredEvents) <= usage.bytes
    BY MeteredNow DEF ContractInv, StorageIsMetered
  <2>2. /\ BytesOf(CoveredEvents') \in [BatchIds -> Nat] /\ BytesOf(CoveredEvents')[b] = bytes
        /\ \A x \in BatchIds \ {b} : BytesOf(CoveredEvents')[x] = BytesOf(CoveredEvents)[x]
    <3>1. \A x \in BatchIds : stored'[x] \in Nat /\ stored'[x] = IF x = b THEN n ELSE stored[x]
      BY <1>1, <1>2, <1>4, ContractArith
    <3>2. \A x \in BatchIds :
             /\ CoveredEvents'[x] \in Nat
             /\ CoveredEvents'[x] = IF x = b THEN n ELSE CoveredEvents[x]
      BY <1>2, <3>1 DEF CoveredEvents
    <3> QED BY <3>2, EntriesOfBatch DEF BytesOf, bytes
  <2>3. Metered(CoveredEvents') =
           Metered(CoveredEvents) - BytesOf(CoveredEvents)[b] + bytes
    BY <2>2, MeteredTypes, MeteredIsSum, SumChanges, ContractArith
  <2>4. BytesOf(CoveredEvents)[b] \in Nat /\ Metered(CoveredEvents) \in Nat
    BY MeteredTypes
  <2>5. /\ Metered(CoveredEvents') <= Metered(CoveredEvents) + bytes
        /\ Metered(CoveredEvents') \in Int
    BY <1>1, <2>3, <2>4
  <2> QED BY <1>1, <1>3, <1>4, <2>1, <2>4, <2>5, MeteredNext
<1> QED BY <1>3, <1>6, <1>7 DEF ContractInv, StorageIsMetered

LEMMA ContractNextInv == ContractInv /\ [ContractNext]_contractVars => ContractInv'
<1> SUFFICES ASSUME ContractInv, [ContractNext]_contractVars PROVE ContractInv'
  OBVIOUS
<1>1. CASE LedgerCloses \/ ExtendTtl \/ UNCHANGED contractVars
  <2>1. /\ UNCHANGED <<usage, stored, freed, uneven, covered>>
        /\ ledgerTime' \in 1..MaxLedgerTime /\ deadline' \in 0..MaxLedgerTime + TtlWindow
    BY <1>1, ContractArith
       DEF LedgerCloses, ExtendTtl, contractVars, usageHistory, ContractInv, ContractTypeOK
  <2>2. /\ ContractTypeOK' /\ EntriesFallShort' /\ usage'.bytes <= MaxStorage
        /\ uneven' <= usage'.bytes /\ (freed' => uneven' = 0)
    BY <2>1 DEF ContractInv, ContractTypeOK, StorageIsMetered, EntriesFallShort
  <2>3. StoredIsMetered'
    <3>1. CoveredEvents' = CoveredEvents
      BY <2>1 DEF CoveredEvents
    <3> QED BY <2>1, <3>1, MeteredNow, MeteredNext DEF ContractInv, StorageIsMetered
  <2> QED BY <2>2, <2>3 DEF ContractInv, StorageIsMetered
<1>2. CASE InitializeStorage
  BY <1>2, ResetInv DEF InitializeStorage
<1> QED BY <1>1, <1>2, AllocateInv, DeallocateInv, ProcessInv DEF ContractNext

\* metered_billing: counters and sums keep their range and their meaning.
THEOREM ContractInductive == ContractSpec => []ContractInv
<1>1. ContractInit => ContractInv
  BY ContractInitInv
<1>2. ContractInv /\ [ContractNext]_contractVars => ContractInv'
  BY ContractNextInv
<1> QED BY <1>1, <1>2, PTL DEF ContractSpec

\* metered_billing storage.rs, telemetry.rs: in whatever amounts storage is
\* allocated and given back, the usage stays within the capacity and covers the
\* batches stored since; up to the first partial return it is short of its
\* entries never, and over them by less than one for each uneven allocation.
THEOREM ContractIsMetered == ContractSpec => []StorageIsMetered
<1>1. ContractInv => StorageIsMetered
  BY DEF ContractInv
<1> QED BY <1>1, ContractInductive, PTL
-----------------------------------------------------------------------------
(***************************************************************************)
(* The runs of MCServices. The fifteen share no state and one of them      *)
(* moves, so a run is one of each of them: what is proved of a service's   *)
(* own specification says of the run what TLC checks there.                *)
(***************************************************************************)
LEMMA AllInitIs ==
    AllInit => /\ LockInit /\ MigrationInit /\ RefreshInit /\ ReorderInit /\ LoginInit
               /\ Init /\ ReassemblerInit /\ NonceInit /\ RecordInit /\ AggregateInit
               /\ BalanceInit /\ SseInit /\ BucketInit /\ ContractInit /\ ListenerInit
BY DEF AllInit

LEMMA AllNextIs ==
    [AllNext]_allVars =>
        /\ [LockNext]_lockVars /\ [MigrationNext]_migrationVars /\ [RefreshNext]_refreshVars
        /\ [ReorderNext]_reorderVars /\ [LoginNext]_loginVars
        /\ [Next]_vars /\ [ReassemblerNext]_reassemblerVars /\ [NonceNext]_nonceVars
        /\ [RecordNext]_recordVars /\ [AggregateNext]_aggregateVars
        /\ [BalanceNext]_balanceVars /\ [SseNext]_sseVars /\ [BucketNext]_bucketVars
        /\ [ContractNext]_contractVars /\ [ListenerNext]_listenerVars
BY DEF AllNext, allVars, SharedVars, TelemetryVars, EdgesVars

\* A service that moves leaves the others where they are: every run is a
\* behaviour of each of the fifteen.
THEOREM ServicesAreEach ==
    AllSpec => /\ LockSpec /\ MigrationSpec /\ RefreshSpec /\ ReorderSpec /\ LoginSpec
               /\ Spec /\ ReassemblerSpec /\ NonceSpec /\ RecordSpec /\ AggregateSpec
               /\ BalanceSpec /\ SseSpec /\ BucketSpec /\ ContractSpec /\ ListenerSpec
BY AllInitIs, AllNextIs, PTL
   DEF AllSpec, LockSpec, MigrationSpec, RefreshSpec, ReorderSpec, LoginSpec, Spec,
       ReassemblerSpec, NonceSpec, RecordSpec, AggregateSpec, BalanceSpec, SseSpec,
       BucketSpec, ContractSpec, ListenerSpec

\* Every variable of every service keeps its type.
THEOREM ServicesTypeCorrect == AllSpec => []TypesHold
<1>1. LockInv => LockTypeOK
  BY DEF LockInv
<1>2. MigrationInv => MigrationTypeOK
  BY DEF MigrationInv
<1>3. ReorderInv => ReorderTypeOK
  BY DEF ReorderInv
<1>4. LoginInv => LoginTypeOK
  BY DEF LoginInv
<1>5. ReassemblerInv => ReassemblerTypeOK
  BY DEF ReassemblerInv, ReassemblerTypeOK, Handed
<1>6. NonceInv => NonceTypeOK
  BY DEF NonceInv
<1>7. RecordInv => RecordTypeOK
  BY DEF RecordInv
<1>8. AggregateInv => AggregateTypeOK
  BY DEF AggregateInv
<1>9. BalanceInv => BalanceTypeOK
  BY DEF BalanceInv
<1>10. SseInv => SseTypeOK
  BY DEF SseInv
<1>11. ContractInv => ContractTypeOK
  BY DEF ContractInv
<1>12. ListenerInv => ListenerTypeOK
  BY DEF ListenerInv
<1>13. /\ LockTypeOK /\ MigrationTypeOK /\ RefreshTypeOK /\ ReorderTypeOK /\ LoginTypeOK
       /\ TypeOK /\ ReassemblerTypeOK /\ NonceTypeOK /\ RecordTypeOK /\ AggregateTypeOK
       /\ BalanceTypeOK /\ SseTypeOK /\ BucketTypeOK /\ ContractTypeOK /\ ListenerTypeOK
       => TypesHold
  BY DEF TypesHold
<1> QED BY <1>1, <1>2, <1>3, <1>4, <1>5, <1>6, <1>7, <1>8, <1>9, <1>10, <1>11, <1>12, <1>13,
           ServicesAreEach, LockInductive, MigrationInductive, RefreshTypeCorrect, ReorderInductive,
           LoginInductive, LogTypeCorrect, ReassemblerInductive, NonceInductive, RecordInductive,
           AggregateInductive, BalanceInductive, SseInductive, BucketTypeCorrect,
           ContractInductive, ListenerInductive, PTL

\* And what was shown of each service holds in every run, with no more than two
\* refreshes of a session at once.
THEOREM ServicesAreSound ==
    ASSUME AtMostTwo
    PROVE  AllSpec => /\ []LockHasOneHolder /\ []MigrationHolds /\ []RefusedOnlyAfterLoss
                      /\ []FramesInOrder /\ []LoginsHold /\ []LogIsSound /\ []ReassemblyHolds
                      /\ []DeliveriesCountOnce /\ []ResyncAnswersItsGap /\ []NothingStaleBehindMark
                      /\ []StreamIsAccountedFor /\ []StorageIsMetered /\ []ListenerHolds
                      /\ QuietReconcileCorrects /\ RateHolds
BY ServicesAreEach, OneHolder, MigrationIsSound, RefusalsAreExplained, FramesAreInOrder,
   LoginsAreLimited, LogHolds, MessagesAreReassembled, DeliveriesAreCountedOnce, ResyncIsSound,
   AggregatesAreFresh, StreamsAreAccountedFor, ContractIsMetered, ListenerIsSound,
   QuietReconcileIsRight, RateIsKept, PTL
=============================================================================
