----------------------------- MODULE EventStore -----------------------------
(***************************************************************************)
(* The per-tenant billing event log (src/ingestion/eventStore.ts):         *)
(* appendEvent as a READ COMMITTED transaction of four statements, each a  *)
(* step, run by many writers; readEvents polled by a billing processor;    *)
(* and writes that bypass appendEvent, which its comment allows for.       *)
(***************************************************************************)
EXTENDS Naturals, Sequences, FiniteSets

CONSTANTS
    Tenants,
    Writers,        \* pool clients that run appendEvent
    LockId,         \* LockId[t]: tenantLockId, a hash: tenants may share a lock
    MaxAttempts,    \* MAX_RETRY_ATTEMPTS
    MaxEvents,      \* bound: committed events of a tenant
    Limit,          \* readEvents' page size
    Nobody, NoTenant

ASSUME EventStoreAssumption ==
    /\ DOMAIN LockId = Tenants
    /\ MaxAttempts \in Nat \ {0}
    /\ MaxEvents \in Nat
    /\ Limit \in Nat \ {0}
    /\ Nobody \notin Writers
    /\ NoTenant \notin Tenants

VARIABLES
    committed,  \* committed[t]: sequence numbers of t's rows, in commit order
    lock,       \* lock[l]: the writer whose transaction holds advisory lock l
    pc,         \* where writer p stands in appendEvent
    tenant,     \* tenant[p]: whose event p appends
    next,       \* next[p]: the number p computed; inserted iff pc[p] = "commit"
    attempt,    \* attempt[p]: conflicts p has met
    page,       \* page[t]: rows readEvents returned that are not handled yet
    cursor,     \* cursor[t]: the last row handled: afterSeq of the next readEvents
    delivered,  \* delivered[t]: numbers the processor has been handed, in order
    direct      \* history: direct[t] counts the bypassing writes to t

writerVars == <<lock, pc, tenant, next, attempt>>
readerVars == <<page, cursor, delivered>>
vars == <<committed, writerVars, readerVars, direct>>

LockIds == {LockId[t] : t \in Tenants}

TypeOK ==
    /\ committed \in [Tenants -> Seq(Nat)]
    /\ lock \in [LockIds -> Writers \cup {Nobody}]
    /\ pc \in [Writers -> {"idle", "lock", "max", "insert", "commit"}]
    /\ tenant \in [Writers -> Tenants \cup {NoTenant}]
    /\ \A p \in Writers : (pc[p] = "idle") <=> (tenant[p] = NoTenant)
    /\ next \in [Writers -> Nat]
    /\ attempt \in [Writers -> 0..MaxAttempts]
    /\ page \in [Tenants -> SUBSET Nat]
    /\ cursor \in [Tenants -> Nat]
    /\ delivered \in [Tenants -> Seq(Nat)]
    /\ direct \in [Tenants -> Nat]

Init ==
    /\ committed = [t \in Tenants |-> <<>>]
    /\ lock = [l \in LockIds |-> Nobody]
    /\ pc = [p \in Writers |-> "idle"]
    /\ tenant = [p \in Writers |-> NoTenant]
    /\ next = [p \in Writers |-> 0]
    /\ attempt = [p \in Writers |-> 0]
    /\ page = [t \in Tenants |-> {}]
    /\ cursor = [t \in Tenants |-> 0]
    /\ delivered = [t \in Tenants |-> <<>>]
    /\ direct = [t \in Tenants |-> 0]

-----------------------------------------------------------------------------
(* Queries. *)

Stored(t) == {committed[t][i] : i \in DOMAIN committed[t]}

\* SELECT COALESCE(MAX(sequence), 0) + 1: only committed rows are visible.
NextSeq(t) == 1 + CHOOSE n \in Stored(t) \cup {0} : \A m \in Stored(t) : m <= n

\* Mutant: pg_try_advisory_xact_lock, its answer not looked at.
LockFreeAlways(t) == TRUE

LockFree(t) == lock[LockId[t]] = Nobody

\* ON CONFLICT (tenant_id, sequence) DO NOTHING
Conflicts(t, n) == n \in Stored(t)

\* An INSERT waits while another transaction has the same row uncommitted.
Blocked(p, t, n) ==
    \E q \in Writers \ {p} : pc[q] = "commit" /\ tenant[q] = t /\ next[q] = n

\* The transaction of p ends: its advisory lock goes with it.
EndTransaction(p) ==
    /\ lock' = [l \in LockIds |-> IF lock[l] = p THEN Nobody ELSE lock[l]]
    /\ pc' = [pc EXCEPT ![p] = "idle"]
    /\ tenant' = [tenant EXCEPT ![p] = NoTenant]
    /\ next' = [next EXCEPT ![p] = 0]
    /\ attempt' = [attempt EXCEPT ![p] = 0]

-----------------------------------------------------------------------------
(* appendEvent. *)

Begin(p, t) ==
    /\ pc[p] = "idle"
    /\ pc' = [pc EXCEPT ![p] = "lock"]
    /\ tenant' = [tenant EXCEPT ![p] = t]
    /\ UNCHANGED <<committed, lock, next, attempt, readerVars, direct>>

\* SELECT pg_advisory_xact_lock($1) waits for the lock.
AcquireLock(p) ==
    /\ pc[p] = "lock"
    /\ LockFree(tenant[p])
    /\ lock' = [lock EXCEPT ![LockId[tenant[p]]] = p]
    /\ pc' = [pc EXCEPT ![p] = "max"]
    /\ UNCHANGED <<committed, tenant, next, attempt, readerVars, direct>>

MayTry(p) == attempt[p] < MaxAttempts

ReadMax(p) ==
    /\ pc[p] = "max"
    /\ MayTry(p)
    /\ next' = [next EXCEPT ![p] = NextSeq(tenant[p])]
    /\ pc' = [pc EXCEPT ![p] = "insert"]
    /\ UNCHANGED <<committed, lock, tenant, attempt, readerVars, direct>>

InsertRow(p) ==
    /\ pc[p] = "insert"
    /\ ~Blocked(p, tenant[p], next[p])
    /\ IF Conflicts(tenant[p], next[p])
       THEN /\ attempt' = [attempt EXCEPT ![p] = @ + 1]
            /\ pc' = [pc EXCEPT ![p] = "max"]
       ELSE /\ pc' = [pc EXCEPT ![p] = "commit"]
            /\ UNCHANGED attempt
    /\ UNCHANGED <<committed, lock, tenant, next, readerVars, direct>>

Commit(p) ==
    /\ pc[p] = "commit"
    /\ Len(committed[tenant[p]]) < MaxEvents
    /\ committed' = [committed EXCEPT ![tenant[p]] = Append(@, next[p])]
    /\ EndTransaction(p)
    /\ UNCHANGED <<readerVars, direct>>

\* ROLLBACK and SequenceConflictError
GiveUp(p) ==
    /\ pc[p] = "max"
    /\ ~MayTry(p)
    /\ EndTransaction(p)
    /\ UNCHANGED <<committed, readerVars, direct>>

\* A statement rejects and the catch block rolls back, or the connection dies.
Abort(p) ==
    /\ pc[p] # "idle"
    /\ EndTransaction(p)
    /\ UNCHANGED <<committed, readerVars, direct>>

-----------------------------------------------------------------------------
(* The rest of the database's users. *)

\* A direct, autocommitted INSERT of MAX(sequence) + 1 without the lock.
DirectWrite(t) ==
    /\ Len(committed[t]) < MaxEvents
    /\ ~Blocked(Nobody, t, NextSeq(t))
    /\ committed' = [committed EXCEPT ![t] = Append(@, NextSeq(t))]
    /\ direct' = [direct EXCEPT ![t] = @ + 1]
    /\ UNCHANGED <<writerVars, readerVars>>

Unread(t) == {n \in Stored(t) : n > cursor[t]}

\* ORDER BY sequence ASC LIMIT n
Page(t) ==
    {n \in Unread(t) : Cardinality({m \in Unread(t) : m < n}) < Limit}

\* The processor asks for the rows after the last one it handled.
ReadEvents(t) ==
    /\ page[t] = {}
    /\ page' = [page EXCEPT ![t] = Page(t)]
    /\ UNCHANGED <<committed, writerVars, cursor, delivered, direct>>

\* It handles a page in the order it came.
HandleEvent(t) ==
    \E n \in page[t] :
        /\ \A m \in page[t] : n <= m
        /\ page' = [page EXCEPT ![t] = @ \ {n}]
        /\ cursor' = [cursor EXCEPT ![t] = n]
        /\ delivered' = [delivered EXCEPT ![t] = Append(@, n)]
        /\ UNCHANGED <<committed, writerVars, direct>>

-----------------------------------------------------------------------------
Next ==
    \/ \E p \in Writers :
          \/ \E t \in Tenants : Begin(p, t)
          \/ AcquireLock(p) \/ ReadMax(p) \/ InsertRow(p) \/ Commit(p)
          \/ GiveUp(p) \/ Abort(p)
    \/ \E t \in Tenants : DirectWrite(t) \/ ReadEvents(t) \/ HandleEvent(t)

Spec == Init /\ [][Next]_vars

-----------------------------------------------------------------------------
(* Properties. *)

\* appendEvent, "unique, dense sequences": the k-th committed event of a tenant
\* carries number k, whoever wrote it and whatever was rolled back in between.
SequenceIsCommitOrder ==
    \A t \in Tenants : \A i \in DOMAIN committed[t] : committed[t][i] = i

\* readEvents, "process events exactly once, in order": what the processor was
\* handed is a prefix of the log; no event commits behind its cursor.
ReaderMissesNothing ==
    \A t \in Tenants :
        /\ cursor[t] = Len(delivered[t])
        /\ Len(delivered[t]) <= Len(committed[t])
        /\ \A i \in DOMAIN delivered[t] : delivered[t][i] = committed[t][i]

\* SequenceConflictError, "should never happen in practice because the advisory
\* lock serialises": each conflict a writer meets takes a bypassing write, and
\* two writers of one tenant are never past the lock together.
ConflictsNeedDirectWrites ==
    /\ \A p \in Writers : pc[p] # "idle" => attempt[p] <= direct[tenant[p]]
    /\ \A p, q \in Writers :
          /\ {pc[p], pc[q]} \subseteq {"max", "insert", "commit"}
          /\ LockId[tenant[p]] = LockId[tenant[q]]
          => p = q

\* eventStore.ts: the log is dense, read whole, and contended only from outside.
LogIsSound == SequenceIsCommitOrder /\ ReaderMissesNothing /\ ConflictsNeedDirectWrites
=============================================================================
