--------------------------- MODULE IngestionProofs ---------------------------
(***************************************************************************)
(* Proofs about ingestion: the event log, the signed deliveries, the order *)
(* of frames, the fragments of messages, the billing record of a device,   *)
(* the refresh of aggregates and the listener that hears of new events,    *)
(* for any tenants, writers, payloads, submissions, messages, gaps, rows,  *)
(* views and connections.                                                  *)
(***************************************************************************)
EXTENDS EventStore, NonceWindow, RecordLifecycle, AggregateRefresh,
        NotificationListener, ReorderBuffer, FragmentReassembler, SequenceTheorems,
        DataLemmas

-----------------------------------------------------------------------------
(***************************************************************************)
(* Event log. It is dense and read in order for any number of tenants,     *)
(* writers and advisory locks (whatever tenants collide on one), any retry *)
(* limit and any page size. A tenant's rows are 1..n, so a pending row can *)
(* only be n + 1; the unique constraint then allows one pending row, and   *)
(* the advisory lock keeps other writers from making the number stale.     *)
(***************************************************************************)
PastLock == {"max", "insert", "commit"}

\* A writer past the lock holds the lock of its tenant.
LockIsHeld ==
    \A p \in Writers : pc[p] \in PastLock => lock[LockId[tenant[p]]] = p

\* A computed number is at most the next one; an inserted row has the next one.
PendingIsNext ==
    \A p \in Writers :
        /\ pc[p] \in {"insert", "commit"}
              => next[p] \in 1..(Len(committed[tenant[p]]) + 1)
        /\ pc[p] = "commit" => next[p] = Len(committed[tenant[p]]) + 1

\* A number went stale only because of a direct write not yet accounted for.
StaleNeedsDirectWrite ==
    \A p \in Writers :
        /\ pc[p] = "idle" => attempt[p] = 0
        /\ pc[p] # "idle" => attempt[p] <= direct[tenant[p]]
        /\ pc[p] = "insert" /\ next[p] <= Len(committed[tenant[p]])
              => attempt[p] + 1 <= direct[tenant[p]]

\* The loop's condition still holds when the loop's insert runs.
AttemptIsLeft == \A p \in Writers : pc[p] = "insert" => MayTry(p)

\* A page is the run of rows that follows the cursor.
PageFollowsCursor ==
    \A t \in Tenants :
        \E hi \in Nat : /\ cursor[t] <= hi
                        /\ hi <= Len(committed[t])
                        /\ page[t] = (cursor[t] + 1)..hi

DeliveredInOrder ==
    \A t \in Tenants : /\ cursor[t] = Len(delivered[t])
                       /\ \A i \in DOMAIN delivered[t] : delivered[t][i] = i

IInv ==
    /\ TypeOK
    /\ SequenceIsCommitOrder
    /\ LockIsHeld
    /\ PendingIsNext
    /\ StaleNeedsDirectWrite
    /\ AttemptIsLeft
    /\ PageFollowsCursor
    /\ DeliveredInOrder

-----------------------------------------------------------------------------
(* What the queries return on a dense log. *)

LEMMA StoredRows ==
    ASSUME TypeOK, SequenceIsCommitOrder, NEW t \in Tenants
    PROVE  /\ Len(committed[t]) \in Nat
           /\ Stored(t) = 1..Len(committed[t])
<1>1. committed[t] \in Seq(Nat)
  BY DEF TypeOK
<1>2. Len(committed[t]) \in Nat /\ DOMAIN committed[t] = 1..Len(committed[t])
  BY <1>1
<1>3. \A i \in 1..Len(committed[t]) : committed[t][i] = i
  BY <1>2 DEF SequenceIsCommitOrder
<1> QED BY <1>2, <1>3 DEF Stored

LEMMA NextSeqValue ==
    ASSUME TypeOK, SequenceIsCommitOrder, NEW t \in Tenants
    PROVE  NextSeq(t) = Len(committed[t]) + 1
<1> DEFINE L == Len(committed[t])
<1>1. L \in Nat /\ Stored(t) = 1..L
  BY StoredRows
<1> HIDE DEF L
<1>2. \E n \in Stored(t) \cup {0} : \A m \in Stored(t) : m <= n
  <2>1. L \in Stored(t) \cup {0}
    BY <1>1
  <2>2. \A m \in Stored(t) : m <= L
    BY <1>1
  <2> QED BY <2>1, <2>2
<1>3. PICK n \in Stored(t) \cup {0} :
          /\ n = CHOOSE k \in Stored(t) \cup {0} : \A m \in Stored(t) : m <= k
          /\ \A m \in Stored(t) : m <= n
  BY <1>2
<1>4. n = L
  BY <1>1, <1>3
<1>5. NextSeq(t) = 1 + n
  BY <1>3, Zenon DEF NextSeq
<1> QED BY <1>1, <1>4, <1>5 DEF L

LEMMA PageIsRun ==
    ASSUME TypeOK, SequenceIsCommitOrder, NEW t \in Tenants,
           cursor[t] <= Len(committed[t])
    PROVE  \E hi \in Nat : /\ cursor[t] <= hi
                           /\ hi <= Len(committed[t])
                           /\ Page(t) = (cursor[t] + 1)..hi
<1> DEFINE L == Len(committed[t])
           c == cursor[t]
           hi == IF L <= c + Limit THEN L ELSE c + Limit
<1>1. L \in Nat /\ c \in Nat /\ c <= L /\ Limit \in Nat \ {0}
  BY StoredRows, EventStoreAssumption DEF TypeOK
<1>2. Unread(t) = (c + 1)..L
  BY <1>1, StoredRows DEF Unread
<1> HIDE DEF L, c
<1>3. ASSUME NEW n \in (c + 1)..L
      PROVE  Cardinality({m \in Unread(t) : m < n}) = n - 1 - c
  <2>1. {m \in Unread(t) : m < n} = (c + 1)..(n - 1)
    BY <1>1, <1>2
  <2>2. c + 1 \in Int /\ n - 1 \in Int
    BY <1>1
  <2>3. Cardinality((c + 1)..(n - 1))
          = IF c + 1 > n - 1 THEN 0 ELSE (n - 1) - (c + 1) + 1
    BY <2>2, FS_Interval
  <2>4. Cardinality((c + 1)..(n - 1)) = n - 1 - c
    BY <1>1, <2>3
  <2> QED BY <2>1, <2>4, Zenon
<1>4. Page(t) = {n \in (c + 1)..L : n - 1 - c < Limit}
  BY <1>2, <1>3 DEF Page
<1>5. hi \in Nat /\ c <= hi /\ hi <= L
  BY <1>1
<1>6. {n \in (c + 1)..L : n - 1 - c < Limit} = (c + 1)..hi
  BY <1>1
<1> QED BY <1>4, <1>5, <1>6 DEF L, c

\* Two writers past the lock of one tenant are the same writer.
LEMMA LockExcludes ==
    ASSUME LockIsHeld, NEW p \in Writers, NEW q \in Writers,
           pc[p] \in PastLock, pc[q] \in PastLock,
           LockId[tenant[p]] = LockId[tenant[q]]
    PROVE  p = q
BY DEF LockIsHeld

-----------------------------------------------------------------------------
(* The invariant is inductive. *)

LEMMA InitIInv == ASSUME Init PROVE IInv
<1> USE EventStoreAssumption DEF Init
<1>1. TypeOK
  BY DEF TypeOK, LockIds
<1>2. SequenceIsCommitOrder /\ LockIsHeld /\ PendingIsNext /\ StaleNeedsDirectWrite /\ AttemptIsLeft
  BY DEF SequenceIsCommitOrder, LockIsHeld, PendingIsNext, StaleNeedsDirectWrite,
         AttemptIsLeft, PastLock
<1>3. PageFollowsCursor
  <2> SUFFICES ASSUME NEW t \in Tenants
               PROVE  \E hi \in Nat : /\ cursor[t] <= hi
                                      /\ hi <= Len(committed[t])
                                      /\ page[t] = (cursor[t] + 1)..hi
    BY DEF PageFollowsCursor
  <2>1. cursor[t] <= 0 /\ 0 <= Len(committed[t]) /\ page[t] = (cursor[t] + 1)..0
    OBVIOUS
  <2> QED BY <2>1
<1>4. DeliveredInOrder
  BY DEF DeliveredInOrder
<1> QED BY <1>1, <1>2, <1>3, <1>4 DEF IInv

\* Ending a transaction leaves every other writer as it was, locks included.
LEMMA EndTransactionEffect ==
    ASSUME TypeOK, NEW p \in Writers, pc[p] # "idle", EndTransaction(p)
    PROVE  /\ lock' \in [LockIds -> Writers \cup {Nobody}]
           /\ pc' \in [Writers -> {"idle", "lock", "max", "insert", "commit"}]
           /\ tenant' \in [Writers -> Tenants \cup {NoTenant}]
           /\ \A q \in Writers : (pc'[q] = "idle") <=> (tenant'[q] = NoTenant)
           /\ next' \in [Writers -> Nat]
           /\ attempt' \in [Writers -> 0..MaxAttempts]
           /\ pc'[p] = "idle" /\ attempt'[p] = 0
           /\ \A q \in Writers \ {p} :
                 /\ pc'[q] = pc[q] /\ tenant'[q] = tenant[q]
                 /\ next'[q] = next[q] /\ attempt'[q] = attempt[q]
           /\ \A l \in LockIds : lock[l] # p => lock'[l] = lock[l]
BY EventStoreAssumption DEF TypeOK, EndTransaction

\* A tenant's log grows by its next number: what that does to the rows.
LEMMA AppendKeepsOrder ==
    ASSUME TypeOK, SequenceIsCommitOrder, NEW t \in Tenants,
           committed' = [committed EXCEPT ![t] = Append(@, Len(committed[t]) + 1)]
    PROVE  /\ committed' \in [Tenants -> Seq(Nat)]
           /\ SequenceIsCommitOrder'
           /\ Len(committed'[t]) = Len(committed[t]) + 1
           /\ \A u \in Tenants \ {t} : committed'[u] = committed[u]
<1>1. committed \in [Tenants -> Seq(Nat)] /\ committed[t] \in Seq(Nat)
  BY DEF TypeOK
<1>2. Len(committed[t]) + 1 \in Nat
  BY <1>1
<1>3. committed'[t] = Append(committed[t], Len(committed[t]) + 1)
  BY <1>1
<1>4. committed'[t] \in Seq(Nat) /\ Len(committed'[t]) = Len(committed[t]) + 1
  BY <1>1, <1>2, <1>3
<1>5. \A u \in Tenants \ {t} : committed'[u] = committed[u]
  BY <1>1
<1>6. committed' \in [Tenants -> Seq(Nat)]
  BY <1>1, <1>2
<1>7. \A i \in 1..Len(committed[t]) : committed[t][i] = i
  BY <1>1 DEF SequenceIsCommitOrder
<1>8. \A i \in DOMAIN committed'[t] : committed'[t][i] = i
  <2> SUFFICES ASSUME NEW i \in 1..(Len(committed[t]) + 1)
               PROVE  committed'[t][i] = i
    BY <1>4
  <2>1. CASE i = Len(committed[t]) + 1
    BY <2>1, <1>1, <1>3
  <2>2. CASE i \in 1..Len(committed[t])
    BY <2>2, <1>1, <1>3, <1>7
  <2> QED BY <2>1, <2>2, <1>1
<1>9. SequenceIsCommitOrder'
  BY <1>5, <1>8 DEF SequenceIsCommitOrder
<1> QED BY <1>4, <1>5, <1>6, <1>9

\* The part that is about readers survives any step that appends to logs only.
LEMMA ReadersUndisturbed ==
    ASSUME IInv, UNCHANGED readerVars,
           \A t \in Tenants : /\ Len(committed'[t]) \in Nat
                             /\ Len(committed[t]) <= Len(committed'[t])
    PROVE  PageFollowsCursor' /\ DeliveredInOrder'
<1>1. DeliveredInOrder'
  BY DEF IInv, DeliveredInOrder, readerVars
<1>2. PageFollowsCursor'
  <2> SUFFICES ASSUME NEW t \in Tenants
               PROVE  \E hi \in Nat : /\ cursor'[t] <= hi
                                      /\ hi <= Len(committed'[t])
                                      /\ page'[t] = (cursor'[t] + 1)..hi
    BY DEF PageFollowsCursor
  <2>1. PICK hi \in Nat : /\ cursor[t] <= hi
                          /\ hi <= Len(committed[t])
                          /\ page[t] = (cursor[t] + 1)..hi
    BY DEF IInv, PageFollowsCursor
  <2>2. Len(committed[t]) \in Nat
    BY StoredRows DEF IInv
  <2>3. hi <= Len(committed'[t])
    BY <2>1, <2>2
  <2> QED BY <2>1, <2>3 DEF readerVars
<1> QED BY <1>1, <1>2

LEMMA LogUnchanged ==
    ASSUME IInv, UNCHANGED committed
    PROVE  /\ SequenceIsCommitOrder'
           /\ \A t \in Tenants : /\ Len(committed'[t]) \in Nat
                                 /\ Len(committed[t]) <= Len(committed'[t])
<1>1. \A t \in Tenants : Len(committed[t]) \in Nat
  BY StoredRows DEF IInv
<1> QED BY <1>1 DEF IInv, SequenceIsCommitOrder

LEMMA BeginIInv ==
    ASSUME IInv, NEW p \in Writers, NEW t \in Tenants, Begin(p, t)
    PROVE  IInv'
<1> USE DEF Begin
<1>1. TypeOK'
  BY EventStoreAssumption DEF IInv, TypeOK, readerVars
<1>2. SequenceIsCommitOrder' /\ PageFollowsCursor' /\ DeliveredInOrder'
  BY LogUnchanged, ReadersUndisturbed
<1>3. LockIsHeld' /\ PendingIsNext' /\ AttemptIsLeft'
  BY DEF IInv, TypeOK, LockIsHeld, PendingIsNext, AttemptIsLeft, MayTry, PastLock
<1>4. StaleNeedsDirectWrite'
  BY DEF IInv, TypeOK, StaleNeedsDirectWrite
<1> QED BY <1>1, <1>2, <1>3, <1>4 DEF IInv

LEMMA AcquireLockIInv ==
    ASSUME IInv, NEW p \in Writers, AcquireLock(p)
    PROVE  IInv'
<1> USE DEF AcquireLock
<1>1. tenant[p] \in Tenants /\ LockId[tenant[p]] \in LockIds
  BY DEF IInv, TypeOK, LockIds
<1>2. TypeOK'
  BY <1>1, EventStoreAssumption DEF IInv, TypeOK, readerVars
<1>3. SequenceIsCommitOrder' /\ PageFollowsCursor' /\ DeliveredInOrder'
  BY LogUnchanged, ReadersUndisturbed
<1>4. LockIsHeld'
  <2>1. \A q \in Writers \ {p} : pc[q] \in PastLock => LockId[tenant[q]] # LockId[tenant[p]]
    BY EventStoreAssumption DEF IInv, LockIsHeld, LockFree
  <2>2. \A q \in Writers : pc[q] \in PastLock => LockId[tenant[q]] \in LockIds
    BY DEF IInv, TypeOK, LockIds, PastLock
  <2> QED BY <1>1, <2>1, <2>2 DEF IInv, TypeOK, LockIsHeld, PastLock
<1>5. PendingIsNext' /\ StaleNeedsDirectWrite' /\ AttemptIsLeft'
  BY DEF IInv, TypeOK, PendingIsNext, StaleNeedsDirectWrite, AttemptIsLeft, MayTry
<1> QED BY <1>2, <1>3, <1>4, <1>5 DEF IInv

LEMMA ReadMaxIInv ==
    ASSUME IInv, NEW p \in Writers, ReadMax(p)
    PROVE  IInv'
<1> USE DEF ReadMax
<1>1. tenant[p] \in Tenants
  BY DEF IInv, TypeOK
<1>2. /\ Len(committed[tenant[p]]) \in Nat
      /\ NextSeq(tenant[p]) = Len(committed[tenant[p]]) + 1
  BY <1>1, StoredRows, NextSeqValue DEF IInv
<1>3. TypeOK'
  BY <1>1, <1>2, EventStoreAssumption DEF IInv, TypeOK, readerVars
<1>4. SequenceIsCommitOrder' /\ PageFollowsCursor' /\ DeliveredInOrder'
  BY LogUnchanged, ReadersUndisturbed
<1>5. LockIsHeld'
  BY DEF IInv, TypeOK, LockIsHeld, PastLock
<1>6. PendingIsNext' /\ StaleNeedsDirectWrite' /\ AttemptIsLeft'
  BY <1>2 DEF IInv, TypeOK, PendingIsNext, StaleNeedsDirectWrite, AttemptIsLeft, MayTry
<1> QED BY <1>3, <1>4, <1>5, <1>6 DEF IInv

LEMMA InsertRowIInv ==
    ASSUME IInv, NEW p \in Writers, InsertRow(p)
    PROVE  IInv'
<1> USE DEF InsertRow
<1>1. /\ tenant[p] \in Tenants
      /\ attempt[p] \in 0..MaxAttempts /\ attempt[p] < MaxAttempts
      /\ next[p] \in 1..(Len(committed[tenant[p]]) + 1)
  BY DEF IInv, TypeOK, AttemptIsLeft, MayTry, PendingIsNext
<1>2. /\ Len(committed[tenant[p]]) \in Nat
      /\ Stored(tenant[p]) = 1..Len(committed[tenant[p]])
  BY <1>1, StoredRows DEF IInv
<1>3. Conflicts(tenant[p], next[p]) => next[p] <= Len(committed[tenant[p]])
  BY <1>2 DEF Conflicts
<1>4. ~Conflicts(tenant[p], next[p]) => next[p] = Len(committed[tenant[p]]) + 1
  BY <1>1, <1>2 DEF Conflicts
<1>5. TypeOK'
  <2>1. attempt' \in [Writers -> 0..MaxAttempts]
    <3>1. attempt[p] + 1 \in 0..MaxAttempts /\ attempt \in [Writers -> 0..MaxAttempts]
      BY <1>1, EventStoreAssumption DEF IInv, TypeOK
    <3> QED BY <3>1
  <2> QED BY <2>1 DEF IInv, TypeOK, readerVars
<1>6. SequenceIsCommitOrder' /\ PageFollowsCursor' /\ DeliveredInOrder'
  BY LogUnchanged, ReadersUndisturbed
<1>7. LockIsHeld'
  BY DEF IInv, TypeOK, LockIsHeld, PastLock
<1>8. PendingIsNext'
  BY <1>1, <1>4 DEF IInv, TypeOK, PendingIsNext
<1>9. StaleNeedsDirectWrite'
  BY SMTT(20), <1>1, <1>3 DEF IInv, TypeOK, StaleNeedsDirectWrite
<1>10. AttemptIsLeft'
  BY DEF IInv, TypeOK, AttemptIsLeft, MayTry
<1> QED BY <1>5, <1>6, <1>7, <1>8, <1>9, <1>10 DEF IInv

LEMMA EndTransactionWriters ==
    ASSUME IInv, NEW p \in Writers, pc[p] # "idle", EndTransaction(p)
    PROVE  /\ LockIsHeld' /\ AttemptIsLeft'
           /\ UNCHANGED <<committed, direct>> =>
                 PendingIsNext' /\ StaleNeedsDirectWrite'
<1>1. /\ pc'[p] = "idle" /\ attempt'[p] = 0
      /\ \A q \in Writers \ {p} :
            /\ pc'[q] = pc[q] /\ tenant'[q] = tenant[q]
            /\ next'[q] = next[q] /\ attempt'[q] = attempt[q]
      /\ \A l \in LockIds : lock[l] # p => lock'[l] = lock[l]
  BY EndTransactionEffect DEF IInv
<1>2. LockIsHeld'
  <2>1. \A q \in Writers : pc[q] \in PastLock => LockId[tenant[q]] \in LockIds
    BY DEF IInv, TypeOK, LockIds, PastLock
  <2> QED BY <1>1, <2>1 DEF IInv, LockIsHeld, PastLock
<1>3. AttemptIsLeft'
  BY <1>1 DEF IInv, AttemptIsLeft, MayTry
<1>4. UNCHANGED <<committed, direct>> => PendingIsNext' /\ StaleNeedsDirectWrite'
  BY <1>1 DEF IInv, PendingIsNext, StaleNeedsDirectWrite
<1> QED BY <1>2, <1>3, <1>4

LEMMA CommitIInv ==
    ASSUME IInv, NEW p \in Writers, Commit(p)
    PROVE  IInv'
<1> USE DEF Commit
<1> DEFINE t == tenant[p]
<1>1. /\ t \in Tenants
      /\ pc[p] # "idle"
      /\ next[p] = Len(committed[t]) + 1
  BY DEF IInv, TypeOK, PendingIsNext
<1>2. /\ Len(committed[t]) \in Nat
      /\ \A u \in Tenants : Len(committed[u]) \in Nat
  BY <1>1, StoredRows DEF IInv
<1> HIDE DEF t
<1>3. committed' = [committed EXCEPT ![t] = Append(@, Len(committed[t]) + 1)]
  BY <1>1 DEF t
<1>4. /\ committed' \in [Tenants -> Seq(Nat)]
      /\ SequenceIsCommitOrder'
      /\ Len(committed'[t]) = Len(committed[t]) + 1
      /\ \A u \in Tenants \ {t} : committed'[u] = committed[u]
  BY <1>1, <1>3, AppendKeepsOrder DEF IInv
<1>5. TypeOK'
  BY <1>1, <1>4, EndTransactionEffect DEF IInv, TypeOK, readerVars
<1>6. PageFollowsCursor' /\ DeliveredInOrder'
  <2>1. \A u \in Tenants : /\ Len(committed'[u]) \in Nat
                           /\ Len(committed[u]) <= Len(committed'[u])
    BY <1>2, <1>4
  <2> QED BY <2>1, ReadersUndisturbed
<1>7. LockIsHeld' /\ AttemptIsLeft'
  BY <1>1, EndTransactionWriters
<1>8. \* No other writer of the tenant has a number: the lock kept it out.
      \A q \in Writers \ {p} : pc[q] \in PastLock => tenant[q] # t
  BY LockExcludes DEF IInv, PastLock, t
<1>9. /\ pc'[p] = "idle" /\ attempt'[p] = 0
      /\ \A q \in Writers \ {p} :
            /\ pc'[q] = pc[q] /\ tenant'[q] = tenant[q]
            /\ next'[q] = next[q] /\ attempt'[q] = attempt[q]
  BY <1>1, EndTransactionEffect DEF IInv
<1>10. \A q \in Writers : pc[q] # "idle" => tenant[q] \in Tenants
  BY DEF IInv, TypeOK
<1>11. PendingIsNext'
  BY SMTT(20), <1>4, <1>8, <1>9, <1>10 DEF IInv, PendingIsNext, PastLock
<1>12. StaleNeedsDirectWrite'
  BY <1>4, <1>8, <1>9, <1>10 DEF IInv, StaleNeedsDirectWrite, PastLock
<1> QED BY <1>4, <1>5, <1>6, <1>7, <1>11, <1>12 DEF IInv

\* GiveUp and Abort: the transaction ends and leaves no row.
LEMMA RollbackIInv ==
    ASSUME IInv, NEW p \in Writers, pc[p] # "idle", EndTransaction(p),
           UNCHANGED <<committed, readerVars, direct>>
    PROVE  IInv'
<1>1. TypeOK'
  BY EndTransactionEffect DEF IInv, TypeOK, readerVars
<1>2. SequenceIsCommitOrder' /\ PageFollowsCursor' /\ DeliveredInOrder'
  BY LogUnchanged, ReadersUndisturbed
<1> QED BY <1>1, <1>2, EndTransactionWriters DEF IInv

LEMMA DirectWriteIInv ==
    ASSUME IInv, NEW t \in Tenants, DirectWrite(t)
    PROVE  IInv'
<1> USE DEF DirectWrite
<1>1. /\ NextSeq(t) = Len(committed[t]) + 1
      /\ \A u \in Tenants : Len(committed[u]) \in Nat
  BY StoredRows, NextSeqValue DEF IInv
<1>2. committed' = [committed EXCEPT ![t] = Append(@, Len(committed[t]) + 1)]
  BY <1>1
<1>3. /\ committed' \in [Tenants -> Seq(Nat)]
      /\ SequenceIsCommitOrder'
      /\ Len(committed'[t]) = Len(committed[t]) + 1
      /\ \A u \in Tenants \ {t} : committed'[u] = committed[u]
  BY <1>2, AppendKeepsOrder DEF IInv
<1>4. /\ direct' \in [Tenants -> Nat]
      /\ direct'[t] = direct[t] + 1
      /\ \A u \in Tenants \ {t} : direct'[u] = direct[u]
  BY DEF IInv, TypeOK
<1>5. TypeOK'
  BY <1>3, <1>4 DEF IInv, TypeOK, writerVars, readerVars
<1>6. PageFollowsCursor' /\ DeliveredInOrder'
  <2>1. \A u \in Tenants : /\ Len(committed'[u]) \in Nat
                           /\ Len(committed[u]) <= Len(committed'[u])
    BY <1>1, <1>3
  <2> QED BY <2>1, ReadersUndisturbed
<1>7. LockIsHeld' /\ AttemptIsLeft'
  BY DEF IInv, LockIsHeld, AttemptIsLeft, MayTry, writerVars
<1>8. \* A direct insert waits for the pending row of the tenant, if there is one.
      \A q \in Writers : ~(pc[q] = "commit" /\ tenant[q] = t)
  BY <1>1, EventStoreAssumption DEF IInv, PendingIsNext, Blocked
<1>9. \A q \in Writers : /\ pc[q] # "idle" => tenant[q] \in Tenants
                         /\ attempt[q] \in Nat /\ next[q] \in Nat
  BY EventStoreAssumption DEF IInv, TypeOK
<1>10. PendingIsNext'
  BY <1>1, <1>3, <1>8, <1>9 DEF IInv, PendingIsNext, writerVars
<1>11. StaleNeedsDirectWrite'
  <2> SUFFICES ASSUME NEW q \in Writers
               PROVE  /\ pc[q] = "idle" => attempt[q] = 0
                      /\ pc[q] # "idle" => attempt[q] <= direct'[tenant[q]]
                      /\ pc[q] = "insert" /\ next[q] <= Len(committed'[tenant[q]])
                            => attempt[q] + 1 <= direct'[tenant[q]]
    BY DEF StaleNeedsDirectWrite, writerVars
  <2>1. CASE tenant[q] = t
    BY <2>1, <1>4, <1>9 DEF IInv, TypeOK, StaleNeedsDirectWrite
  <2>2. CASE tenant[q] # t
    BY <2>2, <1>3, <1>4, <1>9 DEF IInv, StaleNeedsDirectWrite
  <2> QED BY <2>1, <2>2
<1> QED BY <1>3, <1>5, <1>6, <1>7, <1>10, <1>11 DEF IInv

LEMMA ReadEventsIInv ==
    ASSUME IInv, NEW t \in Tenants, ReadEvents(t)
    PROVE  IInv'
<1> USE DEF ReadEvents
<1>1. cursor[t] \in Nat /\ cursor[t] <= Len(committed[t])
  <2>1. PICK hi \in Nat : cursor[t] <= hi /\ hi <= Len(committed[t])
    BY DEF IInv, PageFollowsCursor
  <2>2. Len(committed[t]) \in Nat
    BY StoredRows DEF IInv
  <2> QED BY <2>1, <2>2 DEF IInv, TypeOK
<1>2. PICK hi \in Nat : /\ cursor[t] <= hi
                        /\ hi <= Len(committed[t])
                        /\ Page(t) = (cursor[t] + 1)..hi
  BY <1>1, PageIsRun DEF IInv
<1>3. TypeOK'
  BY <1>1, <1>2 DEF IInv, TypeOK, writerVars
<1>4. SequenceIsCommitOrder' /\ DeliveredInOrder'
  BY DEF IInv, SequenceIsCommitOrder, DeliveredInOrder
<1>5. LockIsHeld' /\ PendingIsNext' /\ StaleNeedsDirectWrite' /\ AttemptIsLeft'
  BY DEF IInv, LockIsHeld, PendingIsNext, StaleNeedsDirectWrite, AttemptIsLeft,
         MayTry, writerVars
<1>6. PageFollowsCursor'
  BY <1>2 DEF IInv, TypeOK, PageFollowsCursor
<1> QED BY <1>3, <1>4, <1>5, <1>6 DEF IInv

LEMMA HandleEventIInv ==
    ASSUME IInv, NEW t \in Tenants, HandleEvent(t)
    PROVE  IInv'
<1>1. PICK n \in page[t] :
          /\ \A m \in page[t] : n <= m
          /\ page' = [page EXCEPT ![t] = @ \ {n}]
          /\ cursor' = [cursor EXCEPT ![t] = n]
          /\ delivered' = [delivered EXCEPT ![t] = Append(@, n)]
          /\ UNCHANGED <<committed, writerVars, direct>>
  BY DEF HandleEvent
<1>2. PICK hi \in Nat : /\ cursor[t] <= hi
                        /\ hi <= Len(committed[t])
                        /\ page[t] = (cursor[t] + 1)..hi
  BY DEF IInv, PageFollowsCursor
<1>3. cursor[t] \in Nat /\ n = cursor[t] + 1 /\ n <= hi
  <2>1. cursor[t] \in Nat
    BY DEF IInv, TypeOK
  <2>2. n \in (cursor[t] + 1)..hi /\ \A m \in (cursor[t] + 1)..hi : n <= m
    BY <1>1, <1>2
  <2> QED BY <1>2, <2>1, <2>2
<1>4. page'[t] = (n + 1)..hi
  <2>1. page'[t] = ((cursor[t] + 1)..hi) \ {n}
    BY <1>1, <1>2 DEF IInv, TypeOK
  <2> QED BY <1>2, <1>3, <2>1
<1>5. /\ delivered[t] \in Seq(Nat)
      /\ Len(delivered[t]) = cursor[t]
      /\ \A i \in 1..cursor[t] : delivered[t][i] = i
  BY <1>3 DEF IInv, TypeOK, DeliveredInOrder
<1>6. /\ delivered'[t] = Append(delivered[t], n)
      /\ cursor'[t] = n
      /\ \A u \in Tenants \ {t} : /\ delivered'[u] = delivered[u]
                                  /\ cursor'[u] = cursor[u]
                                  /\ page'[u] = page[u]
  BY <1>1 DEF IInv, TypeOK
<1>7. TypeOK'
  <2>1. /\ page' \in [Tenants -> SUBSET Nat]
        /\ cursor' \in [Tenants -> Nat]
        /\ delivered' \in [Tenants -> Seq(Nat)]
    BY <1>1, <1>3 DEF IInv, TypeOK
  <2> QED BY <1>1, <2>1 DEF IInv, TypeOK, writerVars
<1>8. DeliveredInOrder'
  <2>1. \A i \in DOMAIN delivered'[t] : delivered'[t][i] = i
    <3> SUFFICES ASSUME NEW i \in 1..(cursor[t] + 1)
                 PROVE  delivered'[t][i] = i
      BY <1>3, <1>5, <1>6
    <3>1. CASE i = cursor[t] + 1
      BY <3>1, <1>3, <1>5, <1>6
    <3>2. CASE i \in 1..cursor[t]
      BY <3>2, <1>3, <1>5, <1>6
    <3> QED BY <3>1, <3>2, <1>3
  <2>2. Len(delivered'[t]) = cursor'[t]
    BY <1>3, <1>5, <1>6
  <2> QED BY <1>6, <2>1, <2>2 DEF IInv, DeliveredInOrder
<1>9. SequenceIsCommitOrder'
  BY <1>1 DEF IInv, SequenceIsCommitOrder
<1>10. LockIsHeld' /\ PendingIsNext' /\ StaleNeedsDirectWrite' /\ AttemptIsLeft'
  BY <1>1 DEF IInv, LockIsHeld, PendingIsNext, StaleNeedsDirectWrite,
              AttemptIsLeft, MayTry, writerVars
<1>11. PageFollowsCursor'
  BY <1>1, <1>2, <1>3, <1>4, <1>6 DEF IInv, PageFollowsCursor
<1> QED BY <1>7, <1>8, <1>9, <1>10, <1>11 DEF IInv

LEMMA StepIInv == ASSUME IInv, [Next]_vars PROVE IInv'
<1>1. CASE \E p \in Writers, t \in Tenants : Begin(p, t)
  BY <1>1, BeginIInv
<1>2. CASE \E p \in Writers : AcquireLock(p) \/ ReadMax(p) \/ InsertRow(p)
  BY <1>2, AcquireLockIInv, ReadMaxIInv, InsertRowIInv
<1>3. CASE \E p \in Writers : Commit(p)
  BY <1>3, CommitIInv
<1>4. CASE \E p \in Writers : GiveUp(p) \/ Abort(p)
  BY <1>4, RollbackIInv DEF GiveUp, Abort
<1>5. CASE \E t \in Tenants : DirectWrite(t) \/ ReadEvents(t) \/ HandleEvent(t)
  BY <1>5, DirectWriteIInv, ReadEventsIInv, HandleEventIInv
<1>6. CASE UNCHANGED vars
  BY <1>6 DEF IInv, vars, writerVars, readerVars, TypeOK, SequenceIsCommitOrder,
              LockIsHeld, PendingIsNext, StaleNeedsDirectWrite, AttemptIsLeft,
              MayTry, PageFollowsCursor, DeliveredInOrder
<1> QED BY <1>1, <1>2, <1>3, <1>4, <1>5, <1>6 DEF Next

-----------------------------------------------------------------------------
(* The theorems. *)

\* IInv holds in every state appendEvent, readEvents and direct writes reach.
THEOREM LogInductive == Spec => []IInv
<1>1. Init => IInv
  BY InitIInv
<1>2. IInv /\ [Next]_vars => IInv'
  BY StepIInv
<1> QED BY <1>1, <1>2, PTL DEF Spec

\* Every variable keeps its type.
THEOREM LogTypeCorrect == Spec => []TypeOK
<1>1. IInv => TypeOK
  BY DEF IInv
<1> QED BY <1>1, LogInductive, PTL

\* The log of every tenant is numbered 1, 2, 3... in the order of the commits.
THEOREM LogIsDense == Spec => []SequenceIsCommitOrder
<1>1. IInv => SequenceIsCommitOrder
  BY DEF IInv
<1> QED BY <1>1, LogInductive, PTL

\* A processor that pages with readEvents handles a prefix of the log.
THEOREM ReaderIsExactlyOnce == Spec => []ReaderMissesNothing
<1>1. IInv => ReaderMissesNothing
  <2> SUFFICES ASSUME IInv, NEW t \in Tenants
               PROVE  /\ cursor[t] = Len(delivered[t])
                      /\ Len(delivered[t]) <= Len(committed[t])
                      /\ \A i \in DOMAIN delivered[t] :
                            delivered[t][i] = committed[t][i]
    BY DEF ReaderMissesNothing
  <2>1. PICK hi \in Nat : cursor[t] <= hi /\ hi <= Len(committed[t])
    BY DEF IInv, PageFollowsCursor
  <2>2. /\ committed[t] \in Seq(Nat) /\ delivered[t] \in Seq(Nat)
        /\ cursor[t] \in Nat /\ cursor[t] = Len(delivered[t])
    BY DEF IInv, TypeOK, DeliveredInOrder
  <2>3. Len(delivered[t]) <= Len(committed[t])
    BY <2>1, <2>2
  <2>4. \A i \in DOMAIN delivered[t] : i \in DOMAIN committed[t]
    BY <2>2, <2>3
  <2> QED BY <2>2, <2>3, <2>4 DEF IInv, DeliveredInOrder, SequenceIsCommitOrder
<1> QED BY <1>1, LogInductive, PTL

\* The advisory lock serialises appendEvent: only direct writes cause conflicts.
THEOREM LockSerialises == Spec => []ConflictsNeedDirectWrites
<1>1. IInv => ConflictsNeedDirectWrites
  BY LockExcludes
     DEF IInv, StaleNeedsDirectWrite, ConflictsNeedDirectWrites, PastLock
<1> QED BY <1>1, LogInductive, PTL

\* eventStore.ts: the log is dense, read whole, and contended only from outside.
THEOREM LogHolds == Spec => []LogIsSound
<1> QED BY LogIsDense, ReaderIsExactlyOnce, LockSerialises, PTL DEF LogIsSound

-----------------------------------------------------------------------------
(***************************************************************************)
(* Signed deliveries. A nonce is remembered for its life from each claim   *)
(* of it, so a claim that is granted comes a window after the others; a    *)
(* payload that is near twice, a window apart, had a stamp ahead of its    *)
(* first claim, or its second call waited.                                 *)
(***************************************************************************)
Claimed == grants \cup unanswered \cup Granting

\* The cache remembers a nonce for a window from each claim of it.
Remembered(g) == g.claimed + NonceLife <= expiry[NonceOf[g.payload]]

\* A call looks first, when the payload's timestamp is near, and claims then.
InTime(g) ==
    /\ g.looked <= g.claimed /\ g.claimed <= tick
    /\ stamp[g.payload] - g.looked \in -NonceLife..NonceLife

ClaimsAreRemembered == ~restarted => \A g \in Claimed : Remembered(g)

ClaimsAreInTime == \A g \in Claimed : InTime(g)

CallsLooked ==
    \A c \in Validations :
       /\ validation[c].at = "none" => validation[c].claimed = 0
       /\ validation[c].at = "claim" =>
             /\ validation[c].looked <= tick /\ validation[c].claimed = 0
             /\ stamp[validation[c].payload] - validation[c].looked \in -NonceLife..NonceLife

\* Of two claims of a nonce the later comes a window after the earlier.
Apart(g, h) ==
    g # h /\ NonceOf[g.payload] = NonceOf[h.payload] /\ g.claimed <= h.claimed
       => g.claimed + NonceLife <= h.claimed

ClaimsAreApart ==
    ~restarted =>
       /\ \A g, h \in Claimed : Apart(g, h)
       /\ \A c, d \in Claiming : c # d => Claim(c) # Claim(d)
       /\ Granting \cap (grants \cup unanswered) = {}

NonceInv == NonceTypeOK /\ ClaimsAreRemembered /\ ClaimsAreInTime /\ CallsLooked /\ ClaimsAreApart

LEMMA NonceArith ==
    /\ NonceLife \in Nat \ {0} /\ MaxTick \in Nat \ {0} /\ RefreshEvery \in Nat \ {0}
    /\ Ticks \subseteq Nat /\ 1 \in Ticks
BY NonceAssumption DEF Ticks

LEMMA CallTypes ==
    ASSUME NonceTypeOK, NEW c \in Validations
    PROVE  /\ validation[c].at \in {"none", "claim", "answer"} /\ validation[c].payload \in Payloads
           /\ validation[c].looked \in Ticks /\ validation[c].claimed \in 0..MaxTick
           /\ validation[c] = [at |-> validation[c].at, payload |-> validation[c].payload,
                               looked |-> validation[c].looked, claimed |-> validation[c].claimed]
           /\ c \in Claiming => Claim(c) \in Claims
<1>1. validation[c] \in [at : {"none", "claim", "answer"}, payload : Payloads, looked : Ticks, claimed : 0..MaxTick]
  BY DEF NonceTypeOK
<1>2. c \in Claiming => validation[c].claimed \in Ticks
  BY <1>1, NonceArith DEF Claiming, Ticks
<1> QED BY <1>1, <1>2 DEF Claim, Claims

LEMMA ClaimedTypes == ASSUME NonceTypeOK PROVE Claimed \subseteq Claims
<1>1. \A c \in Claiming : c \in Validations /\ Claim(c) \in Claims
  BY CallTypes DEF Claiming
<1>2. Granting \subseteq Claims
  BY <1>1 DEF Granting
<1> QED BY <1>2 DEF Claimed, NonceTypeOK

LEMMA NoValidationTypes ==
    /\ NoValidation \in [at : {"none", "claim", "answer"}, payload : Payloads, looked : Ticks, claimed : 0..MaxTick]
    /\ NoValidation.at = "none" /\ NoValidation.claimed = 0
<1>1. (CHOOSE p \in Payloads : TRUE) \in Payloads
  BY NonceAssumption
<1> QED BY <1>1, NonceArith DEF NoValidation

LEMMA NonceInitInv == NonceInit => NonceInv
<1> SUFFICES ASSUME NonceInit PROVE NonceInv
  OBVIOUS
<1>1. NonceTypeOK
  <2>1. 0 \in 0..MaxTick + NonceLife /\ 0 \in 0..RefreshEvery - 1
    BY NonceArith
  <2> QED BY <2>1, NonceArith, NoValidationTypes DEF NonceInit, NonceTypeOK
<1>2. \A c \in Validations : validation[c].at = "none" /\ validation[c].claimed = 0
  BY NoValidationTypes DEF NonceInit
<1>3. Claiming = {} /\ Granting = {} /\ Claimed = {}
  BY <1>2 DEF NonceInit, Claiming, Granting, Claimed
<1> QED
  BY <1>1, <1>2, <1>3 DEF NonceInv, ClaimsAreRemembered, ClaimsAreInTime, CallsLooked, ClaimsAreApart

-----------------------------------------------------------------------------
\* A step that claims nothing: time passes and nothing is forgotten, or all is.
LEMMA NothingClaimed ==
    ASSUME NonceInv, NonceTypeOK', Claimed' \subseteq Claimed, stamp' = stamp, tick <= tick',
           ~restarted' => ~restarted /\ expiry' = expiry
    PROVE  /\ ClaimsAreRemembered' /\ ClaimsAreInTime'
           /\ ~restarted' => \A g, h \in Claimed' : Apart(g, h)
<1>1. \A g \in Claimed' : g \in Claimed /\ g \in Claims
  BY ClaimedTypes DEF NonceInv
<1>2. ClaimsAreRemembered'
  BY <1>1 DEF NonceInv, ClaimsAreRemembered, Remembered
<1>3. ClaimsAreInTime'
  <2> SUFFICES ASSUME NEW g \in Claimed' PROVE InTime(g)'
    BY DEF ClaimsAreInTime
  <2>1. InTime(g) /\ g.looked \in Nat /\ g.claimed \in Nat
    BY <1>1, NonceArith DEF NonceInv, ClaimsAreInTime, Claims
  <2>2. tick \in Nat /\ tick' \in Nat
    BY NonceArith DEF NonceInv, NonceTypeOK
  <2> QED BY <2>1, <2>2 DEF InTime
<1>4. ~restarted' => \A g, h \in Claimed' : Apart(g, h)
  BY <1>1 DEF NonceInv, ClaimsAreApart
<1> QED BY <1>2, <1>3, <1>4

\* A claim that is granted: every claim of its nonce is a window old.
LEMMA GrantedIsApart ==
    ASSUME NonceInv, NEW p \in Payloads, NEW l \in Ticks, Granted(p) # 0, Remember(p),
           NEW g0, g0 = [payload |-> p, looked |-> l, claimed |-> tick],
           l <= tick, stamp[p] - l \in -NonceLife..NonceLife,
           UNCHANGED <<tick, stamp, restarted>>, Claimed' \subseteq Claimed \cup {g0}
    PROVE  /\ Granted(p) = tick /\ expiry' \in [PayloadNonces -> 0..MaxTick + NonceLife]
           /\ ClaimsAreRemembered' /\ ClaimsAreInTime'
           /\ ~restarted => g0 \notin Claimed /\ \A g, h \in Claimed' : Apart(g, h)
<1>1. /\ tick \in Ticks /\ tick \in Nat /\ tick <= MaxTick /\ NonceOf[p] \in PayloadNonces
      /\ expiry \in [PayloadNonces -> 0..MaxTick + NonceLife]
  BY NonceArith, NonceAssumption DEF NonceInv, NonceTypeOK, Ticks
<1>2. Granted(p) = tick /\ expiry[NonceOf[p]] <= tick
  BY DEF Granted
<1>3. expiry' = [expiry EXCEPT ![NonceOf[p]] = tick + NonceLife]
  BY <1>1, <1>2, NonceArith DEF Remember, Until
<1>4. tick + NonceLife \in 0..MaxTick + NonceLife
  BY <1>1, NonceArith
<1>5. expiry' \in [PayloadNonces -> 0..MaxTick + NonceLife]
  BY <1>1, <1>3, <1>4
<1>6. g0.payload = p /\ g0.looked = l /\ g0.claimed = tick
  OBVIOUS
<1>7. \A g \in Claimed : /\ g.payload \in Payloads /\ g.looked \in Nat /\ g.claimed \in Nat
                         /\ NonceOf[g.payload] \in PayloadNonces /\ InTime(g)
  BY ClaimedTypes, NonceArith, NonceAssumption DEF NonceInv, Claims, ClaimsAreInTime
<1>8. ClaimsAreRemembered'
  <2> SUFFICES ASSUME ~restarted, NEW g \in Claimed' PROVE Remembered(g)'
    BY DEF ClaimsAreRemembered
  <2>1. CASE g = g0
    <3>1. expiry'[NonceOf[p]] = tick + NonceLife
      BY <1>1, <1>3
    <3> QED BY <1>1, <1>6, <2>1, <3>1, NonceArith DEF Remembered
  <2>2. CASE g \in Claimed /\ NonceOf[g.payload] = NonceOf[p]
    BY <1>1, <1>3, <1>7, <2>2, NonceArith DEF Remembered, InTime
  <2>3. CASE g \in Claimed /\ NonceOf[g.payload] # NonceOf[p]
    BY <1>1, <1>3, <1>7, <2>3 DEF Remembered, NonceInv, ClaimsAreRemembered
  <2> QED BY <2>1, <2>2, <2>3
<1>9. ClaimsAreInTime'
  <2> SUFFICES ASSUME NEW g \in Claimed' PROVE InTime(g)'
    BY DEF ClaimsAreInTime
  <2>1. CASE g = g0
    <3>1. tick' = tick /\ stamp' = stamp /\ tick <= tick
      BY <1>1
    <3> QED BY <1>6, <2>1, <3>1 DEF InTime
  <2>2. CASE g \in Claimed
    BY <1>7, <2>2 DEF InTime
  <2> QED BY <2>1, <2>2
<1>10. ASSUME ~restarted, NEW g \in Claimed, NonceOf[g.payload] = NonceOf[p]
       PROVE  g.claimed + NonceLife <= tick /\ g.claimed < tick
  <2>1. Remembered(g) /\ expiry[NonceOf[p]] \in Nat
    BY <1>1, <1>10, NonceArith DEF NonceInv, ClaimsAreRemembered
  <2> QED BY <1>1, <1>2, <1>7, <1>10, <2>1, NonceArith DEF Remembered
<1>11. ASSUME ~restarted PROVE g0 \notin Claimed
  BY <1>1, <1>6, <1>10, <1>11
<1>12. ASSUME ~restarted, NEW g \in Claimed', NEW h \in Claimed' PROVE Apart(g, h)
  <2>1. CASE g \in Claimed /\ h \in Claimed
    BY <1>12, <2>1 DEF NonceInv, ClaimsAreApart
  <2>2. CASE g \in Claimed /\ h = g0
    BY <1>6, <1>10, <1>12, <2>2 DEF Apart
  <2>3. CASE g = g0 /\ h \in Claimed
    BY <1>1, <1>6, <1>7, <1>10, <1>12, <2>3 DEF Apart
  <2>4. CASE g = g0 /\ h = g0
    BY <2>4 DEF Apart
  <2> QED BY <2>1, <2>2, <2>3, <2>4
<1> QED BY <1>2, <1>5, <1>8, <1>9, <1>11, <1>12

\* A call that ends leaves what the others claimed as it was.
LEMMA CallEnds ==
    ASSUME NonceInv, NEW c \in Validations, validation' = [validation EXCEPT ![c] = NoValidation]
    PROVE  /\ validation' \in [Validations ->
                 [at : {"none", "claim", "answer"}, payload : Payloads, looked : Ticks, claimed : 0..MaxTick]]
           /\ Claiming' = Claiming \ {c} /\ \A d \in Claiming' : Claim(d)' = Claim(d)
           /\ tick' = tick /\ stamp' = stamp => CallsLooked'
<1>1. \A d \in Validations \ {c} : validation'[d] = validation[d]
  BY DEF NonceInv, NonceTypeOK
<1>2. validation'[c] = NoValidation
  BY DEF NonceInv, NonceTypeOK
<1>3. validation' \in [Validations ->
         [at : {"none", "claim", "answer"}, payload : Payloads, looked : Ticks, claimed : 0..MaxTick]]
  BY NoValidationTypes DEF NonceInv, NonceTypeOK
<1>4. Claiming' = Claiming \ {c} /\ \A d \in Claiming' : Claim(d)' = Claim(d)
  BY <1>1, <1>2, NoValidationTypes DEF Claiming, Claim
<1>5. tick' = tick /\ stamp' = stamp => CallsLooked'
  BY <1>1, <1>2, NoValidationTypes DEF NonceInv, CallsLooked
<1> QED BY <1>3, <1>4, <1>5

LEMMA LookInv == ASSUME NonceInv, NEW c \in Validations, NEW p \in Payloads, Look(c, p) PROVE NonceInv'
<1> DEFINE v == [at |-> "claim", payload |-> p, looked |-> tick, claimed |-> 0]
<1>1. /\ validation' = [validation EXCEPT ![c] = v] /\ Near(p) /\ validation[c].at = "none"
      /\ UNCHANGED <<tick, shared, stamp, expiry, validated, grants, unanswered, restarted>>
  BY DEF Look
<1>2. tick \in Ticks /\ tick \in Nat
  BY NonceArith DEF NonceInv, NonceTypeOK
<1>3. v \in [at : {"none", "claim", "answer"}, payload : Payloads, looked : Ticks, claimed : 0..MaxTick]
      /\ v.at = "claim" /\ v.claimed = 0 /\ v.looked = tick /\ v.payload = p
  BY <1>2, NonceArith
<1>4. validation'[c] = v /\ \A d \in Validations \ {c} : validation'[d] = validation[d]
  BY <1>1 DEF NonceInv, NonceTypeOK
<1>5. NonceTypeOK'
  BY <1>1, <1>3 DEF NonceInv, NonceTypeOK
<1>6. c \notin Claiming
  BY <1>1 DEF NonceInv, CallsLooked, Claiming
<1>7. Claiming' = Claiming /\ \A d \in Claiming : Claim(d)' = Claim(d)
  BY <1>3, <1>4, <1>6 DEF Claiming, Claim
<1>8. Granting' = Granting
  BY <1>7 DEF Granting
<1>9. Claimed' = Claimed
  BY <1>1, <1>8 DEF Claimed
<1>10. ClaimsAreRemembered' /\ ClaimsAreInTime' /\ (~restarted' => \A g, h \in Claimed' : Apart(g, h))
  BY <1>1, <1>2, <1>5, <1>9, NothingClaimed
<1>11. CallsLooked'
  BY <1>1, <1>2, <1>3, <1>4 DEF NonceInv, CallsLooked, Near
<1>12. ClaimsAreApart'
  BY <1>1, <1>7, <1>8, <1>10 DEF NonceInv, ClaimsAreApart
<1> QED BY <1>5, <1>10, <1>11, <1>12 DEF NonceInv

LEMMA ConsumeInv == ASSUME NonceInv, NEW c \in Validations, TryConsume(c) PROVE NonceInv'
<1> DEFINE p == validation[c].payload
<1> DEFINE l == validation[c].looked
<1>1. /\ validation[c].at = "claim" /\ Remember(p)
      /\ UNCHANGED <<tick, shared, stamp, validated, grants, unanswered, restarted>>
      /\ validation' = [validation EXCEPT ![c].at = "answer", ![c].claimed = Granted(p)]
  BY DEF TryConsume
<1>2. p \in Payloads /\ l \in Ticks /\ tick \in Ticks /\ tick \in Nat /\ tick \in 0..MaxTick
  BY CallTypes, NonceArith DEF NonceInv, NonceTypeOK, Ticks
<1>3. l <= tick /\ stamp[p] - l \in -NonceLife..NonceLife /\ c \notin Claiming
  BY <1>1 DEF NonceInv, CallsLooked, Claiming
<1>4. Granted(p) \in 0..MaxTick /\ (Granted(p) # 0 => Granted(p) = tick)
  BY <1>2, NonceArith DEF Granted
<1>5. /\ validation'[c] = [at |-> "answer", payload |-> p, looked |-> l, claimed |-> Granted(p)]
      /\ \A d \in Validations \ {c} : validation'[d] = validation[d]
  BY <1>1, CallTypes DEF NonceInv, NonceTypeOK
<1>6. validation' \in [Validations ->
         [at : {"none", "claim", "answer"}, payload : Payloads, looked : Ticks, claimed : 0..MaxTick]]
  BY <1>1, <1>4 DEF NonceInv, NonceTypeOK
<1>7. CallsLooked'
  <2>1. validation'[c].at = "answer"
    BY <1>5
  <2> QED BY <1>1, <1>5, <2>1 DEF NonceInv, CallsLooked
<1>8. \A d \in Claiming : d # c /\ d \in Claiming' /\ Claim(d)' = Claim(d)
  BY <1>3, <1>5 DEF Claiming, Claim
<1>9. CASE Granted(p) = 0
  <2>1. expiry' = expiry
    BY <1>1, <1>9 DEF Remember
  <2>2. Claiming' = Claiming
    BY <1>5, <1>8, <1>9 DEF Claiming
  <2>3. Granting' = Granting
    BY <1>8, <2>2 DEF Granting
  <2>4. Claimed' = Claimed
    BY <1>1, <2>3 DEF Claimed
  <2>5. NonceTypeOK'
    BY <1>1, <1>6, <2>1 DEF NonceInv, NonceTypeOK
  <2>6. ClaimsAreRemembered' /\ ClaimsAreInTime' /\ (~restarted' => \A g, h \in Claimed' : Apart(g, h))
    BY <1>1, <1>2, <2>1, <2>4, <2>5, NothingClaimed
  <2>7. ClaimsAreApart'
    BY <1>1, <1>8, <2>2, <2>3, <2>6 DEF NonceInv, ClaimsAreApart
  <2> QED BY <1>7, <2>5, <2>6, <2>7 DEF NonceInv
<1>10. CASE Granted(p) # 0
  <2> DEFINE g0 == [payload |-> p, looked |-> l, claimed |-> tick]
  <2>1. Claim(c)' = g0
    BY <1>4, <1>5, <1>10 DEF Claim
  <2>2. Claiming' = Claiming \cup {c}
    BY <1>5, <1>8, <1>10 DEF Claiming
  <2>3. Granting' = Granting \cup {g0}
    <3> HIDE DEF g0
    <3>1. Granting' = {Claim(d)' : d \in Claiming'}
      BY DEF Granting
    <3> QED BY <1>8, <2>1, <2>2, <3>1 DEF Granting
  <2>4. Claimed' = Claimed \cup {g0}
    BY <1>1, <2>3 DEF Claimed
  <2>5. /\ expiry' \in [PayloadNonces -> 0..MaxTick + NonceLife]
        /\ ClaimsAreRemembered' /\ ClaimsAreInTime'
        /\ ~restarted => g0 \notin Claimed /\ \A g, h \in Claimed' : Apart(g, h)
    BY <1>1, <1>2, <1>3, <1>10, <2>4, GrantedIsApart
  <2>6. NonceTypeOK'
    BY <1>1, <1>6, <2>5 DEF NonceInv, NonceTypeOK
  <2>7. ~restarted => \A d \in Claiming : Claim(d) # g0
    BY <2>5 DEF Claimed, Granting
  <2>8. ClaimsAreApart'
    <3> HIDE DEF g0
    <3>1. ASSUME ~restarted PROVE \A d, e \in Claiming' : d # e => Claim(d)' # Claim(e)'
      BY <1>8, <2>1, <2>2, <2>7, <3>1 DEF NonceInv, ClaimsAreApart
    <3>2. ASSUME ~restarted PROVE Granting' \cap (grants' \cup unanswered') = {}
      BY <1>1, <2>3, <2>5, <3>2 DEF NonceInv, ClaimsAreApart, Claimed
    <3> QED BY <1>1, <2>5, <3>1, <3>2 DEF ClaimsAreApart
  <2> QED BY <1>7, <2>5, <2>6, <2>8 DEF NonceInv
<1> QED BY <1>9, <1>10

\* A call that ends with its claim answered, or lost.
LEMMA EndInv ==
    ASSUME NonceInv, NEW c \in Validations, validation' = [validation EXCEPT ![c] = NoValidation],
           UNCHANGED <<tick, shared, stamp, expiry, restarted>>, validated' \in 0..RefreshEvery - 1,
           grants \subseteq grants', unanswered \subseteq unanswered',
           IF c \in Claiming THEN grants' \cup unanswered' = grants \cup unanswered \cup {Claim(c)}
           ELSE grants' \cup unanswered' = grants \cup unanswered
    PROVE  NonceInv'
<1>1. Claiming' = Claiming \ {c} /\ (\A d \in Claiming' : Claim(d)' = Claim(d)) /\ CallsLooked'
  BY CallEnds
<1>2. Granting' = {Claim(d) : d \in Claiming \ {c}}
  BY <1>1 DEF Granting
<1>3. Claimed' \subseteq Claimed
  BY <1>2 DEF Claimed, Granting
<1>4. NonceTypeOK'
  <2>1. grants' \subseteq Claims /\ unanswered' \subseteq Claims
    BY <1>3, ClaimedTypes DEF NonceInv, Claimed
  <2> QED BY <2>1, CallEnds DEF NonceInv, NonceTypeOK
<1>5. ClaimsAreRemembered' /\ ClaimsAreInTime' /\ (~restarted' => \A g, h \in Claimed' : Apart(g, h))
  <2>1. tick <= tick'
    BY NonceArith DEF NonceInv, NonceTypeOK
  <2> QED BY <1>3, <1>4, <2>1, NothingClaimed
<1>6. ClaimsAreApart'
  <2>1. ASSUME ~restarted PROVE \A d, e \in Claiming' : d # e => Claim(d)' # Claim(e)'
    BY <1>1, <2>1 DEF NonceInv, ClaimsAreApart
  <2>2. ASSUME ~restarted PROVE Granting' \cap (grants' \cup unanswered') = {}
    <3> SUFFICES ASSUME NEW d \in Claiming \ {c}, Claim(d) \in grants' \cup unanswered' PROVE FALSE
      BY <1>2
    <3>1. Claim(d) \notin grants \cup unanswered
      BY <2>2 DEF NonceInv, ClaimsAreApart, Granting
    <3>2. c \in Claiming /\ Claim(d) = Claim(c)
      BY <3>1
    <3> QED BY <2>2, <3>2 DEF NonceInv, ClaimsAreApart
  <2> QED BY <1>5, <2>1, <2>2 DEF ClaimsAreApart
<1> QED BY <1>1, <1>4, <1>5, <1>6 DEF NonceInv

LEMMA CountsUp == ASSUME NonceTypeOK PROVE (validated + 1) % RefreshEvery \in 0..RefreshEvery - 1
BY NonceArith DEF NonceTypeOK

LEMMA ValidatedInv == ASSUME NonceInv, NEW c \in Validations, Validated(c) PROVE NonceInv'
<1>1. validated' \in 0..RefreshEvery - 1
  BY CountsUp DEF Validated, CountUp, NonceInv, NonceTypeOK
<1>2. IF c \in Claiming THEN grants' = grants \cup {Claim(c)} ELSE grants' = grants
  BY DEF Validated, Claiming
<1> QED BY <1>1, <1>2, EndInv DEF Validated

LEMMA FailsInv == ASSUME NonceInv, NEW c \in Validations, ValidationFails(c) PROVE NonceInv'
<1>1. IF c \in Claiming THEN unanswered' = unanswered \cup {Claim(c)} ELSE unanswered' = unanswered
  BY DEF ValidationFails, Claiming
<1>2. validated' \in 0..RefreshEvery - 1
  BY DEF ValidationFails, NonceInv, NonceTypeOK
<1> QED BY <1>1, <1>2, EndInv DEF ValidationFails

\* A step that leaves the calls alone.
LEMMA CallsStay ==
    ASSUME validation' = validation
    PROVE  Claiming' = Claiming /\ Granting' = Granting /\ \A c \in Claiming : Claim(c)' = Claim(c)
<1>1. Claiming' = Claiming /\ \A c \in Claiming : Claim(c)' = Claim(c)
  BY DEF Claiming, Claim
<1> QED BY <1>1 DEF Granting

LEMMA SignatureInv == ASSUME NonceInv, NEW p \in Payloads, ValidateSignature(p) PROVE NonceInv'
<1> DEFINE g0 == [payload |-> p, looked |-> tick, claimed |-> tick]
<1>1. Near(p) /\ Remember(p) /\ UNCHANGED <<tick, shared, stamp, validation, unanswered, restarted>>
  BY DEF ValidateSignature
<1>2. tick \in Ticks /\ tick \in Nat /\ tick <= tick
  BY NonceArith DEF NonceInv, NonceTypeOK
<1>3. Claiming' = Claiming /\ Granting' = Granting /\ \A c \in Claiming : Claim(c)' = Claim(c)
  BY <1>1, CallsStay
<1>4. CallsLooked'
  BY <1>1 DEF NonceInv, CallsLooked
<1>5. CASE Granted(p) = 0
  <2>1. UNCHANGED <<grants, validated, expiry>>
    BY <1>5 DEF ValidateSignature, Remember
  <2>2. Claimed' = Claimed
    BY <1>1, <1>3, <2>1 DEF Claimed
  <2>3. NonceTypeOK'
    BY <1>1, <2>1 DEF NonceInv, NonceTypeOK
  <2>4. ClaimsAreRemembered' /\ ClaimsAreInTime' /\ (~restarted' => \A g, h \in Claimed' : Apart(g, h))
    BY <1>1, <1>2, <2>1, <2>2, <2>3, NothingClaimed
  <2>5. ClaimsAreApart'
    BY <1>1, <1>3, <2>1, <2>4 DEF NonceInv, ClaimsAreApart
  <2> QED BY <1>4, <2>3, <2>4, <2>5 DEF NonceInv
<1>6. CASE Granted(p) # 0
  <2>1. grants' = grants \cup {g0} /\ validated' = (validated + 1) % RefreshEvery
    BY <1>6 DEF ValidateSignature, CountUp
  <2>2. Claimed' = Claimed \cup {g0}
    BY <1>1, <1>3, <2>1 DEF Claimed
  <2>3. /\ expiry' \in [PayloadNonces -> 0..MaxTick + NonceLife]
        /\ ClaimsAreRemembered' /\ ClaimsAreInTime'
        /\ ~restarted => g0 \notin Claimed /\ \A g, h \in Claimed' : Apart(g, h)
    BY <1>1, <1>2, <1>6, <2>2, GrantedIsApart DEF Near
  <2>4. NonceTypeOK'
    BY <1>1, <1>2, <2>1, <2>3, CountsUp DEF NonceInv, NonceTypeOK, Claims
  <2>5. ClaimsAreApart'
    <3> HIDE DEF g0
    <3>1. ~restarted => Granting' \cap (grants' \cup unanswered') = {}
      BY <1>1, <1>3, <2>1, <2>3 DEF NonceInv, ClaimsAreApart, Claimed
    <3> QED BY <1>1, <1>3, <2>3, <3>1 DEF NonceInv, ClaimsAreApart
  <2> QED BY <1>4, <2>3, <2>4, <2>5 DEF NonceInv
<1> QED BY <1>5, <1>6

LEMMA PassInv ==
    ASSUME NonceInv, ProcessRestarts \/ Ticking \/ UNCHANGED nonceVars
    PROVE  NonceInv'
<1>1. /\ UNCHANGED <<shared, stamp, validation, grants, unanswered>>
      /\ ~restarted' => ~restarted /\ expiry' = expiry
      /\ tick' \in Ticks /\ tick <= tick' /\ tick \in Nat /\ tick' \in Nat
      /\ validated' \in 0..RefreshEvery - 1
      /\ restarted' \in BOOLEAN /\ expiry' \in [PayloadNonces -> 0..MaxTick + NonceLife]
  <2>1. tick \in Ticks /\ tick \in Nat
    BY NonceArith DEF NonceInv, NonceTypeOK
  <2>2. CASE ProcessRestarts
    BY <2>1, <2>2, NonceArith DEF ProcessRestarts, NonceInv, NonceTypeOK
  <2>3. CASE Ticking
    BY <2>1, <2>3, NonceArith DEF Ticking, NonceInv, NonceTypeOK, Ticks
  <2>4. CASE UNCHANGED nonceVars
    BY <2>1, <2>4, NonceArith DEF nonceVars, NonceInv, NonceTypeOK
  <2> QED BY <2>2, <2>3, <2>4
<1>2. Claiming' = Claiming /\ Granting' = Granting /\ \A c \in Claiming : Claim(c)' = Claim(c)
  BY <1>1, CallsStay
<1>3. NonceTypeOK'
  BY <1>1 DEF NonceInv, NonceTypeOK
<1>4. Claimed' = Claimed
  BY <1>1, <1>2 DEF Claimed
<1>5. ClaimsAreRemembered' /\ ClaimsAreInTime' /\ (~restarted' => \A g, h \in Claimed' : Apart(g, h))
  BY <1>1, <1>3, <1>4, NothingClaimed
<1>6. CallsLooked'
  <2> SUFFICES ASSUME NEW c \in Validations, validation[c].at = "claim"
               PROVE  validation[c].looked <= tick'
    BY <1>1 DEF NonceInv, CallsLooked
  <2>1. validation[c].looked <= tick /\ validation[c].looked \in Nat
    BY CallTypes, NonceArith DEF NonceInv, CallsLooked
  <2> QED BY <1>1, <2>1
<1>7. ClaimsAreApart'
  BY <1>1, <1>2, <1>5 DEF NonceInv, ClaimsAreApart
<1> QED BY <1>3, <1>5, <1>6, <1>7 DEF NonceInv

LEMMA NonceNextInv == NonceInv /\ [NonceNext]_nonceVars => NonceInv'
BY LookInv, ConsumeInv, ValidatedInv, FailsInv, SignatureInv, PassInv DEF NonceNext

\* validator.ts tryConsume: a claim stands for its nonce's life, in every state.
THEOREM NonceInductive == NonceSpec => []NonceInv
<1>1. NonceInit => NonceInv
  BY NonceInitInv
<1>2. NonceInv /\ [NonceNext]_nonceVars => NonceInv'
  BY NonceNextInv
<1> QED BY <1>1, <1>2, PTL DEF NonceSpec

\* validator.ts createValidator: while the cache is not lost, two claims of a
\* nonce are a window apart, however deliveries overlap and answers are lost.
THEOREM DeliveriesAreCountedOnce == NonceSpec => []DeliveriesCountOnce
<1>1. NonceInv => DeliveriesCountOnce
  <2> SUFFICES ASSUME NonceInv, ~restarted, NEW g \in Claimed, NEW h \in Claimed,
                      g # h, NonceOf[g.payload] = NonceOf[h.payload], g.claimed <= h.claimed
               PROVE  /\ g.claimed + NonceLife <= h.claimed
                      /\ g.payload = h.payload => stamp[g.payload] >= g.claimed \/ h.looked < h.claimed
    BY DEF DeliveriesCountOnce, NonceInv, ClaimsAreApart, Claimed
  <2>1. g.claimed + NonceLife <= h.claimed
    BY DEF NonceInv, ClaimsAreApart, Apart
  <2>2. /\ h.looked <= h.claimed /\ stamp[h.payload] - h.looked \in -NonceLife..NonceLife
        /\ g.claimed \in Nat /\ h.claimed \in Nat /\ h.looked \in Nat /\ h.payload \in Payloads
    BY ClaimedTypes, NonceArith DEF NonceInv, ClaimsAreInTime, InTime, Claims
  <2>3. stamp[h.payload] \in Nat
    BY <2>2, NonceArith DEF NonceInv, NonceTypeOK
  <2> QED BY <2>1, <2>2, <2>3, NonceArith
<1> QED BY <1>1, NonceInductive, PTL

-----------------------------------------------------------------------------
(***************************************************************************)
(* Billing record. A resync timer belongs to the gap the record is in, and *)
(* gaps are numbered, so what a timer asks for is asked once.              *)
(***************************************************************************)
\* A timer runs only in a gap, for that gap, and it has not asked yet.
TimerIsOfItsGap ==
    dueAt # 0 => /\ record = "GAP_DETECTED"
                 /\ dueAt = gap.since + ResyncAfter
                 /\ asked[gap.number] = 0

\* Gaps to come have asked for nothing; a gap is counted.
GapsAreNumbered ==
    /\ \A g \in 0..MaxGaps : g > gap.number => asked[g] = 0
    /\ record = "GAP_DETECTED" => gap.number # 0

RecordInv == RecordTypeOK /\ TimerIsOfItsGap /\ GapsAreNumbered /\ ResyncAnswersItsGap

LEMMA RecordInitInv == RecordInit => RecordInv
<1> SUFFICES ASSUME RecordInit PROVE RecordInv
  OBVIOUS
<1>1. /\ gap.number \in {0, 1} /\ gap.since = 1 /\ (record = "GAP_DETECTED" <=> gap.number = 1)
      /\ gap \in [number : 0..MaxGaps, since : 1..MaxHour]
  BY RecordAssumption DEF RecordInit
<1>2. dueAt = IF record = "GAP_DETECTED" THEN gap.since + ResyncAfter ELSE 0
  BY <1>1 DEF RecordInit
<1>3. \A g \in 0..MaxGaps : asked[g] = 0
  BY DEF RecordInit
<1>4. RecordTypeOK
  <2>1. dueAt \in 0..MaxHour + ResyncAfter
    BY <1>1, <1>2, RecordAssumption
  <2>2. asked \in [0..MaxGaps -> Nat] /\ hour \in 1..MaxHour
    BY RecordAssumption DEF RecordInit
  <2> QED BY <1>1, <2>1, <2>2 DEF RecordInit, RecordTypeOK
<1>5. 0 \in 0..MaxGaps
  BY RecordAssumption
<1> QED
  BY <1>1, <1>2, <1>3, <1>4, <1>5 DEF RecordInv, TimerIsOfItsGap, GapsAreNumbered, ResyncAnswersItsGap

LEMMA TransitionInv ==
    ASSUME RecordInv, NEW to \in IngestionState, Transition(to)
    PROVE  RecordInv'
<1>1. CASE to = "GAP_DETECTED"
  <2>1. /\ gap.number < MaxGaps /\ record' = to /\ dueAt' = hour + ResyncAfter
        /\ gap' = [number |-> gap.number + 1, since |-> hour]
        /\ disposed' = FALSE /\ UNCHANGED <<hour, asked>>
    BY <1>1 DEF Transition
  <2>2. gap' \in [number : 0..MaxGaps, since : 1..MaxHour] /\ asked[gap'.number] = 0
    BY <2>1, RecordAssumption DEF RecordInv, RecordTypeOK, GapsAreNumbered
  <2>3. dueAt' = gap'.since + ResyncAfter /\ gap'.number = gap.number + 1 /\ gap.number \in Nat
    BY <2>1 DEF RecordInv, RecordTypeOK
  <2>4. RecordTypeOK'
    <3>1. dueAt' \in 0..MaxHour + ResyncAfter
      BY <2>1, RecordAssumption DEF RecordInv, RecordTypeOK
    <3> QED BY <2>1, <2>2, <3>1 DEF RecordInv, RecordTypeOK
  <2>5. TimerIsOfItsGap' /\ ResyncAnswersItsGap'
    BY <1>1, <2>1, <2>2, <2>3 DEF RecordInv, TimerIsOfItsGap, ResyncAnswersItsGap
  <2>6. GapsAreNumbered'
    BY <2>1, <2>3 DEF RecordInv, GapsAreNumbered
  <2> QED BY <2>4, <2>5, <2>6 DEF RecordInv
<1>2. CASE to # "GAP_DETECTED"
  <2>1. /\ record' = to /\ dueAt' = (IF record = "GAP_DETECTED" THEN 0 ELSE dueAt)
        /\ UNCHANGED <<gap, disposed, hour, asked>>
    BY <1>2 DEF Transition, Cleared
  <2>2. dueAt' = 0
    BY <2>1 DEF RecordInv, TimerIsOfItsGap
  <2> QED
    BY SMTT(20), <1>2, <2>1, <2>2, RecordAssumption
       DEF RecordInv, RecordTypeOK, TimerIsOfItsGap, GapsAreNumbered, ResyncAnswersItsGap
<1> QED BY <1>1, <1>2

LEMMA ResyncInv == ASSUME RecordInv, TriggerAutoResync PROVE RecordInv'
<1>1. /\ record = "GAP_DETECTED" /\ gap.number \in 0..MaxGaps /\ gap.number # 0
      /\ asked[gap.number] = 0 /\ gap.since + ResyncAfter <= hour
  BY DEF TriggerAutoResync, RecordInv, RecordTypeOK, TimerIsOfItsGap, GapsAreNumbered
<1>2. dueAt' = 0 /\ UNCHANGED <<hour, record, disposed, gap>>
  BY DEF TriggerAutoResync
<1>3. asked' = [asked EXCEPT ![gap.number] = 1]
  <2>1. (IF record = "GAP_DETECTED" THEN gap.number ELSE 0) = gap.number
    BY <1>1
  <2>2. asked' = [asked EXCEPT ![gap.number] = asked[gap.number] + 1]
    BY <2>1 DEF TriggerAutoResync
  <2> QED BY <1>1, <2>2
<1>4. RecordTypeOK'
  BY <1>2, <1>3, RecordAssumption DEF RecordInv, RecordTypeOK
<1> QED
  BY <1>1, <1>2, <1>3, <1>4
     DEF RecordInv, RecordTypeOK, TimerIsOfItsGap, GapsAreNumbered, ResyncAnswersItsGap

LEMMA RecordNextInv == RecordInv /\ [RecordNext]_recordVars => RecordInv'
<1> SUFFICES ASSUME RecordInv, [RecordNext]_recordVars PROVE RecordInv'
  OBVIOUS
<1> USE DEF RecordInv, RecordTypeOK, TimerIsOfItsGap, GapsAreNumbered, ResyncAnswersItsGap
<1>1. CASE OnChainRejection
  BY <1>1 DEF OnChainRejection, IngestionState
<1>2. CASE DisposeRecord
  BY SMTT(20), <1>2, RecordAssumption DEF DisposeRecord
<1>3. CASE HourPasses
  BY SMTT(20), <1>3, RecordAssumption DEF HourPasses
<1>4. CASE UNCHANGED recordVars
  BY <1>4 DEF recordVars
<1> QED BY <1>1, <1>2, <1>3, <1>4, TransitionInv, ResyncInv DEF RecordNext

\* state_machine.ts: a resync timer belongs to the gap the record is in.
THEOREM RecordInductive == RecordSpec => []RecordInv
<1>1. RecordInit => RecordInv
  BY RecordInitInv
<1>2. RecordInv /\ [RecordNext]_recordVars => RecordInv'
  BY RecordNextInv
<1> QED BY <1>1, <1>2, PTL DEF RecordSpec

\* state_machine.ts triggerAutoResync: a gap asks for one resync, while it lasts.
THEOREM ResyncIsSound == RecordSpec => []ResyncAnswersItsGap
<1>1. RecordInv => ResyncAnswersItsGap
  BY DEF RecordInv
<1> QED BY <1>1, RecordInductive, PTL

-----------------------------------------------------------------------------
(***************************************************************************)
(* Aggregate refresh. A row behind the mark is in every view, or a call    *)
(* that has it in its window has the view still to come.                   *)
(***************************************************************************)
\* A call that materializes the row, the view v or one before it being next.
Carries(f, r, v) == r \in window[f].rows /\ 1 <= window[f].view /\ window[f].view <= v

RowIsCarried(r) ==
    \A v \in 1..Views : r \in Aged[v] \/ v \in fresh[r] \/ \E f \in RefreshCalls : Carries(f, r, v)

RowsAreCarried == \A r \in visible \ excused : ingested[r] < mark => RowIsCarried(r)

AggregateInv ==
    /\ AggregateTypeOK
    /\ \A f \in RefreshCalls : window[f].view <= Views
    /\ \A r \in visible : ingested[r] # 0
    /\ RowsAreCarried

WindowOf == [view : 0..Views + 1, rows : SUBSET Rows]

LEMMA WindowTypes ==
    ASSUME AggregateInv, NEW f \in RefreshCalls
    PROVE  /\ window[f] = [view |-> window[f].view, rows |-> window[f].rows]
           /\ window \in [RefreshCalls -> WindowOf]
           /\ window[f].view \in 0..Views /\ window[f].view \in Nat /\ window[f].rows \subseteq Rows
           /\ Views \in Nat \ {0} /\ NoCall \in WindowOf /\ NoCall.view = 0 /\ NoCall.rows = {}
<1>1. window[f] \in WindowOf /\ window \in [RefreshCalls -> WindowOf] /\ window[f].view <= Views
  BY DEF AggregateInv, AggregateTypeOK, WindowOf
<1>2. NoCall \in WindowOf /\ NoCall.view = 0 /\ NoCall.rows = {} /\ Views \in Nat \ {0}
  BY AggregateAssumption DEF NoCall, WindowOf
<1>3. window[f].view \in 0..Views
  BY <1>1, <1>2 DEF WindowOf
<1> QED BY <1>1, <1>2, <1>3 DEF WindowOf

\* A step that changes the window of one call to w, and no row.
LEMMA WindowMoves ==
    ASSUME AggregateInv, NEW f \in RefreshCalls, NEW w \in WindowOf, w.view <= Views,
           window' = [window EXCEPT ![f] = w],
           UNCHANGED <<instant, ingested, visible>>, mark' \in 0..MaxInstant,
           excused \subseteq excused', excused' \subseteq Rows, fresh' \in [Rows -> SUBSET (1..Views)],
           \A r \in Rows : fresh[r] \subseteq fresh'[r],
           \* what the call carried is in the views, aged there, still carried or excused
           \A r \in visible \ excused', v \in 1..Views :
              ingested[r] < mark /\ Carries(f, r, v) =>
                 r \in Aged[v] \/ v \in fresh'[r] \/ Carries(f, r, v)',
           \* what the mark passes is excused or carried from the first view on
           \A r \in visible \ excused' :
              ~(ingested[r] < mark) /\ ingested[r] < mark' => r \in w.rows /\ w.view = 1
    PROVE  AggregateInv'
<1>1. \A g \in RefreshCalls : window'[g] = IF g = f THEN w ELSE window[g]
  BY DEF AggregateInv, AggregateTypeOK
<1>2. AggregateTypeOK' /\ \A g \in RefreshCalls : window'[g].view <= Views
  <2>1. window' \in [RefreshCalls -> WindowOf]
    BY DEF AggregateInv, AggregateTypeOK, WindowOf
  <2>2. AggregateTypeOK'
    BY <2>1 DEF AggregateInv, AggregateTypeOK, WindowOf
  <2> QED BY <1>1, <2>2 DEF AggregateInv
<1>3. RowsAreCarried'
  <2> SUFFICES ASSUME NEW r \in visible \ excused', ingested[r] < mark', NEW v \in 1..Views
               PROVE  r \in Aged[v] \/ v \in fresh'[r] \/ \E g \in RefreshCalls : Carries(g, r, v)'
    BY DEF RowsAreCarried, RowIsCarried
  <2>1. r \in Rows /\ r \in visible \ excused
    BY DEF AggregateInv, AggregateTypeOK
  <2>2. CASE ingested[r] < mark
    <3>1. r \in Aged[v] \/ v \in fresh[r] \/ \E g \in RefreshCalls : Carries(g, r, v)
      BY <2>1, <2>2 DEF AggregateInv, RowsAreCarried, RowIsCarried
    <3>2. ASSUME NEW g \in RefreshCalls, g # f, Carries(g, r, v) PROVE Carries(g, r, v)'
      BY <1>1, <3>2 DEF Carries
    <3> QED BY <2>1, <2>2, <3>1, <3>2
  <2>3. CASE ~(ingested[r] < mark)
    <3>1. r \in w.rows /\ w.view = 1
      BY <2>3
    <3>2. Carries(f, r, v)'
      BY <1>1, <3>1 DEF Carries
    <3> QED BY <3>2
  <2> QED BY <2>2, <2>3
<1> QED BY <1>2, <1>3 DEF AggregateInv

LEMMA AggregateInitInv == AggregateInit => AggregateInv
BY AggregateAssumption
   DEF AggregateInit, AggregateInv, AggregateTypeOK, RowsAreCarried, NoCall

LEMMA QueryInv == ASSUME AggregateInv, NEW f \in RefreshCalls, QueryWindow(f) PROVE AggregateInv'
<1>0. /\ window \in [RefreshCalls -> WindowOf]
      /\ window[f] = [view |-> window[f].view, rows |-> window[f].rows]
      /\ window[f].view \in 0..Views /\ window[f].rows \subseteq Rows /\ Views \in Nat \ {0}
      /\ NoCall \in WindowOf /\ NoCall.view = 0 /\ NoCall.rows = {}
  BY WindowTypes
<1> DEFINE w == [view |-> 0, rows |-> {r \in visible : Since(r)}]
<1>1. /\ window[f].view = 0 /\ window[f].rows = {}
      /\ UNCHANGED <<instant, ingested, visible, mark, fresh, excused>>
  BY <1>0 DEF QueryWindow
<1>2. w \in WindowOf /\ w.view <= Views
  BY <1>0 DEF WindowOf, AggregateInv, AggregateTypeOK
<1>3. window' = [window EXCEPT ![f] = w]
  <2>1. window' = [window EXCEPT ![f] = [window[f] EXCEPT !.rows = {r \in visible : Since(r)}]]
    BY DEF QueryWindow
  <2>2. \A R : [window[f] EXCEPT !.rows = R] = [view |-> window[f].view, rows |-> R]
    BY <1>0
  <2>3. [window[f] EXCEPT !.rows = {r \in visible : Since(r)}] = w
    BY <1>1, <2>2
  <2> QED BY <2>1, <2>3
<1>4. mark' \in 0..MaxInstant /\ excused' \subseteq Rows /\ fresh' \in [Rows -> SUBSET (1..Views)]
  BY <1>1 DEF AggregateInv, AggregateTypeOK
<1>5. \A r, v : ~Carries(f, r, v)
  BY <1>1 DEF Carries
<1> QED BY <1>1, <1>2, <1>3, <1>4, <1>5, WindowMoves

LEMMA SetMarkInv == ASSUME AggregateInv, NEW f \in RefreshCalls, SetMark(f) PROVE AggregateInv'
<1>0. /\ window \in [RefreshCalls -> WindowOf]
      /\ window[f] = [view |-> window[f].view, rows |-> window[f].rows]
      /\ window[f].view \in 0..Views /\ window[f].rows \subseteq Rows /\ Views \in Nat \ {0}
      /\ NoCall \in WindowOf /\ NoCall.view = 0 /\ NoCall.rows = {}
  BY WindowTypes
<1> DEFINE w == [view |-> 1, rows |-> window[f].rows]
<1>1. /\ window[f].view = 0 /\ mark' = instant
      /\ excused' = excused \cup {r \in visible \ window[f].rows : Since(r) /\ ingested[r] < instant}
      /\ UNCHANGED <<instant, ingested, visible, fresh>>
  BY DEF SetMark
<1>2. w \in WindowOf /\ w.view <= Views
  BY <1>0 DEF WindowOf
<1>3. window' = [window EXCEPT ![f] = w]
  BY DEF SetMark
<1>4. mark' \in 0..MaxInstant /\ excused' \subseteq Rows /\ fresh' \in [Rows -> SUBSET (1..Views)]
  BY <1>1 DEF AggregateInv, AggregateTypeOK
<1>5. \A r, v : ~Carries(f, r, v)
  BY <1>1 DEF Carries
<1>6. ASSUME NEW r \in visible \ excused', ~(ingested[r] < mark), ingested[r] < mark'
      PROVE  r \in w.rows /\ w.view = 1
  <2>1. r \in Rows /\ ingested[r] \in Nat /\ mark \in Nat
    BY AggregateAssumption DEF AggregateInv, AggregateTypeOK
  <2>2. Since(r)
    BY <1>6, <2>1 DEF Since
  <2>3. r \in window[f].rows
    BY <1>1, <1>6, <2>2
  <2> QED BY <1>6, <2>3
<1> QED BY <1>1, <1>2, <1>3, <1>4, <1>5, <1>6, WindowMoves

LEMMA RefreshViewInv == ASSUME AggregateInv, NEW f \in RefreshCalls, RefreshView(f) PROVE AggregateInv'
<1>0. /\ window \in [RefreshCalls -> WindowOf]
      /\ window[f] = [view |-> window[f].view, rows |-> window[f].rows]
      /\ window[f].view \in 0..Views /\ window[f].rows \subseteq Rows /\ Views \in Nat \ {0}
      /\ NoCall \in WindowOf /\ NoCall.view = 0 /\ NoCall.rows = {}
  BY WindowTypes
<1> DEFINE w == IF window[f].view = Views THEN NoCall
                ELSE [view |-> window[f].view + 1, rows |-> window[f].rows]
<1>1. /\ window[f].view \in 1..Views
      /\ fresh' = [r \in Rows |-> IF r \in window[f].rows \ Aged[window[f].view]
                                  THEN fresh[r] \cup {window[f].view} ELSE fresh[r]]
      /\ UNCHANGED <<instant, ingested, visible, mark, excused>>
  BY DEF RefreshView, Clamped
<1>2. w \in WindowOf /\ w.view <= Views
  BY <1>0, <1>1 DEF WindowOf
<1>3. window' = [window EXCEPT ![f] = w]
  <2>1. CASE window[f].view = Views
    BY <2>1 DEF RefreshView
  <2>2. CASE window[f].view # Views
    <3>1. window' = [window EXCEPT ![f] = [window[f] EXCEPT !.view = window[f].view + 1]]
      BY <2>2 DEF RefreshView
    <3>2. [window[f] EXCEPT !.view = window[f].view + 1]
             = [view |-> window[f].view + 1, rows |-> window[f].rows]
      BY <1>0
    <3> QED BY <2>2, <3>1, <3>2
  <2> QED BY <2>1, <2>2
<1>4. mark' \in 0..MaxInstant /\ excused' \subseteq Rows
  BY <1>1 DEF AggregateInv, AggregateTypeOK
<1>5. fresh' \in [Rows -> SUBSET (1..Views)] /\ \A r \in Rows : fresh[r] \subseteq fresh'[r]
  BY <1>1 DEF AggregateInv, AggregateTypeOK
<1>6. ASSUME NEW r \in visible, NEW v \in 1..Views, Carries(f, r, v)
      PROVE  r \in Aged[v] \/ v \in fresh'[r] \/ Carries(f, r, v)'
  <2>1. r \in window[f].rows /\ r \in Rows /\ window[f].view <= v /\ v \in Nat /\ v <= Views
    BY <1>0, <1>6 DEF Carries
  <2>2. CASE v = window[f].view
    BY <1>1, <2>1, <2>2
  <2>3. CASE v # window[f].view
    <3>1. window[f].view # Views /\ window[f].view + 1 <= v
      BY <1>1, <2>1, <1>0, <2>3
    <3>2. window'[f] = [view |-> window[f].view + 1, rows |-> window[f].rows]
      BY <1>3, <3>1 DEF AggregateInv, AggregateTypeOK
    <3> QED BY <1>1, <2>1, <3>1, <3>2 DEF Carries
  <2> QED BY <2>2, <2>3
<1> HIDE DEF w
<1> QED BY <1>1, <1>2, <1>3, <1>4, <1>5, <1>6, WindowMoves

LEMMA CallFailsInv == ASSUME AggregateInv, NEW f \in RefreshCalls, CallFails(f) PROVE AggregateInv'
<1>0. /\ window \in [RefreshCalls -> WindowOf]
      /\ window[f] = [view |-> window[f].view, rows |-> window[f].rows]
      /\ window[f].view \in 0..Views /\ window[f].rows \subseteq Rows /\ Views \in Nat \ {0}
      /\ NoCall \in WindowOf /\ NoCall.view = 0 /\ NoCall.rows = {}
  BY WindowTypes
<1>1. /\ excused' = IF window[f].view = 0 THEN excused ELSE excused \cup window[f].rows
      /\ window' = [window EXCEPT ![f] = NoCall]
      /\ UNCHANGED <<instant, ingested, visible, mark, fresh>>
  BY DEF CallFails
<1>2. NoCall \in WindowOf /\ NoCall.view <= Views
  BY <1>0
<1>3. mark' \in 0..MaxInstant /\ excused' \subseteq Rows /\ fresh' \in [Rows -> SUBSET (1..Views)]
  BY <1>0, <1>1 DEF AggregateInv, AggregateTypeOK
<1>4. \A r \in visible \ excused', v \in 1..Views : ~Carries(f, r, v)
  BY <1>1 DEF Carries
<1> QED BY <1>1, <1>2, <1>3, <1>4, WindowMoves

LEMMA AggregateNextInv == AggregateInv /\ [AggregateNext]_aggregateVars => AggregateInv'
<1> SUFFICES ASSUME AggregateInv, [AggregateNext]_aggregateVars PROVE AggregateInv'
  OBVIOUS
<1> USE DEF AggregateInv, AggregateTypeOK, RowsAreCarried, RowIsCarried, Carries
<1>1. CASE InstantPasses
  BY <1>1, AggregateAssumption DEF InstantPasses
<1>2. ASSUME NEW r \in Rows, Insert(r) PROVE AggregateInv'
  <2>1. r \notin visible /\ \A q \in Rows \ {r} : ingested'[q] = ingested[q]
    BY <1>2 DEF Insert
  <2>2. AggregateTypeOK'
    BY <1>2 DEF Insert
  <2> QED BY <1>2, <2>1, <2>2 DEF Insert
<1>3. ASSUME NEW r \in Rows, CommitRow(r) PROVE AggregateInv'
  BY <1>3 DEF CommitRow
<1>4. CASE UNCHANGED aggregateVars
  BY <1>4 DEF aggregateVars
<1> QED BY <1>1, <1>2, <1>3, <1>4, QueryInv, SetMarkInv, RefreshViewInv, CallFailsInv DEF AggregateNext

\* pool_manager.ts refreshAggregatesAdaptively: a row behind the mark is in each
\* view, or a call under way carries it there.
THEOREM AggregateInductive == AggregateSpec => []AggregateInv
<1>1. AggregateInit => AggregateInv
  BY AggregateInitInv
<1>2. AggregateInv /\ [AggregateNext]_aggregateVars => AggregateInv'
  BY AggregateNextInv
<1> QED BY <1>1, <1>2, PTL DEF AggregateSpec

\* pool_manager.ts refreshAggregatesAdaptively: when no call runs, nothing behind
\* lastRefreshTime is stale but what failed or came late.
THEOREM AggregatesAreFresh == AggregateSpec => []NothingStaleBehindMark
<1>1. AggregateInv => NothingStaleBehindMark
  BY DEF AggregateInv, RowsAreCarried, RowIsCarried, Carries, NothingStaleBehindMark
<1> QED BY <1>1, AggregateInductive, PTL

-----------------------------------------------------------------------------
(***************************************************************************)
(* Notification listener. Whatever fails, while the listener runs a call   *)
(* is under way, a client listens, or a timer is set for the next call.    *)
(***************************************************************************)
UnderWay == {"timer", "connect", "listen"}

\* One call at a time, and the client is its own.
OneCallAtATime ==
    /\ \A j, k \in Calls : connecting[j] \in UnderWay /\ connecting[k] \in UnderWay => j = k
    /\ \A k \in Calls : /\ connecting[k] \in {"timer", "connect"} => ownClient = 0
                        /\ connecting[k] = "listen" => ownClient = k

\* Stopped, the listener starts nothing new.
StoppedIsIdle ==
    ~active => \A k \in Calls : connecting[k] \notin {"connect", "listen"}

ListenerInv ==
    /\ ListenerTypeOK /\ NeverDeaf /\ ClientsAreReturned
    /\ active => stopping = 0
    /\ ~slipped => OneCallAtATime /\ StoppedIsIdle

CallPlaces == [Calls -> {"unused", "timer", "connect", "listen", "done"}]

\* The next timer is set for a call that was not made.
LEMMA NextIsTimed ==
    ASSUME NEW calls \in CallPlaces, \E k \in Calls : calls[k] = "unused"
    PROVE  \E n \in Calls : calls[n] = "unused" /\ NextTimed(calls) = [calls EXCEPT ![n] = "timer"]
<1> DEFINE Least(k) == calls[k] = "unused" /\ \A j \in 1..k - 1 : calls[j] # "unused"
<1>1. \E k \in Calls : Least(k)
  <2> DEFINE Unused == {k \in Calls : calls[k] = "unused"}
  <2>1. Unused \in SUBSET Nat /\ Unused # {}
    BY DEF Calls
  <2>2. PICK k \in Unused : \A m \in Unused : k <= m
    BY <2>1, LeastNat
  <2>3. ASSUME NEW j \in 1..k - 1 PROVE calls[j] # "unused"
    BY <2>2, ListenerAssumption DEF Calls
  <2> QED BY <2>2, <2>3
<1>2. Least(CHOOSE k \in Calls : Least(k)) /\ (CHOOSE k \in Calls : Least(k)) \in Calls
  BY <1>1, Zenon
<1> QED BY <1>2, Zenon DEF NextTimed

LEMMA ListenerInitInv == ListenerInit => ListenerInv
<1> SUFFICES ASSUME ListenerInit PROVE ListenerInv
  OBVIOUS
<1>1. 1 \in Calls /\ 0 \in 0..MaxConnects
  BY ListenerAssumption DEF Calls
<1>2. ListenerTypeOK /\ ClientsAreReturned /\ (active => stopping = 0)
  BY <1>1 DEF ListenerInit, ListenerTypeOK, ClientsAreReturned
<1>3. NeverDeaf
  BY <1>1 DEF ListenerInit, NeverDeaf
<1>4. OneCallAtATime /\ StoppedIsIdle
  BY DEF ListenerInit, OneCallAtATime, StoppedIsIdle, UnderWay
<1> QED BY <1>2, <1>3, <1>4 DEF ListenerInv

LEMMA TimerInv == ASSUME ListenerInv, NEW k \in Calls, TimerFires(k) PROVE ListenerInv'
BY DEF TimerFires, ListenerInv, ListenerTypeOK, NeverDeaf, ClientsAreReturned,
   OneCallAtATime, StoppedIsIdle, UnderWay

LEMMA ConnectedInv == ASSUME ListenerInv, NEW k \in Calls, Connected(k) PROVE ListenerInv'
<1>1. k \in 0..MaxConnects /\ k # 0
  BY ListenerAssumption DEF Calls
<1> QED
  BY <1>1 DEF Connected, ListenerInv, ListenerTypeOK, NeverDeaf, ClientsAreReturned,
     OneCallAtATime, StoppedIsIdle, UnderWay

LEMMA ListensInv == ASSUME ListenerInv, NEW k \in Calls, Listens(k) PROVE ListenerInv'
BY DEF Listens, ListenerInv, ListenerTypeOK, NeverDeaf, ClientsAreReturned,
   OneCallAtATime, StoppedIsIdle, UnderWay

\* What reconnect() leaves: one more timer while the listener runs, no client.
LEMMA Reconnected ==
    ASSUME ListenerInv, NEW calls \in CallPlaces, Reconnect(calls)
    PROVE  /\ ownClient' = 0 /\ lent' = lent \ {ownClient}
           /\ active => \E n \in Calls : calls[n] = "unused" /\ connecting' = [calls EXCEPT ![n] = "timer"]
           /\ ~active => connecting' = calls
BY NextIsTimed DEF Reconnect, Timed

LEMMA FailedInv == ASSUME ListenerInv, NEW k \in Calls, ConnectOrListenFails(k) PROVE ListenerInv'
<1> DEFINE left == [connecting EXCEPT ![k] = "done"]
<1>1. left \in CallPlaces /\ Reconnect(left) /\ left[k] = "done"
  BY DEF ConnectOrListenFails, CallPlaces, ListenerInv, ListenerTypeOK
<1>2. ownClient' = 0 /\ lent' = lent \ {ownClient}
  BY <1>1, Reconnected
<1>3. CASE active
  <2>1. PICK n \in Calls : left[n] = "unused" /\ connecting' = [left EXCEPT ![n] = "timer"]
    BY <1>1, <1>3, Reconnected
  <2> QED
    BY <1>2, <1>3, <2>1 DEF ConnectOrListenFails, CallPlaces, ListenerInv, ListenerTypeOK, NeverDeaf,
       ClientsAreReturned, OneCallAtATime, StoppedIsIdle, UnderWay
<1>4. CASE ~active
  <2>1. connecting' = left /\ UNCHANGED <<active, live, stopping>>
    BY <1>1, <1>4, Reconnected DEF ConnectOrListenFails
  <2>2. ListenerTypeOK'
    BY ListenerAssumption, <1>1, <1>2, <2>1 DEF ConnectOrListenFails, ListenerInv, ListenerTypeOK, CallPlaces
  <2>3. NeverDeaf' /\ (active => stopping = 0)'
    BY <1>4, <2>1 DEF NeverDeaf
  <2>4. ClientsAreReturned'
    BY <1>2, <1>4, <2>1 DEF ConnectOrListenFails, ListenerInv, ClientsAreReturned
  <2>5. ~slipped' => OneCallAtATime' /\ StoppedIsIdle'
    BY <1>2, <1>4, <2>1
       DEF ConnectOrListenFails, ListenerInv, ListenerTypeOK, OneCallAtATime, StoppedIsIdle, UnderWay
  <2> QED BY <2>2, <2>3, <2>4, <2>5 DEF ListenerInv
<1> QED BY <1>3, <1>4

LEMMA BreaksInv == ASSUME ListenerInv, NEW k \in Calls, ClientBreaks(k) PROVE ListenerInv'
<1>1. connecting \in CallPlaces /\ Reconnect(connecting)
  BY DEF ClientBreaks, CallPlaces, ListenerInv, ListenerTypeOK
<1>2. ownClient' = 0 /\ lent' = lent \ {ownClient}
  BY <1>1, Reconnected
<1>3. k # 0
  BY ListenerAssumption DEF Calls
<1>4. CASE active
  <2>1. PICK n \in Calls : connecting[n] = "unused" /\ connecting' = [connecting EXCEPT ![n] = "timer"]
    BY <1>1, <1>4, Reconnected
  <2> QED
    BY <1>2, <1>3, <1>4, <2>1 DEF ClientBreaks, CallPlaces, ListenerInv, ListenerTypeOK, NeverDeaf,
       ClientsAreReturned, OneCallAtATime, StoppedIsIdle, UnderWay
<1>5. CASE ~active
  <2>1. connecting' = connecting /\ UNCHANGED <<active, stopping>>
    BY <1>1, <1>5, Reconnected DEF ClientBreaks
  <2>2. ListenerTypeOK'
    BY ListenerAssumption, <1>2, <2>1 DEF ClientBreaks, ListenerInv, ListenerTypeOK
  <2>3. NeverDeaf' /\ (active => stopping = 0)'
    BY <1>5, <2>1 DEF NeverDeaf
  <2>4. ClientsAreReturned'
    BY <1>2, <1>5, <2>1 DEF ClientBreaks, ListenerInv, ClientsAreReturned
  <2>5. ~slipped' => OneCallAtATime' /\ StoppedIsIdle'
    BY <1>2, <1>5, <2>1
       DEF ClientBreaks, ListenerInv, ListenerTypeOK, OneCallAtATime, StoppedIsIdle, UnderWay
  <2> QED BY <2>2, <2>3, <2>4, <2>5 DEF ListenerInv
<1> QED BY <1>4, <1>5

LEMMA StopInv == ASSUME ListenerInv, Stop PROVE ListenerInv'
<1>1. ListenerTypeOK'
  BY DEF Stop, ListenerInv, ListenerTypeOK
<1>2. NeverDeaf' /\ (active => stopping = 0)'
  BY DEF Stop, NeverDeaf
<1>3. ClientsAreReturned'
  <2>1. ~slipped' => ~slipped /\ (ownClient = 0 => lent = {})
    BY DEF Stop, ListenerInv, ClientsAreReturned
  <2> QED BY <2>1 DEF Stop, ListenerInv, ClientsAreReturned
<1>4. ~slipped' => OneCallAtATime' /\ StoppedIsIdle'
  BY DEF Stop, ListenerInv, OneCallAtATime, StoppedIsIdle
<1> QED BY <1>1, <1>2, <1>3, <1>4 DEF ListenerInv

LEMMA UnlistensInv == ASSUME ListenerInv, Unlistens PROVE ListenerInv'
<1>1. ~active
  BY DEF Unlistens, ListenerInv
<1>2. ListenerTypeOK'
  <2>1. 0 \in 0..MaxConnects
    BY ListenerAssumption
  <2> QED BY <2>1 DEF Unlistens, ListenerInv, ListenerTypeOK
<1>3. NeverDeaf' /\ (active => stopping = 0)'
  BY <1>1 DEF Unlistens, NeverDeaf
<1>4. ClientsAreReturned'
  BY <1>1 DEF Unlistens, ListenerInv, ClientsAreReturned
<1>5. ~slipped' => OneCallAtATime' /\ StoppedIsIdle'
  BY <1>1 DEF Unlistens, ListenerInv, OneCallAtATime, StoppedIsIdle
<1> QED BY <1>2, <1>3, <1>4, <1>5 DEF ListenerInv

LEMMA ListenerNextInv == ListenerInv /\ [ListenerNext]_listenerVars => ListenerInv'
<1> SUFFICES ASSUME ListenerInv, [ListenerNext]_listenerVars PROVE ListenerInv'
  OBVIOUS
<1>1. CASE ListenerNext
  BY <1>1, TimerInv, ConnectedInv, ListensInv, FailedInv, BreaksInv, StopInv, UnlistensInv
     DEF ListenerNext
<1>2. CASE UNCHANGED listenerVars
  BY <1>2 DEF listenerVars, ListenerInv, ListenerTypeOK, NeverDeaf, ClientsAreReturned,
     OneCallAtATime, StoppedIsIdle, UnderWay
<1> QED BY <1>1, <1>2

\* pool_manager.ts TelemetryNotificationListener: a listener that runs has a
\* call under way, a client or a timer.
THEOREM ListenerInductive == ListenerSpec => []ListenerInv
<1>1. ListenerInit => ListenerInv
  BY ListenerInitInv
<1>2. ListenerInv /\ [ListenerNext]_listenerVars => ListenerInv'
  BY ListenerNextInv
<1> QED BY <1>1, <1>2, PTL DEF ListenerSpec

\* pool_manager.ts TelemetryNotificationListener: while it is to listen it listens
\* or is about to try again, and it gives back the clients it does not hold.
THEOREM ListenerIsSound == ListenerSpec => []ListenerHolds
<1>1. ListenerInv => ListenerHolds
  BY DEF ListenerInv, ListenerHolds
<1> QED BY <1>1, ListenerInductive, PTL

-----------------------------------------------------------------------------
(***************************************************************************)
(* Order of frames. A call that hands frames over has the mark of its      *)
(* device until it ends; when one call runs at a time, what was handed     *)
(* over is what came before the mark.                                      *)
(***************************************************************************)
Draining == {"drain", "remove", "mark"}

\* A call that drains has every frame up to its own count, or others have.
CallsCount ==
    \A c \in Submits :
       /\ submit[c].at # "none" => submit[c].frame \in Frames
       /\ submit[c].at \in Draining =>
             \A n \in 1..submit[c].current : n \in handed \cup lost \cup submit[c].hands
       /\ submit[c].at = "remove" => submit[c].current + 1 \in submit[c].hands

\* What a call that runs alone finds at each of its places.
AloneAt(c) ==
    LET s == submit[c]
    IN  /\ s.at \in {"read", "store", "count", "evict"} =>
              s.hands = {} /\ \A n \in waiting : n > deliveredTo + 1
        /\ s.at = "store" => s.frame > deliveredTo + 1
        /\ s.at \in Draining =>
              /\ s.current > deliveredTo
              /\ \A n \in waiting : n > s.current
        /\ s.at \in {"drain", "mark"} => s.hands = deliveredTo + 1..s.current
        /\ s.at = "remove" => s.hands = deliveredTo + 1..s.current + 1
        /\ s.at = "mark" => s.current + 1 \notin waiting

CalmIsInOrder ==
    calm => /\ handed = 1..deliveredTo /\ ~handedTwice
            /\ (\A c \in Submits : submit[c].at = "none") => \A n \in waiting : n > deliveredTo + 1
            /\ \A c, d \in Submits : submit[c].at # "none" /\ submit[d].at # "none" => c = d
            /\ \A c \in Submits : submit[c].at # "none" => AloneAt(c)

ReorderInv == ReorderTypeOK /\ NothingSkipped /\ CallsCount /\ CalmIsInOrder

SubmitPlaces == {"none", "read", "drain", "remove", "mark", "store", "count", "evict"}

LEMMA SubmitTypes ==
    ASSUME ReorderTypeOK, NEW c \in Submits
    PROVE  /\ submit[c].at \in SubmitPlaces /\ submit[c].frame \in 0..MaxFrame /\ submit[c].current \in 0..MaxFrame
           /\ submit[c].hands \in SUBSET Frames
           /\ deliveredTo \in Nat /\ deliveredTo <= MaxFrame /\ MaxFrame \in Nat /\ Frames \subseteq Nat \ {0}
BY ReorderAssumption DEF ReorderTypeOK, SubmitPlaces, Frames

LEMMA ReorderInitInv == ReorderInit => ReorderInv
<1> SUFFICES ASSUME ReorderInit PROVE ReorderInv
  OBVIOUS
<1>1. NoSubmit \in [at : SubmitPlaces, frame : 0..MaxFrame, current : 0..MaxFrame, hands : SUBSET Frames]
  BY ReorderAssumption DEF NoSubmit, SubmitPlaces
<1>2. ReorderTypeOK
  <2>1. submit \in [Submits -> [at : SubmitPlaces, frame : 0..MaxFrame, current : 0..MaxFrame, hands : SUBSET Frames]]
    BY <1>1 DEF ReorderInit
  <2>2. deliveredTo \in 0..MaxFrame /\ waiting \in SUBSET Frames
    BY ReorderAssumption DEF ReorderInit
  <2>3. handed \in SUBSET Frames /\ lost \in SUBSET Frames /\ handedTwice \in BOOLEAN /\ calm \in BOOLEAN
    BY DEF ReorderInit
  <2> QED BY <2>1, <2>2, <2>3 DEF ReorderTypeOK, SubmitPlaces
<1>3. \A c \in Submits : submit[c].at = "none"
  BY DEF ReorderInit, NoSubmit
<1> QED BY <1>2, <1>3 DEF ReorderInit, ReorderInv, NothingSkipped, CallsCount, CalmIsInOrder, Draining

\* What a step of c leaves of the other calls.
Only(c, at, frame, current, hands) ==
    submit' = [submit EXCEPT ![c] = [at |-> at, frame |-> frame, current |-> current, hands |-> hands]]

LEMMA OnlyIs ==
    ASSUME ReorderTypeOK, NEW c \in Submits, NEW at \in SubmitPlaces, NEW frame \in 0..MaxFrame,
           NEW current \in 0..MaxFrame, NEW hands \in SUBSET Frames, Only(c, at, frame, current, hands)
    PROVE  /\ submit' \in [Submits -> [at : SubmitPlaces, frame : 0..MaxFrame, current : 0..MaxFrame, hands : SUBSET Frames]]
           /\ submit'[c].at = at /\ submit'[c].frame = frame /\ submit'[c].current = current
           /\ submit'[c].hands = hands
           /\ \A d \in Submits \ {c} : submit'[d] = submit[d]
<1>1. submit'[c] = [at |-> at, frame |-> frame, current |-> current, hands |-> hands]
  BY DEF Only, ReorderTypeOK
<1>2. \A d \in Submits \ {c} : submit'[d] = submit[d]
  BY DEF Only, ReorderTypeOK
<1>3. submit' \in [Submits -> [at : SubmitPlaces, frame : 0..MaxFrame, current : 0..MaxFrame, hands : SUBSET Frames]]
  BY DEF Only, ReorderTypeOK, SubmitPlaces
<1> QED BY <1>1, <1>2, <1>3

\* A call of submit ends.
LEMMA EndIs ==
    ASSUME ReorderTypeOK, NEW c \in Submits, submit' = [submit EXCEPT ![c] = NoSubmit]
    PROVE  /\ submit' \in [Submits -> [at : SubmitPlaces, frame : 0..MaxFrame, current : 0..MaxFrame, hands : SUBSET Frames]]
           /\ submit'[c].at = "none"
           /\ \A d \in Submits \ {c} : submit'[d] = submit[d]
<1>1. Only(c, "none", 0, 0, {})
  BY DEF Only, NoSubmit
<1>2. "none" \in SubmitPlaces /\ 0 \in 0..MaxFrame /\ {} \in SUBSET Frames
  BY ReorderAssumption DEF SubmitPlaces
<1> QED BY <1>1, <1>2, OnlyIs

LEMMA GoesIs ==
    ASSUME ReorderTypeOK, NEW c \in Submits, NEW at \in SubmitPlaces, Goes(c, at)
    PROVE  /\ submit' \in [Submits -> [at : SubmitPlaces, frame : 0..MaxFrame, current : 0..MaxFrame, hands : SUBSET Frames]]
           /\ submit'[c].at = at /\ submit'[c].frame = submit[c].frame
           /\ submit'[c].current = submit[c].current /\ submit'[c].hands = submit[c].hands
           /\ \A d \in Submits \ {c} : submit'[d] = submit[d]
<1>1. Only(c, at, submit[c].frame, submit[c].current, submit[c].hands)
  BY DEF Only, Goes, Continues
<1> QED BY <1>1, SubmitTypes, OnlyIs

\* A step of c: the others' part stays, as frames handed over stay.
LEMMA StepKeeps ==
    ASSUME ReorderInv, NEW c \in Submits,
           submit' \in [Submits -> [at : SubmitPlaces, frame : 0..MaxFrame, current : 0..MaxFrame, hands : SUBSET Frames]],
           \A d \in Submits \ {c} : submit'[d] = submit[d],
           deliveredTo' \in 0..MaxFrame, waiting' \in SUBSET Frames,
           handed \subseteq handed', lost \subseteq lost', handed' \in SUBSET Frames, lost' \in SUBSET Frames,
           calm' \in BOOLEAN, handedTwice' \in BOOLEAN,
           \A n \in 1..deliveredTo' : n \in handed' \cup lost',
           submit'[c].at # "none" => submit'[c].frame \in Frames,
           submit'[c].at \in Draining =>
              \A n \in 1..submit'[c].current : n \in handed' \cup lost' \cup submit'[c].hands,
           submit'[c].at = "remove" => submit'[c].current + 1 \in submit'[c].hands,
           calm' => /\ calm \/ \A d \in Submits : submit[d].at = "none"
                    /\ handed' = 1..deliveredTo' /\ ~handedTwice'
                    /\ \A d \in Submits \ {c} : submit[d].at = "none"
                    /\ IF submit'[c].at = "none" THEN \A n \in waiting' : n > deliveredTo' + 1 ELSE AloneAt(c)'
    PROVE  ReorderInv'
<1>1. ReorderTypeOK'
  BY DEF ReorderTypeOK, SubmitPlaces
<1>2. NothingSkipped'
  BY DEF NothingSkipped
<1>3. CallsCount'
  <2> SUFFICES ASSUME NEW d \in Submits
               PROVE  /\ submit'[d].at # "none" => submit'[d].frame \in Frames
                      /\ submit'[d].at \in Draining =>
                            \A n \in 1..submit'[d].current : n \in handed' \cup lost' \cup submit'[d].hands
                      /\ submit'[d].at = "remove" => submit'[d].current + 1 \in submit'[d].hands
    BY DEF CallsCount
  <2>1. CASE d = c
    BY <2>1
  <2>2. CASE d # c
    BY <2>2 DEF ReorderInv, CallsCount
  <2> QED BY <2>1, <2>2
<1>4. CalmIsInOrder'
  <2> SUFFICES ASSUME calm'
      PROVE /\ handed' = 1..deliveredTo' /\ ~handedTwice'
            /\ (\A d \in Submits : submit'[d].at = "none") => \A n \in waiting' : n > deliveredTo' + 1
            /\ \A d, e \in Submits : submit'[d].at # "none" /\ submit'[e].at # "none" => d = e
            /\ \A d \in Submits : submit'[d].at # "none" => AloneAt(d)'
    BY DEF CalmIsInOrder
  <2>1. \A d \in Submits : submit'[d].at # "none" => d = c
    OBVIOUS
  <2>2. submit'[c].at # "none" => AloneAt(c)'
    OBVIOUS
  <2> QED BY <2>1, <2>2
<1> QED BY <1>1, <1>2, <1>3, <1>4 DEF ReorderInv

\* What is known of a call that runs, and of the others when it is calm.
LEMMA AtPlace ==
    ASSUME ReorderInv, NEW c \in Submits, submit[c].at # "none"
    PROVE  /\ ReorderTypeOK /\ submit[c].frame \in Frames
           /\ \A n \in 1..deliveredTo : n \in handed \cup lost
           /\ calm => /\ handed = 1..deliveredTo /\ ~handedTwice /\ AloneAt(c)
                      /\ \A d \in Submits \ {c} : submit[d].at = "none"
           /\ handed \in SUBSET Frames /\ lost \in SUBSET Frames /\ calm \in BOOLEAN /\ handedTwice \in BOOLEAN
           /\ deliveredTo \in 0..MaxFrame /\ waiting \in SUBSET Frames /\ Frames \subseteq Nat \ {0}
BY SubmitTypes DEF ReorderInv, ReorderTypeOK, NothingSkipped, CallsCount, CalmIsInOrder

LEMMA SubmitKeeps ==
    ASSUME ReorderInv, NEW c \in Submits, NEW n \in Frames, Submit(c, n) PROVE ReorderInv'
<1>1. ReorderTypeOK /\ NothingSkipped /\ CalmIsInOrder /\ UNCHANGED <<deliveredTo, waiting, handed, lost, handedTwice>>
  BY DEF ReorderInv, Submit
<1>2. Only(c, "read", n, 0, {})
  BY DEF Submit, Only
<1>3. "read" \in SubmitPlaces /\ n \in 0..MaxFrame /\ 0 \in 0..MaxFrame /\ {} \in SUBSET Frames
  BY ReorderAssumption DEF SubmitPlaces, Frames
<1>4. /\ submit' \in [Submits -> [at : SubmitPlaces, frame : 0..MaxFrame, current : 0..MaxFrame, hands : SUBSET Frames]]
      /\ submit'[c].at = "read" /\ submit'[c].frame = n /\ submit'[c].hands = {}
      /\ \A d \in Submits \ {c} : submit'[d] = submit[d]
  BY <1>1, <1>2, <1>3, OnlyIs
<1>5. calm' \in BOOLEAN /\ (calm' => calm /\ \A d \in Submits : submit[d].at = "none")
  BY DEF Submit
<1>6. calm' => AloneAt(c)' /\ handed' = 1..deliveredTo' /\ ~handedTwice'
  BY <1>1, <1>4, <1>5 DEF CalmIsInOrder, AloneAt, Draining
<1> QED BY <1>1, <1>4, <1>5, <1>6, StepKeeps DEF ReorderTypeOK, NothingSkipped, Draining

LEMMA DropKeeps == ASSUME ReorderInv, NEW c \in Submits, DropDelivered(c) PROVE ReorderInv'
<1>1. submit[c].at = "read" /\ UNCHANGED <<deliveredTo, waiting, handed, lost, handedTwice, calm>>
  BY DEF DropDelivered
<1>2. /\ submit' \in [Submits -> [at : SubmitPlaces, frame : 0..MaxFrame, current : 0..MaxFrame, hands : SUBSET Frames]]
      /\ submit'[c].at = "none"
      /\ \A d \in Submits \ {c} : submit'[d] = submit[d]
  BY EndIs DEF DropDelivered, ReorderInv
<1>3. calm => \A n \in waiting : n > deliveredTo + 1
  BY <1>1, AtPlace DEF AloneAt
<1> QED BY <1>1, <1>2, <1>3, AtPlace, StepKeeps DEF Draining

LEMMA TakeKeeps == ASSUME ReorderInv, NEW c \in Submits, TakeInSequence(c) PROVE ReorderInv'
<1>1. /\ submit[c].at = "read" /\ submit[c].frame = deliveredTo + 1
      /\ UNCHANGED <<deliveredTo, waiting, handed, lost, handedTwice, calm>>
      /\ Only(c, "drain", submit[c].frame, submit[c].frame, {submit[c].frame})
  BY DEF TakeInSequence, InSequence, Continues, Only
<1>2. ReorderTypeOK /\ submit[c].frame \in Frames /\ deliveredTo \in Nat
  BY <1>1, AtPlace, SubmitTypes
<1>3. "drain" \in SubmitPlaces /\ submit[c].frame \in 0..MaxFrame /\ {submit[c].frame} \in SUBSET Frames
  BY <1>2 DEF SubmitPlaces, Frames
<1>4. /\ submit' \in [Submits -> [at : SubmitPlaces, frame : 0..MaxFrame, current : 0..MaxFrame, hands : SUBSET Frames]]
      /\ submit'[c].at = "drain" /\ submit'[c].frame = deliveredTo + 1 /\ submit'[c].current = deliveredTo + 1
      /\ submit'[c].hands = {deliveredTo + 1}
      /\ \A d \in Submits \ {c} : submit'[d] = submit[d]
  BY <1>1, <1>2, <1>3, OnlyIs
<1>5. \A n \in 1..deliveredTo + 1 : n \in handed \cup lost \cup {deliveredTo + 1}
  BY <1>1, <1>2, AtPlace
<1>6. calm => AloneAt(c)'
  <2> SUFFICES ASSUME calm PROVE AloneAt(c)'
    OBVIOUS
  <2>1. \A n \in waiting : n > deliveredTo + 1
    BY <1>1, AtPlace DEF AloneAt
  <2>2. {deliveredTo + 1} = deliveredTo + 1..deliveredTo + 1 /\ deliveredTo + 1 > deliveredTo
    BY <1>2
  <2> QED BY <1>1, <1>4, <2>1, <2>2 DEF AloneAt
<1> QED BY <1>1, <1>2, <1>4, <1>5, <1>6, AtPlace, StepKeeps

LEMMA JudgeKeeps == ASSUME ReorderInv, NEW c \in Submits, JudgeAhead(c) PROVE ReorderInv'
<1>1. /\ submit[c].at = "read" /\ submit[c].frame > deliveredTo /\ submit[c].frame # deliveredTo + 1
      /\ UNCHANGED <<deliveredTo, waiting, handed, lost, handedTwice, calm>> /\ Goes(c, "store") /\ "store" \in SubmitPlaces
  BY DEF JudgeAhead, InSequence, SubmitPlaces
<1>2. ReorderTypeOK /\ submit[c].frame \in Nat /\ deliveredTo \in Nat
  BY <1>1, AtPlace, SubmitTypes
<1>3. /\ submit' \in [Submits -> [at : SubmitPlaces, frame : 0..MaxFrame, current : 0..MaxFrame, hands : SUBSET Frames]]
      /\ submit'[c].at = "store" /\ submit'[c].frame = submit[c].frame /\ submit'[c].hands = submit[c].hands
      /\ \A d \in Submits \ {c} : submit'[d] = submit[d]
  BY <1>1, <1>2, GoesIs
<1>4. calm => AloneAt(c)'
  BY <1>1, <1>2, <1>3, AtPlace DEF AloneAt, Draining
<1> QED BY <1>1, <1>3, <1>4, AtPlace, StepKeeps DEF Draining

LEMMA FindKeeps == ASSUME ReorderInv, NEW c \in Submits, FindNext(c) PROVE ReorderInv'
<1>1. submit[c].at = "drain" /\ UNCHANGED <<deliveredTo, waiting, handed, lost, handedTwice, calm>> /\ "drain" \in Draining
  BY DEF FindNext, Draining
<1> DEFINE k == submit[c].current
           h == submit[c].hands
<1>2. /\ ReorderTypeOK /\ k \in Nat /\ k \in 0..MaxFrame /\ h \in SUBSET Frames /\ submit[c].frame \in Frames
      /\ submit[c].frame \in 0..MaxFrame /\ deliveredTo \in Nat /\ waiting \in SUBSET Frames
      /\ "remove" \in SubmitPlaces /\ "mark" \in SubmitPlaces
  BY <1>1, AtPlace, SubmitTypes DEF SubmitPlaces
<1>3. /\ \A n \in 1..k : n \in handed \cup lost \cup h
      /\ calm => k > deliveredTo /\ (\A n \in waiting : n > k) /\ h = deliveredTo + 1..k
  BY <1>1, AtPlace DEF ReorderInv, CallsCount, AloneAt
<1>4. CASE k + 1 \in waiting
  <2>1. Only(c, "remove", submit[c].frame, k, h \cup {k + 1}) /\ h \cup {k + 1} \in SUBSET Frames
    BY <1>2, <1>4 DEF FindNext, Continues, Only
  <2>2. /\ submit' \in [Submits -> [at : SubmitPlaces, frame : 0..MaxFrame, current : 0..MaxFrame, hands : SUBSET Frames]]
        /\ submit'[c].at = "remove" /\ submit'[c].frame = submit[c].frame /\ submit'[c].current = k
        /\ submit'[c].hands = h \cup {k + 1}
        /\ \A d \in Submits \ {c} : submit'[d] = submit[d]
    BY <1>2, <2>1, OnlyIs
  <2>3. calm => h \cup {k + 1} = deliveredTo + 1..k + 1
    BY <1>2, <1>3
  <2> HIDE DEF k, h
  <2>4. calm => AloneAt(c)'
    BY <1>1, <1>3, <2>2, <2>3 DEF AloneAt
  <2> QED BY <1>1, <1>2, <1>3, <2>2, <2>4, AtPlace, StepKeeps
<1>5. CASE k + 1 \notin waiting
  <2>1. Goes(c, "mark")
    BY <1>5 DEF FindNext
  <2>2. /\ submit' \in [Submits -> [at : SubmitPlaces, frame : 0..MaxFrame, current : 0..MaxFrame, hands : SUBSET Frames]]
        /\ submit'[c].at = "mark" /\ submit'[c].frame = submit[c].frame /\ submit'[c].current = k
        /\ submit'[c].hands = h
        /\ \A d \in Submits \ {c} : submit'[d] = submit[d]
    BY <1>2, <2>1, GoesIs
  <2> HIDE DEF k, h
  <2>3. calm => AloneAt(c)'
    BY <1>1, <1>3, <1>5, <2>2 DEF AloneAt
  <2> QED BY <1>1, <1>2, <1>3, <2>2, <2>3, AtPlace, StepKeeps
<1> QED BY <1>4, <1>5

LEMMA RemoveKeeps == ASSUME ReorderInv, NEW c \in Submits, RemoveNext(c) PROVE ReorderInv'
<1> DEFINE k == submit[c].current
           h == submit[c].hands
<1>1. /\ submit[c].at = "remove" /\ UNCHANGED <<deliveredTo, handed, lost, handedTwice, calm>> /\ "remove" \in Draining
      /\ waiting' = waiting \ {k + 1} /\ Only(c, "drain", submit[c].frame, k + 1, h)
  BY DEF RemoveNext, Draining, Continues, Only
<1>2. /\ ReorderTypeOK /\ k \in Nat /\ h \in SUBSET Frames /\ submit[c].frame \in Frames
      /\ submit[c].frame \in 0..MaxFrame /\ deliveredTo \in Nat /\ waiting \in SUBSET Frames /\ "drain" \in SubmitPlaces
  BY <1>1, AtPlace, SubmitTypes DEF SubmitPlaces
<1>3. /\ \A n \in 1..k : n \in handed \cup lost \cup h
      /\ k + 1 \in h
      /\ calm => k > deliveredTo /\ (\A n \in waiting : n > k) /\ h = deliveredTo + 1..k + 1
  BY <1>1, AtPlace DEF ReorderInv, CallsCount, AloneAt
<1> HIDE DEF k, h
<1>4. k + 1 \in 0..MaxFrame
  BY <1>2, <1>3 DEF Frames
<1>5. /\ submit' \in [Submits -> [at : SubmitPlaces, frame : 0..MaxFrame, current : 0..MaxFrame, hands : SUBSET Frames]]
      /\ submit'[c].at = "drain" /\ submit'[c].frame = submit[c].frame /\ submit'[c].current = k + 1
      /\ submit'[c].hands = h
      /\ \A d \in Submits \ {c} : submit'[d] = submit[d]
  BY <1>1, <1>2, <1>4, OnlyIs
<1>6. \A n \in 1..k + 1 : n \in handed \cup lost \cup h
  BY <1>2, <1>3
<1>7. calm => \A n \in waiting' : n > k + 1
  <2> SUFFICES ASSUME calm, NEW n \in waiting' PROVE n > k + 1
    OBVIOUS
  <2>1. n > k /\ n # k + 1 /\ n \in Nat
    BY <1>1, <1>2, <1>3 DEF Frames
  <2> QED BY <1>2, <2>1
<1>8. calm => k + 1 > deliveredTo
  BY <1>2, <1>3
<1>9. calm => AloneAt(c)'
  BY <1>1, <1>3, <1>5, <1>7, <1>8 DEF AloneAt
<1>10. waiting' \in SUBSET Frames
  BY <1>1, <1>2
<1> QED BY <1>1, <1>2, <1>5, <1>6, <1>9, <1>10, AtPlace, StepKeeps

LEMMA MarkKeeps == ASSUME ReorderInv, NEW c \in Submits, SetDelivered(c) PROVE ReorderInv'
<1> DEFINE k == submit[c].current
           h == submit[c].hands
<1>1. /\ submit[c].at = "mark" /\ UNCHANGED <<waiting, lost, calm>> /\ "mark" \in Draining
      /\ deliveredTo' = k /\ handed' = handed \cup h
      /\ handedTwice' = (handedTwice \/ handed \cap h # {})
  BY DEF SetDelivered, Draining
<1>2. /\ ReorderTypeOK /\ k \in Nat /\ k \in 0..MaxFrame /\ h \in SUBSET Frames
      /\ deliveredTo \in Nat /\ waiting \in SUBSET Frames
  BY <1>1, AtPlace, SubmitTypes
<1>3. /\ \A n \in 1..k : n \in handed \cup lost \cup h
      /\ calm => k > deliveredTo /\ (\A n \in waiting : n > k) /\ k + 1 \notin waiting
                 /\ h = deliveredTo + 1..k /\ handed = 1..deliveredTo /\ ~handedTwice
  BY <1>1, AtPlace DEF ReorderInv, CallsCount, AloneAt
<1>4. /\ submit' \in [Submits -> [at : SubmitPlaces, frame : 0..MaxFrame, current : 0..MaxFrame, hands : SUBSET Frames]]
      /\ submit'[c].at = "none"
      /\ \A d \in Submits \ {c} : submit'[d] = submit[d]
  BY <1>2, EndIs DEF SetDelivered
<1> HIDE DEF k, h
<1>5. calm => handed' = 1..deliveredTo' /\ ~handedTwice' /\ \A n \in waiting' : n > deliveredTo' + 1
  <2> SUFFICES ASSUME calm PROVE handed' = 1..k /\ ~handedTwice' /\ \A n \in waiting : n > k + 1
    BY <1>1
  <2>1. (1..deliveredTo) \cup (deliveredTo + 1..k) = 1..k
    BY <1>2, <1>3
  <2>2. \A n \in waiting : n \in Nat /\ n > k /\ n # k + 1
    BY <1>2, <1>3 DEF Frames
  <2>3. \A n \in waiting : n > k + 1
    BY <1>2, <2>2
  <2>4. (1..deliveredTo) \cap (deliveredTo + 1..k) = {}
    BY <1>2
  <2>5. ~handedTwice'
    BY <1>1, <1>3, <2>4
  <2> QED BY <1>1, <1>3, <2>1, <2>3, <2>5
<1>6. /\ handed' \in SUBSET Frames /\ handed \subseteq handed' /\ lost \in SUBSET Frames
      /\ handedTwice' \in BOOLEAN /\ calm' \in BOOLEAN
  BY <1>1, <1>2, AtPlace
<1>7. \A n \in 1..deliveredTo' : n \in handed' \cup lost'
  BY <1>1, <1>3
<1> QED BY <1>1, <1>2, <1>4, <1>5, <1>6, <1>7, AtPlace, StepKeeps DEF Draining

LEMMA StoreKeeps == ASSUME ReorderInv, NEW c \in Submits, Store(c) PROVE ReorderInv'
<1>1. /\ submit[c].at = "store" /\ UNCHANGED <<deliveredTo, handed, lost, handedTwice, calm>> /\ Goes(c, "count")
      /\ waiting' = waiting \cup {submit[c].frame} /\ "count" \in SubmitPlaces
  BY DEF Store, SubmitPlaces
<1>2. ReorderTypeOK /\ submit[c].frame \in Frames
  BY <1>1, AtPlace
<1>3. /\ submit' \in [Submits -> [at : SubmitPlaces, frame : 0..MaxFrame, current : 0..MaxFrame, hands : SUBSET Frames]]
      /\ submit'[c].at = "count" /\ submit'[c].frame = submit[c].frame /\ submit'[c].hands = submit[c].hands
      /\ \A d \in Submits \ {c} : submit'[d] = submit[d]
  BY <1>1, <1>2, GoesIs
<1>4. calm => AloneAt(c)'
  BY <1>1, <1>2, <1>3, AtPlace DEF AloneAt, Draining
<1>5. waiting' \in SUBSET Frames
  BY <1>1, <1>2, AtPlace
<1> QED BY <1>1, <1>3, <1>4, <1>5, AtPlace, StepKeeps DEF Draining

LEMMA CountKeeps == ASSUME ReorderInv, NEW c \in Submits, Count(c) PROVE ReorderInv'
<1>1. /\ submit[c].at = "count" /\ UNCHANGED <<deliveredTo, waiting, handed, lost, handedTwice, calm>> /\ "evict" \in SubmitPlaces
      /\ Goes(c, "evict") \/ submit' = [submit EXCEPT ![c] = NoSubmit]
  BY DEF Count, SubmitPlaces
<1>2. ReorderTypeOK
  BY <1>1, AtPlace
<1>3. CASE Goes(c, "evict")
  <2>1. /\ submit' \in [Submits -> [at : SubmitPlaces, frame : 0..MaxFrame, current : 0..MaxFrame, hands : SUBSET Frames]]
        /\ submit'[c].at = "evict" /\ submit'[c].frame = submit[c].frame /\ submit'[c].hands = submit[c].hands
        /\ \A d \in Submits \ {c} : submit'[d] = submit[d]
    BY <1>1, <1>2, <1>3, GoesIs
  <2>2. calm => AloneAt(c)'
    BY <1>1, <1>2, <2>1, AtPlace DEF AloneAt, Draining
  <2> QED BY <1>1, <2>1, <2>2, AtPlace, StepKeeps DEF Draining
<1>4. CASE submit' = [submit EXCEPT ![c] = NoSubmit]
  <2>1. /\ submit' \in [Submits -> [at : SubmitPlaces, frame : 0..MaxFrame, current : 0..MaxFrame, hands : SUBSET Frames]]
        /\ submit'[c].at = "none"
        /\ \A d \in Submits \ {c} : submit'[d] = submit[d]
    BY <1>2, <1>4, EndIs
  <2>2. calm => \A n \in waiting : n > deliveredTo + 1
    BY <1>1, AtPlace DEF AloneAt
  <2> QED BY <1>1, <2>1, <2>2, AtPlace, StepKeeps DEF Draining
<1> QED BY <1>1, <1>3, <1>4

LEMMA EvictKeeps == ASSUME ReorderInv, NEW c \in Submits, Evict(c) PROVE ReorderInv'
<1>1. /\ submit[c].at = "evict" /\ UNCHANGED <<deliveredTo, handed, lost, handedTwice, calm>> /\ waiting' \subseteq waiting
  BY DEF Evict
<1>2. ReorderTypeOK
  BY <1>1, AtPlace
<1>3. /\ submit' \in [Submits -> [at : SubmitPlaces, frame : 0..MaxFrame, current : 0..MaxFrame, hands : SUBSET Frames]]
      /\ submit'[c].at = "none"
      /\ \A d \in Submits \ {c} : submit'[d] = submit[d]
  BY <1>2, EndIs DEF Evict
<1>4. calm => \A n \in waiting' : n > deliveredTo + 1
  BY <1>1, AtPlace DEF AloneAt
<1>5. waiting' \in SUBSET Frames
  BY <1>1, AtPlace
<1> QED BY <1>1, <1>3, <1>4, <1>5, AtPlace, StepKeeps DEF Draining

LEMMA RejectKeeps == ASSUME ReorderInv, NEW c \in Submits, SubmitFails(c) PROVE ReorderInv'
<1> DEFINE k == submit[c].current
           h == submit[c].hands
<1>1. /\ submit[c].at # "none" /\ UNCHANGED <<handed, handedTwice>> /\ lost' = lost \cup h /\ calm' = FALSE
  BY DEF SubmitFails
<1>2. /\ ReorderTypeOK /\ k \in 0..MaxFrame /\ h \in SUBSET Frames /\ submit[c].frame \in Frames
      /\ waiting \in SUBSET Frames /\ deliveredTo \in 0..MaxFrame
  BY <1>1, AtPlace, SubmitTypes
<1>3. /\ submit' \in [Submits -> [at : SubmitPlaces, frame : 0..MaxFrame, current : 0..MaxFrame, hands : SUBSET Frames]]
      /\ submit'[c].at = "none"
      /\ \A d \in Submits \ {c} : submit'[d] = submit[d]
  BY <1>2, EndIs DEF SubmitFails
<1>4. Applied(c)[1] \in {deliveredTo, k} /\ (Applied(c)[1] = deliveredTo \/ submit[c].at = "mark")
      /\ Applied(c)[2] \subseteq waiting \cup {submit[c].frame}
  BY DEF Applied
<1>5. PICK left \in {<<deliveredTo, waiting>>, Applied(c)} : deliveredTo' = left[1] /\ waiting' = left[2]
  BY DEF SubmitFails
<1>6. /\ deliveredTo' \in {deliveredTo, k} /\ (deliveredTo' = deliveredTo \/ submit[c].at = "mark")
      /\ waiting' \subseteq waiting \cup {submit[c].frame}
  BY <1>4, <1>5
<1>7. \A n \in 1..deliveredTo' : n \in handed' \cup lost'
  <2>1. submit[c].at = "mark" => \A n \in 1..k : n \in handed \cup lost \cup h
    BY DEF ReorderInv, CallsCount, Draining
  <2> QED BY <1>1, <1>6, <2>1, AtPlace
<1>8. lost' \in SUBSET Frames /\ waiting' \in SUBSET Frames /\ deliveredTo' \in 0..MaxFrame
  BY <1>1, <1>2, <1>6, AtPlace
<1> HIDE DEF k, h
<1> QED BY <1>1, <1>3, <1>7, <1>8, AtPlace, StepKeeps DEF Draining

\* validator.ts submit: what each call holds, has removed and has yet to mark.
THEOREM ReorderInductive == ReorderSpec => []ReorderInv
<1>1. ReorderInv /\ ReorderNext => ReorderInv'
  BY SubmitKeeps, DropKeeps, TakeKeeps, JudgeKeeps, FindKeeps, RemoveKeeps, MarkKeeps, StoreKeeps,
     CountKeeps, EvictKeeps, RejectKeeps DEF ReorderNext
<1>2. ReorderInv /\ UNCHANGED reorderVars => ReorderInv'
  BY DEF reorderVars, ReorderInv, ReorderTypeOK, NothingSkipped, CallsCount, CalmIsInOrder, AloneAt
<1> QED BY <1>1, <1>2, ReorderInitInv, PTL DEF ReorderSpec

\* validator.ts: no frame is passed by, and calls that never overlap return each
\* frame once and in order.
THEOREM FramesAreInOrder == ReorderSpec => []FramesInOrder
<1>1. ReorderInv => FramesInOrder
  BY DEF ReorderInv, CalmIsInOrder, FramesInOrder, SequentialSubmitsRelease
<1> QED BY <1>1, ReorderInductive, PTL

-----------------------------------------------------------------------------
(***************************************************************************)
(* Telemetry fragments. What is left in the buffer belongs to the message  *)
(* of the next byte and goes up to it, so the terminator makes it the end  *)
(* of that message; the timer ran since before its first byte.             *)
(***************************************************************************)
StreamLength == MaxMessages * (Body + 1)

\* The next byte is b: what is left belongs to its message and goes up to it;
\* and unless something was discarded, it goes back to the message's start and
\* no message is missing.
Reads(b, ms, left, discarded) ==
    LET start == b.at - Len(left)
    IN  /\ left \in Seq(Byte) /\ start >= 1
        /\ \A j \in 1..Len(left) : left[j] = [of |-> b.of, at |-> start + j - 1]
        /\ Len(ms) < b.of
        /\ ~discarded => start = 1 /\ b.of = Len(ms) + 1

\* The messages ms are what they should be.
Handed(ms, discarded) ==
    /\ ms \in Seq(Seq(Byte)) /\ Len(ms) <= MaxMessages
    /\ ~discarded => \A k \in 1..Len(ms) : ms[k] = Message(k)
    /\ \A k \in 1..Len(ms) : \E m \in 1..MaxMessages, from \in 1..(Body + 1) :
          ms[k] = SubSeq(Message(m), from, Body)

ReassemblerInv ==
    /\ unsent \in Seq(Byte) /\ buffer \in Seq(Byte) /\ Len(unsent) <= StreamLength
    /\ \A i \in 1..Len(unsent) : unsent[i] = ByteAt(StreamLength - Len(unsent) + i)
    /\ Handed(messages, cut)
    /\ ~shut => Reads(ByteAt(StreamLength - Len(unsent) + 1), messages, buffer, cut)
    /\ Len(buffer) <= MaxPartial
    /\ timer \in 0..Timeout /\ waited \in Nat /\ waited + timer <= Timeout
    /\ timer > 0 <=> buffer # <<>>
    /\ shut \in BOOLEAN /\ cut \in BOOLEAN

-----------------------------------------------------------------------------
(* The stream. *)

LEMMA DivMod ==
    ASSUME NEW a \in Nat, NEW w \in Nat \ {0}
    PROVE  a \div w \in Nat /\ a % w \in 0..(w - 1) /\ a = w * (a \div w) + (a % w)
<1>1. a % w \in 0..(w - 1)
  OBVIOUS
<1>2. a = w * (a \div w) + (a % w)
  OBVIOUS
<1>3. a \div w \in Nat
  OBVIOUS
<1> QED BY <1>1, <1>2, <1>3

LEMMA DivModOnce ==
    ASSUME NEW w \in Nat \ {0}, NEW q \in Nat, NEW r \in 0..(w - 1), NEW s \in Nat, NEW t \in 0..(w - 1),
           NEW a, a = w * q + r, a = w * s + t
    PROVE  q = s /\ r = t
<1>1. \A x, y \in Nat : x < y => w * x + w <= w * y
  <2> SUFFICES ASSUME NEW x \in Nat, NEW y \in Nat, x < y PROVE w * x + w <= w * y
    OBVIOUS
  <2>1. PICK d \in Nat : y = x + 1 + d
    <3>1. y - x - 1 \in Nat /\ y = x + 1 + (y - x - 1)
      OBVIOUS
    <3> QED BY <3>1
  <2>2. w * y = w * x + w + w * d /\ w * d \in Nat /\ w * x \in Nat
    BY <2>1
  <2> QED BY <2>2
<1>2. w * q \in Nat /\ w * s \in Nat
  OBVIOUS
<1>3. ~(q < s) /\ ~(s < q)
  BY <1>1, <1>2
<1> QED BY <1>2, <1>3

LEMMA BytesFollow ==
    ASSUME NEW p \in Nat \ {0}
    PROVE  /\ ByteAt(p).of \in Nat \ {0} /\ ByteAt(p).at \in 1..(Body + 1)
           /\ ByteAt(p) = [of |-> ByteAt(p).of, at |-> ByteAt(p).at]
           /\ IsTerminator(ByteAt(p)) => ByteAt(p + 1) = [of |-> ByteAt(p).of + 1, at |-> 1]
           /\ ~IsTerminator(ByteAt(p)) => ByteAt(p + 1) = [of |-> ByteAt(p).of, at |-> ByteAt(p).at + 1]
           /\ p <= StreamLength => ByteAt(p).of <= MaxMessages
<1> DEFINE w == Body + 1
           a == p - 1
           q == a \div w
           r == a % w
<1>1. w \in Nat \ {0} /\ a \in Nat /\ a + 1 = p /\ p - 1 = a /\ (p + 1) - 1 = p /\ p \in Nat
  BY ReassemblerAssumption
<1>2. q \in Nat /\ r \in 0..(w - 1) /\ a = w * q + r
  <2> HIDE DEF w, a
  <2> QED BY <1>1, DivMod
<1>3. p \div w \in Nat /\ p % w \in 0..(w - 1) /\ p = w * (p \div w) + (p % w)
  <2> HIDE DEF w, a
  <2> QED BY <1>1, DivMod
<1>4. ByteAt(p) = [of |-> 1 + q, at |-> 1 + r] /\ ByteAt(p + 1) = [of |-> 1 + (p \div w), at |-> 1 + (p % w)]
  <2>1. ByteAt(p) = [of |-> 1 + q, at |-> 1 + r]
    BY DEF ByteAt
  <2>2. ByteAt(p + 1) = [of |-> 1 + ((p + 1) - 1) \div w, at |-> 1 + (((p + 1) - 1) % w)]
    BY DEF ByteAt
  <2> HIDE DEF w, a
  <2> QED BY <1>1, <2>1, <2>2
<1>5. ByteAt(p).of = 1 + q /\ ByteAt(p).at = 1 + r
  <2> HIDE DEF q, r
  <2> QED BY <1>4
<1> HIDE DEF q, r
<1>6. ASSUME r = w - 1
      PROVE  IsTerminator(ByteAt(p)) /\ ByteAt(p + 1) = [of |-> ByteAt(p).of + 1, at |-> 1]
  <2>1. p = w * (q + 1) + 0 /\ q + 1 \in Nat /\ 0 \in 0..(w - 1)
    <3> HIDE DEF w, a
    <3>1. w * (q + 1) = w * q + w /\ w * q \in Nat
      BY <1>1, <1>2
    <3> QED BY <1>1, <1>2, <1>6, <3>1
  <2>2. p \div w = q + 1 /\ p % w = 0
    <3> DEFINE u == p \div w
               v == p % w
               n == q + 1
               z == 0
    <3>1. u \in Nat /\ v \in 0..(w - 1) /\ p = w * u + v
      BY <1>3
    <3>2. n \in Nat /\ z \in 0..(w - 1) /\ p = w * n + z
      BY <2>1
    <3> HIDE DEF w, a, u, v, n, z
    <3>3. u = n /\ v = z
      BY <1>1, <3>1, <3>2, DivModOnce
    <3> QED BY <3>3 DEF u, v, n, z
  <2>3. ByteAt(p).at = Body + 1 /\ 1 + (q + 1) = ByteAt(p).of + 1
    BY <1>2, <1>5, <1>6, ReassemblerAssumption
  <2>4. ByteAt(p + 1) = [of |-> ByteAt(p).of + 1, at |-> 1]
    <3> HIDE DEF w
    <3> QED BY <1>4, <2>2, <2>3
  <2> QED BY <2>3, <2>4 DEF IsTerminator
<1>7. ASSUME r # w - 1
      PROVE  ~IsTerminator(ByteAt(p)) /\ ByteAt(p + 1) = [of |-> ByteAt(p).of, at |-> ByteAt(p).at + 1]
  <2>1. p = w * q + (r + 1) /\ r + 1 \in 0..(w - 1)
    <3> HIDE DEF w, a
    <3>1. w * q \in Nat
      BY <1>1, <1>2
    <3> QED BY <1>1, <1>2, <1>7, <3>1
  <2>2. p \div w = q /\ p % w = r + 1
    <3> DEFINE u == p \div w
               v == p % w
    <3> HIDE DEF w, a, u, v
    <3> QED BY <1>1, <1>2, <1>3, <2>1, DivModOnce DEF u, v
  <2>3. ~IsTerminator(ByteAt(p)) /\ 1 + (r + 1) = ByteAt(p).at + 1
    BY <1>2, <1>5, <1>7 DEF IsTerminator
  <2>4. ByteAt(p + 1) = [of |-> ByteAt(p).of, at |-> ByteAt(p).at + 1]
    <3> HIDE DEF w
    <3> QED BY <1>4, <1>5, <2>2, <2>3
  <2> QED BY <2>3, <2>4
<1>8. ASSUME p <= StreamLength PROVE ByteAt(p).of <= MaxMessages
  <2>1. MaxMessages \in Nat /\ StreamLength = w * MaxMessages
    BY <1>1, ReassemblerAssumption DEF StreamLength
  <2> SUFFICES ASSUME MaxMessages <= q PROVE FALSE
    BY <1>2, <1>5, <2>1
  <2>2. PICK d \in Nat : q = MaxMessages + d
    <3>1. q - MaxMessages \in Nat /\ q = MaxMessages + (q - MaxMessages)
      BY <1>2, <2>1
    <3> QED BY <3>1
  <2> HIDE DEF w, a
  <2>3. w * q = w * MaxMessages + w * d /\ w * d \in Nat /\ w * MaxMessages \in Nat
    BY <1>1, <2>1, <2>2
  <2> QED BY <1>1, <1>2, <1>8, <2>1, <2>3
<1>9. ByteAt(p) = [of |-> ByteAt(p).of, at |-> ByteAt(p).at]
  BY <1>4, <1>5
<1>10. ByteAt(p).of \in Nat \ {0} /\ ByteAt(p).at \in 1..(Body + 1)
  BY <1>1, <1>2, <1>5
<1> HIDE DEF w, a
<1> QED BY <1>6, <1>7, <1>8, <1>9, <1>10

\* One more byte is joined.
LEMMA JoinReads ==
    ASSUME NEW p \in Nat \ {0}, p <= StreamLength, NEW b, b = ByteAt(p), NEW d, d = ByteAt(p + 1),
           NEW ms, NEW left, NEW c \in BOOLEAN, Reads(b, ms, left, c), Handed(ms, c)
    PROVE  /\ IsTerminator(b) => Reads(d, Append(ms, left), <<>>, c) /\ Handed(Append(ms, left), c)
           /\ ~IsTerminator(b) => Reads(d, ms, Append(left, b), c) /\ Len(Append(left, b)) = Len(left) + 1
<1> DEFINE start == b.at - Len(left)
           m == b.of
           B == Body
<1>1. /\ m \in 1..MaxMessages /\ b.at \in 1..(B + 1) /\ b = [of |-> m, at |-> b.at]
      /\ b.at = B + 1 => d = [of |-> m + 1, at |-> 1]
      /\ b.at # B + 1 => d = [of |-> m, at |-> b.at + 1]
  <2>2. MaxMessages \in Nat
    BY ReassemblerAssumption
  <2> QED BY <2>2, BytesFollow DEF IsTerminator
<1>2. b \in Byte /\ B \in Nat /\ MaxMessages \in Nat
  BY <1>1, ReassemblerAssumption DEF Byte
<1>3. /\ left \in Seq(Byte) /\ start >= 1 /\ Len(left) \in Nat /\ start \in Int /\ b.at = start + Len(left)
      /\ \A j \in 1..Len(left) : left[j] = [of |-> m, at |-> start + j - 1]
      /\ Len(ms) < m /\ (~c => start = 1 /\ m = Len(ms) + 1)
  BY <1>1 DEF Reads
<1> HIDE DEF start
<1>4. /\ ms \in Seq(Seq(Byte)) /\ Len(ms) <= MaxMessages /\ Len(ms) \in Nat
      /\ ~c => \A k \in 1..Len(ms) : ms[k] = Message(k)
      /\ \A k \in 1..Len(ms) : \E n \in 1..MaxMessages, from \in 1..(B + 1) :
            ms[k] = SubSeq(Message(n), from, B)
  BY DEF Handed
<1>5. ASSUME b.at = B + 1
      PROVE  Reads(d, Append(ms, left), <<>>, c) /\ Handed(Append(ms, left), c)
  <2> DEFINE xs == Append(ms, left)
  <2>1. /\ xs \in Seq(Seq(Byte)) /\ Len(xs) = Len(ms) + 1 /\ xs[Len(ms) + 1] = left
        /\ \A k \in 1..Len(ms) : xs[k] = ms[k]
    BY <1>3, <1>4, AppendProperties
  <2>2. left = SubSeq(Message(m), start, B) /\ start \in 1..(B + 1)
    <3> DEFINE s == Message(m)
    <3>1. s \in Seq(Byte) /\ Len(s) = B /\ \A i \in 1..B : s[i] = [of |-> m, at |-> i]
      <4>1. s \in [1..B -> Byte]
        BY <1>1, <1>2 DEF Message, Byte
      <4> QED BY <1>2, <4>1 DEF Message
    <3>2. start \in 1..(B + 1) /\ Len(left) = B - start + 1
      BY <1>2, <1>3, <1>5
    <3> HIDE DEF s
    <3> DEFINE t == SubSeq(s, start, B)
    <3>3. /\ t \in Seq(Byte) /\ Len(t) = IF start <= B THEN B - start + 1 ELSE 0
          /\ \A i \in 1..(B - start + 1) : t[i] = s[start + i - 1]
      BY <1>2, <3>1, <3>2, SubSeqProperties
    <3>4. Len(t) = Len(left)
      BY <1>2, <3>2, <3>3
    <3>5. \A i \in 1..Len(left) : t[i] = left[i]
      <4> SUFFICES ASSUME NEW i \in 1..Len(left) PROVE t[i] = left[i]
        OBVIOUS
      <4>1. start + i - 1 \in 1..B /\ i \in 1..(B - start + 1)
        BY <1>2, <3>2
      <4> QED BY <1>3, <3>1, <3>3, <4>1
    <3> HIDE DEF t
    <3>6. t = left
      BY SMTT(20), <1>3, <3>3, <3>4, <3>5
    <3> QED BY <3>2, <3>6 DEF t, s
  <2> HIDE DEF xs
  <2>3. \A k \in 1..Len(xs) : k \in 1..Len(ms) \/ k = Len(ms) + 1
    BY <1>4, <2>1
  <2>4. \A k \in 1..Len(xs) : \E n \in 1..MaxMessages, from \in 1..(B + 1) :
            xs[k] = SubSeq(Message(n), from, B)
    <3> SUFFICES ASSUME NEW k \in 1..Len(xs)
                 PROVE  \E n \in 1..MaxMessages, from \in 1..(B + 1) : xs[k] = SubSeq(Message(n), from, B)
      OBVIOUS
    <3>1. CASE k \in 1..Len(ms)
      BY <1>4, <2>1, <3>1
    <3>2. CASE k = Len(ms) + 1
      BY <1>1, <2>1, <2>2, <3>2
    <3> QED BY <2>3, <3>1, <3>2
  <2>5. ASSUME ~c PROVE \A k \in 1..Len(xs) : xs[k] = Message(k)
    <3>1. left = Message(m) /\ m = Len(ms) + 1
      <4>1. Message(m) \in Seq(Byte) /\ Len(Message(m)) = B
        <5>1. Message(m) \in [1..B -> Byte]
          BY <1>1, <1>2 DEF Message, Byte
        <5> QED BY <1>2, <5>1
      <4>2. start = 1
        BY <1>3, <2>5
      <4> QED BY <1>3, <2>2, <2>5, <4>1, <4>2, SubSeqFull
    <3> QED BY <1>4, <2>1, <2>3, <2>5, <3>1
  <2>6. Handed(xs, c)
    <3>1. Len(xs) <= MaxMessages
      BY <1>1, <1>2, <1>3, <1>4, <2>1
    <3> QED BY <2>1, <2>4, <2>5, <3>1 DEF Handed
  <2>7. Reads(d, xs, <<>>, c)
    <3>1. d.of = m + 1 /\ d.at = 1
      BY <1>1, <1>5
    <3>2. <<>> \in Seq(Byte) /\ Len(<<>>) = 0
      OBVIOUS
    <3>3. Len(xs) < d.of /\ (~c => d.of = Len(xs) + 1)
      BY SMTT(20), <1>1, <1>3, <1>4, <2>1, <3>1
    <3> QED BY <3>1, <3>2, <3>3 DEF Reads
  <2> QED BY <2>6, <2>7 DEF xs
<1>6. ASSUME b.at # B + 1
      PROVE  Reads(d, ms, Append(left, b), c) /\ Len(Append(left, b)) = Len(left) + 1
  <2> DEFINE xs == Append(left, b)
  <2>1. /\ xs \in Seq(Byte) /\ Len(xs) = Len(left) + 1 /\ xs[Len(left) + 1] = b
        /\ \A k \in 1..Len(left) : xs[k] = left[k]
    BY <1>2, <1>3, AppendProperties
  <2> HIDE DEF xs
  <2>2. d.of = m /\ d.at = b.at + 1
    BY <1>1, <1>6
  <2>3. d.at - Len(xs) = start
    BY SMTT(20), <1>1, <1>3, <2>1, <2>2
  <2>4. \A j \in 1..Len(xs) : xs[j] = [of |-> m, at |-> start + j - 1]
    <3> SUFFICES ASSUME NEW j \in 1..Len(xs) PROVE xs[j] = [of |-> m, at |-> start + j - 1]
      OBVIOUS
    <3>1. CASE j \in 1..Len(left)
      BY <1>3, <2>1, <3>1
    <3>2. CASE j = Len(left) + 1
      <4>1. start + j - 1 = b.at
        BY <1>1, <1>3, <3>2
      <4> QED BY <1>1, <2>1, <3>2, <4>1
    <3>3. j \in 1..Len(left) \/ j = Len(left) + 1
      BY <1>3, <2>1
    <3> QED BY <3>1, <3>2, <3>3
  <2> QED BY <1>3, <2>1, <2>2, <2>3, <2>4 DEF Reads, xs
<1> QED BY <1>5, <1>6 DEF IsTerminator

-----------------------------------------------------------------------------
(* A chunk. *)

NothingRead == [messages |-> <<>>, rest |-> <<>>]

\* The recursive function of Split, unfolded once.
SplitStep(bytes, g) == [i \in 0..Len(bytes) |-> IF i = 0 THEN NothingRead ELSE Join(g[i - 1], bytes[i])]

LEMMA SplitUnfolds ==
    ASSUME NEW bytes PROVE Split(bytes) = (CHOOSE g : g = SplitStep(bytes, g))[Len(bytes)]
BY Zenon DEF Split, SplitStep, NothingRead

\* Split joins the bytes one by one.
LEMMA SplitJoins ==
    ASSUME NEW bytes, Len(bytes) \in Nat
    PROVE  \E g : /\ Split(bytes) = g[Len(bytes)] /\ g[0] = NothingRead
                  /\ \A i \in 1..Len(bytes) : g[i] = Join(g[i - 1], bytes[i])
<1> DEFINE N == Len(bytes)
           Does(m, g) == /\ g = [i \in 0..m |-> g[i]] /\ g[0] = NothingRead
                         /\ \A i \in 1..m : g[i] = Join(g[i - 1], bytes[i])
           P == {m \in Nat : \E g : Does(m, g)}
<1>1. 0 \in P
  <2>1. Does(0, [i \in 0..0 |-> NothingRead])
    OBVIOUS
  <2> QED BY <2>1
<1>2. ASSUME NEW m \in P PROVE m + 1 \in P
  <2>1. m \in Nat
    OBVIOUS
  <2>2. PICK g : Does(m, g)
    OBVIOUS
  <2> DEFINE h == [i \in 0..m + 1 |-> IF i <= m THEN g[i] ELSE Join(g[m], bytes[m + 1])]
  <2>3. h = [i \in 0..m + 1 |-> h[i]] /\ h[0] = NothingRead
    BY <2>1, <2>2
  <2>4. \A i \in 1..m + 1 : h[i] = Join(h[i - 1], bytes[i])
    <3> SUFFICES ASSUME NEW i \in 1..m + 1 PROVE h[i] = Join(h[i - 1], bytes[i])
      OBVIOUS
    <3>1. h[i - 1] = g[i - 1]
      BY <2>1
    <3>2. CASE i <= m
      <4>1. i \in 1..m /\ h[i] = g[i]
        BY <2>1, <3>2
      <4> QED BY <2>2, <3>1, <4>1
    <3>3. CASE i = m + 1
      BY <2>1, <3>1, <3>3
    <3> QED BY <2>1, <3>2, <3>3
  <2> HIDE DEF h
  <2>5. Does(m + 1, h)
    BY <2>3, <2>4
  <2> HIDE DEF Does
  <2> QED BY <2>1, <2>5
<1>3. P = Nat
  <2>1. P \in SUBSET Nat
    OBVIOUS
  <2> HIDE DEF P
  <2> QED BY <1>1, <1>2, <2>1, NatSet
<1>4. PICK g : Does(N, g)
  <2>1. N \in P
    BY <1>3
  <2> QED BY <2>1
<1>5. g = SplitStep(bytes, g)
  <2>1. \A i \in 0..N : g[i] = IF i = 0 THEN NothingRead ELSE Join(g[i - 1], bytes[i])
    <3>1. \A i \in 0..N : i = 0 \/ i \in 1..N
      OBVIOUS
    <3>2. g[0] = NothingRead /\ \A i \in 1..N : g[i] = Join(g[i - 1], bytes[i]) /\ i # 0
      BY <1>4
    <3> QED BY <3>1, <3>2
  <2>2. g = [i \in 0..N |-> g[i]]
    BY <1>4
  <2> HIDE DEF Does
  <2> QED BY <2>1, <2>2 DEF SplitStep
<1> DEFINE f == CHOOSE h : h = SplitStep(bytes, h)
<1>6. f = SplitStep(bytes, f) /\ Split(bytes) = f[N]
  <2>1. f = SplitStep(bytes, f)
    BY <1>5
  <2> QED BY <2>1, SplitUnfolds
<1> HIDE DEF f
<1>7. \A i \in 0..N : f[i] = IF i = 0 THEN NothingRead ELSE Join(f[i - 1], bytes[i])
  <2>1. \A i \in 0..N : SplitStep(bytes, f)[i] = IF i = 0 THEN NothingRead ELSE Join(f[i - 1], bytes[i])
    BY DEF SplitStep
  <2> QED BY <1>6, <2>1
<1>8. f[0] = NothingRead /\ \A i \in 1..N : f[i] = Join(f[i - 1], bytes[i])
  <2>1. 0 \in 0..N /\ \A i \in 1..N : i \in 0..N /\ i # 0
    OBVIOUS
  <2> QED BY <1>7, <2>1
<1> QED BY <1>6, <1>8

\* What h, the split of what was left and k more bytes, says before the byte b.
Along(b, ms, c, h, size) ==
    /\ h = [messages |-> h.messages, rest |-> h.rest]
    /\ h.messages \in Seq(Seq(Byte)) /\ Len(h.rest) <= size
    /\ Reads(b, ms \o h.messages, h.rest, c) /\ Handed(ms \o h.messages, c)

LEMMA ConcatAppend ==
    ASSUME NEW X, NEW s \in Seq(X), NEW t \in Seq(X), NEW x \in X
    PROVE  s \o Append(t, x) = Append(s \o t, x)
<1>1. /\ s \o t \in Seq(X) /\ Len(s \o t) = Len(s) + Len(t)
      /\ \A i \in 1..Len(s) : (s \o t)[i] = s[i]
      /\ \A i \in 1..Len(t) : (s \o t)[Len(s) + i] = t[i]
  OBVIOUS
<1> QED BY AppendIsConcat, ConcatAssociative, <1>1

LEMMA AlongOne ==
    ASSUME NEW p \in Nat \ {0}, p <= StreamLength, NEW ms \in Seq(Seq(Byte)), NEW c \in BOOLEAN, NEW h, NEW size \in Nat,
           Along(ByteAt(p), ms, c, h, size)
    PROVE  Along(ByteAt(p + 1), ms, c, Join(h, ByteAt(p)), size + 1)
<1> DEFINE b == ByteAt(p)
           d == ByteAt(p + 1)
           x == h.messages
           y == h.rest
<1>1. /\ h = [messages |-> x, rest |-> y] /\ x \in Seq(Seq(Byte)) /\ Len(y) <= size
      /\ Reads(b, ms \o x, y, c) /\ Handed(ms \o x, c)
  BY DEF Along
<1>2. y \in Seq(Byte)
  BY <1>1 DEF Reads
<1>3. /\ IsTerminator(b) => Reads(d, Append(ms \o x, y), <<>>, c) /\ Handed(Append(ms \o x, y), c)
      /\ ~IsTerminator(b) => Reads(d, ms \o x, Append(y, b), c) /\ Len(Append(y, b)) = Len(y) + 1
  <2> DEFINE z == ms \o x
  <2> HIDE DEF b, d, x, y, z
  <2> QED BY <1>1, JoinReads DEF b, d, z
<1> HIDE DEF b, d, x, y
<1>4. CASE IsTerminator(b)
  <2>1. Join(h, b) = [messages |-> Append(x, y), rest |-> <<>>]
    BY <1>1, <1>4 DEF Join
  <2>2. ms \o Append(x, y) = Append(ms \o x, y) /\ Append(x, y) \in Seq(Seq(Byte)) /\ Len(<<>>) = 0
    BY SMTT(20), <1>1, <1>2, ConcatAppend
  <2> DEFINE j == Join(h, b)
  <2>3. j = [messages |-> j.messages, rest |-> j.rest] /\ j.messages = Append(x, y) /\ j.rest = <<>>
    BY <2>1
  <2> HIDE DEF j
  <2>4. Along(d, ms, c, j, size + 1)
    <3>1. Reads(d, ms \o j.messages, j.rest, c) /\ Handed(ms \o j.messages, c)
      BY <1>3, <1>4, <2>2, <2>3
    <3>2. Len(j.rest) <= size + 1 /\ j.messages \in Seq(Seq(Byte))
      BY <2>2, <2>3
    <3> QED BY <2>3, <3>1, <3>2 DEF Along
  <2> QED BY <2>4 DEF j, b, d
<1>5. CASE ~IsTerminator(b)
  <2>1. Join(h, b) = [messages |-> x, rest |-> Append(y, b)]
    BY <1>1, <1>5 DEF Join
  <2>2. Len(Append(y, b)) <= size + 1
    BY <1>1, <1>2, <1>3, <1>5
  <2> DEFINE j == Join(h, b)
  <2>3. j = [messages |-> j.messages, rest |-> j.rest] /\ j.messages = x /\ j.rest = Append(y, b)
    BY <2>1
  <2> HIDE DEF j
  <2>4. Along(d, ms, c, j, size + 1)
    BY <1>1, <1>3, <1>5, <2>2, <2>3 DEF Along
  <2> QED BY <2>4 DEF j, b, d
<1> QED BY <1>4, <1>5

\* What was left has no terminator.
LEMMA NoneIsLeft ==
    ASSUME NEW b, b.at \in 1..(Body + 1), NEW ms, NEW left, NEW c, Reads(b, ms, left, c)
    PROVE  \A j \in 1..Len(left) : ~IsTerminator(left[j])
<1> DEFINE start == b.at - Len(left)
<1>1. left \in Seq(Byte) /\ \A j \in 1..Len(left) : left[j] = [of |-> b.of, at |-> start + j - 1]
  BY DEF Reads
<1>2. Body \in Nat /\ Len(left) \in Nat
  BY <1>1, ReassemblerAssumption
<1> SUFFICES ASSUME NEW j \in 1..Len(left) PROVE left[j].at # Body + 1
  BY DEF IsTerminator
<1> DEFINE k == start + j - 1
<1>3. left[j] = [of |-> b.of, at |-> k]
  BY <1>1
<1>4. k # Body + 1
  BY <1>2
<1> HIDE DEF k
<1> QED BY <1>3, <1>4

\* Split, of what was left and of a chunk of the stream.
LEMMA SplitReads ==
    ASSUME NEW p \in Nat \ {0}, NEW chunk \in Seq(Byte), (p - 1) + Len(chunk) <= StreamLength,
           \A i \in 1..Len(chunk) : chunk[i] = ByteAt((p - 1) + i),
           NEW ms, NEW left, NEW c \in BOOLEAN, Reads(ByteAt(p), ms, left, c), Handed(ms, c)
    PROVE  Along(ByteAt(p + Len(chunk)), ms, c, Split(left \o chunk), Len(left \o chunk))
<1> DEFINE bytes == left \o chunk
           L == Len(left)
           C == Len(chunk)
<1>1. /\ left \in Seq(Byte) /\ L \in Nat /\ C \in Nat /\ ms \in Seq(Seq(Byte))
      /\ \A j \in 1..L : ~IsTerminator(left[j])
  <2>1. ByteAt(p).at \in 1..(Body + 1)
    BY BytesFollow
  <2> QED BY SMTT(20), <2>1, NoneIsLeft DEF Reads, Handed
<1>2. /\ bytes \in Seq(Byte) /\ Len(bytes) = L + C
      /\ \A i \in 1..L : bytes[i] = left[i]
      /\ \A k \in 1..C : bytes[L + k] = ByteAt((p - 1) + k)
  BY <1>1
<1> HIDE DEF bytes
<1>3. PICK g : /\ Split(bytes) = g[Len(bytes)] /\ g[0] = NothingRead
               /\ \A i \in 1..Len(bytes) : g[i] = Join(g[i - 1], bytes[i])
  <2>1. Len(bytes) \in Nat
    BY <1>1, <1>2
  <2> QED BY <2>1, SplitJoins
<1> DEFINE P == {i \in Nat : i <= L => g[i] = [messages |-> <<>>, rest |-> SubSeq(left, 1, i)]}
<1>4. 0 \in P
  <2>1. SubSeq(left, 1, 0) = <<>>
    BY <1>1
  <2> QED BY <1>3, <2>1 DEF NothingRead
<1>5. ASSUME NEW i \in P PROVE i + 1 \in P
  <2>1. i \in Nat
    OBVIOUS
  <2> SUFFICES ASSUME i + 1 <= L PROVE g[i + 1] = [messages |-> <<>>, rest |-> SubSeq(left, 1, i + 1)]
    BY <2>1
  <2>2. i + 1 \in 1..Len(bytes) /\ (i + 1) - 1 = i /\ i + 1 \in 1..L /\ i <= L
    BY <1>1, <1>2, <2>1
  <2>3. g[i + 1] = Join([messages |-> <<>>, rest |-> SubSeq(left, 1, i)], left[i + 1])
    BY <1>2, <1>3, <2>2
  <2>4. Append(SubSeq(left, 1, i), left[i + 1]) = SubSeq(left, 1, i + 1)
    <3> DEFINE s == SubSeq(left, 1, i)
               t == SubSeq(left, 1, i + 1)
    <3>1. /\ s \in Seq(Byte) /\ Len(s) = i /\ \A k \in 1..i : s[k] = left[k]
          /\ t \in Seq(Byte) /\ Len(t) = i + 1 /\ \A k \in 1..i + 1 : t[k] = left[k]
      <4>1. \A n \in 0..L : /\ SubSeq(left, 1, n) \in Seq(Byte) /\ Len(SubSeq(left, 1, n)) = n
                            /\ \A k \in 1..n : SubSeq(left, 1, n)[k] = left[k]
        <5> SUFFICES ASSUME NEW n \in 0..L
                     PROVE  /\ SubSeq(left, 1, n) \in Seq(Byte) /\ Len(SubSeq(left, 1, n)) = n
                            /\ \A k \in 1..n : SubSeq(left, 1, n)[k] = left[k]
          OBVIOUS
        <5> DEFINE v == SubSeq(left, 1, n)
        <5>1. /\ v \in Seq(Byte) /\ Len(v) = IF 1 <= n THEN n - 1 + 1 ELSE 0
              /\ \A k \in 1..(n - 1 + 1) : v[k] = left[1 + k - 1]
          <6>1. 1 \in 1..L + 1 /\ n \in 0..L
            BY <1>1
          <6> QED BY <1>1, <6>1, SubSeqProperties
        <5> HIDE DEF v
        <5>2. Len(v) = n
          BY <5>1
        <5>3. \A k \in 1..n : k \in 1..(n - 1 + 1) /\ 1 + k - 1 = k
          BY <1>1
        <5>4. \A k \in 1..n : v[k] = left[k]
          BY <5>1, <5>3
        <5> QED BY <5>1, <5>2, <5>4 DEF v
      <4>2. i \in 0..L /\ i + 1 \in 0..L
        BY <1>1, <2>1, <2>2
      <4> HIDE DEF P
      <4> QED BY <4>1, <4>2
    <3>2. left[i + 1] \in Byte
      BY <1>1, <2>2
    <3> HIDE DEF s, t
    <3>3. /\ Append(s, left[i + 1]) \in Seq(Byte) /\ Len(Append(s, left[i + 1])) = i + 1
          /\ \A k \in 1..i : Append(s, left[i + 1])[k] = left[k]
          /\ Append(s, left[i + 1])[i + 1] = left[i + 1]
      BY <3>1, <3>2, AppendProperties
    <3> DEFINE u == Append(s, left[i + 1])
    <3> HIDE DEF u
    <3>4. \A k \in 1..i + 1 : u[k] = t[k]
      BY <2>1, <3>1, <3>3 DEF u
    <3>5. u = t
      BY <3>1, <3>3, <3>4 DEF u
    <3> QED BY <3>5 DEF s, t, u
  <2> QED BY <1>1, <2>2, <2>3, <2>4 DEF Join
<1>6. P = Nat
  <2>1. P \in SUBSET Nat
    OBVIOUS
  <2> HIDE DEF P
  <2> QED BY <1>4, <1>5, <2>1, NatSet
<1>7. g[L] = [messages |-> <<>>, rest |-> left]
  <2>1. L \in P /\ L <= L
    <3> HIDE DEF P, L
    <3> QED BY <1>1, <1>6
  <2>2. SubSeq(left, 1, L) = left
    BY <1>1, SubSeqFull
  <2> QED BY <2>1, <2>2
<1> DEFINE Q == {k \in Nat : k <= C => Along(ByteAt(p + k), ms, c, g[L + k], L + k)}
<1>8. 0 \in Q
  <2> DEFINE h == [messages |-> <<>>, rest |-> left]
  <2>1. h = [messages |-> h.messages, rest |-> h.rest] /\ h.messages = <<>> /\ h.rest = left
    OBVIOUS
  <2>2. ms \o <<>> = ms /\ <<>> \in Seq(Seq(Byte)) /\ p + 0 = p /\ L + 0 = L
    BY <1>1
  <2> HIDE DEF h
  <2>3. Along(ByteAt(p), ms, c, h, L)
    BY <1>1, <2>1, <2>2 DEF Along
  <2> QED BY <1>1, <1>7, <2>2, <2>3 DEF h
<1>9. ASSUME NEW k \in Q PROVE k + 1 \in Q
  <2>1. k \in Nat
    OBVIOUS
  <2> SUFFICES ASSUME k + 1 <= C PROVE Along(ByteAt(p + (k + 1)), ms, c, g[L + (k + 1)], L + (k + 1))
    BY <2>1
  <2>2. /\ k + 1 \in 1..C /\ L + (k + 1) \in 1..Len(bytes) /\ (L + (k + 1)) - 1 = L + k
        /\ (p - 1) + (k + 1) = p + k /\ p + k \in Nat \ {0} /\ p + k <= StreamLength /\ p + (k + 1) = (p + k) + 1
        /\ L + (k + 1) = (L + k) + 1 /\ L + k \in Nat
    <3>1. StreamLength \in Nat
      BY ReassemblerAssumption DEF StreamLength
    <3> QED BY <1>1, <1>2, <2>1, <3>1
  <2>3. Along(ByteAt(p + k), ms, c, g[L + k], L + k)
    BY <2>1, <1>1
  <2>4. g[L + (k + 1)] = Join(g[L + k], ByteAt(p + k))
    BY <1>2, <1>3, <2>2
  <2> HIDE DEF Q, L, C
  <2>5. Along(ByteAt((p + k) + 1), ms, c, Join(g[L + k], ByteAt(p + k)), (L + k) + 1)
    BY <1>1, <2>2, <2>3, AlongOne
  <2> QED BY <2>2, <2>4, <2>5
<1>10. Q = Nat
  <2>1. Q \in SUBSET Nat
    OBVIOUS
  <2> HIDE DEF Q
  <2> QED BY <1>8, <1>9, <2>1, NatSet
<1>11. C \in Q /\ C <= C
  <2> HIDE DEF Q, C
  <2> QED BY <1>1, <1>10
<1>12. Along(ByteAt(p + C), ms, c, g[L + C], L + C)
  BY <1>11
<1> HIDE DEF L, C
<1> QED BY <1>2, <1>3, <1>12 DEF bytes, C

-----------------------------------------------------------------------------
(* The operations. *)

LEMMA StreamIs == Stream \in Seq(Byte) /\ Len(Stream) = StreamLength /\ StreamLength \in Nat /\ \A i \in 1..StreamLength : Stream[i] = ByteAt(i)
<1>1. StreamLength \in Nat /\ MaxMessages \in Nat
  BY ReassemblerAssumption DEF StreamLength
<1>2. \A i \in 1..StreamLength : ByteAt(i) \in Byte
  <2> SUFFICES ASSUME NEW i \in 1..StreamLength PROVE ByteAt(i) \in Byte
    OBVIOUS
  <2> DEFINE b == ByteAt(i)
  <2>1. b.of \in 1..MaxMessages /\ b.at \in 1..(Body + 1) /\ b = [of |-> b.of, at |-> b.at]
    <3>1. i \in Nat \ {0} /\ i <= StreamLength
      BY <1>1
    <3>2. /\ b.of \in Nat \ {0} /\ b.at \in 1..(Body + 1) /\ b = [of |-> b.of, at |-> b.at]
          /\ b.of <= MaxMessages
      BY <3>1, BytesFollow
    <3> HIDE DEF b
    <3> QED BY <1>1, <3>2
  <2> HIDE DEF b
  <2>2. b \in Byte
    BY <2>1 DEF Byte
  <2> QED BY <2>2 DEF b
<1>3. Stream = [i \in 1..StreamLength |-> ByteAt(i)]
  BY DEF Stream, StreamLength
<1>4. Stream \in [1..StreamLength -> Byte]
  BY <1>2, <1>3
<1> QED BY <1>1, <1>3, <1>4

LEMMA FirstByte == ByteAt(1) = [of |-> 1, at |-> 1]
<1> DEFINE w == Body + 1
           q == 0 \div w
           r == 0 % w
<1>1. w \in Nat \ {0}
  BY ReassemblerAssumption
<1>2. q \in Nat /\ r \in 0..(w - 1) /\ 0 = w * q + r
  <2> HIDE DEF w
  <2> QED BY <1>1, DivMod
<1>3. q = 0 /\ r = 0
  <2> HIDE DEF w, q, r
  <2>1. 0 \in Nat /\ 0 \in 0..(w - 1) /\ 0 = w * 0 + 0
    BY <1>1
  <2> QED BY <1>1, <1>2, <2>1, DivModOnce
<1>4. ByteAt(1) = [of |-> 1 + q, at |-> 1 + r]
  BY DEF ByteAt
<1> HIDE DEF q, r
<1> QED BY <1>3, <1>4

LEMMA ReassemblerInitInv == ReassemblerInit => ReassemblerInv
<1> SUFFICES ASSUME ReassemblerInit PROVE ReassemblerInv
  OBVIOUS
<1>1. /\ unsent = Stream /\ buffer = <<>> /\ timer = 0 /\ shut = FALSE
      /\ messages = <<>> /\ cut = FALSE /\ waited = 0
  BY DEF ReassemblerInit
<1>2. /\ unsent \in Seq(Byte) /\ Len(unsent) = StreamLength /\ StreamLength \in Nat
      /\ \A i \in 1..Len(unsent) : unsent[i] = ByteAt(StreamLength - Len(unsent) + i)
  <2>1. \A i \in 1..StreamLength : StreamLength - StreamLength + i = i
    BY StreamIs
  <2> QED BY <1>1, <2>1, StreamIs
<1>3. Handed(messages, cut)
  BY <1>1, ReassemblerAssumption DEF Handed
<1>4. Reads(ByteAt(StreamLength - Len(unsent) + 1), messages, buffer, cut)
  <2>1. StreamLength - Len(unsent) + 1 = 1
    BY <1>2
  <2> DEFINE b == ByteAt(1)
  <2>2. b.of = 1 /\ b.at = 1
    BY FirstByte
  <2> HIDE DEF b
  <2>3. Reads(b, <<>>, <<>>, FALSE)
    BY <2>2 DEF Reads
  <2> QED BY <1>1, <2>1, <2>3 DEF b
<1>5. /\ Len(unsent) <= StreamLength /\ buffer \in Seq(Byte) /\ Len(buffer) <= MaxPartial
      /\ timer \in 0..Timeout /\ waited \in Nat /\ waited + timer <= Timeout
      /\ timer > 0 <=> buffer # <<>>
  BY <1>1, <1>2, ReassemblerAssumption
<1> QED BY <1>1, <1>2, <1>3, <1>4, <1>5 DEF ReassemblerInv

\* What is not sent after n bytes more.
LEMMA SendKeeps ==
    ASSUME ReassemblerInv, NEW n \in 1..MaxChunk, n <= Len(unsent),
           unsent' = SubSeq(unsent, n + 1, Len(unsent))
    PROVE  /\ unsent' \in Seq(Byte) /\ Len(unsent)' = Len(unsent) - n /\ Len(unsent)' <= StreamLength
           /\ \A i \in 1..Len(unsent)' : unsent'[i] = ByteAt(StreamLength - Len(unsent)' + i)
<1>1. /\ unsent \in Seq(Byte) /\ Len(unsent) \in Nat /\ Len(unsent) <= StreamLength /\ n \in Nat /\ StreamLength \in Nat
      /\ \A i \in 1..Len(unsent) : unsent[i] = ByteAt(StreamLength - Len(unsent) + i)
  BY StreamIs DEF ReassemblerInv
<1> DEFINE u == SubSeq(unsent, n + 1, Len(unsent))
<1>2. /\ u \in Seq(Byte) /\ Len(u) = IF n + 1 <= Len(unsent) THEN Len(unsent) - (n + 1) + 1 ELSE 0
      /\ \A i \in 1..(Len(unsent) - (n + 1) + 1) : u[i] = unsent[(n + 1) + i - 1]
  <2>1. n + 1 \in 1..Len(unsent) + 1
    BY <1>1
  <2> QED BY <1>1, <2>1, SubSeqProperties
<1> HIDE DEF u
<1>3. Len(u) = Len(unsent) - n /\ Len(u) <= StreamLength
  BY <1>1, <1>2
<1>4. \A i \in 1..Len(u) : u[i] = ByteAt(StreamLength - Len(u) + i)
  <2> SUFFICES ASSUME NEW i \in 1..Len(u) PROVE u[i] = ByteAt(StreamLength - Len(u) + i)
    OBVIOUS
  <2>1. /\ i \in 1..(Len(unsent) - (n + 1) + 1) /\ (n + 1) + i - 1 = n + i /\ n + i \in 1..Len(unsent)
        /\ StreamLength - Len(unsent) + (n + i) = StreamLength - Len(u) + i
    BY <1>1, <1>3
  <2> QED BY <1>1, <1>2, <2>1
<1>5. unsent' = u
  BY DEF u
<1> QED BY <1>2, <1>3, <1>4, <1>5

LEMMA AppendKeeps == ASSUME ReassemblerInv, NEW n \in 1..MaxChunk, AppendChunk(n) PROVE ReassemblerInv'
<1> DEFINE chunk == SubSeq(unsent, 1, n)
           bytes == buffer \o chunk
           split == Split(bytes)
           p == StreamLength - Len(unsent) + 1
<1>1. /\ ~shut /\ n <= Len(unsent) /\ Len(bytes) <= MaxPartial
      /\ unsent' = SubSeq(unsent, n + 1, Len(unsent))
      /\ messages' = messages \o split.messages /\ buffer' = split.rest
      /\ timer' = Armed(split.rest) /\ shut' = shut /\ cut' = cut
      /\ waited' = waited \/ waited' = 0
      /\ buffer = <<>> => waited' = 0
  BY DEF AppendChunk, Rest
<1>2. /\ unsent \in Seq(Byte) /\ buffer \in Seq(Byte) /\ Len(unsent) \in Nat /\ Len(unsent) <= StreamLength
      /\ \A i \in 1..Len(unsent) : unsent[i] = ByteAt(StreamLength - Len(unsent) + i)
      /\ Handed(messages, cut) /\ Reads(ByteAt(p), messages, buffer, cut)
      /\ timer \in 0..Timeout /\ waited \in Nat /\ waited + timer <= Timeout /\ cut \in BOOLEAN
      /\ timer > 0 <=> buffer # <<>>
      /\ StreamLength \in Nat /\ MaxPartial \in Nat /\ Timeout \in Nat \ {0} /\ n \in Nat
  BY <1>1, StreamIs, ReassemblerAssumption DEF ReassemblerInv
<1>3. /\ unsent' \in Seq(Byte) /\ Len(unsent)' = Len(unsent) - n /\ Len(unsent)' <= StreamLength
      /\ \A i \in 1..Len(unsent)' : unsent'[i] = ByteAt(StreamLength - Len(unsent)' + i)
  BY <1>1, SendKeeps
<1>4. /\ p \in Nat \ {0} /\ chunk \in Seq(Byte) /\ Len(chunk) = n /\ (p - 1) + Len(chunk) <= StreamLength
      /\ \A i \in 1..Len(chunk) : chunk[i] = ByteAt((p - 1) + i)
  <2>1. chunk \in Seq(Byte) /\ Len(chunk) = n /\ \A i \in 1..n : chunk[i] = unsent[i]
    BY <1>1, <1>2
  <2>2. p \in Nat \ {0} /\ p - 1 = StreamLength - Len(unsent) /\ (p - 1) + n <= StreamLength /\ 1..n \subseteq 1..Len(unsent)
    BY <1>1, <1>2
  <2> HIDE DEF chunk, p
  <2> QED BY <1>2, <2>1, <2>2
<1>5. Along(ByteAt(p + n), messages, cut, split, Len(bytes))
  <2> HIDE DEF chunk, p
  <2> QED BY <1>2, <1>4, SplitReads
<1>6. p + n = StreamLength - Len(unsent)' + 1 /\ Len(bytes) \in Nat
  <2>1. p + n = StreamLength - Len(unsent)' + 1
    BY <1>2, <1>3
  <2>2. Len(bytes) = Len(buffer) + Len(chunk) /\ Len(buffer) \in Nat /\ Len(chunk) \in Nat
    <3>1. buffer \in Seq(Byte) /\ chunk \in Seq(Byte)
      BY <1>2, <1>4
    <3> HIDE DEF chunk
    <3> QED BY <3>1
  <2> QED BY <2>1, <2>2
<1> HIDE DEF p, bytes, chunk, split
<1>7. /\ Reads(ByteAt(StreamLength - Len(unsent)' + 1), messages', buffer', cut') /\ Handed(messages', cut')
      /\ buffer' \in Seq(Byte) /\ Len(buffer') <= MaxPartial
  <2>1. split.rest \in Seq(Byte) /\ Len(split.rest) \in Nat /\ Len(split.rest) <= Len(bytes)
    BY <1>5 DEF Along, Reads
  <2>2. Reads(ByteAt(p + n), messages', buffer', cut') /\ Handed(messages', cut')
    BY <1>1, <1>5 DEF Along
  <2>3. Len(split.rest) <= MaxPartial
    BY <1>1, <1>2, <1>6, <2>1
  <2> QED BY <1>1, <1>6, <2>1, <2>2, <2>3
<1>8. /\ timer' \in 0..Timeout /\ waited' \in Nat /\ waited' + timer' <= Timeout
      /\ timer' > 0 <=> buffer' # <<>>
  <2>1. timer' = IF buffer' = <<>> THEN 0 ELSE IF timer = 0 THEN Timeout ELSE timer
    BY <1>1 DEF Armed
  <2>2. timer' \in 0..Timeout /\ waited' \in Nat /\ (timer' > 0 <=> buffer' # <<>>)
    BY SMTT(20), <1>1, <1>2, <2>1
  <2>3. CASE buffer = <<>>
    BY <1>1, <1>2, <2>2, <2>3
  <2>4. CASE buffer # <<>>
    <3>1. timer' = 0 \/ timer' = timer
      BY <1>2, <2>1, <2>4
    <3> QED BY SMTT(20), <1>1, <1>2, <2>2, <3>1
  <2> QED BY <2>2, <2>3, <2>4
<1>9. ~shut' => Reads(ByteAt(StreamLength - Len(unsent)' + 1), messages', buffer', cut')
  BY <1>7
<1> QED BY <1>1, <1>2, <1>3, <1>7, <1>8, <1>9 DEF ReassemblerInv

\* What is discarded is cut off.
LEMMA DiscardIs ==
    ASSUME ReassemblerInv, Discard, messages' = messages
    PROVE  /\ buffer' = <<>> /\ buffer' \in Seq(Byte) /\ Len(buffer') <= MaxPartial
           /\ timer' \in 0..Timeout /\ waited' \in Nat /\ waited' + timer' <= Timeout
           /\ timer' > 0 <=> buffer' # <<>>
           /\ cut' \in BOOLEAN /\ Handed(messages', cut')
           /\ ~shut => Reads(ByteAt(StreamLength - Len(unsent) + 1), messages', buffer', cut')
<1>1. /\ buffer' = <<>> /\ timer' = 0 /\ waited' = 0 /\ cut' = (cut \/ buffer # <<>>)
      /\ Handed(messages, cut) /\ cut \in BOOLEAN /\ buffer \in Seq(Byte)
      /\ MaxPartial \in Nat /\ Timeout \in Nat \ {0}
  BY ReassemblerAssumption DEF Discard, ReassemblerInv
<1>2. Handed(messages', cut')
  BY <1>1 DEF Handed
<1>3. ASSUME ~shut PROVE Reads(ByteAt(StreamLength - Len(unsent) + 1), messages', buffer', cut')
  <2> DEFINE b == ByteAt(StreamLength - Len(unsent) + 1)
  <2>1. Reads(b, messages, buffer, cut)
    BY <1>3 DEF ReassemblerInv
  <2>2. b.at \in 1..(Body + 1)
    <3>1. StreamLength - Len(unsent) + 1 \in Nat \ {0}
      BY StreamIs DEF ReassemblerInv
    <3> QED BY <3>1, BytesFollow
  <2> HIDE DEF b
  <2>3. Reads(b, messages', <<>>, cut')
    <3>1. b.at - Len(<<>>) = b.at /\ b.at >= 1 /\ <<>> \in Seq(Byte) /\ Len(<<>>) = 0 /\ Body \in Nat
      BY <2>2, ReassemblerAssumption
    <3>2. Len(messages) < b.of
      BY <2>1 DEF Reads
    <3>3. ASSUME ~cut' PROVE b.at = 1 /\ b.of = Len(messages) + 1
      <4>1. buffer = <<>> /\ ~cut
        BY <1>1, <3>3
      <4> QED BY <2>1, <3>1, <4>1 DEF Reads
    <3> QED BY <3>1, <3>2, <3>3 DEF Reads
  <2> QED BY <1>1, <2>3 DEF b
<1> QED BY <1>1, <1>2, <1>3

LEMMA TooBigKeeps == ASSUME ReassemblerInv, NEW n \in 1..MaxChunk, CloseTooBig(n) PROVE ReassemblerInv'
<1>1. shut' = TRUE /\ n <= Len(unsent) /\ unsent' = SubSeq(unsent, n + 1, Len(unsent)) /\ Discard /\ messages' = messages
  BY DEF CloseTooBig
<1>2. /\ unsent' \in Seq(Byte) /\ Len(unsent)' <= StreamLength
      /\ \A i \in 1..Len(unsent)' : unsent'[i] = ByteAt(StreamLength - Len(unsent)' + i)
  BY <1>1, SendKeeps
<1> QED BY <1>1, <1>2, DiscardIs DEF ReassemblerInv

LEMMA DiscardKeeps == ASSUME ReassemblerInv, TimeOut \/ Dispose PROVE ReassemblerInv'
<1>1. Discard /\ unsent' = unsent /\ shut' = shut /\ messages' = messages
  BY DEF TimeOut, Dispose
<1>2. /\ unsent \in Seq(Byte) /\ Len(unsent) <= StreamLength /\ shut \in BOOLEAN
      /\ \A i \in 1..Len(unsent) : unsent[i] = ByteAt(StreamLength - Len(unsent) + i)
  BY DEF ReassemblerInv
<1> QED BY <1>1, <1>2, DiscardIs DEF ReassemblerInv

LEMMA PassKeeps == ASSUME ReassemblerInv, TimePasses PROVE ReassemblerInv'
<1>1. /\ timer > 1 /\ timer' = timer - 1 /\ waited' = waited + 1
      /\ unsent' = unsent /\ buffer' = buffer /\ shut' = shut /\ messages' = messages /\ cut' = cut
  BY DEF TimePasses
<1>2. timer \in 0..Timeout /\ waited \in Nat /\ waited + timer <= Timeout /\ (timer > 0 <=> buffer # <<>>) /\ Timeout \in Nat
  BY ReassemblerAssumption DEF ReassemblerInv
<1>3. timer' \in 0..Timeout /\ waited' \in Nat /\ waited' + timer' <= Timeout /\ (timer' > 0 <=> buffer # <<>>)
  BY <1>1, <1>2
<1> QED BY <1>1, <1>3 DEF ReassemblerInv

LEMMA ReassemblerNextInv == ReassemblerInv /\ [ReassemblerNext]_reassemblerVars => ReassemblerInv'
<1> SUFFICES ASSUME ReassemblerInv, [ReassemblerNext]_reassemblerVars PROVE ReassemblerInv'
  OBVIOUS
<1>1. ASSUME UNCHANGED reassemblerVars PROVE ReassemblerInv'
  BY <1>1 DEF reassemblerVars, ReassemblerInv
<1> QED BY <1>1, AppendKeeps, TooBigKeeps, DiscardKeeps, PassKeeps DEF ReassemblerNext

\* stream_parser.ts append: what is left in the buffer goes up to the next byte,
\* and its timer runs, in every state.
THEOREM ReassemblerInductive == ReassemblerSpec => []ReassemblerInv
BY ReassemblerInitInv, ReassemblerNextInv, PTL DEF ReassemblerSpec

LEMMA InvReassembles == ReassemblerInv => ReassemblyHolds
<1> SUFFICES ASSUME ReassemblerInv PROVE ReassemblyHolds
  OBVIOUS
<1>1. /\ Handed(messages, cut) /\ Len(buffer) <= MaxPartial /\ timer \in 0..Timeout /\ waited \in Nat
      /\ waited + timer <= Timeout /\ (timer > 0 <=> buffer # <<>>) /\ Timeout \in Nat
  BY ReassemblerAssumption DEF ReassemblerInv
<1>2. PartialIsBounded
  BY <1>1 DEF PartialIsBounded
<1>3. ASSUME ~cut PROVE messages = [m \in 1..Len(messages) |-> Message(m)]
  <2>1. messages \in Seq(Seq(Byte)) /\ \A k \in 1..Len(messages) : messages[k] = Message(k)
    BY <1>1, <1>3 DEF Handed
  <2>2. messages = [m \in 1..Len(messages) |-> messages[m]]
    BY <2>1
  <2> QED BY <2>1, <2>2
<1>4. MessagesAreWhole
  BY <1>1, <1>3 DEF MessagesAreWhole, Handed
<1> QED BY <1>2, <1>4 DEF ReassemblyHolds

\* stream_parser.ts: however chunks divide the stream, what append returns is
\* the device's messages, and what it keeps is bounded in size and time.
THEOREM MessagesAreReassembled == ReassemblerSpec => []ReassemblyHolds
BY ReassemblerInductive, InvReassembles, PTL
=============================================================================
