--------------------------- MODULE MeteredContract ---------------------------
(***************************************************************************)
(* The metered billing contract (contracts/src/metered_billing): for each  *)
(* device a deadline (ttl_state.rs), the bytes and entries it uses         *)
(* (storage.rs) and the batches it stored (telemetry.rs). The host runs    *)
(* invocations one after another, and a panic undoes the invocation. One   *)
(* device; a unit of storage is such that an entry is EntrySize of them.   *)
(***************************************************************************)
EXTENDS Integers, FiniteSetsExt

CONSTANTS
    EntrySize,      \* ENTRY_SIZE
    MaxStorage,     \* MAX_STORAGE_PER_DEVICE
    MaxBurst,       \* events of a batch
    TtlWindow,      \* TTL_EXTENSION_WINDOW
    BatchIds,
    CountRange,     \* metered_entries is a u64: numbers modulo this
    MaxLedgerTime   \* bound of the ledger's timestamp

ASSUME ContractAssumption ==
    /\ EntrySize \in Nat \ {0} /\ MaxStorage \in Nat /\ MaxBurst \in Nat
    /\ TtlWindow \in Nat /\ MaxLedgerTime \in Nat \ {0}
    /\ CountRange \in Nat /\ MaxStorage < CountRange /\ IsFiniteSet(BatchIds)

VARIABLES
    ledgerTime, \* env.ledger().timestamp()
    deadline,   \* DeviceTtlKey; 0 without it
    usage,      \* StorageUsage: bytes and entries
    stored,     \* stored[b]: events of the batch under TelemetryStorageKey
    freed,      \* history: some, not all, of the usage has been given back
    uneven,     \* history: allocations, up to that, of no number of entries
    covered     \* history: batches stored since bytes were last given back

usageHistory == <<freed, uneven, covered>>
contractVars == <<ledgerTime, deadline, usage, stored, usageHistory>>

Amounts == 0..MaxStorage

ContractTypeOK ==
    /\ ledgerTime \in 1..MaxLedgerTime
    /\ deadline \in 0..MaxLedgerTime + TtlWindow
    /\ usage \in [bytes : Amounts, entries : 0..CountRange - 1]
    /\ stored \in [BatchIds -> 0..MaxBurst]
    /\ freed \in BOOLEAN /\ uneven \in Amounts /\ covered \subseteq BatchIds

ContractInit ==
    /\ ledgerTime = 1 /\ deadline = 0
    /\ usage = [bytes |-> 0, entries |-> 0]
    /\ stored = [b \in BatchIds |-> 0]
    /\ freed = FALSE /\ uneven = 0 /\ covered = {}

-----------------------------------------------------------------------------
LedgerCloses ==
    /\ ledgerTime < MaxLedgerTime
    /\ ledgerTime' = ledgerTime + 1
    /\ UNCHANGED <<deadline, usage, stored, usageHistory>>

\* initialize_ttl and extend_ttl leave the same deadline: the lock of extend_ttl
\* is gone at its end, so it never finds one.
ExtendTtl ==
    /\ deadline' = ledgerTime + TtlWindow
    /\ UNCHANGED <<ledgerTime, usage, stored, usageHistory>>

\* Mutant: entries are rounded up.
EntriesUp(bytes) == (bytes + EntrySize) \div EntrySize

Entries(bytes) == bytes \div EntrySize

Allocated(bytes) ==
    [bytes   |-> usage.bytes + bytes,
     entries |-> (usage.entries + Entries(bytes)) % CountRange]

\* allocate_storage; over the capacity it panics.
Allocate(bytes) ==
    /\ usage.bytes + bytes <= MaxStorage
    /\ usage' = Allocated(bytes)
    /\ uneven' = IF freed \/ bytes % EntrySize = 0 THEN uneven ELSE uneven + 1
    /\ UNCHANGED <<ledgerTime, deadline, stored, freed, covered>>

\* The usage is 0 bytes and 0 entries again.
ResetUsage ==
    /\ usage' = [bytes |-> 0, entries |-> 0]
    /\ freed' = FALSE /\ uneven' = 0 /\ covered' = {}

\* deallocate_storage: more than is used leaves nothing; else entries may wrap.
Deallocate(bytes) ==
    /\ \/ bytes > usage.bytes /\ ResetUsage
       \/ /\ bytes <= usage.bytes
          /\ usage' = [bytes   |-> usage.bytes - bytes,
                       entries |-> (usage.entries - Entries(bytes)) % CountRange]
          /\ freed' = TRUE /\ uneven' = 0 /\ covered' = {}
    /\ UNCHANGED <<ledgerTime, deadline, stored>>

InitializeStorage == ResetUsage /\ UNCHANGED <<ledgerTime, deadline, stored>>

TtlValid == deadline > ledgerTime

Fits(bytes) == usage.bytes + bytes <= MaxStorage

\* process_telemetry_batch of n events under the id b.
ProcessBatch(b, n) ==
    /\ TtlValid /\ n <= MaxBurst /\ Fits(n * EntrySize)
    /\ deadline' = ledgerTime + TtlWindow
    /\ usage' = Allocated(n * EntrySize)
    /\ stored' = [stored EXCEPT ![b] = n]
    /\ covered' = covered \cup {b}
    /\ UNCHANGED <<ledgerTime, freed, uneven>>

ContractNext ==
    \/ LedgerCloses \/ ExtendTtl \/ InitializeStorage
    \/ \E bytes \in Amounts : Allocate(bytes) \/ Deallocate(bytes)
    \/ \E b \in BatchIds, n \in 0..MaxBurst : ProcessBatch(b, n)

ContractSpec == ContractInit /\ [][ContractNext]_contractVars

-----------------------------------------------------------------------------
(* Properties. *)

\* ttl-race-guard.md, "Storage Invariant": bytes and entries say the same,
\* whatever amounts are allocated and given back.
UsageIsEntries == usage.bytes = usage.entries * EntrySize

\* storage.rs: until part of it is given back, the usage is never less than its
\* entries and what it has more is less than an entry for each allocation that
\* was no number of entries.
EntriesFallShort ==
    ~freed =>
        /\ usage.entries * EntrySize <= usage.bytes
        /\ usage.bytes <= usage.entries * EntrySize + uneven * (EntrySize - 1)

CoveredEvents == [b \in BatchIds |-> IF b \in covered THEN stored[b] ELSE 0]

\* telemetry.rs: what is stored is accounted for: the batches stored since bytes
\* were last given back lie within the bytes in use, however their ids repeat.
StoredIsMetered == MapThenSumSet(LAMBDA b : CoveredEvents[b] * EntrySize, BatchIds) <= usage.bytes

\* storage.rs, telemetry.rs: the contract's accounts cover what it stores, stay
\* within the capacity, and drift from each other by no more than is said above.
StorageIsMetered == EntriesFallShort /\ StoredIsMetered /\ usage.bytes <= MaxStorage
=============================================================================
