--------------------------- MODULE MigrationLock ---------------------------
(***************************************************************************)
(* runMigrationWithDistributedLock (src/database/pool_manager.ts): every   *)
(* instance that starts either takes a lock key in Redis and migrates the  *)
(* database, or waits for a marker that some instance has. Both keys       *)
(* expire; neither DEL looks at whose lock it deletes. Instances run a     *)
(* release of the program each, and Redis and the migration are external.  *)
(* The in-memory flags are left out: start() serves nothing before the     *)
(* function returns, so nobody reads them in between.                      *)
(***************************************************************************)
EXTENDS Naturals

CONSTANTS
    Instances,
    Release,            \* Release[i]: the schema version instance i is built for
    MaxMigrationFaults, \* bound: crashes, failed migrations, Redis errors, expiries
    NoInstance

ASSUME MigrationAssumption ==
    /\ Release \in [Instances -> Nat \ {0}]
    /\ MaxMigrationFaults \in Nat
    /\ NoInstance \notin Instances

VARIABLES
    lockKey,        \* migration_lock: the instance it names, or NoInstance
    doneKey,        \* migration_done: the release that set it, 0 for no key
    schema,         \* the schema version of the database
    place,          \* place[i]: where instance i stands
    trusted,        \* history: the release whose marker let i serve, or 0
    lapsed,         \* history: a lock went before its holder was done with it
    migrationFaults

migrationVars == <<lockKey, doneKey, schema, place, trusted, lapsed, migrationFaults>>

Releases == {Release[i] : i \in Instances}
Places == {"down", "migrating", "marking", "clearing", "unlocking", "waiting", "serving"}

MigrationTypeOK ==
    /\ lockKey \in Instances \cup {NoInstance}
    /\ doneKey \in Releases \cup {0}
    /\ schema \in Releases \cup {0}
    /\ place \in [Instances -> Places]
    /\ trusted \in [Instances -> Releases \cup {0}]
    /\ \A i \in Instances : trusted[i] # 0 => place[i] = "serving"
    /\ lapsed \in BOOLEAN
    /\ migrationFaults \in 0..MaxMigrationFaults

MigrationInit ==
    /\ lockKey = NoInstance
    /\ doneKey = 0
    /\ schema = 0
    /\ place = [i \in Instances |-> "down"]
    /\ trusted = [i \in Instances |-> 0]
    /\ lapsed = FALSE
    /\ migrationFaults = 0

-----------------------------------------------------------------------------
Move(i, to) == place' = [place EXCEPT ![i] = to]

MigrationFault ==
    /\ migrationFaults < MaxMigrationFaults
    /\ migrationFaults' = migrationFaults + 1

\* Those who took the lock and have not sent their own DEL yet.
Leaders == {i \in Instances : place[i] \in {"migrating", "marking", "clearing", "unlocking"}}

LockKeyFree == lockKey = NoInstance

\* acquireMigrationLock: SET key instance PX ttl NX
Start(i) ==
    /\ place[i] = "down"
    /\ IF LockKeyFree
       THEN lockKey' = i /\ Move(i, "migrating")
       ELSE UNCHANGED lockKey /\ Move(i, "waiting")
    /\ UNCHANGED <<doneKey, schema, trusted, lapsed, migrationFaults>>

\* The SET is done but its answer is lost: the instance ends, its lock stays.
StartAnswerLost(i) ==
    /\ place[i] = "down"
    /\ MigrationFault
    /\ LockKeyFree
    /\ lockKey' = i
    /\ UNCHANGED <<doneKey, schema, place, trusted, lapsed>>

\* prisma migrate deploy: brings the schema up to this release, never back.
Migrate(i) ==
    /\ place[i] = "migrating"
    /\ schema' = IF schema < Release[i] THEN Release[i] ELSE schema
    /\ Move(i, "marking")
    /\ UNCHANGED <<lockKey, doneKey, trusted, lapsed, migrationFaults>>

\* Mutant: the marker is set on the way out of a failed migration too.
MarkOfFailure(i) == Release[i]

\* On the error path only the lock is deleted.
MarkAfterFailure(i) == doneKey

MigrateFails(i) ==
    /\ place[i] = "migrating"
    /\ MigrationFault
    /\ doneKey' = MarkAfterFailure(i)
    /\ Move(i, "unlocking")
    /\ UNCHANGED <<lockKey, schema, trusted, lapsed>>

\* markMigrationCompleted: SET migration_done, then DEL migration_lock.
MarkDone(i) ==
    /\ place[i] = "marking"
    /\ doneKey' = Release[i]
    /\ Move(i, "clearing")
    /\ UNCHANGED <<lockKey, schema, trusted, lapsed, migrationFaults>>

\* lapsed records that somebody else's lock was deleted.
DeleteLock(i) ==
    /\ lockKey' = NoInstance
    /\ lapsed' = (lapsed \/ lockKey \notin {i, NoInstance})

ClearLock(i) ==
    /\ place[i] = "clearing"
    /\ DeleteLock(i)
    /\ Move(i, "serving")
    /\ UNCHANGED <<doneKey, schema, trusted, migrationFaults>>

\* The catch block: DEL migration_lock, and runMigration... rejects.
UnlockAfterError(i) ==
    /\ place[i] = "unlocking"
    /\ DeleteLock(i)
    /\ Move(i, "down")
    /\ UNCHANGED <<doneKey, schema, trusted, migrationFaults>>

\* A Redis command of the leader rejects, after it was carried out or not.
RedisFails(i) ==
    /\ MigrationFault
    /\ \/ /\ place[i] = "marking"
          /\ doneKey' \in {doneKey, Release[i]}
          /\ Move(i, "unlocking")
          /\ UNCHANGED <<lockKey, lapsed>>
       \/ /\ place[i] = "clearing"
          /\ \/ UNCHANGED <<lockKey, lapsed>>
             \/ DeleteLock(i)
          /\ Move(i, "unlocking")
          /\ UNCHANGED doneKey
       \/ /\ place[i] = "unlocking"
          /\ Move(i, "down")
          /\ UNCHANGED <<lockKey, doneKey, lapsed>>
    /\ UNCHANGED <<schema, trusted>>

\* waitForMigrationCompletion: EXISTS migration_done, whoever set it.
SeeDone(i) ==
    /\ place[i] = "waiting"
    /\ doneKey # 0
    /\ trusted' = [trusted EXCEPT ![i] = doneKey]
    /\ Move(i, "serving")
    /\ UNCHANGED <<lockKey, doneKey, schema, lapsed, migrationFaults>>

\* 'Migration completion timeout'; nobody who waits tries for the lock.
WaitTimeout(i) ==
    /\ place[i] = "waiting"
    /\ Move(i, "down")
    /\ UNCHANGED <<lockKey, doneKey, schema, trusted, lapsed, migrationFaults>>

\* An instance is stopped or dies; its lock stays until it expires.
InstanceStops(i) ==
    /\ place[i] # "down"
    /\ Move(i, "down")
    /\ trusted' = [trusted EXCEPT ![i] = 0]
    /\ UNCHANGED <<lockKey, doneKey, schema, lapsed, migrationFaults>>

LockExpires ==
    /\ lockKey # NoInstance
    /\ MigrationFault
    /\ lockKey' = NoInstance
    /\ lapsed' = (lapsed \/ lockKey \in Leaders)
    /\ UNCHANGED <<doneKey, schema, place, trusted>>

DoneExpires ==
    /\ doneKey # 0
    /\ doneKey' = 0
    /\ UNCHANGED <<lockKey, schema, place, trusted, lapsed, migrationFaults>>

MigrationNext ==
    \/ \E i \in Instances :
          \/ Start(i) \/ StartAnswerLost(i) \/ Migrate(i) \/ MigrateFails(i)
          \/ MarkDone(i) \/ ClearLock(i) \/ UnlockAfterError(i) \/ RedisFails(i)
          \/ SeeDone(i) \/ WaitTimeout(i) \/ InstanceStops(i)
    \/ LockExpires \/ DoneExpires

MigrationSpec == MigrationInit /\ [][MigrationNext]_migrationVars

-----------------------------------------------------------------------------
(* Properties. *)

\* pool_manager.ts, "only one instance to acquire migration lock": two instances
\* migrate at once only after a lock expired under its holder or was deleted by
\* another instance.
OneMigratorUntilLapse ==
    \A i, j \in Instances :
        ~lapsed /\ place[i] = "migrating" /\ place[j] = "migrating" => i = j

\* pool_manager.ts, "Migration completed by leader instance": an instance serves
\* only with its schema in place, whatever expired, failed or was deleted, unless
\* the marker it trusted was left by the leader of an older release.
ServesMigrated ==
    \A i \in Instances :
        place[i] = "serving" => schema >= Release[i] \/ trusted[i] \in 1..(Release[i] - 1)

\* migrate.ts: nobody migrates beside a leader whose lock has not lapsed, and an
\* instance serves only on the schema of its release, or on a marker it trusted.
MigrationHolds == OneMigratorUntilLapse /\ ServesMigrated
=============================================================================
