--------------------------- MODULE LedgerEventBus ---------------------------
(***************************************************************************)
(* LedgerEventBus (src/core/blockchain/ledger_event_bus.ts) and its        *)
(* LedgerGapDetector (src/core/ingestion/backpressure.ts): ledger events   *)
(* go through one Redis stream to the consumers of one group, and each     *)
(* consumer's process watches the sequence numbers it is handed for gaps.  *)
(* Redis is external: a primary that trims its stream and whose replica,   *)
(* which lags behind it, takes over in a failover. The publisher and the   *)
(* code that handles and acknowledges events are external too.             *)
(***************************************************************************)
EXTENDS Naturals, Sequences, FiniteSets

CONSTANTS
    Consumers,      \* consumer names, each with a process and a bus of its own
    Count,          \* options.count
    MaxLen,         \* maxLen
    MaxSequence,    \* bound: the last ledger sequence number
    MaxEntries,     \* bound: entries added to the stream
    MaxFaults       \* bound: crashes, lost replies and failovers together

ASSUME BusAssumption ==
    /\ {Count, MaxLen} \subseteq Nat \ {0}
    /\ {MaxSequence, MaxEntries, MaxFaults} \subseteq Nat

Sequences == 1..MaxSequence
None == 0           \* lastSeq is null

VARIABLES
    added,      \* added[i]: the sequence number of the entry with id i; ids are
                \* given in order and never again
    redis,      \* the primary: stream (the ids it has), group (it exists),
                \* cursor (the group's last delivered id), pending[c]
    replica,    \* what the replica has of it
    published,  \* the last sequence number the publisher has tried to publish
    pc,         \* pc[c]: where c's call of consume stands
    groupReady, \* groupReady[c]
    lastSeq,    \* lastSeq[c]
    hand,       \* hand[c]: ids consume returned, not yet acknowledged
    faults,
    firstSeq,   \* history: the first number c's detector recorded
    seen,       \* history: the numbers it recorded
    reported,   \* history: the numbers it reported missing
    handled,    \* history: the numbers acknowledged
    failedOver

busVars == <<pc, groupReady, lastSeq, hand>>
history == <<firstSeq, seen, reported, handled, failedOver>>
vars == <<added, redis, replica, published, busVars, faults, history>>

Ids == 1..MaxEntries
RedisStates == [stream : SUBSET Ids, group : BOOLEAN, cursor : 0..MaxEntries,
                pending : [Consumers -> SUBSET Ids]]

TypeOK ==
    /\ added \in Seq(Sequences) /\ Len(added) <= MaxEntries
    /\ \A r \in {redis, replica} :
          /\ r \in RedisStates
          /\ r.stream \subseteq DOMAIN added /\ r.cursor <= Len(added)
          /\ \A c \in Consumers : r.pending[c] \subseteq 1..r.cursor
    /\ published \in 0..MaxSequence
    /\ pc \in [Consumers -> {"idle", "group", "pending", "fresh", "handling"}]
    /\ groupReady \in [Consumers -> BOOLEAN]
    /\ lastSeq \in [Consumers -> Sequences \cup {None}]
    /\ hand \in [Consumers -> SUBSET Ids]
    /\ faults \in 0..MaxFaults
    /\ firstSeq \in [Consumers -> Sequences \cup {None}]
    /\ seen \in [Consumers -> SUBSET Sequences]
    /\ \A c \in Consumers : \A n \in seen[c] : n <= lastSeq[c]
    /\ reported \in [Consumers -> SUBSET Sequences]
    /\ handled \subseteq Sequences
    /\ failedOver \in BOOLEAN

EmptyRedis == [stream |-> {}, group |-> FALSE, cursor |-> 0,
               pending |-> [c \in Consumers |-> {}]]

Init ==
    /\ added = <<>>
    /\ redis = EmptyRedis /\ replica = EmptyRedis
    /\ published = 0
    /\ pc = [c \in Consumers |-> "idle"]
    /\ groupReady = [c \in Consumers |-> FALSE]
    /\ lastSeq = [c \in Consumers |-> None]
    /\ hand = [c \in Consumers |-> {}]
    /\ faults = 0 /\ failedOver = FALSE
    /\ firstSeq = [c \in Consumers |-> None]
    /\ seen = [c \in Consumers |-> {}]
    /\ reported = [c \in Consumers |-> {}]
    /\ handled = {}

-----------------------------------------------------------------------------
(* The publisher and Redis. *)

\* XADD MAXLEN ~: the entry is added, and of the entries beyond maxLen Redis
\* may drop some, oldest first.
Add(n) ==
    /\ Len(added) < MaxEntries
    /\ added' = Append(added, n)
    /\ \E dropped \in SUBSET redis.stream :
          /\ \A i \in dropped : \A j \in redis.stream \ dropped : i < j
          /\ dropped # {} => Cardinality(redis.stream \ dropped) + 1 >= MaxLen
          /\ redis' = [redis EXCEPT !.stream = (@ \ dropped) \cup {Len(added')}]

Publish ==
    /\ published < MaxSequence
    /\ published' = published + 1
    /\ Add(published')
    /\ UNCHANGED <<replica, busVars, faults, history>>

\* The reply to XADD was lost and the publisher publishes the event again.
PublishAgain ==
    /\ published > 0
    /\ Add(published)
    /\ UNCHANGED <<replica, published, busVars, faults, history>>

\* The event is never added.
PublishFails ==
    /\ published < MaxSequence
    /\ published' = published + 1
    /\ UNCHANGED <<added, redis, replica, busVars, faults, history>>

\* The replica catches up; only the last time before a failover matters.
Replicate ==
    /\ replica = EmptyRedis /\ redis # EmptyRedis
    /\ faults < MaxFaults
    /\ replica' = redis
    /\ UNCHANGED <<added, redis, published, busVars, faults, history>>

Failover ==
    /\ faults < MaxFaults /\ faults' = faults + 1
    /\ redis' = replica /\ replica' = EmptyRedis
    /\ failedOver' = TRUE
    /\ UNCHANGED <<added, published, busVars, firstSeq, seen, reported, handled>>

-----------------------------------------------------------------------------
(* LedgerGapDetector.record, on the entries of one reply in order. *)

\* What record(n) reports missing after previous.
Gap(previous, n) == IF previous = None THEN {} ELSE (previous + 1)..(n - 1)

Greater(m, n) == IF n > m THEN n ELSE m

\* Mutant: a replayed number sets lastSeq back.
AfterLatest(previous, ns) == [i \in 0..Len(ns) |-> IF i = 0 THEN previous ELSE ns[i]]

\* lastSeq after the first i of the numbers ns.
After(previous, ns) ==
    LET last[i \in 0..Len(ns)] == IF i = 0 THEN previous ELSE Greater(last[i - 1], ns[i])
    IN last

\* The ids of a set in stream order.
InOrder(ids) ==
    LET place(i) == Cardinality({j \in ids : j <= i})
    IN [k \in 1..Cardinality(ids) |-> CHOOSE i \in ids : place(i) = k]

\* toDelivered: the reply is run through the detector and returned.
Deliver(c, ids) ==
    LET order == InOrder(ids)
        ns == [k \in DOMAIN order |-> added[order[k]]]
        last == After(lastSeq[c], ns)
    IN /\ lastSeq' = [lastSeq EXCEPT ![c] = last[Len(ns)]]
       /\ seen' = [seen EXCEPT ![c] = @ \cup {ns[k] : k \in DOMAIN ns}]
       /\ reported' = [reported EXCEPT ![c] =
             @ \cup UNION {Gap(last[k - 1], ns[k]) : k \in DOMAIN ns}]
       /\ firstSeq' = [firstSeq EXCEPT ![c] = IF @ = None THEN ns[1] ELSE @]
       /\ hand' = [hand EXCEPT ![c] = ids]
       /\ pc' = [pc EXCEPT ![c] = "handling"]
       /\ UNCHANGED <<groupReady, handled, failedOver>>

\* consume rejects.
Rejects(c) ==
    /\ pc' = [pc EXCEPT ![c] = "idle"]
    /\ UNCHANGED <<groupReady, lastSeq, hand, history>>

-----------------------------------------------------------------------------
(* consume and ack. *)

Consume(c) ==
    /\ pc[c] = "idle"
    /\ pc' = [pc EXCEPT ![c] = IF groupReady[c] THEN "pending" ELSE "group"]
    /\ UNCHANGED <<added, redis, replica, published, groupReady, lastSeq, hand, faults, history>>

\* XGROUP CREATE ... $ MKSTREAM: a new group starts behind the last entry; an
\* existing one is left as it is (BUSYGROUP).
EnsureGroup(c) ==
    /\ pc[c] = "group"
    /\ redis' = IF redis.group THEN redis
                ELSE [redis EXCEPT !.group = TRUE, !.cursor = Len(added)]
    /\ groupReady' = [groupReady EXCEPT ![c] = TRUE]
    /\ pc' = [pc EXCEPT ![c] = "pending"]
    /\ UNCHANGED <<added, replica, published, lastSeq, hand, faults, history>>

\* The oldest entries of a set of ids, at most COUNT of them.
Oldest(ids) == {i \in ids : Cardinality({j \in ids : j <= i}) <= Count}

\* Mutant: consume goes on to new entries without reading the pending ones.
PendingReplyEmpty(c) == {}

PendingReply(c) == Oldest(redis.pending[c])

\* The read of c's own pending entries. One that was trimmed comes back without
\* its fields, and parseStreamReply throws on it; so does Redis without a group.
ReadPending(c) ==
    /\ pc[c] = "pending"
    /\ IF ~redis.group \/ ~(PendingReply(c) \subseteq redis.stream)
       THEN Rejects(c)
       ELSE IF PendingReply(c) # {}
       THEN Deliver(c, PendingReply(c))
       ELSE /\ pc' = [pc EXCEPT ![c] = "fresh"]
            /\ UNCHANGED <<groupReady, lastSeq, hand, history>>
    /\ UNCHANGED <<added, redis, replica, published, faults>>

Undelivered == {i \in redis.stream : i > redis.cursor}

\* Redis hands the ids to c and keeps them pending for it.
HandOut(c, ids) ==
    redis' = [redis EXCEPT !.cursor = CHOOSE i \in ids : \A j \in ids : j <= i,
                           !.pending[c] = @ \cup ids]

ReadFresh(c) ==
    /\ pc[c] = "fresh"
    /\ redis.group /\ Undelivered # {}
    /\ HandOut(c, Oldest(Undelivered))
    /\ Deliver(c, Oldest(Undelivered))
    /\ UNCHANGED <<added, replica, published, faults>>

\* The BLOCK window ends without an entry, or Redis has no group.
ReadNothing(c) ==
    /\ pc[c] = "fresh"
    /\ ~redis.group \/ Undelivered = {}
    /\ Rejects(c)
    /\ UNCHANGED <<added, redis, replica, published, faults>>

\* Redis handed the entries out, but the reply did not arrive.
ReplyLost(c) ==
    /\ pc[c] = "fresh"
    /\ redis.group /\ Undelivered # {}
    /\ faults < MaxFaults /\ faults' = faults + 1
    /\ HandOut(c, Oldest(Undelivered))
    /\ Rejects(c)
    /\ UNCHANGED <<added, replica, published>>

\* The caller has handled some of what it was handed, and calls ack.
Ack(c) ==
    /\ pc[c] = "handling"
    /\ \E ids \in SUBSET hand[c] :
          /\ ids # {}
          /\ redis' = [redis EXCEPT !.pending[c] = @ \ ids]
          /\ handled' = handled \cup {added[i] : i \in ids}
    /\ hand' = [hand EXCEPT ![c] = {}]
    /\ pc' = [pc EXCEPT ![c] = "idle"]
    /\ UNCHANGED <<added, replica, published, groupReady, lastSeq, faults,
                   firstSeq, seen, reported, failedOver>>

\* The process dies and starts again under its consumer name.
Crash(c) ==
    /\ faults < MaxFaults /\ faults' = faults + 1
    /\ pc' = [pc EXCEPT ![c] = "idle"]
    /\ groupReady' = [groupReady EXCEPT ![c] = FALSE]
    /\ lastSeq' = [lastSeq EXCEPT ![c] = None]
    /\ hand' = [hand EXCEPT ![c] = {}]
    /\ firstSeq' = [firstSeq EXCEPT ![c] = None]
    /\ seen' = [seen EXCEPT ![c] = {}]
    /\ reported' = [reported EXCEPT ![c] = {}]
    /\ UNCHANGED <<added, redis, replica, published, handled, failedOver>>

\* The publisher may have nothing left to publish.
Quiet ==
    /\ published = MaxSequence
    /\ UNCHANGED vars

Next ==
    \/ Publish \/ PublishAgain \/ PublishFails
    \/ Replicate \/ Failover
    \/ \E c \in Consumers :
          \/ Consume(c) \/ EnsureGroup(c)
          \/ ReadPending(c) \/ ReadFresh(c) \/ ReadNothing(c) \/ ReplyLost(c)
          \/ Ack(c) \/ Crash(c)
    \/ Quiet

\* Each consumer calls consume again and again, Redis answers, and the caller
\* acknowledges something of each batch. Nobody has to publish.
Fairness ==
    \A c \in Consumers :
        /\ WF_vars(Consume(c)) /\ WF_vars(EnsureGroup(c))
        /\ WF_vars(ReadPending(c)) /\ WF_vars(ReadFresh(c) \/ ReadNothing(c))
        /\ WF_vars(Ack(c))

Spec == Init /\ [][Next]_vars /\ Fairness

-----------------------------------------------------------------------------
(* Properties. *)

\* Of the numbers between the first and the last that a process was handed,
\* none is missing in silence: it was handed over too, in whatever order, or
\* was reported by the detector.
JumpsAreReported ==
    \A c \in Consumers : lastSeq[c] # None =>
        firstSeq[c]..lastSeq[c] \subseteq seen[c] \cup reported[c]

\* The numbers that c will still be handed, or may be.
Awaited(c) == {added[i] : i \in (redis.pending[c] \cap redis.stream) \cup Undelivered}

\* The detector never reports as missing what is still to come to the same
\* consumer: consume reads its pending entries, those whose reply was lost
\* included, before it goes on to new ones. (A failover may bring entries back
\* that were acknowledged and passed over.)
NoReportIsPremature ==
    [][ \A c \in Consumers :
          failedOver \/ (reported'[c] \ reported[c]) \cap Awaited(c)' = {} ]_vars

\* The detector's reports are complete, and none is premature.
ReportsHold == []JumpsAreReported /\ NoReportIsPremature

\* No failover lost anything, and no entry was trimmed before it was handled.
Durable ==
    /\ ~failedOver
    /\ \A i \in DOMAIN added : redis.group /\ i > redis.cursor => i \in redis.stream
    /\ \A c \in Consumers : redis.pending[c] \subseteq redis.stream

\* While that holds, an event added after the group was created is handled,
\* though consumers crash and replies are lost.
EventsAreHandled ==
    []Durable => \A n \in Sequences :
        (redis.group /\ n \in {added[i] : i \in Undelivered}) ~> n \in handled
=============================================================================
