-------------------------- MODULE LedgerSyncProofs --------------------------
(***************************************************************************)
(* No ledger is missed, for any number of overlapping polls, any batch     *)
(* size, interval and gap, and any checkpoint failures and restarts. The   *)
(* argument needs no exclusion between catch-ups: each one starts at a     *)
(* point behind which nothing is missing and moves lastSyncedLedger only   *)
(* to the end of a batch whose ledgers it has all handled.                 *)
(***************************************************************************)
EXTENDS LedgerSync, Integers, TLAPS

\* What catch-up p has behind it: all before its batch, and of the batch all
\* but the ledgers still to do.
CatchUpIsSound(p) ==
    /\ StartingLedger < start[p] /\ start[p] <= target[p]
    /\ Covered(start[p] - 1)
    /\ \A n \in Batch(start[p], target[p]) :
          n \in handled \/ (pc[p] = "batch" /\ n \in todo[p])

IInv ==
    /\ TypeOK
    /\ \A p \in CatchingUp : CatchUpIsSound(p)
    /\ NothingMissedBehindSync

LEMMA BatchBounds ==
    ASSUME NEW first \in Nat, NEW last \in Nat, StartingLedger < first,
           first <= last, last <= MaxLedger
    PROVE  /\ BatchEnd(first, last) \in Nat
           /\ first <= BatchEnd(first, last)
           /\ BatchEnd(first, last) <= last
           /\ Batch(first, last) = first..BatchEnd(first, last)
           /\ Batch(first, last) \subseteq Ledgers
BY SyncAssumption DEF BatchEnd, Lesser, Batch, Ledgers

\* All ledgers up to the end of a batch are handled once its own are.
LEMMA CoveredToEnd ==
    ASSUME NEW first \in Nat, NEW last \in Nat, StartingLedger < first,
           first <= last, last <= MaxLedger, Covered(first - 1),
           Batch(first, last) \subseteq handled
    PROVE  Covered(BatchEnd(first, last))
BY BatchBounds, SyncAssumption DEF Covered

LEMMA InitIInv == ASSUME Init PROVE IInv
<1>1. TypeOK
  <2>1. {chain, synced, stored} \subseteq StartingLedger..MaxLedger
    BY SyncAssumption DEF Init
  <2>2. 0 \in 0..MaxLedger /\ 0 \in 0..MaxCrashes
    BY SyncAssumption
  <2> QED BY <2>1, <2>2 DEF Init, TypeOK
<1>2. CatchingUp = {}
  BY DEF Init, CatchingUp
<1>3. NothingMissedBehindSync
  BY SyncAssumption DEF Init, NothingMissedBehindSync, Covered
<1> QED BY <1>1, <1>2, <1>3 DEF IInv

\* A step that handles more ledgers keeps what is covered covered.
LEMMA CoveredGrows ==
    ASSUME handled \subseteq handled', NEW n, Covered(n)
    PROVE  Covered(n)'
BY DEF Covered

\* A catch-up that a step does not touch stays sound.
LEMMA UntouchedStaysSound ==
    ASSUME handled \subseteq handled', NEW p \in Polls, CatchUpIsSound(p),
           pc'[p] = pc[p], start'[p] = start[p], target'[p] = target[p],
           todo'[p] = todo[p]
    PROVE  CatchUpIsSound(p)'
BY DEF CatchUpIsSound, Covered, Batch, BatchEnd, Lesser

\* Poll, ReadLatest, PollError, NothingNew: no catch-up, no progress.
LEMMA PollIInv ==
    ASSUME IInv, NEW p \in Polls,
           Poll(p) \/ ReadLatest(p) \/ PollError(p) \/ NothingNew(p)
    PROVE  IInv'
<1> USE DEF Poll, ReadLatest, PollError, NothingNew, Idle
<1>1. TypeOK'
  BY SyncAssumption DEF IInv, TypeOK
<1>2. /\ CatchingUp' = CatchingUp
      /\ p \notin CatchingUp
      /\ UNCHANGED <<synced, stored, handled, todo>>
      /\ \A q \in Polls \ {p} : /\ pc'[q] = pc[q] /\ start'[q] = start[q]
                                /\ target'[q] = target[q]
  BY DEF IInv, TypeOK, CatchingUp
<1>3. \A q \in CatchingUp' : CatchUpIsSound(q)'
  BY <1>2, UntouchedStaysSound DEF IInv, CatchingUp
<1>4. NothingMissedBehindSync'
  BY <1>2 DEF IInv, NothingMissedBehindSync, Covered
<1> QED BY <1>1, <1>3, <1>4 DEF IInv

LEMMA StartCatchUpIInv ==
    ASSUME IInv, NEW p \in Polls, StartCatchUp(p)
    PROVE  IInv'
<1> DEFINE cappedTo == Lesser(target[p], synced + MaxGap)
<1>1. /\ synced \in Nat /\ target[p] \in Nat /\ StartingLedger <= synced
      /\ synced < target[p] /\ target[p] <= MaxLedger
  BY SyncAssumption DEF IInv, TypeOK, StartCatchUp
<1>2. /\ cappedTo \in Nat /\ synced + 1 <= cappedTo /\ cappedTo <= MaxLedger
      /\ synced + 1 \in Nat /\ synced + 1 <= MaxLedger
      /\ StartingLedger < synced + 1
  BY <1>1, SyncAssumption DEF Lesser
<1>3. /\ target' = [target EXCEPT ![p] = cappedTo]
      /\ start' = [start EXCEPT ![p] = synced + 1]
      /\ todo' = [todo EXCEPT ![p] = Batch(synced + 1, cappedTo)]
      /\ pc' = [pc EXCEPT ![p] = "batch"]
      /\ inProgress' = TRUE
      /\ UNCHANGED <<chain, synced, stored, handled, crashes>>
  BY DEF StartCatchUp
<1> HIDE DEF cappedTo
<1>4. Batch(synced + 1, cappedTo) \subseteq Ledgers
  BY <1>2, BatchBounds
<1>5. TypeOK'
  <2>1. clean' \in BOOLEAN
    BY Zenon DEF StartCatchUp
  <2>2. /\ target' \in [Polls -> 0..MaxLedger]
        /\ start' \in [Polls -> 0..MaxLedger]
    BY <1>2, <1>3, SyncAssumption DEF IInv, TypeOK
  <2>3. todo' \in [Polls -> SUBSET Ledgers]
    BY <1>3, <1>4 DEF IInv, TypeOK
  <2> QED BY <1>3, <2>1, <2>2, <2>3 DEF IInv, TypeOK
<1>6. ASSUME NEW q \in CatchingUp' PROVE CatchUpIsSound(q)'
  <2>1. CASE q = p
    <3>1. /\ start'[p] = synced + 1 /\ target'[p] = cappedTo
          /\ todo'[p] = Batch(synced + 1, cappedTo) /\ pc'[p] = "batch"
      BY <1>3 DEF IInv, TypeOK
    <3>2. Covered(start[p] - 1)'
      BY <1>1, <1>3, <3>1 DEF IInv, NothingMissedBehindSync, Covered
    <3>3. Batch(start[p], target[p])' = todo'[p]
      BY <3>1 DEF Batch, BatchEnd, Lesser
    <3> QED BY <2>1, <1>2, <3>1, <3>2, <3>3 DEF CatchUpIsSound
  <2>2. CASE q # p
    <3>1. q \in CatchingUp /\ q \in Polls
      BY <2>2, <1>3 DEF CatchingUp, IInv, TypeOK
    <3> QED BY <2>2, <3>1, <1>3, UntouchedStaysSound DEF IInv, TypeOK
  <2> QED BY <2>1, <2>2
<1>7. NothingMissedBehindSync'
  BY <1>3 DEF IInv, NothingMissedBehindSync, Covered
<1> QED BY <1>5, <1>6, <1>7 DEF IInv

LEMMA ProcessLedgerIInv ==
    ASSUME IInv, NEW p \in Polls, ProcessLedger(p)
    PROVE  IInv'
<1>1. PICK n \in todo[p] :
          /\ handled' = handled \cup {n}
          /\ todo' = [todo EXCEPT ![p] = @ \ {n}]
          /\ UNCHANGED <<chain, synced, inProgress, stored, pc, start, target,
                         crashes, clean>>
  BY DEF ProcessLedger
<1>2. TypeOK'
  <2>1. n \in Ledgers
    BY DEF IInv, TypeOK
  <2>2. todo' \in [Polls -> SUBSET Ledgers]
    BY <1>1 DEF IInv, TypeOK
  <2> QED BY <1>1, <2>1, <2>2 DEF IInv, TypeOK
<1>3. ASSUME NEW q \in CatchingUp' PROVE CatchUpIsSound(q)'
  <2>1. q \in CatchingUp /\ q \in Polls
    BY <1>1 DEF CatchingUp
  <2>2. CASE q = p
    <3>1. todo'[p] = todo[p] \ {n}
      BY <1>1 DEF IInv, TypeOK
    <3> QED BY <2>1, <2>2, <1>1, <3>1
            DEF IInv, CatchUpIsSound, Covered, Batch, BatchEnd, Lesser
  <2>3. CASE q # p
    <3>1. todo'[q] = todo[q]
      BY <2>1, <2>3, <1>1 DEF IInv, TypeOK
    <3> QED BY <2>1, <1>1, <3>1, UntouchedStaysSound DEF IInv
  <2> QED BY <2>2, <2>3
<1>4. NothingMissedBehindSync'
  BY <1>1 DEF IInv, NothingMissedBehindSync, Covered
<1> QED BY <1>2, <1>3, <1>4 DEF IInv

\* What a catch-up knows at the end of a batch.
LEMMA AtBatchEnd ==
    ASSUME IInv, NEW p \in CatchingUp, pc[p] = "batch" => Settled(p)
    PROVE  LET end == BatchEnd(start[p], target[p])
           IN  /\ start[p] \in Nat /\ target[p] \in Nat
               /\ end \in Nat /\ start[p] <= end /\ end <= target[p]
               /\ target[p] <= MaxLedger /\ StartingLedger < end
               /\ Covered(end)
<1>1. /\ start[p] \in Nat /\ target[p] \in Nat /\ target[p] <= MaxLedger
      /\ CatchUpIsSound(p)
  BY SyncAssumption DEF IInv, TypeOK, CatchingUp
<1>2. Batch(start[p], target[p]) \subseteq handled
  BY <1>1 DEF CatchUpIsSound, Settled
<1>3. Covered(BatchEnd(start[p], target[p]))
  BY <1>1, <1>2, CoveredToEnd DEF CatchUpIsSound
<1> QED BY <1>1, <1>3, BatchBounds, SyncAssumption DEF CatchUpIsSound

\* The next batch starts where the last one ended.
LEMMA NextBatchIsSound ==
    ASSUME IInv, NEW p \in Polls, NEW end \in Nat, StartingLedger < end,
           Covered(end), end < target[p], target[p] \in Nat, target[p] <= MaxLedger,
           UNCHANGED <<target, handled>>,
           start' = [start EXCEPT ![p] = end + 1],
           todo' = [todo EXCEPT ![p] = Batch(end + 1, target[p])],
           pc'[p] = "batch"
    PROVE  /\ start' \in [Polls -> 0..MaxLedger]
           /\ todo' \in [Polls -> SUBSET Ledgers]
           /\ CatchUpIsSound(p)'
<1>1. /\ end + 1 \in Nat /\ end + 1 <= target[p] /\ StartingLedger < end + 1
      /\ end + 1 \in 0..MaxLedger /\ (end + 1) - 1 = end
  BY SyncAssumption
<1>2. Batch(end + 1, target[p]) \subseteq Ledgers
  BY <1>1, BatchBounds
<1>3. start'[p] = end + 1 /\ todo'[p] = Batch(end + 1, target[p])
  BY DEF IInv, TypeOK
<1>4. Covered(start[p] - 1)'
  BY <1>1, <1>3 DEF Covered
<1>5. Batch(start[p], target[p])' = todo'[p]
  BY <1>3 DEF Batch, BatchEnd, Lesser
<1>6. CatchUpIsSound(p)'
  BY <1>1, <1>3, <1>4, <1>5 DEF CatchUpIsSound
<1> QED BY <1>1, <1>2, <1>6 DEF IInv, TypeOK

LEMMA EndBatchIInv ==
    ASSUME IInv, NEW p \in Polls, EndBatch(p)
    PROVE  IInv'
<1> DEFINE end == BatchEnd(start[p], target[p])
<1>1. /\ pc[p] = "batch" /\ Settled(p) /\ p \in CatchingUp
      /\ synced' = end
      /\ UNCHANGED <<chain, inProgress, stored, target, handled, crashes, clean>>
  BY DEF EndBatch, CatchingUp
<1>2. \/ /\ pc' = [pc EXCEPT ![p] = "checkpoint"] /\ UNCHANGED <<start, todo>>
      \/ /\ end # target[p] /\ UNCHANGED pc
         /\ start' = [start EXCEPT ![p] = end + 1]
         /\ todo' = [todo EXCEPT ![p] = Batch(end + 1, target[p])]
  BY DEF EndBatch
<1>3. /\ start[p] \in Nat /\ target[p] \in Nat
      /\ end \in Nat /\ start[p] <= end /\ end <= target[p]
      /\ target[p] <= MaxLedger /\ StartingLedger < end /\ Covered(end)
  BY <1>1, AtBatchEnd
<1>4. Batch(start[p], target[p]) \subseteq handled
  BY <1>1 DEF IInv, CatchUpIsSound, Settled
<1> HIDE DEF end
<1>5. synced' \in StartingLedger..MaxLedger
  BY <1>1, <1>3, SyncAssumption
<1>6. NothingMissedBehindSync'
  BY <1>1, <1>3 DEF IInv, NothingMissedBehindSync, Covered
<1>7. CASE pc' = [pc EXCEPT ![p] = "checkpoint"] /\ UNCHANGED <<start, todo>>
  <2>1. TypeOK'
    BY <1>1, <1>5, <1>7 DEF IInv, TypeOK
  <2>2. CatchUpIsSound(p)'
    BY <1>1, <1>4, <1>7 DEF IInv, CatchUpIsSound, Covered, Batch, BatchEnd, Lesser
  <2>3. \A q \in CatchingUp' \ {p} : q \in CatchingUp /\ pc'[q] = pc[q]
    BY <1>7 DEF IInv, TypeOK, CatchingUp
  <2>4. \A q \in CatchingUp' : CatchUpIsSound(q)'
    BY <1>1, <1>7, <2>2, <2>3, UntouchedStaysSound DEF IInv, CatchingUp
  <2> QED BY <2>1, <2>4, <1>6 DEF IInv
<1>8. CASE /\ end # target[p] /\ UNCHANGED pc
           /\ start' = [start EXCEPT ![p] = end + 1]
           /\ todo' = [todo EXCEPT ![p] = Batch(end + 1, target[p])]
  <2>1. end < target[p]
    BY <1>3, <1>8
  <2>2. /\ start' \in [Polls -> 0..MaxLedger]
        /\ todo' \in [Polls -> SUBSET Ledgers]
        /\ CatchUpIsSound(p)'
    BY <1>1, <1>3, <1>8, <2>1, NextBatchIsSound
  <2>3. TypeOK'
    BY <1>1, <1>5, <1>8, <2>2 DEF IInv, TypeOK
  <2>4. \A q \in CatchingUp' \ {p} :
            q \in CatchingUp /\ start'[q] = start[q] /\ todo'[q] = todo[q]
    BY <1>8 DEF IInv, TypeOK, CatchingUp
  <2>5. \A q \in CatchingUp' : CatchUpIsSound(q)'
    BY <1>1, <1>8, <2>2, <2>4, UntouchedStaysSound DEF IInv, CatchingUp
  <2> QED BY <2>3, <2>5, <1>6 DEF IInv
<1> QED BY <1>2, <1>7, <1>8

\* A poll that ends takes its slot out of CatchingUp and disturbs no other.
LEMMA IdleKeepsOthersSound ==
    ASSUME IInv, NEW p \in Polls, Idle(p), UNCHANGED <<todo, handled>>
    PROVE  /\ pc' \in [Polls -> {"idle", "latest", "answer", "batch", "checkpoint"}]
           /\ start' \in [Polls -> 0..MaxLedger]
           /\ target' \in [Polls -> 0..MaxLedger]
           /\ \A q \in CatchingUp' : CatchUpIsSound(q)'
<1>1. 0 \in 0..MaxLedger
  BY SyncAssumption
<1>2. \A q \in CatchingUp' : /\ q \in CatchingUp /\ q # p /\ q \in Polls
                             /\ pc'[q] = pc[q] /\ start'[q] = start[q]
                             /\ target'[q] = target[q]
  BY DEF IInv, TypeOK, Idle, CatchingUp
<1>3. \A q \in CatchingUp' : CatchUpIsSound(q)'
  BY <1>2, UntouchedStaysSound DEF IInv
<1> QED BY <1>1, <1>3 DEF IInv, TypeOK, Idle

LEMMA CheckpointIInv ==
    ASSUME IInv, NEW p \in Polls, Checkpoint(p)
    PROVE  IInv'
<1> DEFINE end == BatchEnd(start[p], target[p])
<1>1. /\ pc[p] = "checkpoint" /\ p \in CatchingUp
      /\ stored' = end
      /\ UNCHANGED <<chain, synced, handled, crashes, clean>>
  BY DEF Checkpoint, CatchingUp
<1>2. \/ Idle(p) /\ inProgress' = FALSE /\ UNCHANGED todo
      \/ /\ end # target[p]
         /\ pc' = [pc EXCEPT ![p] = "batch"]
         /\ start' = [start EXCEPT ![p] = end + 1]
         /\ todo' = [todo EXCEPT ![p] = Batch(end + 1, target[p])]
         /\ UNCHANGED <<target, inProgress>>
  BY DEF Checkpoint
<1>3. /\ start[p] \in Nat /\ target[p] \in Nat
      /\ end \in Nat /\ start[p] <= end /\ end <= target[p]
      /\ target[p] <= MaxLedger /\ StartingLedger < end /\ Covered(end)
  BY <1>1, AtBatchEnd
<1> HIDE DEF end
<1>4. stored' \in StartingLedger..MaxLedger
  BY <1>1, <1>3, SyncAssumption
<1>5. NothingMissedBehindSync'
  BY <1>1, <1>3 DEF IInv, NothingMissedBehindSync, Covered
<1>6. CASE Idle(p) /\ inProgress' = FALSE /\ UNCHANGED todo
  <2>1. /\ pc' \in [Polls -> {"idle", "latest", "answer", "batch", "checkpoint"}]
        /\ start' \in [Polls -> 0..MaxLedger]
        /\ target' \in [Polls -> 0..MaxLedger]
        /\ \A q \in CatchingUp' : CatchUpIsSound(q)'
    BY <1>1, <1>6, IdleKeepsOthersSound
  <2>2. TypeOK'
    BY <1>1, <1>4, <1>6, <2>1 DEF IInv, TypeOK
  <2> QED BY <2>1, <2>2, <1>5 DEF IInv
<1>7. CASE /\ end # target[p]
           /\ pc' = [pc EXCEPT ![p] = "batch"]
           /\ start' = [start EXCEPT ![p] = end + 1]
           /\ todo' = [todo EXCEPT ![p] = Batch(end + 1, target[p])]
           /\ UNCHANGED <<target, inProgress>>
  <2>1. end < target[p] /\ pc'[p] = "batch"
    BY <1>3, <1>7 DEF IInv, TypeOK
  <2>2. /\ start' \in [Polls -> 0..MaxLedger]
        /\ todo' \in [Polls -> SUBSET Ledgers]
        /\ CatchUpIsSound(p)'
    BY <1>1, <1>3, <1>7, <2>1, NextBatchIsSound
  <2>3. TypeOK'
    BY <1>1, <1>4, <1>7, <2>2 DEF IInv, TypeOK
  <2>4. \A q \in CatchingUp' \ {p} :
            /\ q \in CatchingUp /\ pc'[q] = pc[q]
            /\ start'[q] = start[q] /\ todo'[q] = todo[q]
    BY <1>7 DEF IInv, TypeOK, CatchingUp
  <2>5. \A q \in CatchingUp' : CatchUpIsSound(q)'
    BY <1>1, <1>7, <2>2, <2>4, UntouchedStaysSound DEF IInv, CatchingUp
  <2> QED BY <2>3, <2>5, <1>5 DEF IInv
<1> QED BY <1>2, <1>6, <1>7

LEMMA CheckpointFailsIInv ==
    ASSUME IInv, NEW p \in Polls, CheckpointFails(p)
    PROVE  IInv'
<1>1. /\ Idle(p) /\ inProgress' = FALSE /\ clean' = FALSE
      /\ UNCHANGED <<chain, synced, stored, todo, handled, crashes>>
  BY DEF CheckpointFails, AfterThrow
<1>2. /\ pc' \in [Polls -> {"idle", "latest", "answer", "batch", "checkpoint"}]
      /\ start' \in [Polls -> 0..MaxLedger]
      /\ target' \in [Polls -> 0..MaxLedger]
      /\ \A q \in CatchingUp' : CatchUpIsSound(q)'
  BY <1>1, IdleKeepsOthersSound
<1>3. TypeOK'
  BY <1>1, <1>2 DEF IInv, TypeOK
<1>4. NothingMissedBehindSync'
  BY <1>1 DEF IInv, NothingMissedBehindSync, Covered
<1> QED BY <1>2, <1>3, <1>4 DEF IInv

LEMMA RestartIInv == ASSUME IInv, Restart PROVE IInv'
<1>1. TypeOK'
  <2>1. 0 \in 0..MaxLedger /\ crashes + 1 \in 0..MaxCrashes
    BY SyncAssumption DEF IInv, TypeOK, Restart
  <2> QED BY <2>1 DEF IInv, TypeOK, Restart
<1>2. CatchingUp' = {}
  BY DEF Restart, CatchingUp
<1>3. NothingMissedBehindSync'
  BY DEF IInv, Restart, NothingMissedBehindSync, Covered
<1> QED BY <1>1, <1>2, <1>3 DEF IInv

LEMMA LedgerClosesIInv == ASSUME IInv, LedgerCloses PROVE IInv'
<1>1. TypeOK'
  BY SyncAssumption DEF IInv, TypeOK, LedgerCloses, pollVars
<1>2. \A q \in CatchingUp' : CatchUpIsSound(q)'
  BY UntouchedStaysSound DEF IInv, LedgerCloses, pollVars, CatchingUp
<1>3. NothingMissedBehindSync'
  BY DEF IInv, LedgerCloses, NothingMissedBehindSync, Covered
<1> QED BY <1>1, <1>2, <1>3 DEF IInv

LEMMA StepIInv == ASSUME IInv, [Next]_vars PROVE IInv'
<1>1. CASE LedgerCloses
  BY <1>1, LedgerClosesIInv
<1>2. CASE \E p \in Polls : Poll(p) \/ ReadLatest(p) \/ PollError(p) \/ NothingNew(p)
  BY <1>2, PollIInv
<1>3. CASE \E p \in Polls : StartCatchUp(p)
  BY <1>3, StartCatchUpIInv
<1>4. CASE \E p \in Polls : ProcessLedger(p) \/ EndBatch(p)
  BY <1>4, ProcessLedgerIInv, EndBatchIInv
<1>5. CASE \E p \in Polls : Checkpoint(p) \/ CheckpointFails(p)
  BY <1>5, CheckpointIInv, CheckpointFailsIInv
<1>6. CASE Restart
  BY <1>6, RestartIInv
<1>7. CASE UNCHANGED vars
  <2>1. TypeOK'
    BY <1>7 DEF IInv, TypeOK, vars, pollVars
  <2>2. \A q \in CatchingUp' : CatchUpIsSound(q)'
    BY <1>7, UntouchedStaysSound DEF IInv, vars, pollVars, CatchingUp
  <2>3. NothingMissedBehindSync'
    BY <1>7 DEF IInv, vars, NothingMissedBehindSync, Covered
  <2> QED BY <2>1, <2>2, <2>3 DEF IInv
<1> QED BY <1>1, <1>2, <1>3, <1>4, <1>5, <1>6, <1>7 DEF Next

-----------------------------------------------------------------------------
(* The theorems. *)

\* IInv holds in every state the synchronizer reaches.
THEOREM Inductive == Spec => []IInv
<1>1. Init => IInv
  BY InitIInv
<1>2. IInv /\ [Next]_vars => IInv'
  BY StepIInv
<1> QED BY <1>1, <1>2, PTL DEF Spec

\* Every variable keeps its type.
THEOREM TypeCorrect == Spec => []TypeOK
<1>1. IInv => TypeOK
  BY DEF IInv
<1> QED BY <1>1, Inductive, PTL

\* No ledger behind lastSyncedLedger or the stored checkpoint is missed.
THEOREM NothingIsMissed == Spec => []NothingMissedBehindSync
<1>1. IInv => NothingMissedBehindSync
  BY DEF IInv
<1> QED BY <1>1, Inductive, PTL

-----------------------------------------------------------------------------
(* What a restart repeats. While clean, one catch-up runs at most, and where *)
(* it stands says how far the checkpoint is behind.                          *)

OneAtMost == \A p, q \in CatchingUp : p = q

RestsAtCheckpoint == CatchingUp = {} => stored = synced

BatchInInterval ==
    \A p \in Polls : pc[p] = "batch" =>
        /\ start[p] = synced + 1 /\ stored <= synced
        /\ synced \div CheckpointInterval = stored \div CheckpointInterval

CheckpointPends ==
    \A p \in Polls : pc[p] = "checkpoint" =>
        synced = BatchEnd(start[p], target[p]) /\ stored <= synced

RInv == clean => OneAtMost /\ RestsAtCheckpoint /\ BatchInInterval /\ CheckpointPends

LEMMA DivMonotonic ==
    ASSUME NEW a \in Nat, NEW b \in Nat, NEW k \in Nat \ {0}, a <= b
    PROVE  a \div k <= b \div k
<1> DEFINE q == a \div k
           r == b \div k
<1>1. q \in Int /\ r \in Int
  OBVIOUS
<1>2. k * q <= a /\ b < k * (r + 1)
  OBVIOUS
<1> HIDE DEF q, r
<1>3. CASE q >= r + 1
  <2>1. k * q >= k * (r + 1)
    BY <1>1, <1>3
  <2> QED BY <1>1, <1>2, <2>1
<1>4. CASE q <= r
  BY <1>4 DEF q, r
<1> QED BY <1>1, <1>3, <1>4

\* Steps that neither move the marks nor change which catch-ups run, or where.
LEMMA SameStandingRInv ==
    ASSUME RInv, clean' = clean, synced' = synced, stored' = stored,
           CatchingUp' = CatchingUp,
           \A q \in Polls : pc'[q] # pc[q] => pc'[q] \notin {"batch", "checkpoint"},
           \A q \in CatchingUp : start'[q] = start[q] /\ target'[q] = target[q]
    PROVE  RInv'
<1>1. \A q \in Polls : pc'[q] \in {"batch", "checkpoint"} =>
          pc'[q] = pc[q] /\ start'[q] = start[q] /\ target'[q] = target[q]
  BY DEF CatchingUp
<1> QED BY <1>1 DEF RInv, OneAtMost, RestsAtCheckpoint, BatchInInterval, CheckpointPends,
                    BatchEnd, Lesser

LEMMA EndBatchRInv ==
    ASSUME IInv, RInv, NEW p \in Polls, EndBatch(p)
    PROVE  RInv'
<1> DEFINE end == BatchEnd(start[p], target[p])
<1> SUFFICES ASSUME clean' PROVE (OneAtMost /\ RestsAtCheckpoint /\ BatchInInterval /\ CheckpointPends)'
  BY DEF RInv
<1>1. /\ clean /\ pc[p] = "batch" /\ p \in CatchingUp /\ synced' = end /\ stored' = stored
      /\ target' = target /\ synced \in Nat /\ stored \in Nat
      /\ start[p] \in Nat /\ target[p] \in Nat /\ target[p] <= MaxLedger
      /\ pc \in [Polls -> {"idle", "latest", "answer", "batch", "checkpoint"}]
      /\ start \in [Polls -> 0..MaxLedger]
  BY SyncAssumption DEF EndBatch, CatchingUp, IInv, TypeOK
<1>2. /\ start[p] = synced + 1 /\ stored <= synced
      /\ synced \div CheckpointInterval = stored \div CheckpointInterval
      /\ OneAtMost
  BY <1>1 DEF RInv, BatchInInterval
<1>3. StartingLedger < start[p] /\ start[p] <= target[p]
  BY <1>1 DEF IInv, CatchUpIsSound
<1>4. end \in Nat /\ start[p] <= end
  BY <1>1, <1>3, BatchBounds
<1>5. CatchingUp' = CatchingUp /\ \A q \in Polls \ {p} : pc'[q] = pc[q]
  BY <1>1 DEF EndBatch, CatchingUp
<1>6. \A q \in Polls : pc'[q] \in {"batch", "checkpoint"} => q = p
  BY <1>1, <1>2, <1>5 DEF OneAtMost, CatchingUp
<1>7. CASE pc'[p] = "checkpoint"
  <2>1. start' = start
    BY <1>1, <1>7 DEF EndBatch
  <2>2. BatchEnd(start[p], target[p])' = end
    BY <1>1, <2>1 DEF BatchEnd, Lesser
  <2>3. synced' = BatchEnd(start[p], target[p])' /\ stored' <= synced'
    BY <1>1, <1>2, <1>4, <2>2
  <2> QED BY <1>1, <1>2, <1>5, <1>6, <1>7, <2>3
          DEF OneAtMost, RestsAtCheckpoint, BatchInInterval, CheckpointPends, CatchingUp
<1>8. CASE pc'[p] # "checkpoint"
  <2>1. ~CrossedBoundary(start[p], end) /\ pc' = pc /\ start' = [start EXCEPT ![p] = end + 1]
    BY <1>1, <1>8 DEF EndBatch
  <2>2. end \div CheckpointInterval <= synced \div CheckpointInterval
    BY <1>1, <1>2, <1>4, <2>1, SyncAssumption DEF CrossedBoundary
  <2>3. synced \div CheckpointInterval <= end \div CheckpointInterval
    <3>1. synced \in Nat /\ end \in Nat /\ synced <= end /\ CheckpointInterval \in Nat \ {0}
      BY <1>1, <1>2, <1>4, SyncAssumption
    <3> HIDE DEF end
    <3> QED BY <3>1, DivMonotonic
  <2>4. end \div CheckpointInterval = stored \div CheckpointInterval
    BY <1>1, <1>2, <1>4, <2>2, <2>3, SyncAssumption
  <2>5. start'[p] = synced' + 1 /\ stored' <= synced' /\ pc'[p] = "batch"
    BY <1>1, <1>2, <1>4, <2>1
  <2> QED BY <1>1, <1>2, <1>5, <1>6, <2>4, <2>5
          DEF OneAtMost, RestsAtCheckpoint, BatchInInterval, CheckpointPends, CatchingUp
<1> QED BY <1>7, <1>8

LEMMA CheckpointRInv ==
    ASSUME IInv, RInv, NEW p \in Polls, Checkpoint(p)
    PROVE  RInv'
<1> DEFINE end == BatchEnd(start[p], target[p])
<1> SUFFICES ASSUME clean' PROVE (OneAtMost /\ RestsAtCheckpoint /\ BatchInInterval /\ CheckpointPends)'
  BY DEF RInv
<1>1. /\ clean /\ pc[p] = "checkpoint" /\ p \in CatchingUp /\ synced' = synced /\ stored' = end
      /\ synced \in Nat
      /\ pc \in [Polls -> {"idle", "latest", "answer", "batch", "checkpoint"}]
      /\ start \in [Polls -> 0..MaxLedger]
  BY SyncAssumption DEF Checkpoint, CatchingUp, IInv, TypeOK
<1>2. synced = end /\ OneAtMost
  BY <1>1 DEF RInv, CheckpointPends
<1>3. /\ pc'[p] \in {"idle", "batch"}
      /\ pc'[p] = "batch" => start'[p] = end + 1
      /\ \A q \in Polls \ {p} : pc'[q] = pc[q]
  BY <1>1 DEF Checkpoint, Idle
<1>4. \A q \in Polls : pc'[q] \in {"batch", "checkpoint"} => q = p /\ pc'[q] = "batch"
  BY <1>1, <1>2, <1>3 DEF OneAtMost, CatchingUp
<1> QED BY <1>1, <1>2, <1>3, <1>4
        DEF OneAtMost, RestsAtCheckpoint, BatchInInterval, CheckpointPends, CatchingUp

LEMMA StartCatchUpRInv ==
    ASSUME IInv, RInv, NEW p \in Polls, StartCatchUp(p)
    PROVE  RInv'
<1> SUFFICES ASSUME clean' PROVE (OneAtMost /\ RestsAtCheckpoint /\ BatchInInterval /\ CheckpointPends)'
  BY DEF RInv
<1>1. /\ clean /\ CatchingUp = {} /\ stored = synced /\ synced' = synced /\ stored' = stored
      /\ synced \in Nat
  <2>1. clean /\ CatchingUp = {}
    BY Zenon DEF StartCatchUp
  <2> QED BY <2>1, SyncAssumption DEF StartCatchUp, RInv, RestsAtCheckpoint, IInv, TypeOK
<1>2. pc'[p] = "batch" /\ start'[p] = synced + 1 /\ \A q \in Polls \ {p} : pc'[q] = pc[q]
  BY DEF StartCatchUp, IInv, TypeOK
<1>3. \A q \in Polls : pc'[q] \in {"batch", "checkpoint"} => q = p
  BY <1>1, <1>2 DEF CatchingUp
<1> QED BY <1>1, <1>2, <1>3
        DEF OneAtMost, RestsAtCheckpoint, BatchInInterval, CheckpointPends, CatchingUp

LEMMA StepRInv == ASSUME IInv, RInv, [Next]_vars PROVE RInv'
<1>1. CASE UNCHANGED vars
  BY <1>1, SameStandingRInv DEF vars, pollVars, CatchingUp
<1>2. CASE LedgerCloses
  BY <1>2, SameStandingRInv DEF LedgerCloses, pollVars, CatchingUp
<1>3. ASSUME NEW p \in Polls, Poll(p) \/ ReadLatest(p) \/ PollError(p) \/ NothingNew(p)
      PROVE  RInv'
  <2>1. /\ clean' = clean /\ synced' = synced /\ stored' = stored
        /\ CatchingUp' = CatchingUp /\ p \notin CatchingUp
        /\ \A q \in Polls : pc'[q] # pc[q] => pc'[q] \notin {"batch", "checkpoint"}
        /\ \A q \in Polls \ {p} : start'[q] = start[q] /\ target'[q] = target[q]
    BY <1>3 DEF IInv, TypeOK, Poll, ReadLatest, PollError, NothingNew, Idle, CatchingUp
  <2>2. CatchingUp \subseteq Polls
    BY DEF CatchingUp
  <2> QED BY <2>1, <2>2, SameStandingRInv
<1>4. ASSUME NEW p \in Polls, ProcessLedger(p) PROVE RInv'
  BY <1>4, SameStandingRInv DEF ProcessLedger, CatchingUp
<1>5. ASSUME NEW p \in Polls, CheckpointFails(p) PROVE RInv'
  BY <1>5 DEF CheckpointFails, RInv
<1>6. CASE Restart
  BY <1>6 DEF Restart, RInv, OneAtMost, RestsAtCheckpoint, BatchInInterval, CheckpointPends,
              CatchingUp
<1> QED BY <1>1, <1>2, <1>3, <1>4, <1>5, <1>6, StartCatchUpRInv, EndBatchRInv, CheckpointRInv
        DEF Next

\* event_listener.ts: a restart of a clean synchronizer repeats no more than the
\* ledgers since the last interval boundary and the batch being checkpointed.
THEOREM RestartsRepeatLittle == Spec => []RestartRepeatsLittle
<1>1. Init => RInv
  BY DEF Init, RInv, OneAtMost, RestsAtCheckpoint, BatchInInterval, CheckpointPends, CatchingUp
<1>2. RInv /\ IInv /\ [Next]_vars => RInv'
  BY StepRInv
<1>3. RInv /\ IInv => RestartRepeatsLittle
  <2> SUFFICES ASSUME RInv, IInv, clean PROVE RestartRepeatsLittle
    BY DEF RestartRepeatsLittle
  <2>1. synced \in Nat /\ stored \in Nat
    BY SyncAssumption DEF IInv, TypeOK
  <2>2. CASE CatchingUp = {}
    BY <2>1, <2>2 DEF RInv, RestsAtCheckpoint, RestartRepeatsLittle
  <2>3. CASE CatchingUp # {}
    BY <2>3 DEF RInv, BatchInInterval, CheckpointPends, RestartRepeatsLittle, CatchingUp
  <2> QED BY <2>2, <2>3
<1> QED BY <1>1, <1>2, <1>3, Inductive, PTL DEF Spec

\* event_listener.ts: what lastSyncedLedger and the checkpoint say is true, and
\* the checkpoint is no older than it must be.
THEOREM SyncHolds == Spec => []SyncIsSound
<1> QED BY NothingIsMissed, RestartsRepeatLittle, PTL DEF SyncIsSound

-----------------------------------------------------------------------------
(* inProgress is no dead end. *)

\* inProgress says that some catch-up runs; overlapping ones share the flag, so
\* the converse does not hold.
FlagIsHeld == inProgress => CatchingUp # {}

\* A ledger not yet handled is ahead of lastSyncedLedger, where the next poll
\* finds it, and polls are held back only while a catch-up runs.
UnhandledIsAhead ==
    /\ \A n \in Ledgers \ handled : synced < n
    /\ FlagIsHeld

LEMMA FlagStep == ASSUME IInv, FlagIsHeld, [Next]_vars PROVE FlagIsHeld'
<1> USE DEF FlagIsHeld, CatchingUp
<1>1. pc \in [Polls -> {"idle", "latest", "answer", "batch", "checkpoint"}]
  BY DEF IInv, TypeOK
<1>2. ASSUME NEW p \in Polls, StartCatchUp(p) PROVE FlagIsHeld'
  <2>1. pc'[p] = "batch"
    BY <1>1, <1>2 DEF StartCatchUp
  <2> QED BY <2>1
<1>3. ASSUME NEW p \in Polls, Poll(p) \/ ReadLatest(p) \/ PollError(p) \/ NothingNew(p)
      PROVE  FlagIsHeld'
  <2>1. inProgress' = inProgress /\ \A q \in CatchingUp : pc'[q] = pc[q]
    BY <1>1, <1>3 DEF Poll, ReadLatest, PollError, NothingNew, Idle
  <2> QED BY <2>1
<1>4. ASSUME NEW p \in Polls, EndBatch(p) PROVE FlagIsHeld'
  <2>1. pc'[p] \in {"batch", "checkpoint"}
    BY <1>1, <1>4 DEF EndBatch
  <2> QED BY <2>1
<1>5. ASSUME NEW p \in Polls, Checkpoint(p), inProgress' PROVE FlagIsHeld'
  <2>1. pc'[p] = "batch"
    BY <1>1, <1>5 DEF Checkpoint
  <2> QED BY <2>1
<1>6. ASSUME NEW p \in Polls, CheckpointFails(p) PROVE FlagIsHeld'
  BY <1>6 DEF CheckpointFails, AfterThrow
<1>7. ASSUME NEW p \in Polls, ProcessLedger(p) PROVE FlagIsHeld'
  BY <1>7 DEF ProcessLedger
<1>8. CASE LedgerCloses \/ Restart \/ UNCHANGED vars
  BY <1>8 DEF LedgerCloses, Restart, vars, pollVars
<1> QED BY <1>2, <1>3, <1>4, <1>5, <1>6, <1>7, <1>8 DEF Next

\* event_listener.ts: polls skip only while a catch-up runs, through overlaps,
\* failed checkpoints and restarts, and what is not handled is ahead of it: the
\* safety half of EveryLedgerIsHandled.
THEOREM SyncIsNeverStuck == Spec => []UnhandledIsAhead
<1>1. Init => FlagIsHeld
  BY DEF Init, FlagIsHeld
<1>2. IInv /\ FlagIsHeld /\ [Next]_vars => FlagIsHeld'
  BY FlagStep
<1>3. IInv /\ FlagIsHeld => UnhandledIsAhead
  <2> SUFFICES ASSUME IInv, FlagIsHeld, NEW n \in Ledgers \ handled PROVE synced < n
    BY DEF FlagIsHeld, UnhandledIsAhead
  <2>1. n \in Nat /\ StartingLedger < n /\ synced \in Nat
    BY SyncAssumption DEF Ledgers, IInv, TypeOK
  <2>2. n \notin (StartingLedger + 1)..synced
    BY DEF IInv, NothingMissedBehindSync, Covered
  <2> QED BY <2>1, <2>2, SyncAssumption
<1> QED BY <1>1, <1>2, <1>3, Inductive, PTL DEF Spec
=============================================================================
