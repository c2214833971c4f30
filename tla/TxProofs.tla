------------------------------- MODULE TxProofs -------------------------------
(***************************************************************************)
(* No charge is applied twice, concurrent charges keep the order of their  *)
(* numbers, and one retry is enough for a charge that nobody disturbs: for *)
(* any set of charges, queue bound, threshold and background, over lost    *)
(* requests, lost answers and syncs at any time.                           *)
(***************************************************************************)
EXTENDS TxSubmission, TLAPS

\* What is posted and what queues behind it are calls that await an answer,
\* each in one place.
QueueSound ==
    /\ posted = NoCharge => queue = <<>> /\ reply = "none"
    /\ posted # NoCharge => pc[posted] = "queued"
    /\ \A i \in 1..Len(queue) : pc[queue[i]] = "queued" /\ queue[i] # posted
    /\ \A i, j \in 1..Len(queue) : queue[i] = queue[j] => i = j

WaitingSound ==
    /\ \A i \in 1..Len(waiting) : pc[waiting[i]] = "acquire"
    /\ \A i, j \in 1..Len(waiting) : waiting[i] = waiting[j] => i = j

\* A call resynchronizes before its retry only.
RetrySound ==
    \A c \in Charges :
        /\ sync[c] # "off" => pc[c] = "resync"
        /\ pc[c] \in {"idle", "resync"} => ~isRetry[c]

\* The ledger accepts an envelope of a call that then awaits its answer, or is
\* over: a retry follows a refusal only.
AppliedSound ==
    \A c \in Charges :
        /\ applied[c] \in {0, 1}
        /\ applied[c] = 1 => pc[c] = "done" \/ (posted = c /\ reply = "accepted")
        /\ posted = c /\ reply = "accepted" => applied[c] = 1
        /\ outcome[c] = "submitted" => applied[c] = 1
        /\ outcome[c] # "none" => pc[c] = "done"

\* No pending number is above the counter, so the next one follows them all.
Ordered ==
    ~lowered =>
        /\ \A c \in Charges : pc[c] = "queued" => number[c] <= counter
        /\ \A i \in 1..Len(queue) : number[posted] < number[queue[i]]
        /\ \A i, j \in 1..Len(queue) : i < j => number[queue[i]] < number[queue[j]]

\* Where the retry of an undisturbed charge stands, and what the counter is then:
\* it was refused, it read the account, it took the counter over, it was numbered.
RefusedOnce(c) ==
    /\ counter # account + 1
    /\ \/ pc[c] = "queued" /\ posted = c /\ reply = "refused"
       \/ pc[c] = "resync" /\ sync[c] = "asked"
       \/ pc[c] = "resync" /\ sync[c] = "read" /\ seen[c] = account

Renumbered(c) ==
    \/ pc[c] = "acquire" /\ counter = account
    \/ pc[c] = "queued" /\ number[c] = account + 1 /\ (posted = c => reply \in {"none", "dropped"})
    \/ pc[c] = "queued" /\ posted = c /\ reply = "accepted"

CalmSound ==
    \A c \in calm :
        \/ ~isRetry[c] /\ RefusedOnce(c)
        \/ isRetry[c] /\ Renumbered(c)
        \/ pc[c] = "done" /\ outcome[c] # "bad_seq"

TxInv ==
    /\ TypeOK /\ QueueSound /\ WaitingSound /\ RetrySound
    /\ AppliedSound /\ Ordered /\ CalmSound

-----------------------------------------------------------------------------
LEMMA TailOf ==
    ASSUME NEW S, NEW s \in Seq(S), s # <<>>
    PROVE  /\ Len(s) \in Nat \ {0} /\ Head(s) = s[1] /\ Head(s) \in S
           /\ Tail(s) \in Seq(S) /\ Len(Tail(s)) = Len(s) - 1
           /\ \A i \in 1..Len(Tail(s)) : Tail(s)[i] = s[i + 1] /\ i + 1 \in 1..Len(s)
OBVIOUS

LEMMA AppendOf ==
    ASSUME NEW S, NEW s \in Seq(S), NEW e \in S
    PROVE  /\ Append(s, e) \in Seq(S) /\ Len(s) \in Nat /\ Len(Append(s, e)) = Len(s) + 1
           /\ \A i \in 1..Len(s) : Append(s, e)[i] = s[i]
           /\ Append(s, e)[Len(s) + 1] = e
           /\ \A i \in 1..Len(Append(s, e)) : i \in 1..Len(s) \/ i = Len(s) + 1
OBVIOUS

LEMMA ElementOf == ASSUME NEW S, NEW s \in Seq(S) PROVE Len(s) \in Nat /\ \A i \in 1..Len(s) : s[i] \in S
OBVIOUS

\* A call that does not await an answer is in neither place.
LEMMA NotInFlight ==
    ASSUME TxInv, NEW c \in Charges, pc[c] # "queued"
    PROVE  posted # c /\ \A i \in 1..Len(queue) : queue[i] # c
BY TxAssumption DEF TxInv, QueueSound

LEMMA NotWaiting ==
    ASSUME TxInv, NEW c \in Charges, pc[c] # "acquire"
    PROVE  \A i \in 1..Len(waiting) : waiting[i] # c
BY DEF TxInv, WaitingSound

LEMMA InitInv == Init => TxInv
<1> SUFFICES ASSUME Init PROVE TxInv
  OBVIOUS
<1>1. TypeOK
  <2>1. sync \in [Syncers -> {"off", "asked", "read"}] /\ ready \in BOOLEAN /\ lowered \in BOOLEAN
    BY DEF Init
  <2>2. waiting \in Seq(Charges) /\ queue \in Seq(Charges) /\ Len(queue) <= MaxQueue
    BY TxAssumption DEF Init
  <2> QED BY <2>1, <2>2, TxAssumption DEF Init, TypeOK
<1>2. QueueSound /\ WaitingSound /\ Ordered /\ CalmSound
  BY DEF Init, QueueSound, WaitingSound, Ordered, CalmSound
<1>3. RetrySound /\ AppliedSound
  BY TxAssumption DEF Init, RetrySound, AppliedSound, Syncers
<1> QED BY <1>1, <1>2, <1>3 DEF TxInv

-----------------------------------------------------------------------------
LEMMA SubmitInv == ASSUME TxInv, NEW c \in Charges, Submit(c) PROVE TxInv'
<1> USE DEF rpcVars, ledgerVars
<1>1. c \notin calm
  BY DEF TxInv, CalmSound, RefusedOnce, Renumbered, Submit
<1>2. waiting \in Seq(Charges) /\ pc[c] = "idle" /\ pc \in [Charges -> {"idle", "acquire", "queued", "resync", "done"}]
  BY DEF TxInv, TypeOK, Submit
<1>3. TypeOK'
  BY <1>2, AppendOf DEF TxInv, TypeOK, Submit
<1>4. QueueSound' /\ RetrySound'
  BY <1>2, TxAssumption DEF TxInv, TypeOK, QueueSound, RetrySound, Submit
<1>5. WaitingSound'
  BY <1>2, AppendOf, NotWaiting, ElementOf DEF TxInv, WaitingSound, Submit
<1>6. AppliedSound'
  BY <1>2 DEF TxInv, TypeOK, AppliedSound, Submit
<1>7. Ordered'
  BY <1>2 DEF TxInv, Ordered, Submit
<1>8. CalmSound'
  BY <1>1, <1>2 DEF TxInv, TypeOK, CalmSound, RefusedOnce, Renumbered, Submit
<1> QED BY <1>3, <1>4, <1>5, <1>6, <1>7, <1>8 DEF TxInv

LEMMA ServeInv == ASSUME TxInv, Serve PROVE TxInv'
<1>1. /\ waiting \in Seq(Charges) /\ queue \in Seq(Charges) /\ waiting # <<>>
      /\ Len(queue) <= MaxQueue /\ MaxQueue \in Nat
      /\ pc \in [Charges -> {"idle", "acquire", "queued", "resync", "done"}]
      /\ outcome \in [Charges -> {"none", "submitted", "bad_seq", "lost", "full"}]
      /\ number \in [Charges -> Nat] /\ counter \in Nat
      /\ posted \in Charges \cup {NoCharge} /\ NoCharge \notin Charges
  BY TxAssumption DEF TxInv, TypeOK, Serve
<1>2. PICK c \in Charges : c = Head(waiting)
  BY <1>1, TailOf
<1>3. /\ waiting' = Tail(waiting) /\ counter' = counter + 1
      /\ number' = [number EXCEPT ![c] = counter + 1]
      /\ calm' = calm \cap {c}
      /\ UNCHANGED <<ready, sync, seen, isRetry, reply, failures, account, applied, background, lowered>>
  BY <1>2 DEF Serve, NextNumber, Disturb, ledgerVars
<1>4. \/ /\ pc' = [pc EXCEPT ![c] = "queued"] /\ Len(queue) < MaxQueue
         /\ \/ posted = NoCharge /\ posted' = c /\ queue' = queue
            \/ posted # NoCharge /\ posted' = posted /\ queue' = Append(queue, c)
         /\ outcome' = outcome
      \/ /\ pc' = [pc EXCEPT ![c] = "done"] /\ outcome' = [outcome EXCEPT ![c] = "full"]
         /\ queue' = queue /\ posted' = posted
  BY <1>2 DEF Serve, HasRoom
<1>5. /\ Tail(waiting) \in Seq(Charges) /\ Len(Tail(waiting)) = Len(waiting) - 1 /\ Len(waiting) \in Nat \ {0}
      /\ \A i \in 1..Len(Tail(waiting)) : Tail(waiting)[i] = waiting[i + 1] /\ i + 1 \in 1..Len(waiting)
      /\ c = waiting[1]
  BY <1>1, <1>2, TailOf
<1>6. pc[c] = "acquire" /\ posted # c /\ \A i \in 1..Len(queue) : queue[i] # c
  <2>1. pc[c] = "acquire"
    BY <1>5 DEF TxInv, WaitingSound
  <2> QED BY <2>1, NotInFlight
<1>7. /\ Append(queue, c) \in Seq(Charges) /\ Len(queue) \in Nat /\ Len(Append(queue, c)) = Len(queue) + 1
      /\ \A i \in 1..Len(queue) : Append(queue, c)[i] = queue[i]
      /\ Append(queue, c)[Len(queue) + 1] = c
      /\ \A i \in 1..Len(Append(queue, c)) : i \in 1..Len(queue) \/ i = Len(queue) + 1
      /\ \A i \in 1..Len(queue) : queue[i] \in Charges
  BY <1>1, AppendOf, ElementOf
<1>8. TypeOK'
  <2>1. /\ posted' \in Charges \cup {NoCharge} /\ queue' \in Seq(Charges) /\ Len(queue') <= MaxQueue
    <3>1. CASE queue' = queue
      BY <3>1, <1>1, <1>4
    <3>2. CASE queue' = Append(queue, c) /\ Len(queue) < MaxQueue /\ posted' = posted
      BY <3>2, <1>1, <1>7
    <3> QED BY <3>1, <3>2, <1>4
  <2>2. pc' \in [Charges -> {"idle", "acquire", "queued", "resync", "done"}]
    BY <1>1, <1>4
  <2>3. outcome' \in [Charges -> {"none", "submitted", "bad_seq", "lost", "full"}]
    BY <1>1, <1>4
  <2>4. /\ counter' \in Nat /\ number' \in [Charges -> Nat] /\ waiting' \in Seq(Charges)
        /\ isRetry' \in [Charges -> BOOLEAN] /\ calm' \in SUBSET Charges
    BY <1>1, <1>3, <1>5 DEF TxInv, TypeOK
  <2> QED BY <2>1, <2>2, <2>3, <2>4, <1>3 DEF TxInv, TypeOK
<1>9. QueueSound'
  <2>1. /\ \A d \in Charges : d # c => pc'[d] = pc[d]
        /\ pc' = [pc EXCEPT ![c] = "queued"] => pc'[c] = "queued"
    BY <1>1, <1>4
  <2>2. /\ posted = NoCharge => queue = <<>> /\ reply = "none"
        /\ posted # NoCharge => pc[posted] = "queued"
        /\ \A i \in 1..Len(queue) : pc[queue[i]] = "queued" /\ queue[i] # posted
        /\ \A i, j \in 1..Len(queue) : queue[i] = queue[j] => i = j
    BY DEF TxInv, QueueSound
  <2>3. CASE pc' = [pc EXCEPT ![c] = "queued"] /\ posted = NoCharge /\ posted' = c /\ queue' = queue
    BY <2>1, <2>2, <2>3, <1>1 DEF QueueSound
  <2>4. CASE pc' = [pc EXCEPT ![c] = "queued"] /\ posted # NoCharge /\ posted' = posted /\ queue' = Append(queue, c)
    <3>1. \A i \in 1..Len(queue') : pc'[queue'[i]] = "queued" /\ queue'[i] # posted'
      BY <2>1, <2>2, <2>4, <1>6, <1>7
    <3>2. \A i, j \in 1..Len(queue') : queue'[i] = queue'[j] => i = j
      BY <2>2, <2>4, <1>6, <1>7
    <3> QED BY <3>1, <3>2, <2>1, <2>2, <2>4, <1>1, <1>6 DEF QueueSound
  <2>5. CASE queue' = queue /\ posted' = posted
    BY SMTT(20), <2>1, <2>2, <2>5, <1>1, <1>3, <1>6, <1>7 DEF QueueSound
  <2> QED BY <1>4, <2>3, <2>4, <2>5
<1>10. WaitingSound'
  <2>1. \A i \in 1..Len(waiting') : waiting'[i] # c /\ waiting'[i] \in Charges /\ pc[waiting'[i]] = "acquire"
    BY <1>1, <1>3, <1>5, ElementOf DEF TxInv, WaitingSound
  <2>2. \A d \in Charges : d # c => pc'[d] = pc[d]
    BY <1>1, <1>4
  <2>3. \A i, j \in 1..Len(waiting') : waiting'[i] = waiting'[j] => i = j
    BY <1>3, <1>5 DEF TxInv, WaitingSound
  <2> QED BY <2>1, <2>2, <2>3 DEF WaitingSound
<1>11. RetrySound'
  BY <1>1, <1>3, <1>4, <1>6 DEF TxInv, RetrySound
<1>12. AppliedSound'
  <2>1. \A d \in Charges : d # c => pc'[d] = pc[d] /\ outcome'[d] = outcome[d] /\ (posted' = d <=> posted = d)
    BY <1>1, <1>4
  <2>2. applied[c] = 0 /\ outcome[c] = "none" /\ ~(posted' = c /\ reply = "accepted")
    BY <1>1, <1>4, <1>6 DEF TxInv, QueueSound, AppliedSound
  <2>3. outcome'[c] # "submitted" /\ (outcome'[c] # "none" => pc'[c] = "done")
    BY <2>2, <1>1, <1>4
  <2> QED BY <2>1, <2>2, <2>3, <1>3 DEF TxInv, AppliedSound
<1>13. Ordered'
  <2> SUFFICES ASSUME ~lowered
               PROVE  /\ \A d \in Charges : pc'[d] = "queued" => number'[d] <= counter'
                      /\ \A i \in 1..Len(queue') : number'[posted'] < number'[queue'[i]]
                      /\ \A i, j \in 1..Len(queue') : i < j => number'[queue'[i]] < number'[queue'[j]]
    BY <1>3 DEF Ordered
  <2>1. \A d \in Charges : number'[d] = IF d = c THEN counter + 1 ELSE number[d]
    BY <1>1, <1>3
  <2>2. \A d \in Charges : pc[d] = "queued" => number[d] <= counter
    BY DEF TxInv, Ordered
  <2>3. \A d \in Charges : pc'[d] = "queued" => number'[d] <= counter'
    BY <2>1, <2>2, <1>1, <1>3, <1>4
  <2>4. CASE queue' = queue /\ posted' = posted
    <3>1. \A i \in 1..Len(queue) : posted \in Charges /\ number[posted] < number[queue[i]]
      BY <1>1 DEF TxInv, QueueSound, Ordered
    <3>2. \A i, j \in 1..Len(queue) : i < j => number[queue[i]] < number[queue[j]]
      BY DEF TxInv, Ordered
    <3>3. \A i \in 1..Len(queue) : number'[posted] = number[posted] /\ number'[queue[i]] = number[queue[i]]
      BY <3>1, <2>1, <1>6, <1>7
    <3> QED BY <3>1, <3>2, <3>3, <2>3, <2>4
  <2>5. CASE posted = NoCharge /\ queue' = queue
    BY <2>3, <2>5 DEF TxInv, QueueSound
  <2>6. CASE posted # NoCharge /\ posted' = posted /\ queue' = Append(queue, c)
    <3>1. /\ \A i \in 1..Len(queue) : number[queue[i]] < counter + 1 /\ number[posted] < number[queue[i]]
          /\ number[posted] < counter + 1 /\ posted \in Charges
      <4>1. \A i \in 1..Len(queue) : pc[queue[i]] = "queued" /\ number[posted] < number[queue[i]]
        BY DEF TxInv, QueueSound, Ordered
      <4>2. posted \in Charges /\ pc[posted] = "queued"
        BY <2>6, <1>1 DEF TxInv, QueueSound
      <4> QED BY SMTT(20), <4>1, <4>2, <2>2, <1>1, <1>7
    <3>2. \A i, j \in 1..Len(queue) : i < j => number[queue[i]] < number[queue[j]]
      BY DEF TxInv, Ordered
    <3> QED BY <3>1, <3>2, <2>1, <2>3, <2>6, <1>6, <1>7
  <2> QED BY <2>4, <2>5, <2>6, <1>4
<1>14. CalmSound'
  <2> SUFFICES ASSUME c \in calm
               PROVE  \/ ~isRetry'[c] /\ RefusedOnce(c)'
                      \/ isRetry'[c] /\ Renumbered(c)'
                      \/ pc'[c] = "done" /\ outcome'[c] # "bad_seq"
    BY <1>3 DEF CalmSound
  <2>1. isRetry[c] /\ counter = account
    BY <1>6 DEF TxInv, CalmSound, RefusedOnce, Renumbered
  <2>2. CASE pc' = [pc EXCEPT ![c] = "done"] /\ outcome' = [outcome EXCEPT ![c] = "full"]
    BY <2>2, <1>1
  <2>3. CASE pc' = [pc EXCEPT ![c] = "queued"]
    <3>1. posted' = c => reply \in {"none", "dropped"}
      BY <1>1, <1>4, <1>6 DEF TxInv, QueueSound
    <3>2. number'[c] = account' + 1 /\ pc'[c] = "queued" /\ isRetry'[c]
      BY <2>1, <2>3, <1>1, <1>3
    <3> QED BY <3>1, <3>2, <1>3 DEF Renumbered
  <2> QED BY <2>2, <2>3, <1>4
<1> QED BY <1>8, <1>9, <1>10, <1>11, <1>12, <1>13, <1>14 DEF TxInv

-----------------------------------------------------------------------------
LEMMA PostedTypes ==
    TxInv => /\ posted \in Charges \cup {NoCharge} /\ NoCharge \notin Charges
             /\ queue \in Seq(Charges) /\ Len(queue) <= MaxQueue /\ MaxQueue \in Nat
             /\ pc \in [Charges -> {"idle", "acquire", "queued", "resync", "done"}]
             /\ outcome \in [Charges -> {"none", "submitted", "bad_seq", "lost", "full"}]
             /\ number \in [Charges -> Nat] /\ applied \in [Charges -> Nat]
             /\ counter \in Nat /\ account \in Nat
BY TxAssumption DEF TxInv, TypeOK

LEMMA AcceptInv == ASSUME TxInv, Accept PROVE TxInv'
<1>1. /\ posted # NoCharge /\ number[posted] = account + 1 /\ reply = "none" /\ reply' = "accepted"
      /\ account' = account + 1 /\ applied' = [applied EXCEPT ![posted] = @ + 1]
      /\ calm' = calm \cap {posted}
      /\ UNCHANGED <<counter, ready, waiting, sync, seen, pc, number, isRetry, outcome>>
      /\ UNCHANGED <<queue, posted, failures, background, lowered>>
  BY DEF Accept, Judge, Disturb, poolVars, callVars
<1>2. PICK c \in Charges : c = posted
  BY <1>1, PostedTypes
<1>3. pc[c] = "queued"
  BY <1>1, <1>2 DEF TxInv, QueueSound
<1>4. applied[c] = 0
  BY <1>1, <1>2, <1>3 DEF TxInv, AppliedSound
<1>5. applied' \in [Charges -> Nat] /\ applied'[c] = 1 /\ \A d \in Charges : d # c => applied'[d] = applied[d]
  BY <1>1, <1>2, <1>4, PostedTypes
<1>6. TypeOK'
  BY <1>1, <1>5 DEF TxInv, TypeOK
<1>7. QueueSound' /\ WaitingSound' /\ RetrySound' /\ Ordered'
  BY <1>1 DEF TxInv, QueueSound, WaitingSound, RetrySound, Ordered
<1>8. AppliedSound'
  BY <1>1, <1>2, <1>3, <1>5 DEF TxInv, AppliedSound
<1>9. CalmSound'
  <2>1. c \in calm => isRetry[c]
    BY <1>1, <1>3 DEF TxInv, CalmSound, RefusedOnce
  <2> QED BY <2>1, <1>1, <1>2, <1>3 DEF CalmSound, Renumbered
<1> QED BY <1>6, <1>7, <1>8, <1>9 DEF TxInv

LEMMA RefuseInv == ASSUME TxInv, Refuse PROVE TxInv'
<1>1. /\ posted # NoCharge /\ number[posted] # account + 1 /\ reply = "none" /\ reply' = "refused"
      /\ calm' = IF ~isRetry[posted] /\ number[posted] = counter THEN calm \cup {posted} ELSE calm
      /\ UNCHANGED <<counter, ready, waiting, sync, seen, pc, number, isRetry, outcome>>
      /\ UNCHANGED <<queue, posted, failures, background, lowered, account, applied>>
  BY DEF Refuse, Judge, poolVars, callVars
<1>2. PICK c \in Charges : c = posted
  BY <1>1, PostedTypes
<1>3. pc[c] = "queued"
  BY <1>1, <1>2 DEF TxInv, QueueSound
<1>4. TypeOK'
  BY <1>1, <1>2 DEF TxInv, TypeOK
<1>5. QueueSound' /\ WaitingSound' /\ RetrySound' /\ Ordered'
  BY <1>1 DEF TxInv, QueueSound, WaitingSound, RetrySound, Ordered
<1>6. AppliedSound'
  BY <1>1 DEF TxInv, AppliedSound
<1>7. CalmSound'
  <2>1. ASSUME NEW d \in calm, d # c
        PROVE  \/ ~isRetry'[d] /\ RefusedOnce(d)'
               \/ isRetry'[d] /\ Renumbered(d)'
               \/ pc'[d] = "done" /\ outcome'[d] # "bad_seq"
    BY <2>1, <1>1, <1>2 DEF TxInv, CalmSound, RefusedOnce, Renumbered
  <2>2. c \notin calm
    BY <1>1, <1>2, <1>3 DEF TxInv, CalmSound, RefusedOnce, Renumbered
  <2>3. ~isRetry[c] /\ number[c] = counter => ~isRetry'[c] /\ RefusedOnce(c)'
    BY <1>1, <1>2, <1>3 DEF RefusedOnce
  <2> QED BY <2>1, <2>2, <2>3, <1>1, <1>2 DEF CalmSound
<1> QED BY <1>4, <1>5, <1>6, <1>7 DEF TxInv

LEMMA DropInv == ASSUME TxInv, Drop PROVE TxInv'
<1>1. /\ posted # NoCharge /\ reply = "none" /\ reply' = "dropped"
      /\ UNCHANGED <<counter, ready, waiting, sync, seen, pc, number, isRetry, outcome>>
      /\ UNCHANGED <<queue, posted, failures, background, lowered, account, applied, calm>>
  BY DEF Drop, Judge, poolVars, callVars
<1>2. TypeOK'
  BY <1>1 DEF TxInv, TypeOK
<1>3. QueueSound' /\ WaitingSound' /\ RetrySound' /\ Ordered'
  BY <1>1 DEF TxInv, QueueSound, WaitingSound, RetrySound, Ordered
<1>4. AppliedSound'
  BY <1>1 DEF TxInv, AppliedSound
<1>5. CalmSound'
  BY <1>1 DEF TxInv, CalmSound, RefusedOnce, Renumbered
<1> QED BY <1>2, <1>3, <1>4, <1>5 DEF TxInv

LEMMA OtherInv == ASSUME TxInv, OtherTransaction PROVE TxInv'
<1>1. /\ background < MaxBackground /\ background' = background + 1 /\ account' = account + 1 /\ calm' = {}
      /\ UNCHANGED <<counter, ready, waiting, sync, seen, pc, number, isRetry, outcome>>
      /\ UNCHANGED <<queue, posted, reply, failures, lowered, applied>>
  BY DEF OtherTransaction, poolVars, callVars, rpcVars
<1>2. TypeOK'
  BY <1>1, TxAssumption DEF TxInv, TypeOK
<1>3. QueueSound' /\ WaitingSound' /\ RetrySound' /\ Ordered' /\ CalmSound'
  BY <1>1 DEF TxInv, QueueSound, WaitingSound, RetrySound, Ordered, CalmSound
<1>4. AppliedSound'
  BY <1>1 DEF TxInv, AppliedSound
<1> QED BY <1>2, <1>3, <1>4 DEF TxInv

-----------------------------------------------------------------------------
\* An answer: the next request of the queue goes out, and its call alone moved.
LEMMA AnswerInv ==
    ASSUME TxInv, Advance, NEW c \in Charges, posted = c,
           NEW at \in {"resync", "done"}, pc' = [pc EXCEPT ![c] = at],
           UNCHANGED <<counter, number, lowered>>
    PROVE  /\ posted' \in Charges \cup {NoCharge} /\ posted' # c /\ reply' = "none"
           /\ queue' \in Seq(Charges) /\ Len(queue') <= MaxQueue
           /\ QueueSound' /\ Ordered'
<1>1. /\ queue \in Seq(Charges) /\ Len(queue) <= MaxQueue /\ MaxQueue \in Nat /\ NoCharge \notin Charges
      /\ pc \in [Charges -> {"idle", "acquire", "queued", "resync", "done"}]
  BY PostedTypes
<1>2. /\ \A i \in 1..Len(queue) : pc[queue[i]] = "queued" /\ queue[i] # c
      /\ \A i, j \in 1..Len(queue) : queue[i] = queue[j] => i = j
  BY DEF TxInv, QueueSound
<1>3. \A d \in Charges : d # c => pc'[d] = pc[d]
  BY <1>1
<1>4. Len(queue) \in Nat /\ \A i \in 1..Len(queue) : queue[i] \in Charges
  BY <1>1, ElementOf
<1>5. pc'[c] # "queued"
  BY <1>1
<1>6. CASE queue = <<>>
  <2>1. posted' = NoCharge /\ queue' = <<>> /\ reply' = "none"
    BY <1>6 DEF Advance
  <2>2. QueueSound'
    BY <2>1 DEF QueueSound
  <2>3. Ordered'
    BY <2>1, <1>3, <1>5 DEF TxInv, Ordered
  <2> QED BY <2>1, <2>2, <2>3, <1>1, <1>6
<1>7. CASE queue # <<>>
  <2>1. /\ posted' = queue[1] /\ queue' \in Seq(Charges) /\ reply' = "none" /\ 1 \in 1..Len(queue)
        /\ Len(queue') = Len(queue) - 1
        /\ \A i \in 1..Len(queue') : queue'[i] = queue[i + 1] /\ i + 1 \in 1..Len(queue) /\ i \in Nat /\ i >= 1
    BY <1>1, <1>7, TailOf DEF Advance
  <2>2. QueueSound'
    <3>1. \A i \in 1..Len(queue') : pc'[queue'[i]] = "queued" /\ queue'[i] # posted'
      <4>1. \A i \in 1..Len(queue') : i + 1 # 1
        BY <2>1
      <4>2. \A i \in 1..Len(queue') : queue[i + 1] # queue[1] /\ queue[i + 1] # c /\ queue[i + 1] \in Charges
        BY <4>1, <2>1, <1>2, <1>4
      <4> QED BY <4>2, <2>1, <1>2, <1>3
    <3>2. \A i, j \in 1..Len(queue') : queue'[i] = queue'[j] => i = j
      BY <2>1, <1>2
    <3> QED BY <3>1, <3>2, <2>1, <1>1, <1>2, <1>3, <1>4 DEF QueueSound
  <2>3. Ordered'
    <3> SUFFICES ASSUME ~lowered
                 PROVE  /\ \A d \in Charges : pc'[d] = "queued" => number[d] <= counter
                        /\ \A i \in 1..Len(queue') : number[posted'] < number[queue'[i]]
                        /\ \A i, j \in 1..Len(queue') : i < j => number[queue'[i]] < number[queue'[j]]
      BY DEF Ordered
    <3>1. \A i, j \in 1..Len(queue) : i < j => number[queue[i]] < number[queue[j]]
      BY DEF TxInv, Ordered
    <3>2. \A d \in Charges : pc'[d] = "queued" => number[d] <= counter
      BY <1>3, <1>5 DEF TxInv, Ordered
    <3>3. \A i \in 1..Len(queue') : number[posted'] < number[queue'[i]]
      <4>1. \A i \in 1..Len(queue') : 1 < i + 1
        BY <2>1
      <4> QED BY <4>1, <3>1, <2>1
    <3>4. \A i, j \in 1..Len(queue') : i < j => number[queue'[i]] < number[queue'[j]]
      <4>1. \A i, j \in 1..Len(queue') : i < j => i + 1 < j + 1
        BY <2>1
      <4> QED BY <4>1, <3>1, <2>1
    <3> QED BY <3>2, <3>3, <3>4
  <2> QED BY <2>1, <2>2, <2>3, <1>1, <1>2
<1> QED BY <1>6, <1>7

LEMMA SuccessInv == ASSUME TxInv, AnswerSuccess PROVE TxInv'
<1>1. /\ posted # NoCharge /\ reply = "accepted" /\ Advance /\ failures' = 0
      /\ pc' = [pc EXCEPT ![posted] = "done"] /\ outcome' = [outcome EXCEPT ![posted] = "submitted"]
      /\ UNCHANGED <<counter, ready, waiting, sync, seen, number, isRetry>>
      /\ UNCHANGED <<account, applied, background, lowered, calm>>
  BY DEF AnswerSuccess, poolVars, ledgerVars
<1>2. PICK c \in Charges : c = posted
  BY <1>1, PostedTypes
<1>3. pc[c] = "queued"
  BY <1>1, <1>2 DEF TxInv, QueueSound
<1>4. /\ posted' \in Charges \cup {NoCharge} /\ posted' # c /\ reply' = "none"
      /\ queue' \in Seq(Charges) /\ Len(queue') <= MaxQueue
      /\ QueueSound' /\ Ordered'
  BY <1>1, <1>2, AnswerInv
<1>5. /\ pc' \in [Charges -> {"idle", "acquire", "queued", "resync", "done"}] /\ pc'[c] = "done"
      /\ \A d \in Charges : d # c => pc'[d] = pc[d]
  BY <1>1, <1>2, PostedTypes
<1>6. /\ outcome' \in [Charges -> {"none", "submitted", "bad_seq", "lost", "full"}]
      /\ outcome'[c] = "submitted" /\ \A d \in Charges : d # c => outcome'[d] = outcome[d]
  BY <1>1, <1>2, PostedTypes
<1>7. TypeOK'
  BY <1>1, <1>4, <1>5, <1>6, TxAssumption DEF TxInv, TypeOK
<1>8. WaitingSound'
  <2>1. \A i \in 1..Len(waiting) : waiting[i] # c
    BY <1>3, NotWaiting
  <2>2. \A i \in 1..Len(waiting) : waiting[i] \in Charges
    BY ElementOf DEF TxInv, TypeOK
  <2> QED BY <1>1, <1>5, <2>1, <2>2 DEF TxInv, WaitingSound
<1>9. RetrySound'
  BY <1>1, <1>3, <1>5 DEF TxInv, RetrySound
<1>10. AppliedSound'
  <2>1. applied[c] = 1
    BY <1>1, <1>2 DEF TxInv, AppliedSound
  <2> QED BY <2>1, <1>1, <1>2, <1>4, <1>5, <1>6 DEF TxInv, AppliedSound
<1>11. CalmSound'
  <2>1. ASSUME NEW d \in calm, d # c
        PROVE  \/ ~isRetry'[d] /\ RefusedOnce(d)'
               \/ isRetry'[d] /\ Renumbered(d)'
               \/ pc'[d] = "done" /\ outcome'[d] # "bad_seq"
    <3>1. d \in Charges
      BY DEF TxInv, TypeOK
    <3> QED BY <2>1, <3>1, <1>1, <1>2, <1>4, <1>5, <1>6 DEF TxInv, CalmSound, RefusedOnce, Renumbered
  <2> QED BY <2>1, <1>1, <1>5, <1>6 DEF CalmSound
<1> QED BY <1>4, <1>7, <1>8, <1>9, <1>10, <1>11 DEF TxInv

LEMMA FailureInv ==
    ASSUME TxInv, NEW why \in {"bad_seq", "lost"}, AnswerFailure(why) PROVE TxInv'
<1>1. /\ posted # NoCharge /\ reply # "none" /\ Advance
      /\ why = "bad_seq" => reply = "refused"
      /\ failures' = IF failures < FailureThreshold THEN failures + 1 ELSE failures
      /\ UNCHANGED <<counter, ready, waiting, seen, number, isRetry>>
      /\ UNCHANGED <<account, applied, background, lowered, calm>>
  BY DEF AnswerFailure, ledgerVars
<1>2. PICK c \in Charges : c = posted
  BY <1>1, PostedTypes
<1>3. \/ /\ why = "bad_seq" /\ ~isRetry[c]
         /\ pc' = [pc EXCEPT ![c] = "resync"] /\ sync' = [sync EXCEPT ![c] = "asked"] /\ outcome' = outcome
      \/ /\ ~(why = "bad_seq" /\ ~isRetry[c])
         /\ pc' = [pc EXCEPT ![c] = "done"] /\ outcome' = [outcome EXCEPT ![c] = why] /\ sync' = sync
  BY <1>2 DEF AnswerFailure, MayRetry
<1>4. pc[c] = "queued"
  BY <1>1, <1>2 DEF TxInv, QueueSound
<1>5. /\ posted' \in Charges \cup {NoCharge} /\ posted' # c /\ reply' = "none"
      /\ queue' \in Seq(Charges) /\ Len(queue') <= MaxQueue
      /\ QueueSound' /\ Ordered'
  <2>1. PICK at \in {"resync", "done"} : pc' = [pc EXCEPT ![c] = at]
    BY <1>3
  <2> QED BY <2>1, <1>1, <1>2, AnswerInv
<1>6. \A d \in Charges : d # c => pc'[d] = pc[d] /\ outcome'[d] = outcome[d] /\ sync'[d] = sync[d]
  BY <1>3, PostedTypes DEF TxInv, TypeOK, Syncers
<1>7. /\ pc' \in [Charges -> {"idle", "acquire", "queued", "resync", "done"}]
      /\ outcome' \in [Charges -> {"none", "submitted", "bad_seq", "lost", "full"}]
      /\ pc'[c] = IF why = "bad_seq" /\ ~isRetry[c] THEN "resync" ELSE "done"
      /\ outcome'[c] = IF why = "bad_seq" /\ ~isRetry[c] THEN outcome[c] ELSE why
  BY <1>3, PostedTypes
<1>8. sync' \in [Syncers -> {"off", "asked", "read"}] /\ (why = "bad_seq" /\ ~isRetry[c] => sync'[c] = "asked")
  BY <1>3 DEF TxInv, TypeOK, Syncers
<1>9. TypeOK'
  <2>1. failures' \in 0..FailureThreshold
    BY <1>1, TxAssumption DEF TxInv, TypeOK
  <2> QED BY <2>1, <1>1, <1>5, <1>7, <1>8 DEF TxInv, TypeOK
<1>10. WaitingSound'
  <2>1. waiting \in Seq(Charges) /\ \A i \in 1..Len(waiting) : waiting[i] # c
    BY <1>4, NotWaiting DEF TxInv, TypeOK
  <2>2. \A i \in 1..Len(waiting) : pc'[waiting[i]] = pc[waiting[i]]
    BY <2>1, <1>6, ElementOf
  <2> QED BY <2>2, <1>1 DEF TxInv, WaitingSound
<1>11. RetrySound'
  <2>1. sync[c] = "off"
    BY <1>4 DEF TxInv, RetrySound
  <2>2. sync'[c] # "off" => why = "bad_seq" /\ ~isRetry[c]
    BY <2>1, <1>3
  <2> QED BY <2>2, <1>1, <1>6, <1>7 DEF TxInv, RetrySound
<1>12. AppliedSound'
  <2>1. applied[c] = IF reply = "accepted" THEN 1 ELSE 0
    BY <1>1, <1>2, <1>4 DEF TxInv, AppliedSound
  <2>2. outcome[c] = "none"
    BY <1>4 DEF TxInv, AppliedSound
  <2> QED BY <2>1, <2>2, <1>1, <1>2, <1>5, <1>6, <1>7 DEF TxInv, AppliedSound
<1>13. CalmSound'
  <2>1. ASSUME NEW d \in calm, d # c
        PROVE  \/ ~isRetry'[d] /\ RefusedOnce(d)'
               \/ isRetry'[d] /\ Renumbered(d)'
               \/ pc'[d] = "done" /\ outcome'[d] # "bad_seq"
    <3>1. d \in Charges
      BY DEF TxInv, TypeOK
    <3> QED BY <2>1, <3>1, <1>1, <1>2, <1>5, <1>6 DEF TxInv, CalmSound, RefusedOnce, Renumbered
  <2>2. ASSUME c \in calm
        PROVE  \/ ~isRetry'[c] /\ RefusedOnce(c)'
               \/ isRetry'[c] /\ Renumbered(c)'
               \/ pc'[c] = "done" /\ outcome'[c] # "bad_seq"
    <3>1. CASE why = "bad_seq" /\ ~isRetry[c]
      <4>1. counter # account + 1
        BY <2>2, <3>1, <1>4 DEF TxInv, CalmSound, RefusedOnce
      <4> QED BY <4>1, <3>1, <1>1, <1>7, <1>8 DEF RefusedOnce
    <3>2. CASE why = "bad_seq" /\ isRetry[c]
      BY <2>2, <3>2, <1>1, <1>2, <1>4 DEF TxInv, CalmSound, Renumbered
    <3>3. CASE why = "lost"
      BY <3>3, <1>7
    <3> QED BY <3>1, <3>2, <3>3
  <2> QED BY <2>1, <2>2, <1>1 DEF CalmSound
<1> QED BY <1>5, <1>9, <1>10, <1>11, <1>12, <1>13 DEF TxInv

-----------------------------------------------------------------------------
LEMMA SyncTypes ==
    TxInv => /\ sync \in [Syncers -> {"off", "asked", "read"}] /\ seen \in [Syncers -> Nat]
             /\ Charges \subseteq Syncers /\ "init" \notin Charges /\ "timer" \notin Charges
             /\ isRetry \in [Charges -> BOOLEAN] /\ waiting \in Seq(Charges) /\ calm \subseteq Charges
BY TxAssumption DEF TxInv, TypeOK, Syncers

LEMMA TimerInv == ASSUME TxInv, TimerSync PROVE TxInv'
<1>1. /\ background < MaxBackground /\ background' = background + 1
      /\ sync' = [sync EXCEPT !["timer"] = "asked"]
      /\ UNCHANGED <<counter, ready, waiting, seen, pc, number, isRetry, outcome>>
      /\ UNCHANGED <<queue, posted, reply, failures, account, applied, lowered, calm>>
  BY DEF TimerSync, callVars, rpcVars, ledgerVars
<1>2. sync' \in [Syncers -> {"off", "asked", "read"}] /\ \A c \in Charges : sync'[c] = sync[c]
  BY <1>1, SyncTypes
<1>3. TypeOK'
  BY <1>1, <1>2, TxAssumption DEF TxInv, TypeOK
<1>4. QueueSound' /\ WaitingSound' /\ RetrySound' /\ Ordered'
  BY <1>1, <1>2 DEF TxInv, QueueSound, WaitingSound, RetrySound, Ordered
<1>5. AppliedSound'
  BY <1>1 DEF TxInv, AppliedSound
<1>6. CalmSound'
  BY <1>1, <1>2, SyncTypes DEF TxInv, CalmSound, RefusedOnce, Renumbered
<1> QED BY <1>3, <1>4, <1>5, <1>6 DEF TxInv

LEMMA ReadInv == ASSUME TxInv, NEW s \in Syncers, SyncRead(s) PROVE TxInv'
<1>1. /\ sync[s] = "asked" /\ sync' = [sync EXCEPT ![s] = "read"] /\ seen' = [seen EXCEPT ![s] = account]
      /\ UNCHANGED <<counter, ready, waiting, pc, number, isRetry, outcome>>
      /\ UNCHANGED <<queue, posted, reply, failures, account, applied, background, lowered, calm>>
  BY DEF SyncRead, callVars, rpcVars, ledgerVars
<1>2. /\ sync' \in [Syncers -> {"off", "asked", "read"}] /\ sync'[s] = "read"
      /\ seen' \in [Syncers -> Nat] /\ seen'[s] = account
      /\ \A c \in Charges : c # s => sync'[c] = sync[c] /\ seen'[c] = seen[c]
  BY <1>1, SyncTypes, PostedTypes
<1>3. TypeOK'
  BY <1>1, <1>2 DEF TxInv, TypeOK
<1>4. QueueSound' /\ WaitingSound' /\ Ordered'
  BY <1>1 DEF TxInv, QueueSound, WaitingSound, Ordered
<1>5. RetrySound'
  BY <1>1, <1>2 DEF TxInv, RetrySound
<1>6. AppliedSound'
  BY <1>1 DEF TxInv, AppliedSound
<1>7. CalmSound'
  BY <1>1, <1>2, SyncTypes DEF TxInv, CalmSound, RefusedOnce, Renumbered
<1> QED BY <1>3, <1>4, <1>5, <1>6, <1>7 DEF TxInv

\* What awaited synchronize() goes on, whatever it did to the counter.
LEMMA DoneInv ==
    ASSUME TxInv, NEW s \in Syncers, sync[s] # "off", NEW ok \in BOOLEAN, SyncDone(s, ok),
           counter' \in Nat, lowered' \in BOOLEAN, calm' \subseteq Charges
    PROVE  /\ TypeOK' /\ QueueSound' /\ WaitingSound' /\ RetrySound' /\ AppliedSound'
           /\ \A c \in Charges : c # s => /\ pc'[c] = pc[c] /\ isRetry'[c] = isRetry[c]
                                         /\ sync'[c] = sync[c] /\ seen'[c] = seen[c]
           /\ s \in Charges => pc[s] = "resync" /\ ~isRetry[s] /\ pc'[s] = "acquire" /\ isRetry'[s]
           /\ UNCHANGED <<number, outcome, queue, posted, reply, account, applied>>
<1>1. /\ sync' = [sync EXCEPT ![s] = "off"] /\ seen' = [seen EXCEPT ![s] = 0]
      /\ UNCHANGED <<number, outcome, queue, posted, reply, failures, account, applied, background>>
  BY DEF SyncDone, rpcVars, ledgerVars
<1>2. ready' \in BOOLEAN
  BY Zenon DEF SyncDone, SettlesInit
<1>3. /\ sync' \in [Syncers -> {"off", "asked", "read"}] /\ sync'[s] = "off" /\ seen' \in [Syncers -> Nat]
      /\ \A c \in Charges : c # s => sync'[c] = sync[c] /\ seen'[c] = seen[c]
  BY <1>1, SyncTypes
<1>4. CASE s \notin Charges
  <2>1. UNCHANGED <<pc, isRetry, waiting>>
    BY <1>4 DEF SyncDone
  <2>2. TypeOK'
    BY <2>1, <1>1, <1>2, <1>3 DEF TxInv, TypeOK
  <2>3. QueueSound' /\ WaitingSound' /\ RetrySound'
    BY <2>1, <1>1, <1>3, <1>4 DEF TxInv, QueueSound, WaitingSound, RetrySound
  <2>4. AppliedSound'
    BY <2>1, <1>1 DEF TxInv, AppliedSound
  <2> QED BY <2>1, <2>2, <2>3, <2>4, <1>1, <1>3, <1>4
<1>5. CASE s \in Charges
  <2>1. /\ pc' = [pc EXCEPT ![s] = "acquire"] /\ isRetry' = [isRetry EXCEPT ![s] = TRUE]
        /\ waiting' = Append(waiting, s)
    BY <1>5 DEF SyncDone
  <2>2. pc[s] = "resync" /\ ~isRetry[s]
    BY <1>5 DEF TxInv, RetrySound
  <2>3. /\ pc' \in [Charges -> {"idle", "acquire", "queued", "resync", "done"}] /\ pc'[s] = "acquire"
        /\ \A c \in Charges : c # s => pc'[c] = pc[c]
    BY <2>1, <1>5, PostedTypes
  <2>4. isRetry' \in [Charges -> BOOLEAN] /\ isRetry'[s] /\ \A c \in Charges : c # s => isRetry'[c] = isRetry[c]
    BY <2>1, <1>5, SyncTypes, Zenon
  <2>5. /\ waiting' \in Seq(Charges) /\ Len(waiting) \in Nat /\ Len(waiting') = Len(waiting) + 1
        /\ waiting'[Len(waiting) + 1] = s
        /\ \A i \in 1..Len(waiting) : waiting'[i] = waiting[i] /\ waiting[i] \in Charges /\ waiting[i] # s
        /\ \A i \in 1..Len(waiting') : i \in 1..Len(waiting) \/ i = Len(waiting) + 1
    <3>1. waiting \in Seq(Charges) /\ \A i \in 1..Len(waiting) : waiting[i] \in Charges /\ waiting[i] # s
      BY <2>2, <1>5, SyncTypes, ElementOf, NotWaiting
    <3> QED BY <3>1, <2>1, <1>5, AppendOf
  <2>6. TypeOK'
    BY <2>3, <2>4, <2>5, <1>1, <1>2, <1>3 DEF TxInv, TypeOK
  <2>7. QueueSound'
    <3>1. posted # s /\ \A i \in 1..Len(queue) : queue[i] # s /\ queue[i] \in Charges
      BY <2>2, <1>5, NotInFlight, PostedTypes, ElementOf
    <3> QED BY <3>1, <2>3, <1>1, PostedTypes DEF TxInv, QueueSound
  <2>8. WaitingSound'
    <3>1. \A i \in 1..Len(waiting') : pc'[waiting'[i]] = "acquire"
      BY <2>3, <2>5 DEF TxInv, WaitingSound
    <3>2. \A i, j \in 1..Len(waiting') : waiting'[i] = waiting'[j] => i = j
      BY <2>5 DEF TxInv, WaitingSound
    <3> QED BY <3>1, <3>2 DEF WaitingSound
  <2>9. RetrySound'
    BY <2>3, <2>4, <1>3 DEF TxInv, RetrySound
  <2>10. AppliedSound'
    BY <2>2, <2>3, <1>1 DEF TxInv, AppliedSound
  <2> QED BY <2>2, <2>3, <2>4, <2>6, <2>7, <2>8, <2>9, <2>10, <1>1, <1>3
<1> QED BY <1>4, <1>5

LEMMA ApplyInv == ASSUME TxInv, NEW s \in Syncers, SyncApply(s) PROVE TxInv'
<1>1. sync[s] = "read" /\ SyncDone(s, TRUE)
  BY DEF SyncApply
<1>2. /\ counter \in Nat /\ seen[s] \in Nat /\ account \in Nat /\ calm \subseteq Charges
      /\ number \in [Charges -> Nat] /\ lowered \in BOOLEAN
  BY DEF TxInv, TypeOK
<1>3. \/ Drifted(seen[s]) /\ counter' = seen[s] /\ calm' = calm \cap {s}
      \/ ~Drifted(seen[s]) /\ counter' = counter /\ calm' = calm
  BY DEF SyncApply, Disturb
<1>4. /\ lowered' \in BOOLEAN
      /\ ~lowered' => ~lowered /\ (Drifted(seen[s]) => \A c \in Pending : ~(number[c] > seen[s]))
  BY <1>2, Zenon DEF SyncApply
<1>5. /\ TypeOK' /\ QueueSound' /\ WaitingSound' /\ RetrySound' /\ AppliedSound'
      /\ \A c \in Charges : c # s => /\ pc'[c] = pc[c] /\ isRetry'[c] = isRetry[c]
                                    /\ sync'[c] = sync[c] /\ seen'[c] = seen[c]
      /\ s \in Charges => pc[s] = "resync" /\ ~isRetry[s] /\ pc'[s] = "acquire" /\ isRetry'[s]
      /\ UNCHANGED <<number, outcome, queue, posted, reply, account, applied>>
  <2>1. counter' \in Nat /\ calm' \subseteq Charges
    BY <1>2, <1>3
  <2> QED BY <2>1, <1>1, <1>4, DoneInv
<1>6. Ordered'
  <2> SUFFICES ASSUME ~lowered'
               PROVE  \A c \in Charges : pc'[c] = "queued" => number[c] <= counter'
    BY <1>4, <1>5 DEF TxInv, Ordered
  <2> SUFFICES ASSUME NEW c \in Charges, pc'[c] = "queued" PROVE number[c] <= counter'
    OBVIOUS
  <2>1. pc[c] = "queued"
    BY <1>5
  <2>2. number[c] <= counter
    BY <2>1, <1>4 DEF TxInv, Ordered
  <2>3. Drifted(seen[s]) => ~(number[c] > seen[s])
    BY <2>1, <1>4 DEF Pending
  <2> QED BY <2>2, <2>3, <1>2, <1>3
<1>7. CalmSound'
  <2>1. ASSUME NEW c \in calm, c # s, calm' = calm, counter' = counter
        PROVE  \/ ~isRetry'[c] /\ RefusedOnce(c)'
               \/ isRetry'[c] /\ Renumbered(c)'
               \/ pc'[c] = "done" /\ outcome'[c] # "bad_seq"
    BY <2>1, <1>2, <1>5 DEF TxInv, CalmSound, RefusedOnce, Renumbered
  <2>2. ASSUME s \in calm PROVE isRetry'[s] /\ Renumbered(s)'
    <3>1. s \in Charges /\ counter # account + 1 /\ seen[s] = account
      BY <2>2, <1>1, <1>2, <1>5 DEF TxInv, CalmSound, RefusedOnce
    <3>2. counter' = account
      BY <3>1, <1>2, <1>3 DEF Drifted
    <3> QED BY <3>1, <3>2, <1>5 DEF Renumbered
  <2> QED BY <2>1, <2>2, <1>3 DEF CalmSound
<1> QED BY <1>5, <1>6, <1>7 DEF TxInv

LEMMA FailInv == ASSUME TxInv, NEW s \in Syncers, SyncFail(s) PROVE TxInv'
<1>1. sync[s] = "asked" /\ SyncDone(s, FALSE) /\ calm' = calm \ {s} /\ UNCHANGED <<counter, lowered>>
  BY DEF SyncFail
<1>2. /\ TypeOK' /\ QueueSound' /\ WaitingSound' /\ RetrySound' /\ AppliedSound'
      /\ \A c \in Charges : c # s => /\ pc'[c] = pc[c] /\ isRetry'[c] = isRetry[c]
                                    /\ sync'[c] = sync[c] /\ seen'[c] = seen[c]
      /\ s \in Charges => pc[s] = "resync" /\ ~isRetry[s] /\ pc'[s] = "acquire" /\ isRetry'[s]
      /\ UNCHANGED <<number, outcome, queue, posted, reply, account, applied>>
  <2>1. counter' \in Nat /\ calm' \subseteq Charges
    BY <1>1 DEF TxInv, TypeOK
  <2>2. lowered' \in BOOLEAN
    BY <1>1, Zenon DEF TxInv, TypeOK
  <2> QED BY <2>1, <2>2, <1>1, DoneInv
<1>3. Ordered'
  BY <1>1, <1>2 DEF TxInv, Ordered
<1>4. CalmSound'
  BY <1>1, <1>2, SyncTypes DEF TxInv, CalmSound, RefusedOnce, Renumbered
<1> QED BY <1>2, <1>3, <1>4 DEF TxInv

-----------------------------------------------------------------------------
LEMMA StutterInv == ASSUME TxInv, UNCHANGED vars PROVE TxInv'
<1> USE DEF vars, poolVars, callVars, rpcVars, ledgerVars
<1>1. TypeOK'
  BY DEF TxInv, TypeOK
<1>2. QueueSound' /\ WaitingSound' /\ RetrySound' /\ Ordered'
  BY DEF TxInv, QueueSound, WaitingSound, RetrySound, Ordered
<1>3. AppliedSound'
  BY DEF TxInv, AppliedSound
<1>4. CalmSound'
  BY DEF TxInv, CalmSound, RefusedOnce, Renumbered
<1> QED BY <1>1, <1>2, <1>3, <1>4 DEF TxInv

LEMMA NextInv == TxInv /\ [Next]_vars => TxInv'
BY SubmitInv, ServeInv, AcceptInv, RefuseInv, DropInv, SuccessInv, FailureInv, ReadInv,
   ApplyInv, FailInv, TimerInv, OtherInv, StutterInv DEF Next

\* tx_manager.ts, nonce_pool.ts, soroban_client.ts: the state of the calls, the
\* queues and the counter stays consistent, whatever is lost and whoever syncs.
THEOREM TxInductive == Spec => []TxInv
BY InitInv, NextInv, PTL DEF Spec

\* Every variable keeps its type; in particular the client's queue is bounded.
THEOREM TypeCorrect == Spec => []TypeOK
<1>1. TxInv => TypeOK
  BY DEF TxInv
<1> QED BY <1>1, TxInductive, PTL

\* The place in InFlight of what is posted, and of what queues.
LEMMA InFlightOf ==
    ASSUME TxInv, posted # NoCharge
    PROVE  /\ DOMAIN InFlight = 1..Len(queue) + 1 /\ InFlight[1] = posted
           /\ \A i \in 1..Len(queue) : InFlight[i + 1] = queue[i]
<1>1. queue \in Seq(Charges) /\ posted \in Charges
  BY PostedTypes
<1> QED BY <1>1 DEF InFlight

\* nonce_pool.ts, tx_manager.ts: concurrent charges go out in the order of their
\* numbers until a sync lowers the counter below one, and a charge nobody disturbs
\* needs one retry.
THEOREM NumbersAreSound == Spec => []NumbersHold
<1>1. TxInv => NumbersReachLedgerInOrder
  <2> SUFFICES ASSUME TxInv, ~lowered, NEW i \in DOMAIN InFlight, NEW j \in DOMAIN InFlight, i < j
               PROVE  number[InFlight[i]] < number[InFlight[j]]
    BY DEF NumbersReachLedgerInOrder
  <2>1. posted # NoCharge
    <3>1. posted = NoCharge => DOMAIN InFlight = {}
      BY DEF InFlight
    <3> QED BY <3>1
  <2>2. /\ Len(queue) \in Nat /\ i \in 1..Len(queue) + 1 /\ j \in 1..Len(queue) + 1
        /\ j - 1 \in 1..Len(queue) /\ InFlight[j] = queue[j - 1]
    <3>1. Len(queue) \in Nat
      BY PostedTypes, ElementOf
    <3>2. i \in 1..Len(queue) + 1 /\ j \in 1..Len(queue) + 1
      BY <2>1, InFlightOf
    <3>3. j - 1 \in 1..Len(queue) /\ (j - 1) + 1 = j
      BY <3>1, <3>2
    <3> QED BY <2>1, <3>1, <3>2, <3>3, InFlightOf
  <2>3. CASE i = 1
    BY <2>1, <2>2, <2>3, InFlightOf DEF TxInv, Ordered
  <2>4. CASE i # 1
    <3>1. i - 1 \in 1..Len(queue) /\ InFlight[i] = queue[i - 1] /\ i - 1 < j - 1
      BY <2>1, <2>2, <2>4, InFlightOf
    <3> QED BY <3>1, <2>2 DEF TxInv, Ordered
  <2> QED BY <2>3, <2>4
<1>2. TxInv => RetryHeals
  <2> SUFFICES ASSUME TxInv, NEW c \in Charges, outcome[c] = "bad_seq", c \in calm PROVE FALSE
    BY DEF RetryHeals
  <2>1. pc[c] = "done"
    BY DEF TxInv, AppliedSound
  <2> QED BY <2>1 DEF TxInv, CalmSound, RefusedOnce, Renumbered
<1>3. TxInv => NumbersHold
  BY <1>1, <1>2 DEF NumbersHold
<1> QED BY <1>3, TxInductive, PTL

-----------------------------------------------------------------------------
(* Every step is one of ExactlyOnce, or one that it does not see. *)

LEMMA PhaseIs ==
    TxInv => \A c \in Charges : Phase[c] = IF outcome[c] = "submitted" THEN "done"
                                             ELSE IF pc[c] \in {"idle", "acquire"} /\ ~isRetry[c]
                                                  THEN "pending" ELSE "claimed"
<1> SUFFICES ASSUME TxInv, NEW c \in Charges
             PROVE  Phase[c] = IF outcome[c] = "submitted" THEN "done"
                               ELSE IF pc[c] \in {"idle", "acquire"} /\ ~isRetry[c] THEN "pending"
                               ELSE "claimed"
  OBVIOUS
<1>1. CASE outcome[c] = "submitted"
  <2>1. pc[c] = "done"
    BY <1>1 DEF TxInv, AppliedSound
  <2> QED BY <1>1, <2>1 DEF Phase
<1>2. CASE outcome[c] # "submitted" /\ pc[c] \in {"idle", "acquire"} /\ ~isRetry[c]
  BY <1>2 DEF Phase
<1>3. CASE outcome[c] # "submitted" /\ ~(pc[c] \in {"idle", "acquire"} /\ ~isRetry[c])
  BY <1>3 DEF Phase
<1> QED BY <1>1, <1>2, <1>3

\* A step after which one call is in another phase.
LEMMA OnePhase ==
    ASSUME NEW c \in Charges, NEW to, Phase'[c] = to,
           \A d \in Charges : d # c => /\ outcome'[d] = outcome[d] /\ pc'[d] = pc[d]
                                       /\ isRetry'[d] = isRetry[d]
    PROVE  Phase' = [Phase EXCEPT ![c] = to]
<1>1. \A d \in Charges : d # c => Phase'[d] = Phase[d]
  BY DEF Phase
<1>2. Phase = [d \in Charges |-> Phase[d]] /\ Phase' = [d \in Charges |-> Phase'[d]]
  BY DEF Phase
<1> HIDE DEF Phase
<1> QED BY <1>1, <1>2

\* A step after which the calls are in the same phase.
LEMMA SamePhase ==
    ASSUME \A c \in Charges :
              /\ outcome'[c] = "submitted" <=> outcome[c] = "submitted"
              /\ pc'[c] \in {"idle", "acquire"} /\ ~isRetry'[c] <=> pc[c] \in {"idle", "acquire"} /\ ~isRetry[c]
    PROVE  Phase' = Phase
BY DEF Phase

LEMMA ServeClaims == ASSUME TxInv, TxInv', Serve PROVE [Once!OnceNext]_Once!onceVars
<1>1. waiting \in Seq(Charges) /\ waiting # <<>> /\ applied' = applied /\ isRetry' = isRetry
  BY DEF Serve, ledgerVars, TxInv, TypeOK
<1>2. PICK c \in Charges : c = Head(waiting)
  BY <1>1, TailOf
<1>3. pc[c] = "acquire"
  BY <1>1, <1>2, TailOf DEF TxInv, WaitingSound
<1>4. \/ pc' = [pc EXCEPT ![c] = "queued"] /\ outcome' = outcome
      \/ pc' = [pc EXCEPT ![c] = "done"] /\ outcome' = [outcome EXCEPT ![c] = "full"]
  BY <1>2 DEF Serve
<1>5. /\ \A d \in Charges : d # c => pc'[d] = pc[d] /\ outcome'[d] = outcome[d]
      /\ pc'[c] \in {"queued", "done"} /\ outcome'[c] \in {outcome[c], "full"}
  BY <1>4, PostedTypes
<1>6. outcome[c] = "none"
  BY <1>3 DEF TxInv, AppliedSound
<1>7. CASE isRetry[c]
  <2>1. Phase' = Phase
    BY <1>1, <1>5, <1>6, <1>7, SamePhase
  <2> QED BY <2>1, <1>1 DEF Once!onceVars
<1>8. CASE ~isRetry[c]
  <2>1. Phase[c] = "pending"
    BY <1>3, <1>6, <1>8, PhaseIs
  <2>2. Phase' = [Phase EXCEPT ![c] = "claimed"]
    <3>1. Phase'[c] = "claimed"
      BY <1>1, <1>5, <1>6 DEF Phase
    <3> QED BY <3>1, <1>1, <1>5, OnePhase
  <2> QED BY <2>1, <2>2, <1>1 DEF Once!OnceNext, Once!Claim
<1> QED BY <1>7, <1>8

LEMMA AcceptPerforms == ASSUME TxInv, Accept PROVE [Once!OnceNext]_Once!onceVars
<1>1. /\ posted # NoCharge /\ reply = "none" /\ applied' = [applied EXCEPT ![posted] = @ + 1]
      /\ UNCHANGED <<pc, outcome, isRetry>>
  BY DEF Accept, Judge, callVars
<1>2. PICK c \in Charges : c = posted
  BY <1>1, PostedTypes
<1>3. pc[c] = "queued"
  BY <1>1, <1>2 DEF TxInv, QueueSound
<1>4. applied[c] = 0 /\ outcome[c] = "none"
  BY <1>1, <1>2, <1>3 DEF TxInv, AppliedSound
<1>5. Phase[c] = "claimed" /\ Phase' = Phase
  BY <1>1, <1>3, <1>4, PhaseIs DEF Phase
<1>6. applied' = [applied EXCEPT ![c] = 1]
  BY <1>1, <1>2, <1>4, PostedTypes
<1> QED BY <1>4, <1>5, <1>6 DEF Once!OnceNext, Once!Perform

LEMMA SuccessCompletes == ASSUME TxInv, AnswerSuccess PROVE [Once!OnceNext]_Once!onceVars
<1>1. /\ posted # NoCharge /\ reply = "accepted" /\ applied' = applied /\ isRetry' = isRetry
      /\ pc' = [pc EXCEPT ![posted] = "done"] /\ outcome' = [outcome EXCEPT ![posted] = "submitted"]
  BY DEF AnswerSuccess, ledgerVars
<1>2. PICK c \in Charges : c = posted
  BY <1>1, PostedTypes
<1>3. pc[c] = "queued"
  BY <1>1, <1>2 DEF TxInv, QueueSound
<1>4. applied[c] = 1 /\ outcome[c] = "none"
  BY <1>1, <1>2, <1>3 DEF TxInv, AppliedSound
<1>5. Phase[c] = "claimed"
  BY <1>3, <1>4, PhaseIs
<1>6. Phase' = [Phase EXCEPT ![c] = "done"]
  <2>1. \A d \in Charges : d # c => pc'[d] = pc[d] /\ outcome'[d] = outcome[d]
    BY <1>1, <1>2, PostedTypes
  <2>2. outcome'[c] = "submitted" /\ pc'[c] = "done"
    BY <1>1, <1>2, PostedTypes
  <2>3. Phase'[c] = "done"
    BY <2>2 DEF Phase
  <2> QED BY <2>1, <2>3, <1>1, OnePhase
<1> QED BY <1>1, <1>4, <1>5, <1>6 DEF Once!OnceNext, Once!Complete

LEMMA FailureStutters ==
    ASSUME TxInv, NEW why \in {"bad_seq", "lost"}, AnswerFailure(why)
    PROVE  UNCHANGED Once!onceVars
<1>1. posted # NoCharge /\ applied' = applied /\ isRetry' = isRetry
  BY DEF AnswerFailure, ledgerVars
<1>2. PICK c \in Charges : c = posted
  BY <1>1, PostedTypes
<1>3. pc[c] = "queued"
  BY <1>1, <1>2 DEF TxInv, QueueSound
<1>4. outcome[c] = "none"
  BY <1>3 DEF TxInv, AppliedSound
<1>5. \/ pc' = [pc EXCEPT ![c] = "resync"] /\ outcome' = outcome
      \/ pc' = [pc EXCEPT ![c] = "done"] /\ outcome' = [outcome EXCEPT ![c] = why]
  BY <1>2 DEF AnswerFailure
<1>6. /\ \A d \in Charges : d # c => pc'[d] = pc[d] /\ outcome'[d] = outcome[d]
      /\ pc'[c] \in {"resync", "done"} /\ outcome'[c] \in {"none", "bad_seq", "lost"}
  BY <1>4, <1>5, PostedTypes
<1>7. Phase' = Phase
  BY <1>1, <1>3, <1>4, <1>6, SamePhase
<1> QED BY <1>1, <1>7 DEF Once!onceVars

LEMMA SyncStutters ==
    ASSUME TxInv, NEW s \in Syncers, SyncRead(s) \/ SyncApply(s) \/ SyncFail(s)
    PROVE  UNCHANGED Once!onceVars
<1>1. CASE SyncRead(s)
  BY <1>1 DEF SyncRead, callVars, ledgerVars, Phase, Once!onceVars
<1>2. CASE SyncApply(s) \/ SyncFail(s)
  <2>1. sync[s] # "off" /\ outcome' = outcome /\ applied' = applied
    BY <1>2 DEF SyncApply, SyncFail, SyncDone, ledgerVars
  <2>2. CASE s \in Charges
    <3>1. pc[s] = "resync" /\ ~isRetry[s]
      BY <2>1, <2>2 DEF TxInv, RetrySound
    <3>2. pc' = [pc EXCEPT ![s] = "acquire"] /\ isRetry' = [isRetry EXCEPT ![s] = TRUE]
      BY <1>2, <2>2 DEF SyncApply, SyncFail, SyncDone
    <3>3. \A d \in Charges : d # s => pc'[d] = pc[d]
      BY <3>2, PostedTypes
    <3>4. isRetry'[s] /\ \A d \in Charges : d # s => isRetry'[d] = isRetry[d]
      BY <2>2, <3>2, SyncTypes, Zenon
    <3>5. Phase' = Phase
      BY <2>1, <3>1, <3>3, <3>4, SamePhase
    <3> QED BY <2>1, <3>5 DEF Once!onceVars
  <2>3. CASE s \notin Charges
    <3>1. UNCHANGED <<pc, isRetry>>
      BY <1>2, <2>3 DEF SyncApply, SyncFail, SyncDone
    <3> QED BY <2>1, <3>1 DEF Phase, Once!onceVars
  <2> QED BY <2>2, <2>3
<1> QED BY <1>1, <1>2

LEMMA SubmitStutters == ASSUME TxInv, NEW c \in Charges, Submit(c) PROVE UNCHANGED Once!onceVars
<1>1. pc[c] = "idle" /\ pc' = [pc EXCEPT ![c] = "acquire"] /\ UNCHANGED <<outcome, isRetry, applied>>
  BY DEF Submit, ledgerVars
<1>2. pc'[c] = "acquire" /\ \A d \in Charges : d # c => pc'[d] = pc[d]
  BY <1>1, PostedTypes
<1>3. Phase' = Phase
  BY <1>1, <1>2, SamePhase
<1> QED BY <1>1, <1>3 DEF Once!onceVars

LEMMA RestStutters ==
    ASSUME Refuse \/ Drop \/ TimerSync \/ OtherTransaction \/ UNCHANGED vars
    PROVE  UNCHANGED Once!onceVars
BY DEF Refuse, Drop, Judge, TimerSync, OtherTransaction, vars, callVars, ledgerVars, Phase, Once!onceVars

\* tx_manager.ts submitChargeUsage: with its one retry it implements ExactlyOnce:
\* no charge is applied twice, and one reported as submitted was applied.
THEOREM NoChargeTwice == Spec => ChargesAtMostOnce
<1>1. Init => Once!OnceInit
  BY DEF Init, Once!OnceInit, Phase
<1>2. TxInv /\ TxInv' /\ [Next]_vars => [Once!OnceNext]_Once!onceVars
  BY ServeClaims, AcceptPerforms, SuccessCompletes, FailureStutters, SyncStutters, SubmitStutters,
     RestStutters DEF Next
<1> QED BY <1>1, <1>2, TxInductive, PTL DEF Spec, ChargesAtMostOnce, Once!OnceSpec

-----------------------------------------------------------------------------
(* No call is lost between the queues. *)

Has(s, c) == \E i \in 1..Len(s) : s[i] = c

\* A call that has not returned is somewhere its next step finds it, and what
\* the pool's queue waits for is under way.
CallsAreInHand ==
    /\ \A c \in Charges :
        /\ pc[c] = "acquire" => Has(waiting, c)
        /\ pc[c] = "queued" => posted = c \/ Has(queue, c)
        /\ pc[c] = "resync" => sync[c] # "off"
    /\ ~ready => sync["init"] # "off"

LEMMA HasAppend ==
    ASSUME NEW S, NEW s \in Seq(S), NEW e \in S
    PROVE  Has(Append(s, e), e) /\ \A c : Has(s, c) => Has(Append(s, e), c)
<1>1. Len(s) + 1 \in 1..Len(Append(s, e)) /\ \A i \in 1..Len(s) : i \in 1..Len(Append(s, e))
  BY AppendOf
<1> QED BY <1>1, AppendOf DEF Has

LEMMA HasTail ==
    ASSUME NEW S, NEW s \in Seq(S), s # <<>>
    PROVE  \A c : Has(s, c) => c = Head(s) \/ Has(Tail(s), c)
<1> SUFFICES ASSUME NEW i \in 1..Len(s), i # 1 PROVE Has(Tail(s), s[i])
  BY TailOf DEF Has
<1>1. i - 1 \in 1..Len(Tail(s)) /\ (i - 1) + 1 = i
  BY TailOf
<1> QED BY <1>1, TailOf DEF Has

LEMMA HandInit == Init => CallsAreInHand
BY DEF Init, CallsAreInHand, Syncers

LEMMA HandSubmit == ASSUME TxInv, CallsAreInHand, NEW c \in Charges, Submit(c) PROVE CallsAreInHand'
<1>1. waiting \in Seq(Charges) /\ pc \in [Charges -> {"idle", "acquire", "queued", "resync", "done"}]
  BY DEF TxInv, TypeOK
<1>2. Has(waiting', c) /\ \A d : Has(waiting, d) => Has(waiting', d)
  BY <1>1, HasAppend DEF Submit
<1> QED BY <1>1, <1>2 DEF CallsAreInHand, Submit, rpcVars, Has

LEMMA HandServe == ASSUME TxInv, CallsAreInHand, Serve PROVE CallsAreInHand'
<1> DEFINE c == Head(waiting)
<1>1. waiting \in Seq(Charges) /\ queue \in Seq(Charges) /\ waiting # <<>> /\ c \in Charges
      /\ pc \in [Charges -> {"idle", "acquire", "queued", "resync", "done"}]
  BY TailOf DEF TxInv, TypeOK, Serve
<1>2. \A d : Has(waiting, d) => d = c \/ Has(waiting', d)
  BY <1>1, HasTail DEF Serve
<1>3. pc' = [pc EXCEPT ![c] = "queued"] \/ pc' = [pc EXCEPT ![c] = "done"]
  BY DEF Serve
<1>4. \A d \in Charges : pc'[d] = "queued" => posted' = d \/ Has(queue', d)
  <2>1. CASE ~HasRoom
    <3>1. pc' = [pc EXCEPT ![c] = "done"] /\ UNCHANGED <<queue, posted>>
      BY <2>1 DEF Serve
    <3> HIDE DEF c
    <3> QED BY <1>1, <3>1 DEF CallsAreInHand, Has
  <2>2. CASE HasRoom /\ posted = NoCharge
    <3>1. \A i \in 1..Len(queue) : FALSE
      BY <1>1, <2>2 DEF TxInv, QueueSound
    <3>2. posted' = c /\ pc' = [pc EXCEPT ![c] = "queued"]
      BY <2>2 DEF Serve
    <3> HIDE DEF c
    <3> QED BY <1>1, <2>2, <3>1, <3>2, TxAssumption DEF CallsAreInHand, Has
  <2>3. CASE HasRoom /\ posted # NoCharge
    <3>1. queue' = Append(queue, c) /\ posted' = posted /\ pc' = [pc EXCEPT ![c] = "queued"]
      BY <2>3 DEF Serve
    <3> HIDE DEF c
    <3>2. Has(queue', c) /\ \A d : Has(queue, d) => Has(queue', d)
      BY <1>1, <3>1, HasAppend
    <3> QED BY <1>1, <3>1, <3>2 DEF CallsAreInHand
  <2> QED BY <2>1, <2>2, <2>3
<1>5. \A d \in Charges : pc'[d] = "acquire" => Has(waiting', d)
  BY <1>1, <1>2, <1>3 DEF CallsAreInHand
<1>6. sync' = sync /\ ready' = ready /\ \A d \in Charges : pc'[d] = "resync" => pc[d] = "resync"
  BY <1>1, <1>3 DEF Serve
<1> QED BY <1>4, <1>5, <1>6 DEF CallsAreInHand

\* An answer settles what is posted, and the oldest queued request follows.
LEMMA HandAdvance ==
    ASSUME TxInv, CallsAreInHand, posted # NoCharge, Advance,
           \A d \in Charges : d # posted => pc'[d] = pc[d], pc'[posted] # "queued"
    PROVE  \A d \in Charges : pc'[d] = "queued" => posted' = d \/ Has(queue', d)
<1>1. queue \in Seq(Charges)
  BY DEF TxInv, TypeOK
<1>2. CASE queue = <<>>
  BY <1>2 DEF CallsAreInHand, Has
<1>3. CASE queue # <<>>
  <2>1. posted' = Head(queue) /\ queue' = Tail(queue)
    BY <1>3 DEF Advance
  <2>2. \A d : Has(queue, d) => d = posted' \/ Has(queue', d)
    BY <1>1, <1>3, <2>1, HasTail
  <2> QED BY <2>2 DEF CallsAreInHand
<1> QED BY <1>2, <1>3

LEMMA HandSuccess == ASSUME TxInv, CallsAreInHand, AnswerSuccess PROVE CallsAreInHand'
<1>1. posted \in Charges /\ posted # NoCharge /\ pc' = [pc EXCEPT ![posted] = "done"]
      /\ pc \in [Charges -> {"idle", "acquire", "queued", "resync", "done"}]
  BY PostedTypes DEF AnswerSuccess, TxInv, TypeOK
<1>2. \A d \in Charges : pc'[d] = "queued" => posted' = d \/ Has(queue', d)
  BY <1>1, HandAdvance DEF AnswerSuccess
<1>3. UNCHANGED <<waiting, sync, ready>>
  BY DEF AnswerSuccess, poolVars
<1> QED BY <1>1, <1>2, <1>3 DEF CallsAreInHand, Has

LEMMA HandFailure ==
    ASSUME TxInv, CallsAreInHand, NEW why \in {"bad_seq", "lost"}, AnswerFailure(why)
    PROVE  CallsAreInHand'
<1>1. posted \in Charges /\ posted # NoCharge
      /\ pc \in [Charges -> {"idle", "acquire", "queued", "resync", "done"}]
      /\ sync \in [Syncers -> {"off", "asked", "read"}] /\ posted \in Syncers /\ "init" \in Syncers
      /\ posted # "init"
  BY PostedTypes, TxAssumption DEF AnswerFailure, TxInv, TypeOK, Syncers
<1>2. \/ pc' = [pc EXCEPT ![posted] = "resync"] /\ sync' = [sync EXCEPT ![posted] = "asked"]
      \/ pc' = [pc EXCEPT ![posted] = "done"] /\ sync' = sync
  BY DEF AnswerFailure
<1>3. \A d \in Charges : pc'[d] = "queued" => posted' = d \/ Has(queue', d)
  <2>1. (\A d \in Charges : d # posted => pc'[d] = pc[d]) /\ pc'[posted] # "queued"
    BY <1>1, <1>2
  <2> QED BY <1>1, <2>1, HandAdvance DEF AnswerFailure
<1>4. waiting' = waiting /\ ready' = ready
  BY DEF AnswerFailure
<1>5. \A d \in Charges : /\ pc'[d] = "acquire" => pc[d] = "acquire"
                         /\ pc'[d] = "resync" => sync'[d] # "off"
  BY <1>1, <1>2 DEF CallsAreInHand, Syncers
<1>6. sync'["init"] = sync["init"]
  BY <1>1, <1>2
<1> QED BY <1>3, <1>4, <1>5, <1>6 DEF CallsAreInHand, Has

LEMMA HandSync ==
    ASSUME TxInv, CallsAreInHand, NEW s \in Syncers, SyncRead(s) \/ SyncApply(s) \/ SyncFail(s)
    PROVE  CallsAreInHand'
<1>1. /\ pc \in [Charges -> {"idle", "acquire", "queued", "resync", "done"}]
      /\ sync \in [Syncers -> {"off", "asked", "read"}] /\ "init" \in Syncers /\ Charges \subseteq Syncers
      /\ waiting \in Seq(Charges) /\ "init" \notin Charges
  BY TxAssumption DEF TxInv, TypeOK, Syncers
<1>2. CASE SyncRead(s)
  BY <1>1, <1>2 DEF SyncRead, CallsAreInHand, Has, callVars, rpcVars
<1>3. CASE \E ok \in BOOLEAN : SyncDone(s, ok)
  <2>1. /\ sync' = [sync EXCEPT ![s] = "off"] /\ queue' = queue /\ posted' = posted
        /\ s = "init" => ready'
        /\ ready => ready'
    BY <1>3 DEF SyncDone, SettlesInit, rpcVars
  <2>2. ~ready' => sync'["init"] # "off"
    BY <1>1, <2>1 DEF CallsAreInHand
  <2>3. CASE s \in Charges
    <3>1. pc' = [pc EXCEPT ![s] = "acquire"] /\ waiting' = Append(waiting, s)
      BY <1>3, <2>3 DEF SyncDone
    <3>2. Has(waiting', s) /\ \A d : Has(waiting, d) => Has(waiting', d)
      BY <1>1, <2>3, <3>1, HasAppend
    <3>3. \A d \in Charges : d # s => sync'[d] = sync[d] /\ pc'[d] = pc[d]
      BY <1>1, <2>1, <3>1
    <3>4. pc'[s] = "acquire"
      BY <1>1, <2>3, <3>1
    <3> QED BY <2>1, <2>2, <3>2, <3>3, <3>4 DEF CallsAreInHand, Has
  <2>4. CASE s \notin Charges
    <3>1. pc' = pc /\ waiting' = waiting
      BY <1>3, <2>4 DEF SyncDone
    <3>2. \A d \in Charges : sync'[d] = sync[d]
      BY <1>1, <2>1, <2>4
    <3> QED BY <2>1, <2>2, <3>1, <3>2 DEF CallsAreInHand, Has
  <2> QED BY <2>3, <2>4
<1> QED BY <1>2, <1>3 DEF SyncApply, SyncFail

LEMMA HandRest ==
    ASSUME TxInv, CallsAreInHand, Accept \/ Refuse \/ Drop \/ OtherTransaction \/ TimerSync \/ UNCHANGED vars
    PROVE  CallsAreInHand'
<1>1. CASE TimerSync
  <2>1. \A s \in Syncers : sync[s] # "off" => sync'[s] # "off"
    BY <1>1 DEF TimerSync, TxInv, TypeOK
  <2>2. UNCHANGED <<pc, waiting, queue, posted, ready>>
    BY <1>1 DEF TimerSync, callVars, rpcVars
  <2> QED BY <2>1, <2>2 DEF CallsAreInHand, Syncers, Has
<1>2. CASE Accept \/ Refuse \/ Drop \/ OtherTransaction \/ UNCHANGED vars
  <2>1. UNCHANGED <<pc, waiting, queue, posted, ready, sync>>
    BY <1>2 DEF Accept, Refuse, Drop, OtherTransaction, Judge, vars, poolVars, callVars, rpcVars
  <2> QED BY <2>1 DEF CallsAreInHand, Has
<1> QED BY <1>1, <1>2

\* tx_manager.ts, nonce_pool.ts, soroban_client.ts: a call that has not returned
\* is in a queue or has a request or a synchronize() under way, and processQueue
\* is stopped only while the first synchronize() is: the safety half of
\* ChargesReturn.
THEOREM NoCallIsForgotten == Spec => []CallsAreInHand
<1>1. TxInv /\ CallsAreInHand /\ [Next]_vars => CallsAreInHand'
  BY HandSubmit, HandServe, HandSuccess, HandFailure, HandSync, HandRest DEF Next
<1> QED BY <1>1, HandInit, TxInductive, PTL DEF Spec
=============================================================================
