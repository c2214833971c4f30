---------------------------- MODULE TxSubmission ----------------------------
(***************************************************************************)
(* Submission of charges to the ledger (src/core/blockchain): calls of     *)
(* TransactionManager.submitChargeUsage take sequence numbers from one     *)
(* NoncePool and go through the single-file queue of one SorobanRpcClient. *)
(* The account's sequence number on the ledger is external; requests and   *)
(* answers get lost. SorobanRpcClient.onFailure has no caller, so its      *)
(* circuit is always CLOSED and the branches for the other states of       *)
(* processQueue and onSuccess are left out. The nonces map and the record  *)
(* of a transaction are read by nothing here; outcome stands for status.   *)
(***************************************************************************)
EXTENDS Naturals, Sequences

CONSTANTS
    Charges,            \* calls of submitChargeUsage
    MaxQueue,           \* maxQueueSize
    FailureThreshold,   \* failureThreshold
    FirstSequence,      \* the account's sequence number when the pool starts
    MaxBackground,      \* bound: reconciliations by the 30 s timer, and
                        \* transactions others submit for the account
    NoCharge

ASSUME TxAssumption ==
    /\ MaxQueue \in Nat \ {0}
    /\ FailureThreshold \in Nat \ {0}
    /\ FirstSequence \in Nat
    /\ MaxBackground \in Nat
    /\ NoCharge \notin Charges
    /\ {"init", "timer"} \cap Charges = {}

Syncers == Charges \cup {"init", "timer"}

VARIABLES
    counter,    \* seqCounter
    ready,      \* initPromise has settled
    waiting,    \* NoncePool.queue
    sync,       \* sync[s]: where the synchronize() call of s stands
    seen,       \* seen[s]: ledgerSeq, what that call fetched
    pc,         \* pc[c]: where submitChargeUsage stands
    number,     \* number[c]: sequenceNumber of c's latest envelope
    isRetry,    \* isRetry[c]
    outcome,    \* outcome[c]: status of the record it returned, and why
    queue,      \* requestQueue
    posted,     \* the request processQueue awaits; NoCharge: it is not running
    reply,      \* what the ledger made of it
    account,    \* the account's sequence number on the ledger
    applied,    \* applied[c]: envelopes of c the ledger accepted
    background, \* how much of MaxBackground has happened
    failures,   \* history: failed requests in a row, up to FailureThreshold
    lowered,    \* history: a sync set counter below a pending number
    calm        \* history: charges refused with the latest number, since when
                \* no one else changed counter or account

poolVars == <<counter, ready, waiting, sync, seen>>
callVars == <<pc, number, isRetry, outcome>>
rpcVars == <<queue, posted, reply, failures>>
ledgerVars == <<account, applied>>
vars == <<poolVars, callVars, rpcVars, ledgerVars, background, lowered, calm>>

TypeOK ==
    /\ counter \in Nat /\ account \in Nat
    /\ ready \in BOOLEAN /\ lowered \in BOOLEAN
    /\ waiting \in Seq(Charges) /\ queue \in Seq(Charges)
    /\ Len(queue) <= MaxQueue
    /\ sync \in [Syncers -> {"off", "asked", "read"}]
    /\ seen \in [Syncers -> Nat]
    /\ pc \in [Charges -> {"idle", "acquire", "queued", "resync", "done"}]
    /\ number \in [Charges -> Nat]
    /\ isRetry \in [Charges -> BOOLEAN]
    /\ outcome \in [Charges -> {"none", "submitted", "bad_seq", "lost", "full"}]
    /\ posted \in Charges \cup {NoCharge}
    /\ reply \in {"none", "accepted", "refused", "dropped"}
    /\ applied \in [Charges -> Nat]
    /\ background \in 0..MaxBackground
    /\ failures \in 0..FailureThreshold
    /\ calm \in SUBSET Charges

\* The constructor has called synchronize().
Init ==
    /\ counter = 0 /\ account = FirstSequence
    /\ ready = FALSE /\ lowered = FALSE
    /\ waiting = <<>> /\ queue = <<>>
    /\ sync = [s \in Syncers |-> IF s = "init" THEN "asked" ELSE "off"]
    /\ seen = [s \in Syncers |-> 0]
    /\ pc = [c \in Charges |-> "idle"]
    /\ number = [c \in Charges |-> 0]
    /\ isRetry = [c \in Charges |-> FALSE]
    /\ outcome = [c \in Charges |-> "none"]
    /\ posted = NoCharge /\ reply = "none"
    /\ applied = [c \in Charges |-> 0]
    /\ background = 0 /\ failures = 0
    /\ calm = {}

Pending == {c \in Charges : pc[c] = "queued"}

\* History: s changed counter or account; the others are no longer undisturbed.
Disturb(s) == calm' = calm \cap {s}

-----------------------------------------------------------------------------
(* NoncePool.acquire, and what follows it up to the next await. *)

Submit(c) ==
    /\ pc[c] = "idle"
    /\ pc' = [pc EXCEPT ![c] = "acquire"]
    /\ waiting' = Append(waiting, c)
    /\ UNCHANGED <<counter, ready, sync, seen, number, isRetry, outcome>>
    /\ UNCHANGED <<rpcVars, ledgerVars, background, lowered, calm>>

NextNumber == counter + 1

\* Mutant: if (requestQueue.length > maxQueueSize)
HasRoomOffByOne == Len(queue) <= MaxQueue

HasRoom == Len(queue) < MaxQueue

\* processQueue numbers the oldest acquire; its envelope is pushed, and posted
\* at once when the client's loop is not running.
Serve ==
    /\ ready /\ waiting # <<>>
    /\ LET c == Head(waiting) IN
        /\ waiting' = Tail(waiting)
        /\ counter' = NextNumber
        /\ number' = [number EXCEPT ![c] = NextNumber]
        /\ Disturb(c)
        /\ IF HasRoom
           THEN /\ pc' = [pc EXCEPT ![c] = "queued"]
                /\ IF posted = NoCharge
                   THEN posted' = c /\ UNCHANGED queue
                   ELSE queue' = Append(queue, c) /\ UNCHANGED posted
                /\ UNCHANGED outcome
           ELSE /\ pc' = [pc EXCEPT ![c] = "done"]
                /\ outcome' = [outcome EXCEPT ![c] = "full"]
                /\ UNCHANGED <<queue, posted>>
    /\ UNCHANGED <<ready, sync, seen, isRetry, reply, failures>>
    /\ UNCHANGED <<ledgerVars, background, lowered>>

-----------------------------------------------------------------------------
(* The ledger: it accepts the envelope with the account's next number. *)

Judge(r) ==
    /\ posted # NoCharge /\ reply = "none"
    /\ reply' = r
    /\ UNCHANGED <<poolVars, callVars, queue, posted, failures>>
    /\ UNCHANGED <<background, lowered>>

Accept ==
    /\ posted # NoCharge /\ number[posted] = account + 1
    /\ Judge("accepted")
    /\ account' = account + 1
    /\ applied' = [applied EXCEPT ![posted] = @ + 1]
    /\ Disturb(posted)

Refuse ==
    /\ posted # NoCharge /\ number[posted] # account + 1
    /\ Judge("refused")
    /\ calm' = IF ~isRetry[posted] /\ number[posted] = counter
               THEN calm \cup {posted} ELSE calm
    /\ UNCHANGED <<account, applied>>

\* The request never arrives.
Drop ==
    /\ Judge("dropped")
    /\ UNCHANGED <<account, applied, calm>>

\* Another holder of the account's key submits a transaction.
OtherTransaction ==
    /\ background < MaxBackground
    /\ background' = background + 1
    /\ account' = account + 1
    /\ calm' = {}
    /\ UNCHANGED <<poolVars, callVars, rpcVars, applied, lowered>>

-----------------------------------------------------------------------------
(* The answer, up to the next await: processQueue takes the next request in *)
(* the turn in which an answer settles the last one.                        *)

\* Mutant: any failure is retried.
MayRetryAny(c, why) == ~isRetry[c]

\* /tx_bad_seq/i.test(message) && !isRetry
MayRetry(c, why) == why = "bad_seq" /\ ~isRetry[c]

Advance ==
    /\ reply' = "none"
    /\ IF queue = <<>>
       THEN posted' = NoCharge /\ UNCHANGED queue
       ELSE posted' = Head(queue) /\ queue' = Tail(queue)

\* The request resolves.
AnswerSuccess ==
    /\ posted # NoCharge /\ reply = "accepted"
    /\ Advance
    /\ failures' = 0
    /\ pc' = [pc EXCEPT ![posted] = "done"]
    /\ outcome' = [outcome EXCEPT ![posted] = "submitted"]
    /\ UNCHANGED <<poolVars, number, isRetry, ledgerVars, background, lowered, calm>>

\* It rejects: with the ledger's answer, or because an answer did not arrive.
AnswerFailure(why) ==
    /\ posted # NoCharge /\ reply # "none"
    /\ why = "bad_seq" => reply = "refused"
    /\ Advance
    /\ failures' = IF failures < FailureThreshold THEN failures + 1 ELSE failures
    /\ IF MayRetry(posted, why)
       THEN /\ pc' = [pc EXCEPT ![posted] = "resync"]
            /\ sync' = [sync EXCEPT ![posted] = "asked"]
            /\ UNCHANGED outcome
       ELSE /\ pc' = [pc EXCEPT ![posted] = "done"]
            /\ outcome' = [outcome EXCEPT ![posted] = why]
            /\ UNCHANGED sync
    /\ UNCHANGED <<counter, ready, waiting, seen, number, isRetry>>
    /\ UNCHANGED <<ledgerVars, background, lowered, calm>>

-----------------------------------------------------------------------------
(* NoncePool.synchronize. *)

TimerSync ==
    /\ background < MaxBackground
    /\ sync["timer"] = "off"
    /\ background' = background + 1
    /\ sync' = [sync EXCEPT !["timer"] = "asked"]
    /\ UNCHANGED <<counter, ready, waiting, seen>>
    /\ UNCHANGED <<callVars, rpcVars, ledgerVars, lowered, calm>>

\* The ledger reads the account; the answer is on its way.
SyncRead(s) ==
    /\ sync[s] = "asked"
    /\ sync' = [sync EXCEPT ![s] = "read"]
    /\ seen' = [seen EXCEPT ![s] = account]
    /\ UNCHANGED <<counter, ready, waiting>>
    /\ UNCHANGED <<callVars, rpcVars, ledgerVars, background, lowered, calm>>

\* Mutant: the drift tolerance is 2.
DriftedByThree(ledgerSeq) == ledgerSeq > counter \/ counter > ledgerSeq + 2

\* ledgerSeq > seqCounter || diff > 1n || diff < -1n
Drifted(ledgerSeq) == ledgerSeq > counter \/ counter > ledgerSeq + 1

\* Mutant: a failed first synchronize() is awaited for ever.
SettlesInitOnSuccess(s, ok) == s = "init" /\ ok

\* Both ways out of the first synchronize() let processQueue go on.
SettlesInit(s, ok) == s = "init"

\* What awaited s goes on: processQueue, or the retry of a charge.
SyncDone(s, ok) ==
    /\ sync' = [sync EXCEPT ![s] = "off"]
    /\ seen' = [seen EXCEPT ![s] = 0]
    /\ ready' = (ready \/ SettlesInit(s, ok))
    /\ IF s \in Charges
       THEN /\ pc' = [pc EXCEPT ![s] = "acquire"]
            /\ isRetry' = [isRetry EXCEPT ![s] = TRUE]
            /\ waiting' = Append(waiting, s)
       ELSE UNCHANGED <<pc, isRetry, waiting>>
    /\ UNCHANGED <<number, outcome, rpcVars, ledgerVars, background>>

SyncApply(s) ==
    /\ sync[s] = "read"
    /\ SyncDone(s, TRUE)
    /\ IF Drifted(seen[s])
       THEN /\ counter' = seen[s]
            /\ Disturb(s)
            /\ lowered' = (lowered \/ \E c \in Pending : number[c] > seen[s])
       ELSE UNCHANGED <<counter, calm, lowered>>

\* fetchAccountSequence rejects; every caller swallows the error.
SyncFail(s) ==
    /\ sync[s] = "asked"
    /\ SyncDone(s, FALSE)
    /\ calm' = calm \ {s}
    /\ UNCHANGED <<counter, lowered>>

-----------------------------------------------------------------------------
Next ==
    \/ \E c \in Charges : Submit(c)
    \/ Serve
    \/ Accept \/ Refuse \/ Drop
    \/ AnswerSuccess
    \/ \E why \in {"bad_seq", "lost"} : AnswerFailure(why)
    \/ \E s \in Syncers : SyncRead(s) \/ SyncApply(s) \/ SyncFail(s)
    \/ TimerSync
    \/ OtherTransaction

\* The event loop runs what is ready, and the RPC server answers or the
\* connection fails; nobody has to submit, and timers have no deadline.
Fairness ==
    /\ WF_vars(Serve)
    /\ WF_vars(Accept \/ Refuse \/ Drop)
    /\ WF_vars(AnswerSuccess \/ \E why \in {"bad_seq", "lost"} : AnswerFailure(why))
    /\ \A s \in Syncers : WF_vars(SyncRead(s) \/ SyncApply(s) \/ SyncFail(s))

Spec == Init /\ [][Next]_vars /\ Fairness

-----------------------------------------------------------------------------
(* Properties. *)

\* The envelopes not yet answered, in the order they reach the ledger.
InFlight == IF posted = NoCharge THEN <<>> ELSE <<posted>> \o queue

\* processQueue of the pool and of the client, each one consumer of a FIFO:
\* concurrent charges reach the ledger in the order of their numbers, none
\* shared, until a sync sets the counter back below a pending one.
NumbersReachLedgerInOrder ==
    ~lowered =>
        \A i, j \in DOMAIN InFlight :
            i < j => number[InFlight[i]] < number[InFlight[j]]

\* submitChargeUsage's retry works: after a tx_bad_seq for the latest number,
\* the second envelope is refused only if someone else moved the counter or the
\* account in between, or the resync failed.
RetryHeals == \A c \in Charges : outcome[c] = "bad_seq" => c \notin calm

\* nonce_pool.ts, tx_manager.ts: numbers go up, and one retry is enough.
NumbersHold == NumbersReachLedgerInOrder /\ RetryHeals

Phase ==
    [c \in Charges |->
        CASE outcome[c] = "submitted"                              -> "done"
          [] pc[c] \in {"idle", "acquire"} /\ ~isRetry[c]           -> "pending"
          [] OTHER                                                  -> "claimed"]

Once == INSTANCE ExactlyOnce WITH Jobs <- Charges, phase <- Phase, performed <- applied

\* A charge is applied at most once, over a lost answer and a retry, and one
\* reported as submitted was applied.
ChargesAtMostOnce == Once!OnceSpec

\* Every call returns: no request or acquire is left in a queue nobody works on.
ChargesReturn == \A c \in Charges : pc[c] # "idle" ~> pc[c] = "done"

\* README.md: "Circuit breaker pattern: protects Soroban RPC from cascading
\* failures": after failureThreshold failures in a row no request goes out at once.
FailuresStopRequests == failures >= FailureThreshold => posted = NoCharge
=============================================================================
