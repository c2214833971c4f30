------------------------ MODULE BalanceReconciliation ------------------------
(***************************************************************************)
(* BalanceManager (src/core/blockchain/balance_manager.ts): an account's   *)
(* balance is compared with the chain's after every hundredth transaction  *)
(* and after a rollback, and a difference is handed to a callback. The     *)
(* caller passes the local balance; the comparison awaits Horizon and the  *)
(* callback. One account; the callback, outside of src, stores the         *)
(* corrected balance.                                                      *)
(***************************************************************************)
EXTENDS Naturals

CONSTANTS
    Comparisons,    \* concurrent calls of reconcileAccount
    MaxBalance,     \* balances are 0..MaxBalance
    CompareEvery    \* RECONCILIATION_THRESHOLD_TX_COUNT

ASSUME BalanceAssumption == MaxBalance \in Nat /\ CompareEvery \in Nat \ {0}

VARIABLES
    localBalance,   \* what is stored
    chainBalance,   \* what Horizon says
    transactionCount,
    compare,        \* compare[r]: place of the call, local balance it was passed, chain's it fetched
    quiet           \* history: comparisons since whose start no balance changed

balanceVars == <<localBalance, chainBalance, transactionCount, compare, quiet>>

Balances == 0..MaxBalance

NoComparison == [at |-> "none", passed |-> 0, fetched |-> 0]

BalanceTypeOK ==
    /\ localBalance \in Balances /\ chainBalance \in Balances
    /\ transactionCount \in 0..CompareEvery
    /\ compare \in [Comparisons -> [at : {"none", "fetch", "compare"},
                                    passed : Balances, fetched : Balances]]
    /\ quiet \in SUBSET Comparisons

BalanceInit ==
    /\ localBalance \in Balances /\ chainBalance \in Balances
    /\ transactionCount = 0
    /\ compare = [r \in Comparisons |-> NoComparison]
    /\ quiet = {}

-----------------------------------------------------------------------------
\* reconcileAccount is called with the balance that is stored now.
Starts(r) ==
    /\ compare[r].at = "none"
    /\ compare' = [compare EXCEPT ![r] = [at |-> "fetch", passed |-> localBalance, fetched |-> 0]]
    /\ quiet' = quiet \cup {r}

ReconcileAfterRollback(r) ==
    /\ Starts(r)
    /\ UNCHANGED <<localBalance, chainBalance, transactionCount>>

RecordTransaction(r) ==
    /\ IF transactionCount + 1 >= CompareEvery
       THEN transactionCount' = 0 /\ Starts(r)
       ELSE transactionCount' = transactionCount + 1 /\ UNCHANGED <<compare, quiet>>
    /\ UNCHANGED <<localBalance, chainBalance>>

ResetTransactionCount ==
    /\ transactionCount' = 0
    /\ UNCHANGED <<localBalance, chainBalance, compare, quiet>>

Fetch(r) ==
    /\ compare[r].at = "fetch"
    /\ compare' = [compare EXCEPT ![r].at = "compare", ![r].fetched = chainBalance]
    /\ UNCHANGED <<localBalance, chainBalance, transactionCount, quiet>>

\* Mutant: only what was charged too little is a discrepancy.
Overdrawn(r) == compare[r].passed > compare[r].fetched

Differs(r) == compare[r].passed # compare[r].fetched

\* Without a difference the call returns.
Agrees(r) ==
    /\ compare[r].at = "compare" /\ ~Differs(r)
    /\ compare' = [compare EXCEPT ![r] = NoComparison]
    /\ UNCHANGED <<localBalance, chainBalance, transactionCount, quiet>>

\* onReconcile stores the balance that was fetched.
Corrects(r) ==
    /\ compare[r].at = "compare" /\ Differs(r)
    /\ localBalance' = compare[r].fetched
    /\ quiet' = IF localBalance' = localBalance THEN quiet ELSE quiet \cap {r}
    /\ compare' = [compare EXCEPT ![r] = NoComparison]
    /\ UNCHANGED <<chainBalance, transactionCount>>

\* Horizon fails, or has no native balance, or the callback rejects.
ComparisonFails(r) ==
    /\ compare[r].at # "none"
    /\ compare' = [compare EXCEPT ![r] = NoComparison]
    /\ quiet' = quiet \ {r}
    /\ UNCHANGED <<localBalance, chainBalance, transactionCount>>

\* The billing engine changes the balance; a transaction settles on the chain.
BalanceMoves ==
    /\ \/ \E b \in Balances \ {localBalance} : localBalance' = b /\ UNCHANGED chainBalance
       \/ \E b \in Balances \ {chainBalance} : chainBalance' = b /\ UNCHANGED localBalance
    /\ quiet' = {}
    /\ UNCHANGED <<transactionCount, compare>>

BalanceNext ==
    \/ BalanceMoves \/ ResetTransactionCount
    \/ \E r \in Comparisons :
          \/ ReconcileAfterRollback(r) \/ RecordTransaction(r) \/ Fetch(r)
          \/ Agrees(r) \/ Corrects(r) \/ ComparisonFails(r)

BalanceSpec == BalanceInit /\ [][BalanceNext]_balanceVars

-----------------------------------------------------------------------------
(* Properties. *)

\* balance_manager.ts reconcileAccount: a comparison that ends without failing
\* and without a balance having changed since its start, by others or by other
\* comparisons, leaves the stored balance equal to the chain's.
QuietReconcileCorrects ==
    [][\A r \in Comparisons :
          compare[r].at = "compare" /\ compare'[r].at = "none" /\ r \in quiet'
             => localBalance' = chainBalance']_balanceVars
=============================================================================
