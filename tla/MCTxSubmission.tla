--------------------------- MODULE MCTxSubmission ---------------------------
EXTENDS TxSubmission

CONSTANTS c1, c2, c3
=============================================================================
