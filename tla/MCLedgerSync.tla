---------------------------- MODULE MCLedgerSync ----------------------------
EXTENDS LedgerSync
=============================================================================
