-------------------------- MODULE MCLedgerEventBus --------------------------
(* One consumer, batches of two and a stream that may be trimmed to one    *)
(* entry.                                                                  *)
EXTENDS LedgerEventBus

CONSTANT c1
=============================================================================
