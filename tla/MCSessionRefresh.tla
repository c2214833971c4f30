------------------------- MODULE MCSessionRefresh -------------------------
EXTENDS SessionRefresh

CONSTANTS r1, r2, r3
=============================================================================
