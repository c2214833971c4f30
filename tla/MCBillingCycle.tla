--------------------------- MODULE MCBillingCycle ---------------------------
EXTENDS BillingCycle
=============================================================================
