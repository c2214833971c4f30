-------------------------- MODULE MCBatchCompaction --------------------------
EXTENDS BatchCompaction

CONSTANTS e1, e2, m1, m2, l1, l2

MCMetricOf == [e \in Events |-> IF e = e1 THEN m1 ELSE m2]

MCLockOf == [w \in Windows |-> IF w = 0 THEN l1 ELSE l2]
=============================================================================
