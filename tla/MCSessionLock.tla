--------------------------- MODULE MCSessionLock ---------------------------
(* SessionLock for TLC *)
EXTENDS SessionLock

CONSTANTS l1, l2, m1, m2

TwoLocks == {l1, l2}
Both     == {m1, m2}
=============================================================================
