------------------------- MODULE MCRecoveryBudget -------------------------
(* RecoveryBudget for TLC. *)
EXTENDS RecoveryBudget

CONSTANTS t1, t2, t3, r1, r2

MCThreads == {t1, t2, t3}
MCRevisions == {r1, r2}
=============================================================================
