---------------------------- MODULE MCSyncTasks ----------------------------
(* Small instances of SyncTasks for TLC.                                   *)
EXTENDS SyncTasks

CONSTANTS t1, t2, t3, t4, e1, e2

FourTasks == {t1, t2, t3, t4}
TwoElements == {e1, e2}

Symmetry == Permutations(FourTasks) \cup Permutations(TwoElements)
=============================================================================
