--------------------------- MODULE MCLogBackends ----------------------------
(* Instances of LogBackends for TLC.                                         *)
EXTENDS LogBackends, TLC

CONSTANTS t1, t2

Symmetry == Permutations(Threads)
=============================================================================
