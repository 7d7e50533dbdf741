------------------------------- MODULE MCShare -------------------------------
(* Instances of Share for TLC. *)
EXTENDS Share, TLC

CONSTANTS p1, p2, p3

MCRequests == {-1, 0, 10, MAXINT - 1}
Symmetry == Permutations(Procs)
==============================================================================
