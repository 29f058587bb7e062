------------------------------ MODULE MCFiles ------------------------------
(* Two processes and two names. *)
EXTENDS Files, TLC

CONSTANTS p1, p2, n1, n2

Symmetry == Permutations(Names) \cup Permutations(Procs)
=============================================================================
