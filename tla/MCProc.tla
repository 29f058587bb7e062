------------------------------- MODULE MCProc -------------------------------
(* Two CPUs, which are interchangeable, and up to two channels. *)
EXTENDS Proc, TLC

CONSTANTS c1, c2, ch1, ch2

Symmetry == Permutations(CPUs)
=============================================================================
