------------------------------- MODULE MCLog -------------------------------
(* Up to three processes, and blocks as model values. *)
EXTENDS Log, TLC

CONSTANTS p1, p2, p3, b1, b2, b3
=============================================================================
