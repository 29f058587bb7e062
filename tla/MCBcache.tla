------------------------------ MODULE MCBcache ------------------------------
(* Three accesses to three blocks, with two buffers. *)
EXTENDS Bcache

CONSTANTS p1, p2, p3, k1, k2, k3
=============================================================================
