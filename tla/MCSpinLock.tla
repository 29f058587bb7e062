----------------------------- MODULE MCSpinLock -----------------------------
(* Two CPUs, the lock of a driver and ptable.lock nested inside it. *)
EXTENDS SpinLock

CONSTANTS c1, c2, driver, ptable

MCRank == [l \in Locks |-> IF l = ptable THEN 2 ELSE 1]

=============================================================================
