-------------------------------- MODULE Mutex --------------------------------
(* What a sleep lock promises: a lock with at most one owner, which it gives *)
(* to a process only when it is free, and takes back only from its owner.    *)
CONSTANTS Procs, NoProc


VARIABLE owner

XInit == owner = NoProc

Lock(p) == owner = NoProc /\ owner' = p

Unlock(p) == owner = p /\ owner' = NoProc

XNext == \E p \in Procs : Lock(p) \/ Unlock(p)

XSpec == XInit /\ [][XNext]_owner
=============================================================================
