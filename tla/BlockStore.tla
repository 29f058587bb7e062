----------------------------- MODULE BlockStore -----------------------------
(***************************************************************************)
(* What bread(), bwrite(), log_write() and brelse() promise together: one  *)
(* process at a time has a block, and it finds there what was last left in *)
(* it, whatever the cache and the disk do underneath.                      *)
(***************************************************************************)
CONSTANTS Procs, Blocks, Values, NoProc

VARIABLES
    contents,   \* contents[k]: what a reader of block k finds
    owner       \* owner[k]: the process that has block k

SInit == contents \in [Blocks -> Values] /\ owner = [k \in Blocks |-> NoProc]

Get(p, k) == owner[k] = NoProc /\ owner' = [owner EXCEPT ![k] = p] /\ UNCHANGED contents

Set(p, k, v) == owner[k] = p /\ contents' = [contents EXCEPT ![k] = v] /\ UNCHANGED owner

Put(p, k) == owner[k] = p /\ owner' = [owner EXCEPT ![k] = NoProc] /\ UNCHANGED contents

SNext == \E p \in Procs, k \in Blocks : Get(p, k) \/ Put(p, k) \/ \E v \in Values : Set(p, k, v)

SSpec == SInit /\ [][SNext]_<<contents, owner>>
=============================================================================
