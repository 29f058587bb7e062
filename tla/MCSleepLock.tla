---------------------------- MODULE MCSleepLock ----------------------------
(* Four processes that contend for one buffer or inode. *)
EXTENDS SleepLock

CONSTANTS p1, p2, p3, p4
=============================================================================
