--------------------------- MODULE MCSleepWakeup ---------------------------
(* Up to four threads and the two channels of a bounded buffer. *)
EXTENDS SleepWakeup

CONSTANTS t1, t2, t3, t4, full, empty
=============================================================================
