----------------------------- MODULE MCConsole -----------------------------
(* Two processes: two readers, a reader and a writer, or two that sleep.   *)
EXTENDS Console

CONSTANTS p1, p2

MCUses ==
    {[p \in {p1, p2} |-> IF p = p1 THEN a ELSE b] :
        <<a, b>> \in {<<"read", "read">>, <<"read", "write">>, <<"sleep", "sleep">>}}
=============================================================================
