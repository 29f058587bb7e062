----------------------------- MODULE DurableDisk -----------------------------
(* What the log promises to the file system: operations write to the current *)
(* contents; when none is active the contents may become durable, all of it  *)
(* at once; a crash at any time goes back to what is durable.                *)
CONSTANTS Blocks, Procs, Values

VARIABLES
    current,    \* the contents as the operations see them
    durable,    \* the contents a crash leaves
    active      \* the processes between begin_op() and end_op()

dvars == <<current, durable, active>>

DInit ==
    /\ current \in [Blocks -> Values]
    /\ durable = current
    /\ active = {}

Begin(p) == p \notin active /\ active' = active \cup {p} /\ UNCHANGED <<current, durable>>

Write(b, v) ==
    /\ active # {}
    /\ current' = [current EXCEPT ![b] = v]
    /\ UNCHANGED <<durable, active>>

End(p) == p \in active /\ active' = active \ {p} /\ UNCHANGED <<current, durable>>

MakeDurable == active = {} /\ durable' = current /\ UNCHANGED <<current, active>>

CrashBack == current' = durable /\ active' = {} /\ UNCHANGED durable

DNext ==
    \/ \E p \in Procs : Begin(p) \/ End(p)
    \/ \E b \in Blocks, v \in Values : Write(b, v)
    \/ MakeDurable
    \/ CrashBack

DSpec == DInit /\ [][DNext]_dvars
=============================================================================
