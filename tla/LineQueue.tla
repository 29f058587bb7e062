----------------------------- MODULE LineQueue -----------------------------
(***************************************************************************)
(* What console input promises: what is typed is a line that can be edited *)
(* until it is finished, finished bytes are delivered once and in order,   *)
(* at most a line per call, and an end of file ends a call of its own.     *)
(***************************************************************************)
EXTENDS Naturals, Sequences

CONSTANTS Procs, Bytes, Newline, EOF, Size

VARIABLES
    ready,  \* finished bytes nobody has read
    edit,   \* the line that is being typed
    some    \* some[p]: the call of p has been given bytes

QInit == ready = <<>> /\ edit = <<>> /\ some = [p \in Procs |-> FALSE]

Key(c) ==
    LET line == Append(edit, c)
    IN  /\ Len(ready) + Len(edit) < Size
        /\ IF c \in {Newline, EOF} \/ Len(ready) + Len(line) = Size
           THEN ready' = ready \o line /\ edit' = <<>>
           ELSE edit' = line /\ UNCHANGED ready
        /\ UNCHANGED some

Erase ==
    /\ \E k \in 0..Len(edit) : edit' = SubSeq(edit, 1, k)
    /\ UNCHANGED <<ready, some>>

Take(p) ==
    /\ \E k \in 1..Len(ready) :
        /\ \A i \in 1..k-1 : ready[i] \notin {Newline, EOF}
        /\ ready[k] = EOF => k = 1 /\ ~some[p]
        /\ ready[k] \in {Newline, EOF} => ~some'[p]
        /\ ready' = SubSeq(ready, k + 1, Len(ready))
    /\ some' \in {some, [some EXCEPT ![p] = ~@]}
    /\ UNCHANGED edit

Return(p) ==
    /\ some' = [some EXCEPT ![p] = FALSE]
    /\ UNCHANGED <<ready, edit>>

QNext ==
    \/ \E c \in Bytes : Key(c)
    \/ Erase
    \/ \E p \in Procs : Take(p) \/ Return(p)

QSpec == QInit /\ [][QNext]_<<ready, edit, some>>
=============================================================================
