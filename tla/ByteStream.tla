----------------------------- MODULE ByteStream -----------------------------
(* What a pipe promises: a bounded first-in first-out queue of the bytes     *)
(* that are written, into which they go only while its write end is open,    *)
(* and which is given up only when both ends are closed.                     *)
EXTENDS Naturals, Sequences

CONSTANTS Writers, Readers, Calls, Size

VARIABLES
    queue,
    pending,    \* pending[w]: what the call of writer w has still to put in
    taken,      \* taken[r]: what the last call of reader r was given
    wopen, ropen

svars == <<queue, pending, taken, wopen, ropen>>

BInit ==
    /\ queue = <<>> /\ pending = [w \in Writers |-> <<>>] /\ taken = [r \in Readers |-> <<>>]
    /\ wopen = TRUE /\ ropen = TRUE

Ask(w) ==
    /\ \E s \in Calls : pending' = [pending EXCEPT ![w] = s]
    /\ UNCHANGED <<queue, taken, wopen, ropen>>

AskBytes(r) ==
    /\ taken' = [taken EXCEPT ![r] = <<>>]
    /\ UNCHANGED <<queue, pending, wopen, ropen>>

(* The rest of the call is given up only with the call.                      *)
Put(w) ==
    /\ wopen
    /\ \E k \in 0..Len(pending[w]) :
        /\ queue' = queue \o SubSeq(pending[w], 1, k)
        /\ \/ pending' = [pending EXCEPT ![w] = SubSeq(pending[w], k + 1, Len(pending[w]))]
           \/ pending' = [pending EXCEPT ![w] = <<>>]
    /\ Len(queue') <= Size
    /\ UNCHANGED <<taken, wopen, ropen>>

(* The reader is given the oldest bytes.                                     *)
Get(r) ==
    /\ ropen
    /\ \E k \in 0..Len(queue) :
        /\ taken' = [taken EXCEPT ![r] = SubSeq(queue, 1, k)]
        /\ queue' = SubSeq(queue, k + 1, Len(queue))
    /\ UNCHANGED <<pending, wopen, ropen>>

CloseWrite == wopen /\ wopen' = FALSE /\ UNCHANGED <<queue, pending, taken, ropen>>

CloseRead == ropen /\ ropen' = FALSE /\ UNCHANGED <<queue, pending, taken, wopen>>

(* A new pipe in the place of one that both ends have left. *)
Reopen ==
    /\ ~wopen /\ ~ropen
    /\ queue' = <<>> /\ wopen' = TRUE /\ ropen' = TRUE
    /\ UNCHANGED <<pending, taken>>

BNext ==
    \/ \E w \in Writers : Ask(w) \/ Put(w)
    \/ \E r \in Readers : AskBytes(r) \/ Get(r)
    \/ CloseWrite \/ CloseRead \/ Reopen

BSpec == BInit /\ [][BNext]_svars
=============================================================================
