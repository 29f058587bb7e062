------------------------------- MODULE Monitor -------------------------------
(***************************************************************************)
(* What sleep() and wakeup() of proc.c promise to the code that uses them  *)
(* with a spin lock lk ("Atomically release lock and sleep on chan.        *)
(* Reacquires lock when awakened."): a monitor with Mesa semantics.  A     *)
(* thread that waits gives up the lock and is waiting in one step, a       *)
(* wakeup on a channel ends the wait of every thread waiting on it, and    *)
(* kill() may end a wait that no wakeup was meant for.                     *)
(***************************************************************************)
CONSTANTS
    Threads,
    Chans,
    NoThread,
    NoChan


VARIABLES
    holder,     \* the thread inside lk, or NoThread
    waiting     \* waiting[t]: the channel t waits on, or NoChan

mvars == <<holder, waiting>>

MTypeOK ==
    /\ holder \in Threads \cup {NoThread}
    /\ waiting \in [Threads -> Chans \cup {NoChan}]

MInit ==
    /\ holder = NoThread
    /\ waiting = [t \in Threads |-> NoChan]

Enter(t) ==
    /\ holder = NoThread
    /\ waiting[t] = NoChan
    /\ holder' = t
    /\ UNCHANGED waiting

Exit(t) ==
    /\ holder = t
    /\ holder' = NoThread
    /\ UNCHANGED waiting

Wait(t, ch) ==
    /\ holder = t
    /\ holder' = NoThread
    /\ waiting' = [waiting EXCEPT ![t] = ch]

(* The channel after every wait on ch has ended. *)
Woken(ch) == [u \in Threads |-> IF waiting[u] = ch THEN NoChan ELSE waiting[u]]

Wakeup(t, ch) ==
    /\ holder = t
    /\ waiting' = Woken(ch)
    /\ UNCHANGED holder

(* kill(): a wait ends although nothing it waits for has happened. *)
Interrupted(t) ==
    /\ waiting[t] # NoChan
    /\ waiting' = [waiting EXCEPT ![t] = NoChan]
    /\ UNCHANGED holder

MNext ==
    \E t \in Threads :
        \/ Enter(t)
        \/ Exit(t)
        \/ \E ch \in Chans : Wait(t, ch) \/ Wakeup(t, ch)
        \/ Interrupted(t)

MSpec == MInit /\ [][MNext]_mvars
=============================================================================
