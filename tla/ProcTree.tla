------------------------------ MODULE ProcTree ------------------------------
(***************************************************************************)
(* What fork(), exit() and wait() promise to programs, in terms of process *)
(* ids alone: a tree of processes under init, in which an orphan passes to *)
(* init and an exited child is collected once, by its parent.              *)
(***************************************************************************)
EXTENDS Naturals

CONSTANT Pids, initpid

VARIABLES
    live,       \* ids of the processes that run or may run
    dead,       \* ids of those that have exited and were not waited for
    parent      \* the parent of each of them

TInit == live = {initpid} /\ dead = {} /\ parent = [q \in {initpid} |-> 0]

Fork(q, new) ==
    /\ q \in live /\ new \notin live \cup dead
    /\ live' = live \cup {new}
    /\ parent' = [r \in live \cup dead \cup {new} |-> IF r = new THEN q ELSE parent[r]]
    /\ UNCHANGED dead

Exit(q) ==
    /\ q \in live \ {initpid}
    /\ live' = live \ {q} /\ dead' = dead \cup {q}
    /\ parent' = [r \in DOMAIN parent |-> IF parent[r] = q THEN initpid ELSE parent[r]]

(* wait() by the parent of q *)
Reap(q) ==
    /\ q \in dead /\ parent[q] \in live
    /\ dead' = dead \ {q}
    /\ parent' = [r \in DOMAIN parent \ {q} |-> parent[r]]
    /\ UNCHANGED live

TNext == \E q, new \in Pids : Fork(q, new) \/ Exit(q) \/ Reap(q)

TSpec == TInit /\ [][TNext]_<<live, dead, parent>>
=============================================================================
