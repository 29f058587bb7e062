----------------------------- MODULE FileStore -----------------------------
(***************************************************************************)
(* What the file system calls promise to programs: a store of files and    *)
(* directories under names, each call in one step.  A file stays as long   *)
(* as it has a name or a user: an open file, or a process that works in    *)
(* the directory.                                                          *)
(***************************************************************************)
EXTENDS Naturals

CONSTANTS Objects, Names, Nothing, root, sub, crew

VARIABLES
    kind,       \* kind[i]: "free", "FILE" or "DIR"
    names,      \* names[d][n]: what n means in directory d, or Nothing
    users       \* users[i]: open files and working directories

vars == <<kind, names, users>>

NoNames == [n \in Names |-> Nothing]

Named(i) == \E d \in Objects, n \in Names : names[d][n] = i

(* A root and a directory in it, where the first processes work. *)
FInit ==
    /\ kind = [i \in Objects |-> IF i \in {root, sub} THEN "DIR" ELSE "free"]
    /\ \E n \in Names :
          names = [d \in Objects |-> IF d = root THEN [NoNames EXCEPT ![n] = sub] ELSE NoNames]
    /\ users \in [Objects -> 0..crew]
    /\ \A i \in Objects : users[i] > 0 => kind[i] = "DIR"

Make(d, n, i, k) ==
    /\ kind[d] = "DIR" /\ names[d][n] = Nothing /\ kind[i] = "free"
    /\ kind' = [kind EXCEPT ![i] = k]
    /\ names' = [names EXCEPT ![d][n] = i]
    /\ UNCHANGED users

Link(d, n, i) ==
    /\ kind[d] = "DIR" /\ names[d][n] = Nothing /\ kind[i] = "FILE"
    /\ names' = [names EXCEPT ![d][n] = i]
    /\ UNCHANGED <<kind, users>>

(* Only an empty directory loses its name. *)
Unlink(d, n) ==
    /\ names[d][n] # Nothing
    /\ names[names[d][n]] = NoNames
    /\ names' = [names EXCEPT ![d][n] = Nothing]
    /\ UNCHANGED <<kind, users>>

(* open, close, dup, fork, exit, chdir: only what exists is used. *)
Use ==
    /\ users' \in [Objects -> Nat]
    /\ \A i \in Objects : kind[i] = "free" => users'[i] = 0
    /\ UNCHANGED <<kind, names>>

(* What has neither a name nor a user disappears, with all it contains. *)
Collect(i) ==
    /\ kind[i] # "free" /\ users[i] = 0 /\ ~Named(i)
    /\ kind' = [kind EXCEPT ![i] = "free"]
    /\ names' = [names EXCEPT ![i] = NoNames]
    /\ UNCHANGED users

FNext ==
    \/ \E d, i \in Objects, n \in Names :
        \/ \E k \in {"FILE", "DIR"} : Make(d, n, i, k)
        \/ Link(d, n, i)
        \/ Unlink(d, n)
    \/ \E i \in Objects : Collect(i)
    \/ Use

FSpec == FInit /\ [][FNext]_vars
=============================================================================
