-------------------------------- MODULE Proc --------------------------------
(***************************************************************************)
(* The life of processes and the scheduler of every CPU (proc.c, trap.c):  *)
(* allocproc/fork, exit, wait, kill, sleep, yield, sched and scheduler,    *)
(* with the hand-over of ptable.lock and of the interrupt flag across      *)
(* swtch().                                                                *)
(*                                                                         *)
(* A stretch of code under ptable.lock that does not reach sched() is one  *)
(* step.  From the moment a process has changed its state until the        *)
(* scheduler has another one run, or gives up, plock names the CPU that    *)
(* holds the lock.  The locks themselves are in SpinLock, the conditions   *)
(* processes sleep for in SleepWakeup.                                     *)
(***************************************************************************)
EXTENDS Naturals, FiniteSets, FiniteSetsExt

CONSTANTS
    CPUs,
    NPROC,      \* slots of ptable
    KillPids,   \* bound: what kill() is called with
    MaxPid,     \* bound: fork() gives no larger id
    Chans,      \* channels that are not a process: pipes, buffers, locks, ...
    None

ASSUME ProcAssumption ==
    /\ NPROC \in Nat \ {0} /\ MaxPid \in Nat \ {0}
    /\ KillPids \subseteq 0..MaxPid
    /\ None \notin CPUs \cup Nat \cup Chans
    /\ Chans \cap Nat = {}

Slots == 1..NPROC

(* The process that userinit() makes. *)
initproc == 1

VARIABLES
    \* ptable.proc[i]
    state, pid, parent, killed, chan,
    kstack,     \* kstack[i]: whether the slot has a kernel stack
    nextpid,
    \* per CPU
    plock,      \* the CPU that holds ptable.lock
    cproc,      \* cproc[c]: c->proc, on whose kernel stack c then runs
    scan,       \* scan[c]: the loop variable of scheduler()
    IF_,        \* IF_[c]: FL_IF of c
    intena,     \* intena[c]: c->intena
    \* per process
    pc,         \* see Labels
    under,      \* under[i]: where the process goes on after "yield", "sleep", "intr"
    child,      \* child[i]: np of its fork()
    saved       \* saved[i]: the local variable of sched()

table == <<state, pid, parent, killed, chan, kstack, nextpid>>
cpu == <<plock, cproc, scan, IF_, intena>>
local == <<pc, under, child, saved>>
vars == <<table, cpu, local>>

(***************************************************************************)
(* "none": the slot is not in use; "forkret": never run; "user"; "kernel": *)
(* in a system call; "alloc", "ready": in fork(), around the filling in of *)
(* the child; "exit": in exit(), before ptable.lock; "intr": in trap() for *)
(* a tick, after yield(); "yield", "sleep", "wait", "zombie": in sched();  *)
(* "panic".                                                                *)
(***************************************************************************)
Labels == {"none", "forkret", "user", "kernel", "alloc", "ready", "exit", "intr",
           "yield", "sleep", "wait", "zombie", "panic"}

(* Code a timer interrupt finds with interrupts enabled. *)
Interruptible == {"user", "kernel", "alloc", "ready", "exit"}

States == {"UNUSED", "EMBRYO", "SLEEPING", "RUNNABLE", "RUNNING", "ZOMBIE"}

TypeOK ==
    /\ state \in [Slots -> States]
    /\ pid \in [Slots -> 0..MaxPid]
    /\ parent \in [Slots -> Slots \cup {None}]
    /\ killed \in [Slots -> BOOLEAN]
    /\ chan \in [Slots -> Slots \cup Chans \cup {None}]
    /\ kstack \in [Slots -> BOOLEAN]
    /\ nextpid \in 1..MaxPid+1
    /\ plock \in CPUs \cup {None}
    /\ cproc \in [CPUs -> Slots \cup {None}]
    /\ scan \in [CPUs -> 1..NPROC+1]
    /\ IF_ \in [CPUs -> BOOLEAN]
    /\ intena \in [CPUs -> BOOLEAN]
    /\ pc \in [Slots -> Labels]
    /\ under \in [Slots -> Interruptible \cup {"none"}]
    /\ child \in [Slots -> Slots \cup {None}]
    /\ saved \in [Slots -> BOOLEAN]

(* After userinit(), with every CPU in scheduler(). *)
Init ==
    /\ state = [i \in Slots |-> IF i = initproc THEN "RUNNABLE" ELSE "UNUSED"]
    /\ pid = [i \in Slots |-> IF i = initproc THEN 1 ELSE 0]
    /\ parent = [i \in Slots |-> None]
    /\ killed = [i \in Slots |-> FALSE]
    /\ chan = [i \in Slots |-> None]
    /\ kstack = [i \in Slots |-> i = initproc]
    /\ nextpid = 2
    /\ plock = None
    /\ cproc = [c \in CPUs |-> None]
    /\ scan = [c \in CPUs |-> 1]
    /\ IF_ = [c \in CPUs |-> TRUE]
    /\ intena = [c \in CPUs |-> TRUE]
    /\ pc = [i \in Slots |-> IF i = initproc THEN "forkret" ELSE "none"]
    /\ under = [i \in Slots |-> "none"]
    /\ child = [i \in Slots |-> None]
    /\ saved = [i \in Slots |-> FALSE]

-----------------------------------------------------------------------------
(* acquire(&ptable.lock) and release(&ptable.lock) of a CPU that holds no  *)
(* other lock: pushcli() notes the interrupt flag, popcli() restores it.   *)
Acquire(c) ==
    /\ plock = None
    /\ plock' = c
    /\ intena' = [intena EXCEPT ![c] = IF_[c]]
    /\ IF_' = [IF_ EXCEPT ![c] = FALSE]

Release(c) ==
    /\ plock' = None
    /\ IF_' = [IF_ EXCEPT ![c] = @ \/ intena[c]]

(* Process p executes on c outside ptable.lock, or once more inside it     *)
(* after sched() has returned.                                             *)
Runs(c, p, label) == cproc[c] = p /\ pc[p] = label /\ plock # c
Resumed(c, p, label) == cproc[c] = p /\ pc[p] = label /\ plock = c /\ state[p] = "RUNNING"

At(p, label) == [pc EXCEPT ![p] = label]

(* exit() of init is a panic. *)
ExitOf(p) == IF p = initproc THEN "panic" ELSE "exit"

(* wakeup1(ch), on a table with the given states *)
wakeup1(st, ch) ==
    [i \in Slots |-> IF st[i] = "SLEEPING" /\ chan[i] = ch THEN "RUNNABLE" ELSE st[i]]

-----------------------------------------------------------------------------
(* scheduler() takes the lock and starts a round at the first slot. *)
SchedLock(c) ==
    /\ cproc[c] = None
    /\ Acquire(c)
    /\ scan' = [scan EXCEPT ![c] = 1]
    /\ UNCHANGED <<table, cproc, local>>

Candidates(c) == {i \in Slots : i >= scan[c] /\ state[i] = "RUNNABLE"}

(* Mutant of Resumption: sched() leaves intena as the other process had it. *)
ResumptionKept(c, p) == intena[c]

(* c->intena when p goes on: sched() restores it, forkret() does not. *)
Resumption(c, p) == IF pc[p] = "forkret" THEN intena[c] ELSE saved[p]

(* The next RUNNABLE process of the round runs, with the lock held. *)
Dispatch(c) ==
    /\ plock = c /\ cproc[c] = None
    /\ Candidates(c) # {}
    /\ LET p == Min(Candidates(c)) IN
       /\ state' = [state EXCEPT ![p] = "RUNNING"]
       /\ cproc' = [cproc EXCEPT ![c] = p]
       /\ intena' = [intena EXCEPT ![c] = Resumption(c, p)]
    /\ UNCHANGED <<pid, parent, killed, chan, kstack, nextpid, plock, scan, IF_, local>>

(* The round is over; sti() follows. *)
SchedRelease(c) ==
    /\ plock = c /\ cproc[c] = None
    /\ Candidates(c) = {}
    /\ plock' = None
    /\ IF_' = [IF_ EXCEPT ![c] = TRUE]
    /\ scan' = [scan EXCEPT ![c] = 1]
    /\ UNCHANGED <<table, cproc, intena, local>>

(* Mutant of Swtch: the round starts again after every process. *)
SwtchRestarts(c) ==
    LET p == cproc[c] IN
    /\ p # None /\ plock = c /\ state[p] # "RUNNING"
    /\ saved' = [saved EXCEPT ![p] = intena[c]]
    /\ cproc' = [cproc EXCEPT ![c] = None]
    /\ scan' = [scan EXCEPT ![c] = 1]
    /\ UNCHANGED <<table, plock, IF_, intena, pc, under, child>>

(* sched() of a process that has changed its state, and what scheduler()   *)
(* does when it is back: the round goes on after p.                        *)
Swtch(c) ==
    LET p == cproc[c] IN
    /\ p # None /\ plock = c /\ state[p] # "RUNNING"
    /\ saved' = [saved EXCEPT ![p] = intena[c]]
    /\ cproc' = [cproc EXCEPT ![c] = None]
    /\ scan' = [scan EXCEPT ![c] = p + 1]
    /\ UNCHANGED <<table, plock, IF_, intena, pc, under, child>>

-----------------------------------------------------------------------------
(* forkret(), then trapret to user space, where interrupts are on. *)
Forkret(c, p) ==
    /\ Resumed(c, p, "forkret")
    /\ plock' = None
    /\ IF_' = [IF_ EXCEPT ![c] = TRUE]
    /\ pc' = At(p, "user")
    /\ UNCHANGED <<table, cproc, scan, intena, under, child, saved>>

(* trap() for a system call: its start and its end. *)
Syscall(c, p) ==
    /\ Runs(c, p, "user")
    /\ pc' = At(p, IF killed[p] THEN ExitOf(p) ELSE "kernel")
    /\ UNCHANGED <<table, cpu, under, child, saved>>

Sysret(c, p) ==
    /\ Runs(c, p, "kernel")
    /\ pc' = At(p, IF killed[p] THEN ExitOf(p) ELSE "user")
    /\ UNCHANGED <<table, cpu, under, child, saved>>

(* A tick, which enters trap() through an interrupt gate: a killed process *)
(* exits, if it was in user space, *)
TickExit(c, p) ==
    /\ Runs(c, p, "user") /\ IF_[c] /\ killed[p]
    /\ IF_' = [IF_ EXCEPT ![c] = FALSE]
    /\ pc' = At(p, ExitOf(p))
    /\ UNCHANGED <<table, plock, cproc, scan, intena, under, child, saved>>

(* A fault in user space: trap() kills the process. *)
Fault(c, p) ==
    /\ Runs(c, p, "user")
    /\ killed' = [killed EXCEPT ![p] = TRUE]
    /\ IF_' = [IF_ EXCEPT ![c] = FALSE]
    /\ pc' = At(p, ExitOf(p))
    /\ UNCHANGED <<state, pid, parent, chan, kstack, nextpid, plock, cproc, scan, intena, under, child, saved>>

(* Mutant of Yield: the lock is released before the switch. *)
YieldUnlocked(c, p) ==
    /\ pc[p] \in Interruptible /\ Runs(c, p, pc[p]) /\ IF_[c]
    /\ ~(killed[p] /\ pc[p] = "user")
    /\ plock = None
    /\ IF_' = [IF_ EXCEPT ![c] = FALSE]
    /\ intena' = [intena EXCEPT ![c] = FALSE]
    /\ state' = [state EXCEPT ![p] = "RUNNABLE"]
    /\ under' = [under EXCEPT ![p] = pc[p]]
    /\ pc' = At(p, "yield")
    /\ UNCHANGED <<pid, parent, killed, chan, kstack, nextpid, plock, cproc, scan, child, saved>>

(* and every other one yields; pushcli() notes that interrupts are off. *)
Yield(c, p) ==
    /\ pc[p] \in Interruptible /\ Runs(c, p, pc[p]) /\ IF_[c]
    /\ ~(killed[p] /\ pc[p] = "user")
    /\ plock = None /\ plock' = c
    /\ IF_' = [IF_ EXCEPT ![c] = FALSE]
    /\ intena' = [intena EXCEPT ![c] = FALSE]
    /\ state' = [state EXCEPT ![p] = "RUNNABLE"]
    /\ under' = [under EXCEPT ![p] = pc[p]]
    /\ pc' = At(p, "yield")
    /\ UNCHANGED <<pid, parent, killed, chan, kstack, nextpid, cproc, scan, child, saved>>

YieldReturn(c, p) ==
    /\ Resumed(c, p, "yield")
    /\ Release(c)
    /\ pc' = At(p, "intr")
    /\ UNCHANGED <<table, cproc, scan, intena, under, child, saved>>

(* The end of trap(), which tests killed again; iret restores the flag. *)
IntrReturn(c, p) ==
    /\ Runs(c, p, "intr")
    /\ LET exits == killed[p] /\ under[p] = "user" IN
       /\ pc' = At(p, IF exits THEN ExitOf(p) ELSE under[p])
       /\ IF_' = [IF_ EXCEPT ![c] = ~exits]
    /\ under' = [under EXCEPT ![p] = "none"]
    /\ UNCHANGED <<table, plock, cproc, scan, intena, child, saved>>

-----------------------------------------------------------------------------
(* sleep() on a channel that is not a process, with another lock, in a     *)
(* system call or in the part of exit() that closes files.  Whether the    *)
(* caller has tested `killed', and is killed since, is left open.          *)
Sleep(c, p) ==
    /\ pc[p] \in {"kernel", "exit"} /\ Runs(c, p, pc[p])
    /\ Acquire(c)
    /\ state' = [state EXCEPT ![p] = "SLEEPING"]
    /\ \E ch \in Chans : chan' = [chan EXCEPT ![p] = ch]
    /\ under' = [under EXCEPT ![p] = pc[p]]
    /\ pc' = At(p, "sleep")
    /\ UNCHANGED <<pid, parent, killed, kstack, nextpid, cproc, scan, child, saved>>

SleepReturn(c, p) ==
    /\ Resumed(c, p, "sleep")
    /\ Release(c)
    /\ chan' = [chan EXCEPT ![p] = None]
    /\ pc' = At(p, under[p])
    /\ under' = [under EXCEPT ![p] = "none"]
    /\ UNCHANGED <<state, pid, parent, killed, kstack, nextpid, cproc, scan, intena, child, saved>>

(* wakeup(ch) on such a channel, by a process or by an interrupt handler. *)
Wakeup(c, ch) ==
    /\ IF_[c] /\ plock = None
    /\ state' = wakeup1(state, ch)
    /\ UNCHANGED <<pid, parent, killed, chan, kstack, nextpid, cpu, local>>

-----------------------------------------------------------------------------
(* Mutant of AllocProc: nextpid is not counted up. *)
AllocReusesPid(c, p) ==
    /\ Runs(c, p, "kernel") /\ plock = None /\ nextpid <= MaxPid
    /\ LET free == {i \in Slots : state[i] = "UNUSED"}
           np == Min(free)
       IN  /\ free # {}
           /\ state' = [state EXCEPT ![np] = "EMBRYO"]
           /\ pid' = [pid EXCEPT ![np] = nextpid]
           /\ child' = [child EXCEPT ![p] = np]
    /\ pc' = At(p, "alloc")
    /\ UNCHANGED <<nextpid, parent, killed, chan, kstack, cpu, under, saved>>

(* allocproc() under the lock: the first slot that is not in use.  Without *)
(* one fork() returns -1 and changes nothing.                              *)
AllocProc(c, p) ==
    /\ Runs(c, p, "kernel") /\ plock = None /\ nextpid <= MaxPid
    /\ LET free == {i \in Slots : state[i] = "UNUSED"}
           np == Min(free)
       IN  /\ free # {}
           /\ state' = [state EXCEPT ![np] = "EMBRYO"]
           /\ pid' = [pid EXCEPT ![np] = nextpid]
           /\ child' = [child EXCEPT ![p] = np]
    /\ nextpid' = nextpid + 1
    /\ pc' = At(p, "alloc")
    /\ UNCHANGED <<parent, killed, chan, kstack, cpu, under, saved>>

(* kalloc() or copyuvm() fails; no lock is held. *)
ForkFails(c, p) ==
    /\ Runs(c, p, "alloc")
    /\ state' = [state EXCEPT ![child[p]] = "UNUSED"]
    /\ child' = [child EXCEPT ![p] = None]
    /\ pc' = At(p, "kernel")
    /\ UNCHANGED <<pid, parent, killed, chan, kstack, nextpid, cpu, under, saved>>

(* The rest of allocproc(), and fork() up to its acquire(). *)
ForkFill(c, p) ==
    /\ Runs(c, p, "alloc")
    /\ kstack' = [kstack EXCEPT ![child[p]] = TRUE]
    /\ parent' = [parent EXCEPT ![child[p]] = p]
    /\ pc' = [pc EXCEPT ![p] = "ready", ![child[p]] = "forkret"]
    /\ UNCHANGED <<state, pid, killed, chan, nextpid, cpu, under, child, saved>>

ForkReady(c, p) ==
    /\ Runs(c, p, "ready") /\ plock = None
    /\ state' = [state EXCEPT ![child[p]] = "RUNNABLE"]
    /\ child' = [child EXCEPT ![p] = None]
    /\ pc' = At(p, "kernel")
    /\ UNCHANGED <<pid, parent, killed, chan, kstack, nextpid, cpu, under, saved>>

-----------------------------------------------------------------------------
(* A process that is not init calls exit(). *)
SysExit(c, p) ==
    /\ Runs(c, p, "kernel") /\ p # initproc
    /\ pc' = At(p, ExitOf(p))
    /\ UNCHANGED <<table, cpu, under, child, saved>>

Children(p) == {i \in Slots : parent[i] = p}

(* Mutants of Disown: only zombies are passed on; the parent is not woken. *)
DisownZombies(p) ==
    /\ parent' = [i \in Slots |-> IF i \in Children(p) /\ state[i] = "ZOMBIE" THEN initproc ELSE parent[i]]
    /\ LET told == IF parent[p] = None THEN state ELSE wakeup1(state, parent[p])
           orphans == \E i \in Children(p) : state[i] = "ZOMBIE"
       IN  state' = [IF orphans THEN wakeup1(told, initproc) ELSE told EXCEPT ![p] = "ZOMBIE"]

DisownSilent(p) ==
    /\ parent' = [i \in Slots |-> IF i \in Children(p) THEN initproc ELSE parent[i]]
    /\ LET orphans == \E i \in Children(p) : state[i] = "ZOMBIE"
       IN  state' = [IF orphans THEN wakeup1(state, initproc) ELSE state EXCEPT ![p] = "ZOMBIE"]

(* exit() under the lock: wakes the parent, passes the children to init.   *)
Disown(p) ==
    /\ parent' = [i \in Slots |-> IF i \in Children(p) THEN initproc ELSE parent[i]]
    /\ LET told == IF parent[p] = None THEN state ELSE wakeup1(state, parent[p])
           orphans == \E i \in Children(p) : state[i] = "ZOMBIE"
       IN  state' = [IF orphans THEN wakeup1(told, initproc) ELSE told EXCEPT ![p] = "ZOMBIE"]

(* Mutant of Exit: the lock is released before sched(). *)
ExitUnlocked(c, p) ==
    /\ Runs(c, p, "exit")
    /\ plock = None /\ UNCHANGED <<plock, IF_, intena>>
    /\ Disown(p)
    /\ pc' = At(p, "zombie")
    /\ UNCHANGED <<pid, killed, chan, kstack, nextpid, cproc, scan, under, child, saved>>

Exit(c, p) ==
    /\ Runs(c, p, "exit")
    /\ Acquire(c)
    /\ Disown(p)
    /\ pc' = At(p, "zombie")
    /\ UNCHANGED <<pid, killed, chan, kstack, nextpid, cproc, scan, under, child, saved>>

Zombies(p) == {i \in Children(p) : state[i] = "ZOMBIE"}

(* wait() at the head of its loop, with or before ptable.lock *)
InWait(c, p) ==
    \/ Runs(c, p, "kernel") /\ plock = None /\ UNCHANGED IF_
    \/ Resumed(c, p, "wait") /\ IF_' = [IF_ EXCEPT ![c] = intena[c]]

(* wait() finds a zombie. *)
WaitReap(c, p) ==
    /\ InWait(c, p)
    /\ Zombies(p) # {}
    /\ LET z == Min(Zombies(p)) IN
       /\ state' = [state EXCEPT ![z] = "UNUSED"]
       /\ pid' = [pid EXCEPT ![z] = 0]
       /\ parent' = [parent EXCEPT ![z] = None]
       /\ killed' = [killed EXCEPT ![z] = FALSE]
       /\ kstack' = [kstack EXCEPT ![z] = FALSE]
       /\ pc' = [pc EXCEPT ![p] = "kernel", ![z] = "none"]
    /\ chan' = [chan EXCEPT ![p] = None]
    /\ plock' = None
    /\ UNCHANGED <<nextpid, cproc, scan, intena, under, child, saved>>

(* wait() returns -1. *)
WaitFails(c, p) ==
    /\ InWait(c, p)
    /\ Zombies(p) = {}
    /\ Children(p) = {} \/ killed[p]
    /\ pc' = At(p, "kernel")
    /\ chan' = [chan EXCEPT ![p] = None]
    /\ plock' = None
    /\ UNCHANGED <<state, pid, parent, killed, kstack, nextpid, cproc, scan, intena, under, child, saved>>

(* wait() sleeps on its own process. *)
WaitSleep(c, p) ==
    /\ \/ Runs(c, p, "kernel") /\ Acquire(c)
       \/ Resumed(c, p, "wait") /\ UNCHANGED <<plock, IF_, intena>>
    /\ Zombies(p) = {} /\ Children(p) # {} /\ ~killed[p]
    /\ state' = [state EXCEPT ![p] = "SLEEPING"]
    /\ chan' = [chan EXCEPT ![p] = p]
    /\ pc' = At(p, "wait")
    /\ UNCHANGED <<pid, parent, killed, kstack, nextpid, cproc, scan, under, child, saved>>

-----------------------------------------------------------------------------
Named(k) == {i \in Slots : pid[i] = k}

(* Mutant of Kill: it does not wake its target. *)
KillSilent(c, p, k) ==
    /\ Runs(c, p, "kernel") /\ plock = None
    /\ Named(k) # {}
    /\ killed' = [killed EXCEPT ![Min(Named(k))] = TRUE]
    /\ UNCHANGED <<state, pid, parent, chan, kstack, nextpid, cpu, local>>

(* kill(k): the first slot whose pid field says k. *)
Kill(c, p, k) ==
    /\ Runs(c, p, "kernel") /\ plock = None
    /\ Named(k) # {}
    /\ LET t == Min(Named(k)) IN
       /\ killed' = [killed EXCEPT ![t] = TRUE]
       /\ state' = [state EXCEPT ![t] = IF @ = "SLEEPING" THEN "RUNNABLE" ELSE @]
    /\ UNCHANGED <<pid, parent, chan, kstack, nextpid, cpu, local>>

-----------------------------------------------------------------------------
scheduler(c) == SchedLock(c) \/ Dispatch(c) \/ Swtch(c) \/ SchedRelease(c)

trap(c, p) ==
    \/ Forkret(c, p) \/ Syscall(c, p) \/ Sysret(c, p)
    \/ Fault(c, p) \/ TickExit(c, p) \/ Yield(c, p) \/ YieldReturn(c, p) \/ IntrReturn(c, p)

sleep(c, p) == Sleep(c, p) \/ SleepReturn(c, p)

fork(c, p) == AllocProc(c, p) \/ ForkFails(c, p) \/ ForkFill(c, p) \/ ForkReady(c, p)

exit(c, p) == SysExit(c, p) \/ Exit(c, p)

wait(c, p) == WaitReap(c, p) \/ WaitFails(c, p) \/ WaitSleep(c, p)

Next ==
    \E c \in CPUs :
        \/ scheduler(c)
        \/ \E ch \in Chans : Wakeup(c, ch)
        \/ \E p \in Slots :
            \/ trap(c, p) \/ sleep(c, p) \/ fork(c, p) \/ exit(c, p) \/ wait(c, p)
            \/ \E k \in KillPids : Kill(c, p, k)

Spec == Init /\ [][Next]_vars

(***************************************************************************)
(* Fairness on one CPU, where nobody contends for ptable.lock: the timer   *)
(* interrupts, the scheduler, sched() and trap() run on, and a process     *)
(* does what it has begun: a system call that is not asleep ends, fork()   *)
(* and exit() do not stop half way.  A program need not call anything, and *)
(* nobody has to call wakeup() on a channel of Chans.                      *)
(***************************************************************************)
Onward(c, p) ==
    \/ Sysret(c, p)
    \/ Syscall(c, p) /\ killed[p]
    \/ ForkFill(c, p) \/ ForkReady(c, p) \/ Exit(c, p)

Fairness ==
    /\ \A c \in CPUs :
        /\ WF_vars(scheduler(c))
        /\ WF_vars(\E p \in Slots : Yield(c, p) \/ TickExit(c, p))
        /\ WF_vars(\E p \in Slots :
              \/ Forkret(c, p) \/ YieldReturn(c, p) \/ IntrReturn(c, p) \/ SleepReturn(c, p)
              \/ (wait(c, p) /\ pc[p] = "wait"))
    /\ \A p \in Slots : SF_vars(\E c \in CPUs : Onward(c, p))

FairSpec == Spec /\ Fairness

-----------------------------------------------------------------------------
(* A process is RUNNING exactly while one CPU, and only one, is on its     *)
(* stack; on its way out of sched() it may already be something else, but  *)
(* then its CPU still holds the lock.                                      *)
OnOneCpu ==
    /\ \A c, d \in CPUs : cproc[c] # None /\ cproc[c] = cproc[d] => c = d
    /\ \A i \in Slots : state[i] = "RUNNING" => \E c \in CPUs : cproc[c] = i
    /\ \A c \in CPUs : cproc[c] # None => state[cproc[c]] = "RUNNING" \/ plock = c

(* wait() never frees, and fork() never hands out, the stack of a process  *)
(* that a CPU still executes on or that will run again.                    *)
StackKept ==
    /\ \A c \in CPUs : cproc[c] # None => kstack[cproc[c]] /\ state[cproc[c]] \notin {"UNUSED", "EMBRYO"}
    /\ \A i \in Slots : state[i] \in {"SLEEPING", "RUNNABLE", "RUNNING", "ZOMBIE"} => kstack[i]

(* The parent of a process, dead or alive, has not exited itself.          *)
ParentAlive ==
    \A i \in Slots \ {initproc} :
        state[i] \in {"SLEEPING", "RUNNABLE", "RUNNING", "ZOMBIE"} =>
            parent[i] \in Slots /\ state[parent[i]] \in {"SLEEPING", "RUNNABLE", "RUNNING"}

(* The types, and no process without a parent to collect it. *)
ProcInv == TypeOK /\ ParentAlive

(* Nobody sleeps in wait() with a child to collect: exit() wakes the       *)
(* parent, also the parent that inherits a zombie.                         *)
WaiterHasNoZombie ==
    \A i \in Slots : state[i] = "SLEEPING" /\ chan[i] = i => Zombies(i) = {}

(* The interrupt flag belongs to the process: in a system call interrupts  *)
(* are on and in the rest of a tick's handler off, on whatever CPU it      *)
(* continues.                                                              *)
FlagFollowsProcess ==
    \A c \in CPUs : \A i \in Slots :
        cproc[c] = i /\ plock # c =>
            /\ pc[i] \in {"user", "kernel", "alloc", "ready"} => IF_[c]
            /\ pc[i] = "intr" => ~IF_[c]

(* Under the slots that are reused, fork(), exit() and wait() keep the     *)
(* promised tree of process ids.                                           *)
Live == {i \in Slots : state[i] \in {"SLEEPING", "RUNNABLE", "RUNNING"}}
Dead == {i \in Slots : state[i] = "ZOMBIE"}
SlotOf(k) == CHOOSE i \in Live \cup Dead : pid[i] = k

Tree == INSTANCE ProcTree WITH
    Pids <- 1..MaxPid,
    initpid <- 1,
    live <- {pid[i] : i \in Live},
    dead <- {pid[i] : i \in Dead},
    parent <- [k \in {pid[i] : i \in Live \cup Dead} |->
                  IF parent[SlotOf(k)] = None THEN 0 ELSE pid[parent[SlotOf(k)]]]

ImplementsProcTree == Tree!TSpec

(* "Kill the process with the given pid": a slot that is not in use keeps  *)
(* no kill() for the process that allocproc() gives it to next.            *)
BornUnkilled ==
    [][\A i \in Slots : state[i] = "UNUSED" /\ state'[i] = "EMBRYO" => ~killed'[i]]_vars

Panicked == pc[initproc] = "panic"

(* Every runnable process gets to run: a round goes on where it was, and   *)
(* does not start again with the first slots.                              *)
NoStarvation ==
    \A i \in Slots : state[i] = "RUNNABLE" ~> state[i] = "RUNNING" \/ Panicked

(* A killed process exits, or it sleeps for ever on a channel of Chans that*)
(* nobody wakes: kill() ends a sleep under way, also one in wait(), but it *)
(* does not keep its target from the next one, nor wake it when it is      *)
(* about to sleep.  (That the loops of pipe.c, console.c and sys_sleep()   *)
(* leave when they are woken is in Pipe and Console.)                      *)
KilledExits ==
    \A i \in Slots \ {initproc} :
        \/ []<>(~(i \in Live /\ killed[i]) \/ Panicked)
        \/ <>[](state[i] = "SLEEPING" /\ chan[i] \in Chans)
=============================================================================
