------------------------------ MODULE SpinLock ------------------------------
(***************************************************************************)
(* The spin locks of the kernel (spinlock.c), one step per memory access   *)
(* or instruction another CPU or an interrupt can come between, on CPUs    *)
(* that take interrupts whenever their interrupt flag is set.              *)
(*                                                                         *)
(* Each CPU runs some kernel code (a system call, or the scheduler after   *)
(* its sti()), which acquires and releases locks in any order the lock     *)
(* ranking allows; an interrupt suspends it and runs a handler, which      *)
(* takes locks as well, and then returns to it.                            *)
(***************************************************************************)
EXTENDS Naturals, FiniteSets

CONSTANTS
    CPUs,       \* the processors (cpus[], NCPU)
    Locks,      \* the struct spinlocks
    NoCPU,      \* lk->cpu == 0
    NoLock,     \* the argument of a bare pushcli()/popcli() pair, as in myproc()
    Rank        \* nesting order: ptable.lock is taken inside the others

ASSUME NoCPUAssumption == NoCPU \notin CPUs
ASSUME NoLockAssumption == NoLock \notin Locks
ASSUME RankAssumption == Rank \in [Locks -> Nat]

VARIABLES
    locked,     \* locked[l]: lk->locked
    owner,      \* owner[l]: lk->cpu
    FL_IF,      \* FL_IF[c]: the interrupt flag of eflags
    ncli,       \* ncli[c]: mycpu()->ncli
    intena,     \* intena[c]: mycpu()->intena
    pc,         \* pc[c]: the next step of the code that runs on c
    arg,        \* arg[c]: the lock that code is acquiring or releasing
    eflags,     \* eflags[c]: the local variable of pushcli()
    frame,      \* frame[c]: what the running handler interrupted, or Empty
    held        \* held[c]: the locks that code has taken and not given up yet

vars == <<locked, owner, FL_IF, ncli, intena, pc, arg, eflags, frame, held>>

(***************************************************************************)
(* "run" is code outside spinlock.c; "cli", "count" are pushcli(); "check",*)
(* "spin", "own" are acquire() after it; "clear", "unlock" are release();  *)
(* "pop" is popcli(); "panic" is a call of panic().                        *)
(***************************************************************************)
PC == {"run", "cli", "count", "check", "spin", "own",
       "clear", "unlock", "pop", "panic"}

Empty == [pc |-> "none", arg |-> NoLock, held |-> {}]
Frames == [pc : {"run", "cli"}, arg : Locks \cup {NoLock}, held : SUBSET Locks]

TypeOK ==
    /\ locked \in [Locks -> BOOLEAN]
    /\ owner \in [Locks -> CPUs \cup {NoCPU}]
    /\ FL_IF \in [CPUs -> BOOLEAN]
    /\ ncli \in [CPUs -> Nat]
    /\ intena \in [CPUs -> BOOLEAN]
    /\ pc \in [CPUs -> PC]
    /\ arg \in [CPUs -> Locks \cup {NoLock}]
    /\ eflags \in [CPUs -> BOOLEAN]
    /\ frame \in [CPUs -> Frames \cup {Empty}]
    /\ held \in [CPUs -> SUBSET Locks]

(* initlock() on every lock, and every CPU past the sti() of scheduler(). *)
Init ==
    /\ locked = [l \in Locks |-> FALSE]
    /\ owner = [l \in Locks |-> NoCPU]
    /\ FL_IF = [c \in CPUs |-> TRUE]
    /\ ncli = [c \in CPUs |-> 0]
    /\ intena = [c \in CPUs |-> FALSE]
    /\ pc = [c \in CPUs |-> "run"]
    /\ arg = [c \in CPUs |-> NoLock]
    /\ eflags = [c \in CPUs |-> FALSE]
    /\ frame = [c \in CPUs |-> Empty]
    /\ held = [c \in CPUs |-> {}]

(* All the locks held on a CPU, by the running code and the code below it. *)
Holds(c) == held[c] \cup frame[c].held

(* The two reads are one step: only this CPU makes the second one true or  *)
(* false, and its interrupts are off.                                      *)
holding(c, l) == locked[l] /\ owner[l] = c

Goto(c, label) == pc' = [pc EXCEPT ![c] = label]

Leave(c) == Goto(c, "run") /\ arg' = [arg EXCEPT ![c] = NoLock]

-----------------------------------------------------------------------------
(* Mutant of Pushcli: locks are nested in any order. *)
PushcliAnyOrder(c, l) ==
    /\ pc[c] = "run"
    /\ l \in (Locks \cup {NoLock}) \ held[c]
    /\ arg' = [arg EXCEPT ![c] = l]
    /\ eflags' = [eflags EXCEPT ![c] = FL_IF[c]]
    /\ Goto(c, "cli")
    /\ UNCHANGED <<locked, owner, FL_IF, ncli, intena, frame, held>>

(* The code calls acquire(l) on a lock ranked above all it holds, or calls *)
(* pushcli() alone (NoLock); its first access is readeflags().             *)
Pushcli(c, l) ==
    /\ pc[c] = "run"
    /\ \/ l = NoLock
       \/ l \in Locks /\ \A k \in held[c] : Rank[k] < Rank[l]
    /\ arg' = [arg EXCEPT ![c] = l]
    /\ eflags' = [eflags EXCEPT ![c] = FL_IF[c]]
    /\ Goto(c, "cli")
    /\ UNCHANGED <<locked, owner, FL_IF, ncli, intena, frame, held>>

(* cli(): from here no interrupt comes. *)
Cli(c) ==
    /\ pc[c] = "cli"
    /\ FL_IF' = [FL_IF EXCEPT ![c] = FALSE]
    /\ Goto(c, "count")
    /\ UNCHANGED <<locked, owner, ncli, intena, arg, eflags, frame, held>>

(* Mutant of Count: the flag is saved again at every nesting level. *)
CountEveryLevel(c) ==
    /\ pc[c] = "count"
    /\ intena' = [intena EXCEPT ![c] = eflags[c]]
    /\ ncli' = [ncli EXCEPT ![c] = @ + 1]
    /\ eflags' = [eflags EXCEPT ![c] = FALSE]
    /\ Goto(c, IF arg[c] = NoLock THEN "pop" ELSE "check")
    /\ UNCHANGED <<locked, owner, FL_IF, arg, frame, held>>

(* The rest of pushcli(); a bare one goes straight on to its popcli(). The *)
(* local eflags is dead from here on, as arg is when the code leaves.      *)
Count(c) ==
    /\ pc[c] = "count"
    /\ intena' = IF ncli[c] = 0 THEN [intena EXCEPT ![c] = eflags[c]] ELSE intena
    /\ ncli' = [ncli EXCEPT ![c] = @ + 1]
    /\ eflags' = [eflags EXCEPT ![c] = FALSE]
    /\ Goto(c, IF arg[c] = NoLock THEN "pop" ELSE "check")
    /\ UNCHANGED <<locked, owner, FL_IF, arg, frame, held>>

(* acquire() panics when this CPU already holds the lock. *)
Check(c) ==
    /\ pc[c] = "check"
    /\ Goto(c, IF holding(c, arg[c]) THEN "panic" ELSE "spin")
    /\ UNCHANGED <<locked, owner, FL_IF, ncli, intena, arg, eflags, frame, held>>

(* Mutant of Xchg: a store in place of the test-and-set. *)
XchgUntested(c) ==
    /\ pc[c] = "spin"
    /\ locked' = [locked EXCEPT ![arg[c]] = TRUE]
    /\ held' = [held EXCEPT ![c] = @ \cup {arg[c]}]
    /\ Goto(c, "own")
    /\ UNCHANGED <<owner, FL_IF, ncli, intena, arg, eflags, frame>>

(* The xchg that finds the lock free; one that does not changes nothing. *)
Xchg(c) ==
    /\ pc[c] = "spin"
    /\ ~locked[arg[c]]
    /\ locked' = [locked EXCEPT ![arg[c]] = TRUE]
    /\ held' = [held EXCEPT ![c] = @ \cup {arg[c]}]
    /\ Goto(c, "own")
    /\ UNCHANGED <<owner, FL_IF, ncli, intena, arg, eflags, frame>>

Own(c) ==
    /\ pc[c] = "own"
    /\ owner' = [owner EXCEPT ![arg[c]] = c]
    /\ Leave(c)
    /\ UNCHANGED <<locked, FL_IF, ncli, intena, eflags, frame, held>>

-----------------------------------------------------------------------------
(* Mutant of Release: lk->cpu is left pointing at the releasing CPU. *)
ReleaseNoClear(c, l) ==
    /\ pc[c] = "run"
    /\ l \in held[c]
    /\ arg' = [arg EXCEPT ![c] = l]
    /\ Goto(c, IF holding(c, l) THEN "unlock" ELSE "panic")
    /\ UNCHANGED <<locked, owner, FL_IF, ncli, intena, eflags, frame, held>>

(* The code calls release() on a lock it holds, not always the last one it *)
(* took: sleep() releases its caller's lock under ptable.lock.             *)
Release(c, l) ==
    /\ pc[c] = "run"
    /\ l \in held[c]
    /\ arg' = [arg EXCEPT ![c] = l]
    /\ Goto(c, IF holding(c, l) THEN "clear" ELSE "panic")
    /\ UNCHANGED <<locked, owner, FL_IF, ncli, intena, eflags, frame, held>>

Clear(c) ==
    /\ pc[c] = "clear"
    /\ owner' = [owner EXCEPT ![arg[c]] = NoCPU]
    /\ Goto(c, "unlock")
    /\ UNCHANGED <<locked, FL_IF, ncli, intena, arg, eflags, frame, held>>

Unlock(c) ==
    /\ pc[c] = "unlock"
    /\ locked' = [locked EXCEPT ![arg[c]] = FALSE]
    /\ held' = [held EXCEPT ![c] = @ \ {arg[c]}]
    /\ Goto(c, "pop")
    /\ UNCHANGED <<owner, FL_IF, ncli, intena, arg, eflags, frame>>

(* popcli(): panics with interrupts on or unmatched, and turns interrupts  *)
(* on again when it undoes the last pushcli() of a CPU that had them on.   *)
Popcli(c) ==
    /\ pc[c] = "pop"
    /\ IF FL_IF[c] \/ ncli[c] = 0
       THEN Goto(c, "panic") /\ UNCHANGED <<FL_IF, ncli, arg>>
       ELSE /\ ncli' = [ncli EXCEPT ![c] = @ - 1]
            /\ FL_IF' = [FL_IF EXCEPT ![c] = ncli[c] = 1 /\ intena[c]]
            /\ Leave(c)
    /\ UNCHANGED <<locked, owner, intena, eflags, frame, held>>

-----------------------------------------------------------------------------
(* An interrupt: its gate (tvinit() installs an interrupt gate) clears IF. *)
Interrupt(c) ==
    /\ FL_IF[c]
    /\ frame[c] = Empty
    /\ pc[c] \in {"run", "cli"}
    /\ frame' = [frame EXCEPT ![c] = [pc |-> pc[c], arg |-> arg[c], held |-> held[c]]]
    /\ FL_IF' = [FL_IF EXCEPT ![c] = FALSE]
    /\ eflags' = [eflags EXCEPT ![c] = FALSE]
    /\ held' = [held EXCEPT ![c] = {}]
    /\ Leave(c)
    /\ UNCHANGED <<locked, owner, ncli, intena>>

(* iret: the handler is done, and the flags it interrupted come back (the  *)
(* interrupted pushcli() had read interrupts as enabled).                  *)
Iret(c) ==
    /\ frame[c] # Empty
    /\ pc[c] = "run"
    /\ held[c] = {}
    /\ pc' = [pc EXCEPT ![c] = frame[c].pc]
    /\ arg' = [arg EXCEPT ![c] = frame[c].arg]
    /\ eflags' = [eflags EXCEPT ![c] = frame[c].pc = "cli"]
    /\ FL_IF' = [FL_IF EXCEPT ![c] = TRUE]
    /\ held' = [held EXCEPT ![c] = frame[c].held]
    /\ frame' = [frame EXCEPT ![c] = Empty]
    /\ UNCHANGED <<locked, owner, ncli, intena>>

-----------------------------------------------------------------------------
InSpinlock(c) ==
    Cli(c) \/ Count(c) \/ Check(c) \/ Own(c) \/ Clear(c) \/ Unlock(c) \/ Popcli(c)

Step(c) ==
    \/ \E l \in Locks \cup {NoLock} : Pushcli(c, l)
    \/ Xchg(c)
    \/ \E l \in Locks : Release(c, l)
    \/ InSpinlock(c)
    \/ Interrupt(c)
    \/ Iret(c)

Next == \E c \in CPUs : Step(c)

Spec == Init /\ [][Next]_vars

(***************************************************************************)
(* A CPU keeps executing, every critical section comes to its end, and the *)
(* memory bus grants a lock that is free again and again to every CPU that *)
(* keeps spinning on it.                                                   *)
(***************************************************************************)
Fairness ==
    \A c \in CPUs :
        /\ WF_vars(InSpinlock(c))
        /\ SF_vars(Xchg(c))
        /\ \A l \in Locks : SF_vars(Release(c, l))

FairSpec == Spec /\ Fairness

-----------------------------------------------------------------------------
(* No two CPUs are inside a critical section of the same lock, whatever    *)
(* the interleaving of their xchg, the clearing of lk->cpu and the store   *)
(* that unlocks.                                                           *)
MutualExclusion ==
    \A c, d \in CPUs : c # d => Holds(c) \cap Holds(d) = {}

(* Interrupts stay off on a CPU from before it takes its first lock until  *)
(* after it has given up its last one, in whatever order it releases them: *)
(* no handler runs on top of a critical section.                           *)
InterruptsOffWhileHolding ==
    \A c \in CPUs : Holds(c) # {} => ~FL_IF[c]

(* None of the panics of acquire(), release() and popcli() is reached.     *)
NoPanic == \A c \in CPUs : pc[c] # "panic"

(* pushcli()/popcli() give back exactly the interrupt flag they found: code*)
(* that holds nothing runs with interrupts on, a handler with them off.    *)
FlagRestored ==
    \A c \in CPUs :
        pc[c] = "run" /\ held[c] = {} => (FL_IF[c] <=> frame[c] = Empty)

(* A CPU never spins for a lock that it holds itself, below the handler or *)
(* in it: nothing could ever release that lock.                            *)
NoSelfDeadlock ==
    \A c \in CPUs : pc[c] \in {"check", "spin"} => arg[c] \notin Holds(c)

(* Every lock that is taken is given up again: nested critical sections    *)
(* and handlers that spin never stop each other for good.                  *)
EveryLockReleased == \A l \in Locks : locked[l] ~> ~locked[l]
=============================================================================
