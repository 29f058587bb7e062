------------------------------ MODULE SleepLock ------------------------------
(***************************************************************************)
(* The sleep locks of the kernel (sleeplock.c): a flag and the owner's pid *)
(* under a spin lock, with sleep() and wakeup() on the lock's address.     *)
(* The spin lock and the sleeping are the ones of module Monitor, which    *)
(* SleepWakeup implements.  Buffers and inodes are protected by such locks.*)
(***************************************************************************)
EXTENDS FiniteSets

CONSTANTS
    Procs,      \* processes; a process stands for its pid
    NoProc,     \* lk->pid == 0, and nobody inside lk->lk
    Addr,       \* the address of the lock, the only channel
    NotWaiting

ASSUME ProcAssumption == NoProc \notin Procs
ASSUME AddrAssumption == Addr # NotWaiting

VARIABLES
    spin,       \* the process inside lk->lk, or NoProc
    waiting,    \* waiting[p]: Addr while p is in sleep(), else NotWaiting
    locked,     \* lk->locked
    pid,        \* lk->pid
    at

lvars == <<spin, waiting, locked, pid, at>>

M == INSTANCE Monitor WITH
        Threads <- Procs, Chans <- {Addr}, NoThread <- NoProc, holder <- spin, NoChan <- NotWaiting

(***************************************************************************)
(* "out": not using the lock; "test", "slept", "got": in acquiresleep();   *)
(* "own": acquiresleep() has returned; "hold", "held": in holdingsleep();  *)
(* "free", "freed": in releasesleep(); "panic": the panic of a caller that *)
(* asserts holdingsleep(), as bwrite(), brelse() and iderw() do.           *)
(***************************************************************************)
LockPC == {"out", "test", "slept", "got", "own", "hold", "held", "free", "freed", "panic"}

LockTypeOK ==
    /\ spin \in Procs \cup {NoProc}
    /\ waiting \in [Procs -> {Addr, NotWaiting}]
    /\ locked \in BOOLEAN
    /\ pid \in Procs \cup {NoProc}
    /\ at \in [Procs -> LockPC]

(* initsleeplock() *)
LockInit ==
    /\ M!MInit
    /\ locked = FALSE
    /\ pid = NoProc
    /\ at = [p \in Procs |-> "out"]

Move(p, from, to) == at[p] = from /\ at' = [at EXCEPT ![p] = to]

-----------------------------------------------------------------------------
(* acquiresleep(): acquire(&lk->lk), at first or when sleep() returns. *)
Enter(p) ==
    /\ Move(p, "out", "test") \/ Move(p, "slept", "test")
    /\ M!Enter(p)
    /\ UNCHANGED <<locked, pid>>

(* while(lk->locked) sleep(lk, &lk->lk) *)
Wait(p) ==
    /\ Move(p, "test", "slept")
    /\ locked
    /\ M!Wait(p, Addr)
    /\ UNCHANGED <<locked, pid>>

(* Mutant of Take: the lock is taken after one sleep without a new test. *)
TakeUntested(p) ==
    /\ Move(p, "test", "got")
    /\ locked' = TRUE
    /\ pid' = p
    /\ UNCHANGED <<spin, waiting>>

Take(p) ==
    /\ Move(p, "test", "got")
    /\ ~locked
    /\ locked' = TRUE
    /\ pid' = p
    /\ UNCHANGED <<spin, waiting>>

Return(p) ==
    /\ Move(p, "got", "own")
    /\ M!Exit(p)
    /\ UNCHANGED <<locked, pid>>

-----------------------------------------------------------------------------
(* holdingsleep(), which the owner's code asserts; it tests lk->locked.    *)
HoldingEnter(p) ==
    /\ Move(p, "own", "hold")
    /\ M!Enter(p)
    /\ UNCHANGED <<locked, pid>>

HoldingRead(p) ==
    /\ Move(p, "hold", IF locked THEN "held" ELSE "panic")
    /\ UNCHANGED <<spin, waiting, locked, pid>>

HoldingReturn(p) ==
    /\ Move(p, "held", "own")
    /\ M!Exit(p)
    /\ UNCHANGED <<locked, pid>>

-----------------------------------------------------------------------------
(* releasesleep() *)
ReleaseEnter(p) ==
    /\ Move(p, "own", "free")
    /\ M!Enter(p)
    /\ UNCHANGED <<locked, pid>>

(* Mutant of ReleaseWake: the sleepers are not woken. *)
ReleaseSilent(p) ==
    /\ Move(p, "free", "freed")
    /\ locked' = FALSE
    /\ pid' = NoProc
    /\ UNCHANGED <<spin, waiting>>

(* locked = 0, pid = 0 and wakeup(lk), all inside lk->lk. *)
ReleaseWake(p) ==
    /\ Move(p, "free", "freed")
    /\ locked' = FALSE
    /\ pid' = NoProc
    /\ M!Wakeup(p, Addr)

ReleaseReturn(p) ==
    /\ Move(p, "freed", "out")
    /\ M!Exit(p)
    /\ UNCHANGED <<locked, pid>>

(* kill() of a process that sleeps for the lock: it loops and sleeps again. *)
Killed(p) ==
    /\ M!Interrupted(p)
    /\ UNCHANGED <<locked, pid, at>>

-----------------------------------------------------------------------------
acquiresleep(p) == Enter(p) \/ Wait(p) \/ Take(p) \/ Return(p)
holdingsleep(p) == HoldingEnter(p) \/ HoldingRead(p) \/ HoldingReturn(p)
releasesleep(p) == ReleaseEnter(p) \/ ReleaseWake(p) \/ ReleaseReturn(p)

LockNext == \E p \in Procs : acquiresleep(p) \/ holdingsleep(p) \/ releasesleep(p) \/ Killed(p)

LockSpec == LockInit /\ [][LockNext]_lvars

(***************************************************************************)
(* A process inside lk->lk goes on, and one that spins for lk->lk gets it  *)
(* in the end, to acquire the sleep lock or to release it.  Nobody has to  *)
(* ask for the lock; its owner gives it back after a while.                *)
(***************************************************************************)
LockFairness ==
    \A p \in Procs :
        /\ WF_lvars(Wait(p) \/ Take(p) \/ Return(p) \/ HoldingRead(p) \/ HoldingReturn(p)
                   \/ ReleaseWake(p) \/ ReleaseReturn(p))
        /\ SF_lvars(at[p] = "slept" /\ Enter(p))
        /\ SF_lvars(ReleaseEnter(p))

FairLockSpec == LockSpec /\ LockFairness

-----------------------------------------------------------------------------
(* No process sleeps for a lock that is free. *)
NoneSleepsOnFree == \A p \in Procs : waiting[p] = Addr => locked

(* The sleep lock is a mutual exclusion lock. *)
Exclusive == INSTANCE Mutex WITH owner <- IF locked THEN pid ELSE NoProc

ImplementsMutex == Exclusive!XSpec

Waits(p) == at[p] \in {"test", "slept"}

(* While processes wait for the lock it keeps being handed on: a release   *)
(* that finds sleepers makes one of them, or a newcomer, the next owner.   *)
LockTaken == (\E p \in Procs : Waits(p)) ~> (\E p \in Procs : at[p] = "got")
=============================================================================
