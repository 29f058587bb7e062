----------------------------- MODULE SleepProofs -----------------------------
(***************************************************************************)
(* sleep() and wakeup() lose no wakeup and implement the monitor, for any  *)
(* number of threads and channels.  The inductive invariant IInv ties lk,  *)
(* ptable.lock, the states and the channels to where each thread is.       *)
(*                                                                         *)
(* A sleep lock, which is built on that monitor, is a mutual exclusion     *)
(* lock: the refinement of Mutex and the absence of a process that sleeps  *)
(* for a free lock follow from LockIInv, which ties lk->lk and lk->locked  *)
(* to where every process is in sleeplock.c.                               *)
(***************************************************************************)
EXTENDS SleepWakeup, SleepLock, TLAPS

InLk == {"in", "enter", "unlk", "wake", "scan", "leave"}
InPtlock == {"unlk", "set", "tidy", "scan"}

LkInv == \A t \in Threads : pc[t] \in InLk <=> lk = t

PtlockInv == \A t \in Threads : pc[t] \in InPtlock <=> ptlock = t

(* A thread is SLEEPING only inside sched(), on the channel it asked for. *)
ChanInv ==
    \A t \in Threads :
        /\ state[t] = "SLEEPING" => pc[t] = "asleep"
        /\ pc[t] = "asleep" => chan[t] = arg[t]
        /\ pc[t] \in {"enter", "unlk", "set", "asleep", "wake", "scan"} => arg[t] \in Chans

(* While a thread that has found its condition false is still inside lk,   *)
(* nobody provides it.                                                     *)
TestedInv == \A t \in Threads : pc[t] \in {"enter", "unlk"} => ~cond[arg[t]]

IInv == TypeOK /\ LkInv /\ PtlockInv /\ ChanInv /\ TestedInv /\ NoLostWakeup

-----------------------------------------------------------------------------
(* The inductive invariant holds at boot. *)
LEMMA InitIInv == Init => IInv
  BY ThreadAssumption, ChanAssumption
     DEF Init, IInv, TypeOK, PC, LkInv, InLk, PtlockInv, InPtlock, ChanInv, TestedInv, NoLostWakeup, Asleep, IsWaiting

(* Entering lk and leaving it. *)
LEMMA CallerIInv ==
  ASSUME IInv, NEW t \in Threads, Acquire(t) \/ Release(t)
  PROVE  IInv'
  <1> USE ThreadAssumption DEF IInv, Acquire, Release, Goto
  <1>1. TypeOK'
    BY DEF TypeOK, PC
  <1>2. LkInv' /\ PtlockInv'
    BY DEF TypeOK, PC, LkInv, InLk, PtlockInv, InPtlock
  <1>3. ChanInv' /\ TestedInv'
    BY DEF TypeOK, PC, ChanInv, TestedInv
  <1>4. NoLostWakeup'
    BY DEF TypeOK, PC, NoLostWakeup, Asleep, IsWaiting
  <1> QED
    BY <1>1, <1>2, <1>3, <1>4

(* Consuming, or finding nothing to consume. *)
LEMMA ConsumeIInv ==
  ASSUME IInv, NEW t \in Threads, NEW ch \in Chans, Consume(t, ch)
  PROVE  IInv'
  <1> USE ThreadAssumption, ChanAssumption DEF IInv, Consume, Goto
  <1>1. TypeOK'
    BY DEF TypeOK, PC
  <1>2. LkInv' /\ PtlockInv'
    BY DEF TypeOK, PC, LkInv, InLk, PtlockInv, InPtlock
  <1>3. ChanInv' /\ TestedInv'
    BY DEF TypeOK, PC, ChanInv, TestedInv
  <1>4. NoLostWakeup'
    BY DEF TypeOK, PC, NoLostWakeup, Asleep, IsWaiting
  <1> QED
    BY <1>1, <1>2, <1>3, <1>4

(* Providing: the thread that provides is on its way to wakeup(), and      *)
(* nobody else is between its test and the release of lk.                  *)
LEMMA ProvideIInv ==
  ASSUME IInv, NEW t \in Threads, NEW ch \in Chans, Provide(t, ch)
  PROVE  IInv'
  <1> USE ThreadAssumption, ChanAssumption DEF IInv, Provide, Goto
  <1>1. TypeOK'
    BY DEF TypeOK, PC
  <1>2. LkInv' /\ PtlockInv'
    BY DEF TypeOK, PC, LkInv, InLk, PtlockInv, InPtlock
  <1>3. ChanInv'
    BY DEF TypeOK, PC, ChanInv
  <1>4. TestedInv'
    BY DEF TypeOK, PC, LkInv, InLk, TestedInv
  <1>5. NoLostWakeup'
    BY DEF TypeOK, PC, NoLostWakeup, Asleep, IsWaiting
  <1> QED
    BY <1>1, <1>2, <1>3, <1>4, <1>5

(* sleep() up to sched(). *)
LEMMA GoToSleepIInv ==
  ASSUME IInv, NEW t \in Threads, SleepEnter(t) \/ SleepUnlock(t) \/ SleepSched(t)
  PROVE  IInv'
  <1> USE ThreadAssumption, ChanAssumption DEF IInv, SleepEnter, SleepUnlock, SleepSched, Goto
  <1>1. TypeOK'
    BY DEF TypeOK, PC
  <1>2. LkInv' /\ PtlockInv'
    BY DEF TypeOK, PC, LkInv, InLk, PtlockInv, InPtlock
  <1>3. ChanInv' /\ TestedInv'
    BY DEF TypeOK, PC, ChanInv, TestedInv
  <1>4. NoLostWakeup'
    BY DEF TypeOK, PC, ChanInv, TestedInv, NoLostWakeup, Asleep, IsWaiting
  <1> QED
    BY <1>1, <1>2, <1>3, <1>4

(* sleep() after sched(), and the start of wakeup(). *)
LEMMA ReturnIInv ==
  ASSUME IInv, NEW t \in Threads, Resume(t) \/ SleepTidy(t) \/ WakeupEnter(t)
  PROVE  IInv'
  <1> USE ThreadAssumption, ChanAssumption DEF IInv, Resume, SleepTidy, WakeupEnter, Goto
  <1>1. TypeOK'
    BY DEF TypeOK, PC
  <1>2. LkInv' /\ PtlockInv'
    BY DEF TypeOK, PC, LkInv, InLk, PtlockInv, InPtlock
  <1>3. ChanInv' /\ TestedInv'
    BY DEF TypeOK, PC, ChanInv, TestedInv
  <1>4. NoLostWakeup'
    BY DEF TypeOK, PC, NoLostWakeup, Asleep, IsWaiting
  <1> QED
    BY <1>1, <1>2, <1>3, <1>4

(* The scan of wakeup(): no thread is between its release of lk and the    *)
(* SLEEPING state, so that every thread that waits is found.               *)
LEMMA ScanIInv ==
  ASSUME IInv, NEW t \in Threads, WakeupScan(t)
  PROVE  IInv'
  <1> USE ThreadAssumption, ChanAssumption DEF IInv, WakeupScan, wakeup1, Goto
  <1>1. TypeOK'
    BY DEF TypeOK, PC
  <1>2. LkInv' /\ PtlockInv'
    BY DEF TypeOK, PC, LkInv, InLk, PtlockInv, InPtlock
  <1>3. ChanInv' /\ TestedInv'
    BY DEF TypeOK, PC, ChanInv, TestedInv
  <1>4. NoLostWakeup'
    <2> SUFFICES ASSUME NEW u \in Threads, NEW ch \in Chans, Asleep(u, ch)', cond'[ch]
                 PROVE  \E v \in Threads : pc'[v] \in {"wake", "scan"} /\ arg'[v] = ch
      BY DEF NoLostWakeup
    <2>1. Asleep(u, ch) /\ cond[ch] /\ ch # arg[t]
      BY DEF TypeOK, PC, PtlockInv, InPtlock, ChanInv, Asleep, IsWaiting
    <2>2. PICK v \in Threads : pc[v] \in {"wake", "scan"} /\ arg[v] = ch
      BY <2>1 DEF NoLostWakeup
    <2> QED
      BY <2>1, <2>2 DEF TypeOK
  <1> QED
    BY <1>1, <1>2, <1>3, <1>4

(* kill() of a sleeper. *)
LEMMA KillIInv ==
  ASSUME IInv, NEW t \in Threads, Kill(t)
  PROVE  IInv'
  <1> USE DEF IInv, Kill
  <1>1. TypeOK' /\ LkInv' /\ PtlockInv' /\ ChanInv' /\ TestedInv'
    BY DEF TypeOK, LkInv, PtlockInv, ChanInv, TestedInv
  <1>2. NoLostWakeup'
    BY DEF TypeOK, NoLostWakeup, Asleep, IsWaiting
  <1> QED
    BY <1>1, <1>2

-----------------------------------------------------------------------------
(* Every step keeps the inductive invariant. *)
LEMMA NextIInv == IInv /\ [Next]_vars => IInv'
  <1> SUFFICES ASSUME IInv, [Next]_vars PROVE IInv'
    OBVIOUS
  <1>1. CASE UNCHANGED vars
    BY <1>1 DEF vars, IInv, TypeOK, LkInv, PtlockInv, ChanInv, TestedInv, NoLostWakeup, Asleep, IsWaiting
  <1>2. ASSUME NEW t \in Threads, Acquire(t) \/ Release(t) PROVE IInv'
    BY <1>2, CallerIInv
  <1>3. ASSUME NEW t \in Threads, NEW ch \in Chans, Consume(t, ch) \/ Provide(t, ch) PROVE IInv'
    BY <1>3, ConsumeIInv, ProvideIInv
  <1>4. ASSUME NEW t \in Threads, Sleep(t) \/ wakeup(t) PROVE IInv'
    BY <1>4, GoToSleepIInv, ReturnIInv, ScanIInv DEF Sleep, wakeup
  <1>5. ASSUME NEW t \in Threads, Kill(t) PROVE IInv'
    BY <1>5, KillIInv
  <1> QED
    BY <1>1, <1>2, <1>3, <1>4, <1>5 DEF Next

(* Where each thread is determines the locks, and its state and channel.   *)
THEOREM Inductive == Spec => []IInv
  BY InitIInv, NextIInv, PTL DEF Spec

(* Type correctness of sleep() and wakeup(). *)
THEOREM TypeCorrect == Spec => []TypeOK
  <1>1. IInv => TypeOK
    BY DEF IInv
  <1> QED
    BY <1>1, Inductive, PTL

(* sleep() takes ptable.lock before it releases lk: no wakeup falls        *)
(* between the test of the condition and the SLEEPING state.               *)
THEOREM NoLostWakeupHolds == Spec => []NoLostWakeup
  <1>1. IInv => NoLostWakeup
    BY DEF IInv
  <1> QED
    BY <1>1, Inductive, PTL

-----------------------------------------------------------------------------
(* The steps that do not release lk into a wait, or end one, leave what    *)
(* the monitor sees of the waits alone.                                    *)
LEMMA WaitingKept ==
  ASSUME IInv, NEW t \in Threads,
         \/ Acquire(t) \/ Release(t)
         \/ \E ch \in Chans : Consume(t, ch) \/ Provide(t, ch)
         \/ SleepEnter(t) \/ SleepSched(t) \/ Resume(t) \/ SleepTidy(t) \/ WakeupEnter(t)
  PROVE  Waiting' = Waiting
  BY DEF IInv, TypeOK, PC, Acquire, Release, Consume, Provide, SleepEnter, SleepSched, Resume, SleepTidy,
         WakeupEnter, Goto, Waiting, IsWaiting

(* sleep() and wakeup() implement the monitor: the release of lk is the    *)
(* wait, and the scan ends it.                                             *)
THEOREM Refinement == Spec => ImplementsMonitor
  <1>1. Init => Abstract!MInit
    BY DEF Init, Abstract!MInit, Waiting, IsWaiting
  <1>2. ASSUME IInv, NEW t \in Threads, Acquire(t) PROVE Abstract!Enter(t)
    BY <1>2, WaitingKept DEF Acquire, Abstract!Enter, Waiting, IsWaiting
  <1>3. ASSUME IInv, NEW t \in Threads, Release(t) PROVE Abstract!Exit(t)
    BY <1>3, WaitingKept DEF IInv, LkInv, InLk, Release, Abstract!Exit
  <1>4. ASSUME IInv, NEW t \in Threads, SleepUnlock(t) PROVE \E ch \in Chans : Abstract!Wait(t, ch)
    <2>1. arg[t] \in Chans /\ lk = t /\ lk' = NoThread
      BY <1>4 DEF IInv, ChanInv, LkInv, InLk, SleepUnlock
    <2>2. Waiting' = [Waiting EXCEPT ![t] = arg[t]]
      BY <1>4 DEF IInv, TypeOK, SleepUnlock, Goto, Waiting, IsWaiting
    <2> QED
      BY <2>1, <2>2 DEF Abstract!Wait
  <1>5. ASSUME IInv, NEW t \in Threads, WakeupScan(t) PROVE \E ch \in Chans : Abstract!Wakeup(t, ch)
    <2>1. arg[t] \in Chans /\ lk = t /\ lk' = lk
      BY <1>5 DEF IInv, ChanInv, LkInv, InLk, WakeupScan
    <2>2. Waiting' = [u \in Threads |-> IF Waiting[u] = arg[t] THEN NoChan ELSE Waiting[u]]
      BY <1>5, ChanAssumption
         DEF IInv, TypeOK, PC, PtlockInv, InPtlock, ChanInv, WakeupScan, wakeup1, Goto, Waiting, IsWaiting
    <2> QED
      BY <2>1, <2>2 DEF Abstract!Wakeup, Abstract!Woken
  <1>6. ASSUME IInv, NEW t \in Threads, Kill(t) PROVE Abstract!Interrupted(t)
    BY <1>6, ChanAssumption DEF IInv, TypeOK, ChanInv, Kill, Abstract!Interrupted, Waiting, IsWaiting
  <1>7. IInv /\ [Next]_vars => [Abstract!MNext]_<<lk, Waiting>>
    <2> SUFFICES ASSUME IInv, [Next]_vars, ~UNCHANGED <<lk, Waiting>> PROVE Abstract!MNext
      OBVIOUS
    <2>1. ~UNCHANGED vars
      BY DEF vars, Waiting, IsWaiting
    <2>2. PICK t \in Threads : Acquire(t) \/ Release(t) \/ SleepUnlock(t) \/ WakeupScan(t) \/ Kill(t)
      BY <2>1, WaitingKept
         DEF Next, Sleep, wakeup, Consume, Provide, SleepEnter, SleepSched, Resume, SleepTidy, WakeupEnter
    <2> QED
      BY <2>2, <1>2, <1>3, <1>4, <1>5, <1>6 DEF Abstract!MNext
  <1> QED
    BY <1>1, <1>7, Inductive, PTL DEF Spec, ImplementsMonitor, Abstract!MSpec, Abstract!mvars

-----------------------------------------------------------------------------
(* Between acquire(&lk->lk) and the release of it, or sleep(). *)
InSpin == {"test", "got", "hold", "held", "free", "freed", "panic"}

(* From lk->locked = 1 to lk->locked = 0. *)
Owning == {"got", "own", "hold", "held", "free"}

SpinInv == \A p \in Procs : at[p] \in InSpin <=> spin = p

OwnerInv == \A p \in Procs : at[p] \in Owning => locked /\ pid = p

(* The owner's assertions of holdingsleep() do not fail. *)
LockNoPanic == \A p \in Procs : at[p] # "panic"

LockIInv == LockTypeOK /\ SpinInv /\ OwnerInv /\ LockNoPanic /\ NoneSleepsOnFree

-----------------------------------------------------------------------------
(* The inductive invariant holds after initsleeplock(). *)
LEMMA LockInitIInv == LockInit => LockIInv
  BY ProcAssumption, AddrAssumption
     DEF LockInit, LockIInv, LockTypeOK, LockPC, SpinInv, InSpin, OwnerInv, Owning, LockNoPanic,
         NoneSleepsOnFree, M!MInit

(* Taking lk->lk: nobody else is inside it. *)
LEMMA EnterIInv ==
  ASSUME LockIInv, NEW p \in Procs, Enter(p) \/ HoldingEnter(p) \/ ReleaseEnter(p)
  PROVE  LockIInv'
  <1> USE ProcAssumption DEF LockIInv, Enter, HoldingEnter, ReleaseEnter, Move, M!Enter
  <1>1. LockTypeOK'
    BY DEF LockTypeOK, LockPC
  <1>2. SpinInv'
    BY DEF LockTypeOK, LockPC, SpinInv, InSpin
  <1>3. OwnerInv' /\ LockNoPanic' /\ NoneSleepsOnFree'
    BY DEF LockTypeOK, LockPC, OwnerInv, Owning, LockNoPanic, NoneSleepsOnFree
  <1> QED
    BY <1>1, <1>2, <1>3

(* Giving lk->lk back. *)
LEMMA ExitIInv ==
  ASSUME LockIInv, NEW p \in Procs, Return(p) \/ HoldingReturn(p) \/ ReleaseReturn(p)
  PROVE  LockIInv'
  <1> USE ProcAssumption DEF LockIInv, Return, HoldingReturn, ReleaseReturn, Move, M!Exit
  <1>1. LockTypeOK'
    BY DEF LockTypeOK, LockPC
  <1>2. SpinInv'
    BY DEF LockTypeOK, LockPC, SpinInv, InSpin
  <1>3. OwnerInv' /\ LockNoPanic' /\ NoneSleepsOnFree'
    BY DEF LockTypeOK, LockPC, OwnerInv, Owning, LockNoPanic, NoneSleepsOnFree
  <1> QED
    BY <1>1, <1>2, <1>3

(* Going to sleep: only for a lock that is taken. *)
LEMMA WaitIInv ==
  ASSUME LockIInv, NEW p \in Procs, Wait(p)
  PROVE  LockIInv'
  <1> USE ProcAssumption, AddrAssumption DEF LockIInv, Wait, Move, M!Wait
  <1>1. LockTypeOK'
    BY DEF LockTypeOK, LockPC
  <1>2. SpinInv'
    BY DEF LockTypeOK, LockPC, SpinInv, InSpin
  <1>3. OwnerInv' /\ LockNoPanic' /\ NoneSleepsOnFree'
    BY DEF LockTypeOK, LockPC, OwnerInv, Owning, LockNoPanic, NoneSleepsOnFree
  <1> QED
    BY <1>1, <1>2, <1>3

(* Taking a free lock: nobody sleeps for it, and nobody owns it. *)
LEMMA TakeIInv ==
  ASSUME LockIInv, NEW p \in Procs, Take(p)
  PROVE  LockIInv'
  <1> USE ProcAssumption DEF LockIInv, Take, Move
  <1>1. LockTypeOK'
    BY DEF LockTypeOK, LockPC
  <1>2. SpinInv' /\ LockNoPanic'
    BY DEF LockTypeOK, LockPC, SpinInv, InSpin, LockNoPanic
  <1>3. OwnerInv' /\ NoneSleepsOnFree'
    BY DEF LockTypeOK, LockPC, OwnerInv, Owning, NoneSleepsOnFree
  <1> QED
    BY <1>1, <1>2, <1>3

(* holdingsleep(): its caller is the owner. *)
LEMMA HoldingReadIInv ==
  ASSUME LockIInv, NEW p \in Procs, HoldingRead(p)
  PROVE  LockIInv'
  <1> USE ProcAssumption DEF LockIInv, HoldingRead, Move
  <1>1. locked /\ at' = [at EXCEPT ![p] = "held"] /\ at[p] = "hold"
    BY DEF OwnerInv, Owning
  <1>2. LockTypeOK'
    BY <1>1 DEF LockTypeOK, LockPC
  <1>3. SpinInv' /\ LockNoPanic'
    BY <1>1 DEF LockTypeOK, LockPC, SpinInv, InSpin, LockNoPanic
  <1>4. OwnerInv' /\ NoneSleepsOnFree'
    BY <1>1 DEF LockTypeOK, LockPC, OwnerInv, Owning, NoneSleepsOnFree
  <1> QED
    BY <1>2, <1>3, <1>4

(* The release leaves nobody asleep. *)
LEMMA ReleaseWakeIInv ==
  ASSUME LockIInv, NEW p \in Procs, ReleaseWake(p)
  PROVE  LockIInv'
  <1> USE ProcAssumption, AddrAssumption DEF LockIInv, ReleaseWake, Move, M!Wakeup, M!Woken
  <1>1. LockTypeOK'
    BY DEF LockTypeOK, LockPC
  <1>2. SpinInv' /\ LockNoPanic'
    BY DEF LockTypeOK, LockPC, SpinInv, InSpin, LockNoPanic
  <1>3. OwnerInv' /\ NoneSleepsOnFree'
    BY DEF LockTypeOK, LockPC, OwnerInv, Owning, NoneSleepsOnFree
  <1> QED
    BY <1>1, <1>2, <1>3

(* kill() only ends a wait. *)
LEMMA KilledIInv ==
  ASSUME LockIInv, NEW p \in Procs, Killed(p)
  PROVE  LockIInv'
  BY AddrAssumption
     DEF LockIInv, Killed, M!Interrupted, LockTypeOK, LockPC, SpinInv, InSpin, OwnerInv, Owning,
         LockNoPanic, NoneSleepsOnFree

-----------------------------------------------------------------------------
(* Every step keeps the inductive invariant. *)
LEMMA LockNextIInv == LockIInv /\ [LockNext]_lvars => LockIInv'
  <1> SUFFICES ASSUME LockIInv, [LockNext]_lvars PROVE LockIInv'
    OBVIOUS
  <1>1. CASE UNCHANGED lvars
    BY <1>1 DEF lvars, LockIInv, LockTypeOK, SpinInv, OwnerInv, LockNoPanic, NoneSleepsOnFree
  <1>2. ASSUME NEW p \in Procs, acquiresleep(p) PROVE LockIInv'
    BY <1>2, EnterIInv, WaitIInv, TakeIInv, ExitIInv DEF acquiresleep
  <1>3. ASSUME NEW p \in Procs, holdingsleep(p) PROVE LockIInv'
    BY <1>3, EnterIInv, HoldingReadIInv, ExitIInv DEF holdingsleep
  <1>4. ASSUME NEW p \in Procs, releasesleep(p) PROVE LockIInv'
    BY <1>4, EnterIInv, ReleaseWakeIInv, ExitIInv DEF releasesleep
  <1>5. ASSUME NEW p \in Procs, Killed(p) PROVE LockIInv'
    BY <1>5, KilledIInv
  <1> QED
    BY <1>1, <1>2, <1>3, <1>4, <1>5 DEF LockNext

(* Where every process is in sleeplock.c determines who is inside lk->lk   *)
(* and who owns the lock.                                                  *)
THEOREM LockInductive == LockSpec => []LockIInv
  BY LockInitIInv, LockNextIInv, PTL DEF LockSpec

(* Type correctness of a sleep lock. *)
THEOREM LockTypeCorrect == LockSpec => []LockTypeOK
  <1>1. LockIInv => LockTypeOK
    BY DEF LockIInv
  <1> QED
    BY <1>1, LockInductive, PTL

(* The test of lk->locked and the sleep are one step, and so are clearing  *)
(* it and the wakeup: nobody sleeps for a lock that is free.               *)
THEOREM NoneSleepsOnFreeHolds == LockSpec => []NoneSleepsOnFree
  <1>1. LockIInv => NoneSleepsOnFree
    BY DEF LockIInv
  <1> QED
    BY <1>1, LockInductive, PTL

(* The assertions of holdingsleep() in bwrite(), brelse() and iderw() hold *)
(* for whoever acquiresleep() has returned to.                             *)
THEOREM HoldingHolds == LockSpec => []LockNoPanic
  <1>1. LockIInv => LockNoPanic
    BY DEF LockIInv
  <1> QED
    BY <1>1, LockInductive, PTL

(* acquiresleep() gives the lock to a process only when it is free, and    *)
(* releasesleep() takes it from its owner: sleeplock.c implements Mutex.   *)
THEOREM LockRefinement == LockSpec => ImplementsMutex
  <1>1. LockInit => Exclusive!XInit
    BY DEF LockInit, Exclusive!XInit
  <1>2. LockIInv /\ [LockNext]_lvars => [Exclusive!XNext]_(IF locked THEN pid ELSE NoProc)
    <2> SUFFICES ASSUME LockIInv, [LockNext]_lvars, ~UNCHANGED (IF locked THEN pid ELSE NoProc)
                 PROVE  Exclusive!XNext
      OBVIOUS
    <2>1. ~UNCHANGED <<locked, pid>>
      OBVIOUS
    <2>2. PICK p \in Procs : Take(p) \/ ReleaseWake(p)
      BY <2>1 DEF LockNext, lvars, acquiresleep, Enter, Wait, Return, holdingsleep, HoldingEnter, HoldingRead,
                  HoldingReturn, releasesleep, ReleaseEnter, ReleaseReturn, Killed
    <2>3. CASE Take(p)
      BY <2>3 DEF Take, Exclusive!XNext, Exclusive!Lock
    <2>4. CASE ReleaseWake(p)
      BY <2>4 DEF LockIInv, OwnerInv, Owning, ReleaseWake, Move, Exclusive!XNext, Exclusive!Unlock
    <2> QED
      BY <2>2, <2>3, <2>4
  <1> QED
    BY <1>1, <1>2, LockInductive, PTL DEF LockSpec, ImplementsMutex, Exclusive!XSpec
=============================================================================
