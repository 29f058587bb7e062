----------------------------- MODULE SleepWakeup -----------------------------
(***************************************************************************)
(* sleep(), wakeup() and kill() of proc.c under ptable.lock, used the way  *)
(* the kernel uses them: a thread enters the spin lock lk, and there       *)
(* either consumes what a channel stands for, sleeping while it is not     *)
(* there, or provides it and wakes the channel.  kill() wakes a sleeper    *)
(* that nothing was provided for.                                          *)
(*                                                                         *)
(* The spin locks are the ones SpinLock describes; the scheduler, which    *)
(* module Proc describes, is here only as the release of ptable.lock after *)
(* sched() and its acquisition before the thread runs again.               *)
(***************************************************************************)
CONSTANTS
    Threads,    \* kernel threads, one per process
    Chans,      \* the channels slept on with lk
    NoThread,
    NoChan      \* p->chan == 0

ASSUME ThreadAssumption == NoThread \notin Threads
ASSUME ChanAssumption == NoChan \notin Chans

VARIABLES
    lk,         \* the thread holding lk, or NoThread
    ptlock,     \* the thread holding ptable.lock, or NoThread
    state,      \* state[t]: "SLEEPING", or "RUNNABLE" (and RUNNING)
    chan,       \* chan[t]: p->chan
    pc,         \* pc[t]: the next step of t
    arg,        \* arg[t]: the channel t sleeps on or wakes
    cond        \* cond[ch]: what a sleeper on ch waits for is there

vars == <<lk, ptlock, state, chan, pc, arg, cond>>

(***************************************************************************)
(* "out" is outside lk; "spin" spins for it, to consume when arg is a      *)
(* channel; "in" is inside it; "enter", "unlk", "set" are sleep() before   *)
(* sched(); "asleep" is inside sched(), "tidy" after it; "wake", "scan"    *)
(* are wakeup(); "leave" is about to release lk.                           *)
(***************************************************************************)
PC == {"out", "spin", "in", "enter", "unlk", "set", "asleep", "tidy",
       "wake", "scan", "leave"}

TypeOK ==
    /\ lk \in Threads \cup {NoThread}
    /\ ptlock \in Threads \cup {NoThread}
    /\ state \in [Threads -> {"RUNNABLE", "SLEEPING"}]
    /\ chan \in [Threads -> Chans \cup {NoChan}]
    /\ pc \in [Threads -> PC]
    /\ arg \in [Threads -> Chans \cup {NoChan}]
    /\ cond \in [Chans -> BOOLEAN]

Init ==
    /\ lk = NoThread
    /\ ptlock = NoThread
    /\ state = [t \in Threads |-> "RUNNABLE"]
    /\ chan = [t \in Threads |-> NoChan]
    /\ pc = [t \in Threads |-> "out"]
    /\ arg = [t \in Threads |-> NoChan]
    /\ cond = [ch \in Chans |-> FALSE]

Goto(t, label) == pc' = [pc EXCEPT ![t] = label]

-----------------------------------------------------------------------------
(* The caller: acquire(lk), then the loop around sleep(), or the store and *)
(* the wakeup().                                                           *)
Acquire(t) ==
    /\ pc[t] \in {"out", "spin"}
    /\ lk = NoThread
    /\ lk' = t
    /\ Goto(t, "in")
    /\ UNCHANGED <<ptlock, state, chan, arg, cond>>

(* while(!cond) sleep(ch, lk); a thread that has slept tests again. *)
Consume(t, ch) ==
    /\ pc[t] = "in"
    /\ arg[t] \in {NoChan, ch}
    /\ IF cond[ch]
       THEN /\ cond' = [cond EXCEPT ![ch] = FALSE]
            /\ arg' = [arg EXCEPT ![t] = NoChan]
            /\ Goto(t, "leave")
       ELSE /\ arg' = [arg EXCEPT ![t] = ch]
            /\ Goto(t, "enter")
            /\ UNCHANGED cond
    /\ UNCHANGED <<lk, ptlock, state, chan>>

Provide(t, ch) ==
    /\ pc[t] = "in"
    /\ arg[t] = NoChan
    /\ cond' = [cond EXCEPT ![ch] = TRUE]
    /\ arg' = [arg EXCEPT ![t] = ch]
    /\ Goto(t, "wake")
    /\ UNCHANGED <<lk, ptlock, state, chan>>

Release(t) ==
    /\ pc[t] = "leave"
    /\ lk' = NoThread
    /\ Goto(t, "out")
    /\ UNCHANGED <<ptlock, state, chan, arg, cond>>

-----------------------------------------------------------------------------
(* Mutant of SleepEnter: sleep() does not take ptable.lock before it lets  *)
(* go of lk.                                                               *)
SleepUnprotected(t) ==
    /\ pc[t] = "enter"
    /\ Goto(t, "unlk")
    /\ UNCHANGED <<lk, ptlock, state, chan, arg, cond>>

(* sleep(): acquire(&ptable.lock) while lk is still held. *)
SleepEnter(t) ==
    /\ pc[t] = "enter"
    /\ ptlock = NoThread
    /\ ptlock' = t
    /\ Goto(t, "unlk")
    /\ UNCHANGED <<lk, state, chan, arg, cond>>

SleepUnlock(t) ==
    /\ pc[t] = "unlk"
    /\ lk' = NoThread
    /\ Goto(t, "set")
    /\ UNCHANGED <<ptlock, state, chan, arg, cond>>

(* p->chan, p->state and sched(): the scheduler this thread switches to    *)
(* goes on with ptable.lock and releases it.                               *)
SleepSched(t) ==
    /\ pc[t] = "set"
    /\ chan' = [chan EXCEPT ![t] = arg[t]]
    /\ state' = [state EXCEPT ![t] = "SLEEPING"]
    /\ ptlock' = NoThread
    /\ Goto(t, "asleep")
    /\ UNCHANGED <<lk, arg, cond>>

(* Mutant of SleepTidy: sleep() returns without taking lk again. *)
SleepNoReacquire(t) ==
    /\ pc[t] = "tidy"
    /\ chan' = [chan EXCEPT ![t] = NoChan]
    /\ ptlock' = NoThread
    /\ Goto(t, "in")
    /\ UNCHANGED <<lk, state, arg, cond>>

(* A scheduler takes ptable.lock, finds the thread RUNNABLE and switches.  *)
Resume(t) ==
    /\ pc[t] = "asleep"
    /\ state[t] = "RUNNABLE"
    /\ ptlock = NoThread
    /\ ptlock' = t
    /\ Goto(t, "tidy")
    /\ UNCHANGED <<lk, state, chan, arg, cond>>

SleepTidy(t) ==
    /\ pc[t] = "tidy"
    /\ chan' = [chan EXCEPT ![t] = NoChan]
    /\ ptlock' = NoThread
    /\ Goto(t, "spin")
    /\ UNCHANGED <<lk, state, arg, cond>>

-----------------------------------------------------------------------------
WakeupEnter(t) ==
    /\ pc[t] = "wake"
    /\ ptlock = NoThread
    /\ ptlock' = t
    /\ Goto(t, "scan")
    /\ UNCHANGED <<lk, state, chan, arg, cond>>

(* Every process sleeping on ch becomes RUNNABLE. *)
wakeup1(ch) ==
    state' = [t \in Threads |->
                IF state[t] = "SLEEPING" /\ chan[t] = ch THEN "RUNNABLE" ELSE state[t]]

(* wakeup1() and the release of ptable.lock. *)
WakeupScan(t) ==
    /\ pc[t] = "scan"
    /\ wakeup1(arg[t])
    /\ ptlock' = NoThread
    /\ arg' = [arg EXCEPT ![t] = NoChan]
    /\ Goto(t, "leave")
    /\ UNCHANGED <<lk, chan, cond>>

(* kill() of t by some process; what it does when t is not asleep (setting *)
(* killed) the sleepers' callers look at, not sleep().                     *)
Kill(t) ==
    /\ ptlock = NoThread
    /\ state[t] = "SLEEPING"
    /\ state' = [state EXCEPT ![t] = "RUNNABLE"]
    /\ UNCHANGED <<lk, ptlock, chan, pc, arg, cond>>

-----------------------------------------------------------------------------
Sleep(t) == SleepEnter(t) \/ SleepUnlock(t) \/ SleepSched(t) \/ Resume(t) \/ SleepTidy(t)

wakeup(t) == WakeupEnter(t) \/ WakeupScan(t)

Next ==
    \E t \in Threads :
        \/ Acquire(t)
        \/ Release(t)
        \/ \E ch \in Chans : Consume(t, ch) \/ Provide(t, ch)
        \/ Sleep(t)
        \/ wakeup(t)
        \/ Kill(t)

Spec == Init /\ [][Next]_vars

(***************************************************************************)
(* Threads inside lk or ptable.lock go on; a spin lock that is free again  *)
(* and again is granted in the end.  Nobody has to enter lk, nor to        *)
(* provide anything.                                                       *)
(***************************************************************************)
TakePtlock(t) == SleepEnter(t) \/ WakeupEnter(t) \/ Resume(t)

Inside(t) ==
    \/ SleepUnlock(t) \/ SleepSched(t) \/ SleepTidy(t) \/ WakeupScan(t) \/ Release(t)
    \/ \E ch \in Chans : Consume(t, ch)

Fairness ==
    \A t \in Threads :
        WF_vars(Inside(t)) /\ SF_vars(TakePtlock(t)) /\ SF_vars(pc[t] = "spin" /\ Acquire(t))

FairSpec == Spec /\ Fairness

-----------------------------------------------------------------------------
IsWaiting(t) == pc[t] = "set" \/ (pc[t] = "asleep" /\ state[t] = "SLEEPING")

Asleep(t, ch) == IsWaiting(t) /\ arg[t] = ch

(* No wakeup is lost: while what a sleeper waits for is there, a wakeup of *)
(* its channel is still on its way; this is the race between testing a     *)
(* condition under lk and becoming SLEEPING that sleep() takes ptable.lock *)
(* for ("we can be guaranteed that we won't miss any wakeup").             *)
NoLostWakeup ==
    \A t \in Threads, ch \in Chans :
        Asleep(t, ch) /\ cond[ch] =>
            \E u \in Threads : pc[u] \in {"wake", "scan"} /\ arg[u] = ch

(* The monitor that sleep() and wakeup() implement: a thread waits from    *)
(* the moment lk is released until it is made RUNNABLE.                    *)
Waiting == [t \in Threads |-> IF IsWaiting(t) THEN arg[t] ELSE NoChan]

Abstract == INSTANCE Monitor WITH holder <- lk, waiting <- Waiting

(* sleep() releases lk and waits as one step of the monitor, and wakeup()  *)
(* ends every wait on its channel as one step.                             *)
ImplementsMonitor == Abstract!MSpec

(* A thread whose condition has come true while it sleeps comes back out   *)
(* of sleep().                                                             *)
WokenRuns ==
    \A t \in Threads, ch \in Chans :
        (Asleep(t, ch) /\ cond[ch]) ~> pc[t] = "in"
=============================================================================
