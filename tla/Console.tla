------------------------------ MODULE Console ------------------------------
(***************************************************************************)
(* The keyboard and the clock (console.c, trap.c, sysproc.c): interrupts   *)
(* that fill the line buffer and count ticks, and processes that read and  *)
(* write the console or sleep for a number of ticks, and are killed.  A    *)
(* step is what happens under cons.lock, tickslock or the lock of the      *)
(* console's inode; testing `killed' and going to sleep are two steps, as  *)
(* kill() takes none of these locks.                                       *)
(***************************************************************************)
EXTENDS Integers, Sequences, FiniteSetsExt

CONSTANTS
    Procs, None,
    Killable,   \* those that kill() may hit
    Uses,       \* what the processes may be doing: functions from Procs
    Chars,      \* bytes without a meaning
    Newline, EOF, CR, Backspace, KillLine,
    INPUT_BUF,
    UintMod,    \* one more than the largest uint of the indices
    TickMod,    \* one more than the largest uint of ticks
    Reads,      \* bound: sizes of the reads
    Sleeps      \* bound: arguments of sleep(), as unsigned numbers

ASSUME RangeAssumption ==
    /\ INPUT_BUF \in Nat \ {0} /\ UintMod \in Nat /\ TickMod \in Nat \ {0}
    /\ UintMod % INPUT_BUF = 0 /\ UintMod > INPUT_BUF
ASSUME CallAssumption ==
    /\ Reads \subseteq Nat /\ Sleeps \subseteq 0..TickMod-1
    /\ Uses \subseteq [Procs -> {"read", "write", "sleep"}]
    /\ None \notin Procs /\ Killable \subseteq Procs

Bytes == Chars \cup {Newline, EOF}

VARIABLES
    buf, r, w, e,   \* input
    ilocked,        \* the process that has locked the console's inode
    ticks,
    use,            \* use[p]: the call p makes again and again
    pc,             \* pc[p]: see PC
    n, target,      \* locals of consoleread(); n is also that of sys_sleep()
    ticks0,         \* the one of sys_sleep()
    owed,           \* ghost: ticks sys_sleep() has still to wait for
    killed

vars == <<buf, r, w, e, ilocked, ticks, use, pc, n, target, ticks0, owed, killed>>
ring == <<buf, r, w, e>>
locals == <<n, target, ticks0, owed>>

(***************************************************************************)
(* "user": outside a call; "ilock", "begin": before and after ilock() in   *)
(* fileread() and filewrite(); "run": about to take the spin lock; "doze": *)
(* found nothing and `killed' clear, has the lock and is about to sleep;   *)
(* "asleep"; "relock", "end": before and after the last ilock().           *)
(***************************************************************************)
PC == {"user", "ilock", "begin", "run", "doze", "asleep", "relock", "end"}

TypeOK ==
    /\ buf \in [0..INPUT_BUF-1 -> Bytes]
    /\ {r, w, e} \subseteq 0..UintMod-1
    /\ ilocked \in Procs \cup {None}
    /\ ticks \in 0..TickMod-1
    /\ use \in Uses
    /\ pc \in [Procs -> PC]
    /\ n \in [Procs -> Nat] /\ target \in [Procs -> Nat]
    /\ ticks0 \in [Procs -> 0..TickMod-1] /\ owed \in [Procs -> Nat]
    /\ killed \in [Procs -> BOOLEAN]

Init ==
    /\ \E c \in Chars : buf = [i \in 0..INPUT_BUF-1 |-> c]
    /\ r = 0 /\ w = 0 /\ e = 0
    /\ ilocked = None
    /\ ticks = 0
    /\ use \in Uses
    /\ pc = [p \in Procs |-> "user"]
    /\ n = [p \in Procs |-> 0] /\ target = n /\ ticks0 = n /\ owed = n
    /\ killed = [p \in Procs |-> FALSE]

Add(a, b) == (a + b) % UintMod
Diff(a, b) == (a - b) % UintMod
At(i) == buf[i % INPUT_BUF]

Asked(call) == \E p \in Procs : use[p] = call
Held(call) == \E p \in Procs : use[p] = call /\ pc[p] = "doze"

(* wakeup(&input.r) and wakeup(&ticks) *)
Woken(call) == [p \in Procs |-> IF use[p] = call /\ pc[p] = "asleep" THEN "run" ELSE pc[p]]

(* A tick brings the sleeps that have begun nearer to their end. *)
Ticked ==
    [p \in Procs |-> IF owed[p] > 0 /\ pc[p] # "begin" THEN owed[p] - 1 ELSE owed[p]]

-----------------------------------------------------------------------------
(* Mutant of Typed: a line that fills the buffer is finished, and nobody   *)
(* is woken.                                                               *)
TypedFull(c) ==
    /\ Diff(e, r) < INPUT_BUF
    /\ buf' = [buf EXCEPT ![e % INPUT_BUF] = c]
    /\ e' = Add(e, 1)
    /\ w' = IF c \in {Newline, EOF} \/ e' = Add(r, INPUT_BUF) THEN e' ELSE w
    /\ pc' = IF c \in {Newline, EOF} THEN Woken("read") ELSE pc
    /\ UNCHANGED r

(* consoleintr(), for one of the characters it is given; ^P and characters *)
(* that do not fit change nothing.                                         *)
Typed(c) ==
    /\ Diff(e, r) < INPUT_BUF
    /\ buf' = [buf EXCEPT ![e % INPUT_BUF] = c]
    /\ e' = Add(e, 1)
    /\ IF c \in {Newline, EOF} \/ e' = Add(r, INPUT_BUF)
       THEN w' = e' /\ pc' = Woken("read")
       ELSE UNCHANGED <<w, pc>>
    /\ UNCHANGED r

Erased(k) == k <= Diff(e, w) /\ e' = Diff(e, k) /\ UNCHANGED <<buf, r, w, pc>>

(* Where the loop of ^U stops: at w or behind a newline. *)
LineStart(k) ==
    /\ k = Diff(e, w) \/ At(Diff(e, k + 1)) = Newline
    /\ \A j \in 1..k : At(Diff(e, j)) # Newline

(* Nothing is typed while nobody reads, and no tick counted, below, while  *)
(* nobody sleeps: neither could be told from nothing happening.            *)
consoleintr(c) ==
    /\ Asked("read") /\ ~Held("read")
    /\ \/ c \in Bytes /\ Typed(c)
       \/ c = CR /\ Typed(Newline)
       \/ c = Backspace /\ Erased(1)
       \/ c = KillLine /\ \E k \in 0..Diff(e, w) : LineStart(k) /\ Erased(k)
    /\ UNCHANGED <<ilocked, ticks, use, locals, killed>>

(* Mutant of Timer: the sleepers are not woken. *)
TimerSilent ==
    /\ Asked("sleep") /\ ~Held("sleep")
    /\ ticks' = (ticks + 1) % TickMod
    /\ owed' = Ticked
    /\ UNCHANGED <<ring, ilocked, use, n, target, ticks0, killed, pc>>

(* The timer interrupt of CPU 0. *)
Timer ==
    /\ Asked("sleep") /\ ~Held("sleep")
    /\ ticks' = (ticks + 1) % TickMod
    /\ owed' = Ticked
    /\ pc' = Woken("sleep")
    /\ UNCHANGED <<ring, ilocked, use, n, target, ticks0, killed>>

-----------------------------------------------------------------------------
Goto(p, label) == pc' = [pc EXCEPT ![p] = label]

(* read(), write() and sleep() begin; a killed process exits instead and   *)
(* another one takes its place.                                            *)
Call(p) ==
    /\ pc[p] = "user" /\ ~killed[p]
    /\ IF use[p] = "sleep"
       THEN /\ \E m \in Sleeps :
                 n' = [n EXCEPT ![p] = m] /\ owed' = [owed EXCEPT ![p] = m]
            /\ Goto(p, "begin")
            /\ UNCHANGED target
       ELSE /\ \E m \in IF use[p] = "read" THEN Reads ELSE {0} :
                 n' = [n EXCEPT ![p] = m] /\ target' = [target EXCEPT ![p] = m]
            /\ Goto(p, "ilock")
            /\ UNCHANGED owed
    /\ UNCHANGED <<ring, ilocked, ticks, use, ticks0, killed>>

Exit(p) ==
    /\ pc[p] = "user" /\ killed[p]
    /\ killed' = [killed EXCEPT ![p] = FALSE]
    /\ UNCHANGED <<ring, ilocked, ticks, use, pc, locals>>

(* ilock() in fileread(), filewrite(), and again in consoleread(),         *)
(* consolewrite() before they return.                                      *)
Ilock(p) ==
    /\ pc[p] \in {"ilock", "relock"}
    /\ ilocked = None
    /\ ilocked' = p
    /\ Goto(p, IF pc[p] = "ilock" THEN "begin" ELSE "end")
    /\ UNCHANGED <<ring, ticks, use, locals, killed>>

(* Mutant of Iunlock: consoleread() waits with the inode locked. *)
IunlockLate(p) ==
    /\ pc[p] \in {"begin", "end"} /\ use[p] # "sleep"
    /\ ilocked' = IF use[p] = "read" /\ pc[p] = "begin" THEN p ELSE None
    /\ Goto(p, IF pc[p] = "begin" THEN "run" ELSE "user")
    /\ UNCHANGED <<ring, ticks, use, locals, killed>>

(* iunlock(ip) with which consoleread() and consolewrite() begin, and the  *)
(* one of fileread() and filewrite() after they return.                    *)
Iunlock(p) ==
    /\ pc[p] \in {"begin", "end"} /\ use[p] # "sleep"
    /\ ilocked' = None
    /\ Goto(p, IF pc[p] = "begin" THEN "run" ELSE "user")
    /\ UNCHANGED <<ring, ticks, use, locals, killed>>

Returned(p) ==
    /\ n' = [n EXCEPT ![p] = 0]
    /\ target' = [target EXCEPT ![p] = 0]
    /\ Goto(p, "relock")

consolewrite(p) ==
    /\ use[p] = "write" /\ pc[p] = "run"
    /\ ~Held("read")
    /\ Returned(p)
    /\ UNCHANGED <<ring, ilocked, ticks, use, ticks0, owed, killed>>

(* How many bytes from r on consoleread() looks at before it returns or    *)
(* finds no more, and whether the last one ends the call.                  *)
Ends(i) == At(Add(r, i - 1)) \in {Newline, EOF}
Seen(p) == Min({n[p], Diff(w, r)} \cup {i \in 1..Diff(w, r) : Ends(i)})

(* Mutant of PutBack: an end of file after other bytes is taken as well. *)
PutBackNever(p) == 0

(* ^D after bytes of the same call is left for the next one. *)
PutBack(p) ==
    IF /\ Seen(p) > 0
       /\ At(Add(r, Seen(p) - 1)) = EOF
       /\ n[p] - (Seen(p) - 1) < target[p]
    THEN 1 ELSE 0

(* consoleread() under cons.lock, until it returns or is about to sleep. *)
consoleread(p) ==
    /\ use[p] = "read" /\ pc[p] = "run"
    /\ ~Held("read")
    /\ r' = Add(r, Seen(p) - PutBack(p))
    /\ \/ /\ Seen(p) = n[p] \/ (Seen(p) > 0 /\ Ends(Seen(p))) \/ killed[p]
          /\ Returned(p)
       \/ /\ Seen(p) < n[p] /\ ~(Seen(p) > 0 /\ Ends(Seen(p))) /\ ~killed[p]
          /\ n' = [n EXCEPT ![p] = @ - Seen(p)]
          /\ Goto(p, "doze")
          /\ UNCHANGED target
    /\ UNCHANGED <<buf, w, e, ilocked, ticks, use, ticks0, owed, killed>>

(* sleep() *)
Doze(p) ==
    /\ pc[p] = "doze"
    /\ Goto(p, "asleep")
    /\ UNCHANGED <<ring, ilocked, ticks, use, locals, killed>>

(* Mutant of Elapsed: the time is compared with the tick to wake up at. *)
ElapsedAt(p, start) == ticks >= (start + n[p]) % TickMod

(* ~(ticks - ticks0 < n) *)
Elapsed(p, start) == (ticks - start) % TickMod >= n[p]

(* sys_sleep() under tickslock, which reads ticks0 the first time. *)
sys_sleep(p) ==
    LET start == IF pc[p] = "begin" THEN ticks ELSE ticks0[p]
    IN  /\ use[p] = "sleep" /\ pc[p] \in {"begin", "run"}
        /\ ~Held("sleep")
        /\ \/ /\ Elapsed(p, start) \/ killed[p]
              /\ n' = [n EXCEPT ![p] = 0]
              /\ ticks0' = [ticks0 EXCEPT ![p] = 0]
              /\ owed' = [owed EXCEPT ![p] = 0]
              /\ Goto(p, "user")
           \/ /\ ~Elapsed(p, start) /\ ~killed[p]
              /\ ticks0' = [ticks0 EXCEPT ![p] = start]
              /\ Goto(p, "doze")
              /\ UNCHANGED <<n, owed>>
        /\ UNCHANGED <<ring, ilocked, ticks, use, target, killed>>

(* kill() *)
Kill(p) ==
    /\ p \in Killable /\ ~killed[p]
    /\ killed' = [killed EXCEPT ![p] = TRUE]
    /\ pc' = IF pc[p] = "asleep" THEN [pc EXCEPT ![p] = "run"] ELSE pc
    /\ UNCHANGED <<ring, ilocked, ticks, use, locals>>

-----------------------------------------------------------------------------
Run(p) == consolewrite(p) \/ consoleread(p) \/ sys_sleep(p) \/ Doze(p)

Next ==
    \/ \E c \in Bytes \cup {CR, Backspace, KillLine} : consoleintr(c)
    \/ Timer
    \/ \E p \in Procs : Call(p) \/ Exit(p) \/ Ilock(p) \/ Iunlock(p) \/ Run(p) \/ Kill(p)

Spec == Init /\ [][Next]_vars

(***************************************************************************)
(* The clock ticks.  A process that has a lock gives it up, one that is    *)
(* not asleep gets the locks it asks for, whoever else does, and is run    *)
(* often enough to see that its time is over before ticks wrap.  Nobody    *)
(* has to type or to call anything.                                        *)
(***************************************************************************)
Fairness ==
    /\ SF_vars(Timer)
    /\ \A p \in Procs :
        /\ WF_vars(Iunlock(p) \/ Doze(p))
        /\ SF_vars(\/ Ilock(p) \/ consolewrite(p)
                   \/ sys_sleep(p) /\ (pc[p] = "begin" \/ pc'[p] = "user"))

FairSpec == Spec /\ Fairness

-----------------------------------------------------------------------------
Queue == INSTANCE LineQueue WITH
    ready <- [i \in 1..Diff(w, r) |-> At(Add(r, i - 1))],
    edit <- [i \in 1..Diff(e, w) |-> At(Add(w, i - 1))],
    some <- [p \in Procs |-> use[p] = "read" /\ n[p] < target[p]],
    Size <- INPUT_BUF

(* The ring with its three wrapping indices is a line discipline: no byte  *)
(* is lost, doubled or overwritten, only unfinished ones are erased, and a *)
(* ^D behind other bytes still gives its reader a call that returns 0.     *)
ImplementsLineQueue == Queue!QSpec

(* No reader sleeps, or is about to, while there is finished input, not    *)
(* even the rest that another reader left or put back.                     *)
ReaderSleepsOnEmpty ==
    \A p \in Procs : use[p] = "read" /\ pc[p] \in {"doze", "asleep"} => r = w

(* The types, and no reader that sleeps over its input. *)
ConsoleInv == TypeOK /\ ReaderSleepsOnEmpty

(* sleep(n) of a process that is not killed takes n ticks or more, where-  *)
(* ever the counter wraps.                                                 *)
NeverEarly ==
    [][\A p \in Procs : use[p] = "sleep" /\ pc'[p] = "user" /\ ~killed[p] => owed[p] = 0]_vars

(* Every write and every sleep ends: a process that waits for input does   *)
(* not hold up those that write, though nobody may ever type, and a sleep  *)
(* ends too for a process killed just before it goes to sleep.             *)
WritesAndSleepsEnd == \A p \in Procs : use[p] # "read" /\ pc[p] # "user" ~> pc[p] = "user"
=============================================================================
