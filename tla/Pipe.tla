-------------------------------- MODULE Pipe --------------------------------
(***************************************************************************)
(* Pipes (pipe.c): processes that write to, read from and close the two    *)
(* ends of one pipe, and are killed meanwhile.  A step is what a call does *)
(* between taking p->lock and giving it up, in release() or in sleep():    *)
(* SpinLock shows that these stretches exclude each other, SleepWakeup     *)
(* that giving up the lock and sleeping are one step.  kill() does not     *)
(* take p->lock: see MayBeKilled.                                          *)
(***************************************************************************)
EXTENDS Naturals, Sequences

CONSTANTS
    Writers,    \* processes with the write end open
    Readers,    \* processes with the read end open
    Killable,   \* those that kill() may hit
    Bytes,      \* values of a byte
    PIPESIZE,
    UintMod,    \* one more than the largest uint of nread and nwrite
    Writes      \* bound: what a process may write at a time

ASSUME SizeAssumption == PIPESIZE \in Nat \ {0} /\ UintMod \in Nat
ASSUME WritesAssumption == Writes \subseteq Seq(Bytes)
ASSUME RangeAssumption == UintMod % PIPESIZE = 0 /\ UintMod > PIPESIZE
ASSUME RoleAssumption == Writers \cap Readers = {} /\ Killable \subseteq Writers \cup Readers

Procs == Writers \cup Readers

VARIABLES
    data,       \* p->data
    nread,      \* p->nread
    nwrite,     \* p->nwrite
    readopen,   \* p->readopen
    writeopen,  \* p->writeopen
    pc,         \* pc[q]: where process q is, see PC
    todo,       \* todo[w]: the bytes addr[i..n-1] a write still has to store
    got,        \* got[r]: the bytes addr[0..i-1] of the last read
    killed,     \* killed[q]: myproc()->killed
    missed      \* ghost: the last write to leave the pipe has woken no reader

vars == <<data, nread, nwrite, readopen, writeopen, pc, todo, got, killed, missed>>

(***************************************************************************)
(* "idle": has its end open, outside a call; "busy": in a call, about to   *)
(* take p->lock; "asleep": in the call's sleep(); "last": dropped the last *)
(* reference to its end, in pipeclose(); "free": in pipeclose(), about to  *)
(* call kfree(); "closed": has closed its end.                             *)
(***************************************************************************)
PC == {"idle", "busy", "asleep", "last", "free", "closed"}

TypeOK ==
    /\ data \in [0..PIPESIZE-1 -> Bytes]
    /\ nread \in 0..UintMod-1
    /\ nwrite \in 0..UintMod-1
    /\ readopen \in BOOLEAN
    /\ writeopen \in BOOLEAN
    /\ pc \in [Procs -> PC]
    /\ todo \in [Writers -> Seq(Bytes)]
    /\ got \in [Readers -> Seq(Bytes)]
    /\ killed \in [Procs -> BOOLEAN]
    /\ missed \in BOOLEAN

(* pipealloc(), after the files of both ends are shared by fork(). *)
Init ==
    /\ data \in [0..PIPESIZE-1 -> Bytes]
    /\ nread = 0
    /\ nwrite = 0
    /\ readopen = TRUE
    /\ writeopen = TRUE
    /\ pc = [q \in Procs |-> "idle"]
    /\ todo = [w \in Writers |-> <<>>]
    /\ got = [r \in Readers |-> <<>>]
    /\ killed = [q \in Procs |-> FALSE]
    /\ missed = FALSE

(* Unsigned arithmetic on the counters. *)
Add(a, b) == (a + b) % UintMod
Count == (nwrite + UintMod - nread) % UintMod

(* p->nwrite == p->nread + PIPESIZE and p->nread == p->nwrite *)
Full == nwrite = Add(nread, PIPESIZE)
Empty == nread = nwrite

(* wakeup(&p->nread) and wakeup(&p->nwrite): the sleepers are about to     *)
(* take the lock again; moved is where the caller goes.                    *)
WakeReaders(moved) ==
    [q \in Procs |-> IF q \in Readers /\ moved[q] = "asleep" THEN "busy" ELSE moved[q]]
WakeWriters(moved) ==
    [q \in Procs |-> IF q \in Writers /\ moved[q] = "asleep" THEN "busy" ELSE moved[q]]

At(q, label) == [pc EXCEPT ![q] = label]

(* A process that found `killed' clear may be killed before it sleeps.     *)
(* Nobody is woken then, and nothing else under p->lock comes between.     *)
MayBeKilled(q) ==
    \/ UNCHANGED killed
    \/ q \in Killable /\ killed' = [killed EXCEPT ![q] = TRUE]

-----------------------------------------------------------------------------
(* write(fd, addr, n) and read(fd, addr, n) begin. *)
WriteCall(w) ==
    /\ pc[w] = "idle" /\ ~killed[w]
    /\ \E s \in Writes : todo' = [todo EXCEPT ![w] = s]
    /\ pc' = At(w, "busy")
    /\ UNCHANGED <<data, nread, nwrite, readopen, writeopen, got, killed, missed>>

ReadCall(r) ==
    /\ pc[r] = "idle" /\ ~killed[r]
    /\ pc' = At(r, "busy")
    /\ got' = [got EXCEPT ![r] = <<>>]
    /\ UNCHANGED <<data, nread, nwrite, readopen, writeopen, todo, killed, missed>>

(* The bytes pipewrite() can store before the pipe is full or it is done.  *)
Room(w) == IF Len(todo[w]) < PIPESIZE - Count THEN Len(todo[w]) ELSE PIPESIZE - Count

Stored(w) ==
    /\ data' = [i \in 0..PIPESIZE-1 |->
                  LET k == (i + UintMod - (nwrite % PIPESIZE)) % PIPESIZE
                  IN  IF k < Room(w) THEN todo[w][k+1] ELSE data[i]]
    /\ nwrite' = Add(nwrite, Room(w))

(* Mutant of WriteBlocked: it sleeps without waking the readers. *)
WriteBlockedSilent(w) ==
    /\ pc[w] = "busy"
    /\ Room(w) < Len(todo[w])
    /\ Stored(w)
    /\ IF ~readopen \/ killed[w]
       THEN /\ pc' = At(w, "idle")
            /\ todo' = [todo EXCEPT ![w] = <<>>]
            /\ missed' = TRUE
            /\ UNCHANGED killed
       ELSE /\ pc' = At(w, "asleep")
            /\ todo' = [todo EXCEPT ![w] = SubSeq(@, Room(w) + 1, Len(@))]
            /\ missed' = FALSE
            /\ MayBeKilled(w)
    /\ UNCHANGED <<nread, readopen, writeopen, got>>

(* pipewrite() until it finds the pipe full: it fails if nobody can read   *)
(* or the writer is killed, else wakes the readers and sleeps.             *)
WriteBlocked(w) ==
    /\ pc[w] = "busy"
    /\ Room(w) < Len(todo[w])
    /\ Stored(w)
    /\ IF ~readopen \/ killed[w]
       THEN /\ pc' = At(w, "idle")
            /\ todo' = [todo EXCEPT ![w] = <<>>]
            /\ missed' = TRUE
            /\ UNCHANGED killed
       ELSE /\ pc' = WakeReaders(At(w, "asleep"))
            /\ todo' = [todo EXCEPT ![w] = SubSeq(@, Room(w) + 1, Len(@))]
            /\ missed' = FALSE
            /\ MayBeKilled(w)
    /\ UNCHANGED <<nread, readopen, writeopen, got>>

(* Mutant of WriteDone: the last byte is stored one place further on. *)
WriteSkips(w) ==
    /\ pc[w] = "busy"
    /\ Room(w) = Len(todo[w])
    /\ data' = [i \in 0..PIPESIZE-1 |->
                  LET k == (i + UintMod - ((nwrite + 1) % PIPESIZE)) % PIPESIZE
                  IN  IF k < Room(w) THEN todo[w][k+1] ELSE data[i]]
    /\ nwrite' = Add(nwrite, Room(w))
    /\ pc' = WakeReaders(At(w, "idle"))
    /\ missed' = FALSE
    /\ todo' = [todo EXCEPT ![w] = <<>>]
    /\ UNCHANGED <<nread, readopen, writeopen, got, killed>>

(* pipewrite() that stores its last byte. *)
WriteDone(w) ==
    /\ pc[w] = "busy"
    /\ Room(w) = Len(todo[w])
    /\ Stored(w)
    /\ pc' = WakeReaders(At(w, "idle"))
    /\ missed' = FALSE
    /\ todo' = [todo EXCEPT ![w] = <<>>]
    /\ UNCHANGED <<nread, readopen, writeopen, got, killed>>

-----------------------------------------------------------------------------
(* Mutant of ReadEmpty: `killed' is not tested. *)
ReadEmptyUntested(r) ==
    /\ pc[r] = "busy"
    /\ Empty /\ writeopen
    /\ pc' = At(r, "asleep")
    /\ MayBeKilled(r)
    /\ UNCHANGED <<data, nread, nwrite, readopen, writeopen, todo, got, missed>>

(* piperead() on an empty pipe that may still get data. *)
ReadEmpty(r) ==
    /\ pc[r] = "busy"
    /\ Empty /\ writeopen
    /\ IF killed[r]
       THEN pc' = At(r, "idle") /\ UNCHANGED killed
       ELSE pc' = At(r, "asleep") /\ MayBeKilled(r)
    /\ UNCHANGED <<data, nread, nwrite, readopen, writeopen, todo, got, missed>>

(* Mutant of ReadDone: the writers are not woken. *)
ReadSilent(r) ==
    /\ pc[r] = "busy"
    /\ ~Empty \/ ~writeopen
    /\ \E n \in 0..Count :
        /\ nread' = Add(nread, n)
        /\ got' = [got EXCEPT ![r] = [i \in 1..n |-> data[Add(nread, i - 1) % PIPESIZE]]]
        /\ pc' = At(r, "idle")
    /\ UNCHANGED <<data, nwrite, readopen, writeopen, todo, killed, missed>>

(* piperead() that copies up to n bytes, at the end of the data 0, and     *)
(* wakes the writers.                                                      *)
ReadDone(r) ==
    /\ pc[r] = "busy"
    /\ ~Empty \/ ~writeopen
    /\ \E n \in 0..Count :
        /\ nread' = Add(nread, n)
        /\ got' = [got EXCEPT ![r] = [i \in 1..n |-> data[Add(nread, i - 1) % PIPESIZE]]]
        /\ pc' = WakeWriters(At(r, "idle"))
    /\ UNCHANGED <<data, nwrite, readopen, writeopen, todo, killed, missed>>

-----------------------------------------------------------------------------
(* close(fd): fileclose() calls pipeclose() for the last reference. *)
Close(q) ==
    LET end == IF q \in Writers THEN Writers ELSE Readers
        shared == \E o \in end \ {q} : pc[o] \in {"idle", "busy", "asleep"}
    IN  /\ pc[q] = "idle"
        /\ pc' = At(q, IF shared THEN "closed" ELSE "last")
        /\ UNCHANGED <<data, nread, nwrite, readopen, writeopen, todo, got, killed, missed>>

(* Mutant of PipeClose: the first end to be closed frees the pipe. *)
PipeCloseEither(q) ==
    /\ pc[q] = "last"
    /\ IF q \in Writers
       THEN writeopen' = FALSE /\ missed' = FALSE /\ UNCHANGED readopen
       ELSE readopen' = FALSE /\ UNCHANGED <<writeopen, missed>>
    /\ LET moved == At(q, IF readopen' /\ writeopen' THEN "closed" ELSE "free")
       IN  pc' = IF q \in Writers THEN WakeReaders(moved) ELSE WakeWriters(moved)
    /\ UNCHANGED <<data, nread, nwrite, todo, got, killed>>

(* pipeclose() under p->lock. *)
PipeClose(q) ==
    /\ pc[q] = "last"
    /\ IF q \in Writers
       THEN writeopen' = FALSE /\ missed' = FALSE /\ UNCHANGED readopen
       ELSE readopen' = FALSE /\ UNCHANGED <<writeopen, missed>>
    /\ LET moved == At(q, IF readopen' \/ writeopen' THEN "closed" ELSE "free")
       IN  pc' = IF q \in Writers THEN WakeReaders(moved) ELSE WakeWriters(moved)
    /\ UNCHANGED <<data, nread, nwrite, todo, got, killed>>

(* kfree() of the pipe, and pipealloc() of another one in the same page    *)
(* for processes that share it as before.                                  *)
FreeAndAlloc(q) ==
    /\ pc[q] = "free"
    /\ nread' = 0
    /\ nwrite' = 0
    /\ readopen' = TRUE
    /\ writeopen' = TRUE
    /\ pc' = [o \in Procs |-> "idle"]
    /\ killed' = [o \in Procs |-> FALSE]
    /\ missed' = FALSE
    /\ UNCHANGED <<data, todo, got>>

(* kill() *)
Kill(q) ==
    /\ q \in Killable
    /\ pc[q] \in {"idle", "busy", "asleep"}
    /\ ~killed[q]
    /\ killed' = [killed EXCEPT ![q] = TRUE]
    /\ pc' = IF pc[q] = "asleep" THEN At(q, "busy") ELSE pc
    /\ UNCHANGED <<data, nread, nwrite, readopen, writeopen, todo, got, missed>>

-----------------------------------------------------------------------------
pipewrite(w) == WriteBlocked(w) \/ WriteDone(w)
piperead(r) == ReadEmpty(r) \/ ReadDone(r)
pipeclose(q) == PipeClose(q) \/ FreeAndAlloc(q)

Next ==
    \/ \E w \in Writers : WriteCall(w) \/ pipewrite(w)
    \/ \E r \in Readers : ReadCall(r) \/ piperead(r)
    \/ \E q \in Procs : Close(q) \/ pipeclose(q) \/ Kill(q)

Spec == Init /\ [][Next]_vars

(***************************************************************************)
(* A process inside a call that is not asleep goes on; a killed one exits, *)
(* which closes its end.  Nobody else has to read, write or close.         *)
(***************************************************************************)
Fairness ==
    /\ \A w \in Writers : WF_vars(pipewrite(w))
    /\ \A r \in Readers : WF_vars(piperead(r))
    /\ \A q \in Procs : WF_vars(PipeClose(q)) /\ WF_vars(killed[q] /\ Close(q))

FairSpec == Spec /\ Fairness

(* Readers that, as long as they are there, read again or close; between   *)
(* them they do not for ever ask for no byte.  Who gets p->lock first, of  *)
(* several that are woken together, is left open.                          *)
ReadersGoOn ==
    /\ \A r \in Readers : WF_vars(ReadCall(r) \/ Close(r))
    /\ SF_vars(\E r \in Readers : piperead(r) /\ nread' # nread)

DrainedSpec == FairSpec /\ ReadersGoOn

-----------------------------------------------------------------------------
(* The bytes between nread and nwrite, oldest first. *)
Contents == [i \in 1..Count |-> data[Add(nread, i - 1) % PIPESIZE]]

Abstract == INSTANCE ByteStream WITH
    queue <- Contents, pending <- todo, taken <- got, wopen <- writeopen, ropen <- readopen,
    Calls <- Writes, Size <- PIPESIZE

(* The ring of bytes and its two counters, which wrap around, behave as a  *)
(* bounded queue: the bytes of a call go in in their order, a read is      *)
(* given the oldest ones, none is lost, doubled or overwritten, and none   *)
(* goes in once the write end is closed.                                   *)
ImplementsByteStream == Abstract!BSpec

(* A reader sleeps only while there is nothing to read and somebody can    *)
(* still write, with one exception: a write that is killed on a full pipe  *)
(* returns without the wakeup of the other ways out (pipe.c:86), and the   *)
(* bytes it has stored wait for the next writer or the last close().       *)
ReaderSleepsOnEmpty ==
    \A r \in Readers : pc[r] = "asleep" => writeopen /\ (Empty \/ missed)

(* The types, and no reader that sleeps for nothing but for that. *)
PipeInv == TypeOK /\ ReaderSleepsOnEmpty

(* The pipe is freed by one process, when no other one can still use it.   *)
FreedByLast ==
    \A q \in Procs : pc[q] = "free" => \A o \in Procs \ {q} : pc[o] = "closed"

(* While the readers keep reading, or when they have closed the pipe,      *)
(* writes return: one that never does is overtaken again and again by      *)
(* others that do (all writers are woken, and the first one may fill the   *)
(* pipe again).                                                            *)
WriteReturns ==
    \A w \in Writers :
        \/ []<>(pc[w] \notin {"busy", "asleep"})
        \/ []<><<\E v \in Writers \ {w} : pipewrite(v) /\ pc'[v] = "idle">>_vars

(* A process killed while it sleeps, or before it tests `killed', leaves   *)
(* the pipe, whatever the others do.  One killed between that test and its *)
(* sleep sleeps on until somebody wakes it.                                *)
KilledLeaves ==
    \A q \in Procs :
        killed[q] /\ pc[q] \in {"idle", "busy"} ~> pc[q] \in {"closed", "last", "free"}
=============================================================================
