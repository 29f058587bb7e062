--------------------------------- MODULE Log ---------------------------------
(***************************************************************************)
(* The redo log of the file system (log.c), above a buffer cache and a     *)
(* disk that writes one block at a time, with a crash possible between any *)
(* two block writes, during recovery as well.                              *)
(*                                                                         *)
(* Each process runs file system operations: begin_op(), some blocks       *)
(* modified and passed to log_write(), end_op().  A stretch of code under  *)
(* log.lock is one step, and so is a block write.                          *)
(***************************************************************************)
EXTENDS Naturals, Sequences, FiniteSets, SequencesExt

CONSTANTS
    Procs,
    Blocks,         \* home locations of data, inode and bitmap blocks
    MAXOPBLOCKS,    \* blocks an operation reserves
    LOGSIZE,        \* param.h: blocks log.lh has room for
    NLog,           \* log.size, from sb.nlog: the header block and the log blocks
    OpWrites,       \* bound: different blocks one operation writes
    Crashes         \* whether this instance crashes

ASSUME SizeAssumption ==
    /\ MAXOPBLOCKS \in Nat /\ LOGSIZE \in Nat /\ NLog \in Nat
    /\ OpWrites \in 0..MAXOPBLOCKS
    /\ Crashes \in BOOLEAN
    /\ IsFiniteSet(Procs)

(***************************************************************************)
(* The most blocks log.lh ever holds: those of one operation in an empty   *)
(* log, or those of several, each of which leaves a part of its            *)
(* reservation unused.                                                     *)
(***************************************************************************)
Room ==
    LET shared == LOGSIZE - 2 * (MAXOPBLOCKS - OpWrites)
    IN  IF shared > OpWrites THEN shared ELSE OpWrites

(* param.h and mkfs.c: MAXOPBLOCKS is 10, LOGSIZE and sb.nlog are 30, and  *)
(* an operation writes at most 9 different blocks.                         *)
ASSUME RoomAssumption == Room < LOGSIZE /\ Room < NLog - 1

(* The contents of a block: a write changes it to the other value. *)
Values == {0, 1}

VARIABLES
    \* in memory
    outstanding,    \* log.outstanding
    committing,     \* log.committing
    lh,             \* log.lh.block[0..n-1]
    cache,          \* cache[b]: b's data in the buffer cache
    dirty,          \* blocks whose buffer has B_DIRTY
    pc,             \* pc[p], see PC
    arg,            \* arg[p]: the block p is passing to log_write()
    wrote,          \* wrote[p]: blocks the operation of p has modified
    tail,           \* the loop variable of write_log() and install_trans()
    mode,           \* "up", or "recover" in recover_from_log()
    \* on disk
    disk,           \* disk[b]: home location of b
    head,           \* the header block: its sequence of block numbers
    logblock        \* logblock[i]: the i-th block after the header

memory == <<outstanding, committing, lh, cache, dirty, arg, wrote, tail>>
disks == <<disk, head, logblock>>
vars == <<memory, pc, mode, disks>>

(***************************************************************************)
(* "out": in no operation; "asleep", "awake": in begin_op(); "in": in an   *)
(* operation; "log": in log_write(), past its checks; "copy", "head",      *)
(* "install", "clear", "done": in end_op(), which commits; "off": the      *)
(* machine has crashed; "panic".                                           *)
(***************************************************************************)
PC == {"out", "asleep", "awake", "in", "log", "copy", "head", "install",
       "clear", "done", "off", "panic"}

NoBlock == "none"

TypeOK ==
    /\ outstanding \in 0..Cardinality(Procs)
    /\ committing \in BOOLEAN
    /\ lh \in BoundedSeq(Blocks, LOGSIZE) /\ IsInjective(lh)
    /\ cache \in [Blocks -> Values]
    /\ dirty \subseteq Blocks
    /\ pc \in [Procs -> PC]
    /\ arg \in [Procs -> Blocks \cup {NoBlock}]
    /\ wrote \in [Procs -> SUBSET Blocks]
    /\ tail \in 0..LOGSIZE
    /\ mode \in {"up", "recover"}
    /\ disk \in [Blocks -> Values]
    /\ head \in BoundedSeq(Blocks, LOGSIZE) /\ IsInjective(head)
    /\ logblock \in [1..NLog-1 -> Values]

(* A fresh file system after its first, empty recovery. *)
Init ==
    /\ outstanding = 0 /\ committing = FALSE /\ lh = <<>> /\ tail = 0
    /\ disk = [b \in Blocks |-> 0] /\ cache = disk /\ dirty = {}
    /\ head = <<>> /\ logblock = [i \in 1..NLog-1 |-> 0]
    /\ pc = [p \in Procs |-> "out"]
    /\ arg = [p \in Procs |-> NoBlock]
    /\ wrote = [p \in Procs |-> {}]
    /\ mode = "up"

At(p, label) == [pc EXCEPT ![p] = label]

(* wakeup(&log), by a process that goes on to label *)
WakeAll(p, label) ==
    [q \in Procs |-> IF q = p THEN label ELSE IF pc[q] = "asleep" THEN "awake" ELSE pc[q]]

-----------------------------------------------------------------------------
(* Mutant of MustWait: the blocks that are in the log already are forgotten.*)
MustWaitForOps == committing \/ (outstanding + 1) * MAXOPBLOCKS > LOGSIZE

(* begin_op() sleeps while a commit runs, and while its operation might    *)
(* exhaust the log.                                                        *)
MustWait ==
    committing \/ Len(lh) + (outstanding + 1) * MAXOPBLOCKS > LOGSIZE

BeginSleep(p) ==
    /\ pc[p] \in {"out", "awake"}
    /\ MustWait
    /\ pc' = At(p, "asleep")
    /\ UNCHANGED <<memory, mode, disks>>

BeginOp(p) ==
    /\ pc[p] \in {"out", "awake"}
    /\ ~MustWait
    /\ outstanding' = outstanding + 1
    /\ pc' = At(p, "in")
    /\ UNCHANGED <<committing, lh, cache, dirty, arg, wrote, tail, mode, disks>>

(* log_write(b) up to acquire(&log.lock), by an operation that holds the   *)
(* lock of b's buffer: its two panics.                                     *)
LogCheck(p, b) ==
    /\ pc[p] = "in"
    /\ Cardinality(wrote[p] \cup {b}) <= OpWrites
    /\ \A q \in Procs : arg[q] # b
    /\ LET panics == Len(lh) >= LOGSIZE \/ Len(lh) >= NLog - 1 \/ outstanding < 1
       IN  /\ pc' = At(p, IF panics THEN "panic" ELSE "log")
           /\ arg' = [arg EXCEPT ![p] = IF panics THEN NoBlock ELSE b]
    /\ UNCHANGED <<outstanding, committing, lh, cache, dirty, wrote, tail, mode, disks>>

(* Mutant of LogWrite: the buffer is not pinned. *)
LogWriteUnpinned(p) ==
    /\ pc[p] = "log"
    /\ cache' = [cache EXCEPT ![arg[p]] = 1 - @]
    /\ lh' = IF Contains(lh, arg[p]) THEN lh ELSE Append(lh, arg[p])
    /\ wrote' = [wrote EXCEPT ![p] = @ \cup {arg[p]}]
    /\ arg' = [arg EXCEPT ![p] = NoBlock]
    /\ pc' = At(p, "in")
    /\ UNCHANGED <<outstanding, committing, dirty, tail, mode, disks>>

(* log_write() under log.lock, with the modification of the buffer before  *)
(* it, which nobody else sees as the buffer is locked.                     *)
LogWrite(p) ==
    /\ pc[p] = "log"
    /\ cache' = [cache EXCEPT ![arg[p]] = 1 - @]
    /\ lh' = IF Contains(lh, arg[p]) THEN lh ELSE Append(lh, arg[p])
    /\ dirty' = dirty \cup {arg[p]}
    /\ wrote' = [wrote EXCEPT ![p] = @ \cup {arg[p]}]
    /\ arg' = [arg EXCEPT ![p] = NoBlock]
    /\ pc' = At(p, "in")
    /\ UNCHANGED <<outstanding, committing, tail, mode, disks>>

(* end_op() of an operation that is not the last one, with its panic. *)
EndOp(p) ==
    /\ pc[p] = "in"
    /\ outstanding # 1
    /\ outstanding' = outstanding - 1
    /\ wrote' = [wrote EXCEPT ![p] = {}]
    /\ pc' = IF committing THEN At(p, "panic") ELSE WakeAll(p, "out")
    /\ UNCHANGED <<committing, lh, cache, dirty, arg, tail, mode, disks>>

(* Mutant of EndLastOp: commit() leaves out a transaction of one block. *)
EndLastOpSkips(p) ==
    /\ pc[p] = "in"
    /\ outstanding = 1
    /\ outstanding' = 0
    /\ committing' = TRUE
    /\ wrote' = [wrote EXCEPT ![p] = {}]
    /\ tail' = 0
    /\ pc' = At(p, IF committing THEN "panic" ELSE IF Len(lh) <= 1 THEN "done" ELSE "copy")
    /\ UNCHANGED <<lh, cache, dirty, arg, mode, disks>>

(* end_op() of the last one, which starts commit(). *)
EndLastOp(p) ==
    /\ pc[p] = "in"
    /\ outstanding = 1
    /\ outstanding' = 0
    /\ committing' = TRUE
    /\ wrote' = [wrote EXCEPT ![p] = {}]
    /\ tail' = 0
    /\ pc' = At(p, IF committing THEN "panic" ELSE IF lh = <<>> THEN "done" ELSE "copy")
    /\ UNCHANGED <<lh, cache, dirty, arg, mode, disks>>

-----------------------------------------------------------------------------
(* write_log(): one block from the cache to the log. *)
WriteLog(p) ==
    /\ pc[p] = "copy"
    /\ logblock' = [logblock EXCEPT ![tail + 1] = cache[lh[tail + 1]]]
    /\ IF tail + 1 < Len(lh)
       THEN tail' = tail + 1 /\ UNCHANGED pc
       ELSE tail' = 0 /\ pc' = At(p, "head")
    /\ UNCHANGED <<outstanding, committing, lh, cache, dirty, arg, wrote, mode, disk, head>>

(* write_head(): "the true point at which the current transaction commits" *)
WriteHead(p) ==
    /\ pc[p] = "head"
    /\ head' = lh
    /\ pc' = At(p, "install")
    /\ UNCHANGED <<memory, mode, disk, logblock>>

(* One block of install_trans(): from the log to the cache and home, which *)
(* clears B_DIRTY.                                                         *)
InstallBlock ==
    LET b == lh[tail + 1] IN
    /\ cache' = [cache EXCEPT ![b] = logblock[tail + 1]]
    /\ disk' = [disk EXCEPT ![b] = logblock[tail + 1]]
    /\ dirty' = dirty \ {b}

Install(p) ==
    /\ pc[p] = "install"
    /\ InstallBlock
    /\ IF tail + 1 < Len(lh)
       THEN tail' = tail + 1 /\ UNCHANGED pc
       ELSE tail' = 0 /\ pc' = At(p, "clear")
    /\ UNCHANGED <<outstanding, committing, lh, arg, wrote, mode, head, logblock>>

(* log.lh.n = 0 and write_head() *)
ClearHead(p) ==
    /\ pc[p] = "clear"
    /\ lh' = <<>>
    /\ head' = <<>>
    /\ pc' = At(p, "done")
    /\ UNCHANGED <<outstanding, committing, cache, dirty, arg, wrote, tail, mode, disk, logblock>>

(* Mutant of CommitDone: those that wait in begin_op() are not woken. *)
CommitDoneSilent(p) ==
    /\ pc[p] = "done"
    /\ committing' = FALSE
    /\ pc' = At(p, "out")
    /\ UNCHANGED <<outstanding, lh, cache, dirty, arg, wrote, tail, mode, disks>>

CommitDone(p) ==
    /\ pc[p] = "done"
    /\ committing' = FALSE
    /\ pc' = WakeAll(p, "out")
    /\ UNCHANGED <<outstanding, lh, cache, dirty, arg, wrote, tail, mode, disks>>

-----------------------------------------------------------------------------
(* The machine stops; everything in memory is lost.  initlog() of the next *)
(* boot, before any process runs, begins with read_head().                 *)
Crash ==
    /\ Crashes
    /\ mode' = "recover"
    /\ outstanding' = 0 /\ committing' = FALSE
    /\ lh' = head
    /\ cache' = disk
    /\ dirty' = {}
    /\ tail' = 0
    /\ pc' = [p \in Procs |-> "off"]
    /\ arg' = [p \in Procs |-> NoBlock]
    /\ wrote' = [p \in Procs |-> {}]
    /\ UNCHANGED disks

(* One block of the install_trans() of recover_from_log(). *)
RecoverInstall ==
    /\ mode = "recover"
    /\ tail < Len(lh)
    /\ InstallBlock
    /\ tail' = tail + 1
    /\ UNCHANGED <<outstanding, committing, lh, pc, arg, wrote, mode, head, logblock>>

(* Mutant of RecoverDone: the header is cleared before the install. *)
RecoverDoneEarly ==
    /\ mode = "recover"
    /\ lh' = <<>> /\ head' = <<>> /\ tail' = 0
    /\ mode' = "up"
    /\ pc' = [p \in Procs |-> "out"]
    /\ UNCHANGED <<outstanding, committing, cache, dirty, arg, wrote, disk, logblock>>

RecoverDone ==
    /\ mode = "recover"
    /\ tail = Len(lh)
    /\ lh' = <<>> /\ head' = <<>> /\ tail' = 0
    /\ mode' = "up"
    /\ pc' = [p \in Procs |-> "out"]
    /\ UNCHANGED <<outstanding, committing, cache, dirty, arg, wrote, disk, logblock>>

-----------------------------------------------------------------------------
begin_op(p) == BeginSleep(p) \/ BeginOp(p)
log_write(p) == LogWrite(p) \/ \E b \in Blocks : LogCheck(p, b)
end_op(p) == EndOp(p) \/ EndLastOp(p) \/ CommitDone(p)
commit(p) == WriteLog(p) \/ WriteHead(p) \/ Install(p) \/ ClearHead(p)

Next ==
    \/ \E p \in Procs : begin_op(p) \/ log_write(p) \/ end_op(p) \/ commit(p)
    \/ Crash
    \/ RecoverInstall \/ RecoverDone

Spec == Init /\ [][Next]_vars

(***************************************************************************)
(* An operation calls log_write() a few times and then ends, a commit goes *)
(* on, and a woken process tests again; nobody has to begin an operation.  *)
(***************************************************************************)
Fairness ==
    \A p \in Procs :
        /\ SF_vars(EndOp(p) \/ EndLastOp(p)) /\ WF_vars(CommitDone(p)) /\ WF_vars(LogWrite(p)) /\ WF_vars(commit(p))
        /\ WF_vars(pc[p] = "awake" /\ begin_op(p))

FairSpec == Spec /\ Fairness

-----------------------------------------------------------------------------
(* What recover_from_log() would make of the disk as it is now. *)
Recovered ==
    [b \in Blocks |->
        IF Contains(head, b) THEN logblock[CHOOSE i \in DOMAIN head : head[i] = b]
        ELSE disk[b]]

Abstract == INSTANCE DurableDisk WITH
    current <- IF mode = "up" THEN cache ELSE Recovered,
    durable <- Recovered,
    active <- {p \in Procs : pc[p] \in {"in", "log"}}

(* A crash between any two block writes, also one during recovery, leaves  *)
(* the contents of a moment when no operation was active: every operation  *)
(* is on disk completely or not at all, and later ones never without       *)
(* earlier ones.                                                           *)
ImplementsDurableDisk == Abstract!DSpec

(* When the last end_op() has come back, everything is durable.            *)
QuietIsDurable ==
    mode = "up" /\ outstanding = 0 /\ ~committing => Recovered = cache

(* A buffer that bget() is free to recycle holds what the disk holds: a    *)
(* modified block stays pinned until it is installed.                      *)
UnpinnedIsClean ==
    mode = "up" => \A b \in Blocks \ dirty : cache[b] = disk[b]

(* The types, and no modified block that may be lost. *)
LogInv == TypeOK /\ UnpinnedIsClean

(* The space begin_op() reserves is enough for what the operations write:  *)
(* none of the panics of log_write() and end_op() is reached.              *)
NoPanic == \A p \in Procs : pc[p] # "panic"

(* Nobody waits in begin_op() for nothing: a process that waits for ever   *)
(* is overtaken again and again by operations of others that begin (all    *)
(* that wait are woken, and the first ones may take the space).            *)
WaitersAdvance ==
    \A p \in Procs :
        \/ []<>(pc[p] \notin {"asleep", "awake"})
        \/ []<><<\E q \in Procs \ {p} : BeginOp(q)>>_vars
=============================================================================
