------------------------------- MODULE Bcache -------------------------------
(***************************************************************************)
(* The buffer cache (bio.c) on the IDE driver (ide.c): a list of buffers   *)
(* in order of use, a reference count and a sleep lock per buffer, and a   *)
(* queue of requests that the disk's interrupt takes one by one.           *)
(*                                                                         *)
(* A stretch of code under bcache.lock or idelock is one step.  The sleep  *)
(* locks are the mutual exclusion locks that SleepLock shows them to be.   *)
(*                                                                         *)
(* A member of Procs is one bread() .. brelse() in progress, on one block. *)
(* A process that has two blocks at a time (log.c:75-76, bmap()) is two of *)
(* them, here without the order in which it takes and releases them.       *)
(***************************************************************************)
EXTENDS Naturals, Sequences, FiniteSets, Functions

CONSTANTS
    Procs,
    NBUF,
    Blocks,
    Written,        \* bound: blocks that processes modify
    MaxPinned,      \* bound: buffers log_write() has pinned at a time
    ReadErrors,     \* whether the disk reports errors
    NoBlock, NoProc

ASSUME BcacheAssumption ==
    /\ IsFiniteSet(Procs) /\ NBUF \in Nat \ {0} /\ MaxPinned \in Nat
    /\ ReadErrors \in BOOLEAN /\ Written \subseteq Blocks
    /\ NoBlock \notin Blocks /\ NoProc \notin Procs

Bufs == 1..NBUF

(* The contents of a block: a modification changes it to the other value. *)
Values == {0, 1}

VARIABLES
    lru,        \* the list from bcache.head.next to bcache.head.prev
    blockno,    \* per buffer: its block, or NoBlock
    refcnt,
    valid,      \* B_VALID
    dirty,      \* B_DIRTY
    data,
    lock,       \* the owner of its sleep lock, or NoProc
    idequeue,   \* buffers with a request; the disk works on the first
    disk,       \* disk[k]: block k on disk
    pc,
    buf,        \* buf[p]: the buffer of p, or 0
    want        \* want[p]: the block p has asked for

buffers == <<blockno, refcnt, valid, dirty, data>>
vars == <<lru, buffers, lock, idequeue, disk, pc, buf, want>>

(***************************************************************************)
(* "out"; "lock": before acquiresleep(); "read": locked, in bread();       *)
(* "iderw": about to queue; "asleep", "awake": in the loop of iderw();     *)
(* "use": has the block; "changed": has modified it; "put": in brelse(),   *)
(* after releasesleep(); "nobufs": panic of bget(); "panic": of iderw().   *)
(***************************************************************************)
PC == {"out", "lock", "read", "iderw", "asleep", "awake", "use", "changed", "put",
       "nobufs", "panic"}

TypeOK ==
    /\ lru \in [1..NBUF -> Bufs] /\ IsInjective(lru)
    /\ blockno \in [Bufs -> Blocks \cup {NoBlock}]
    /\ refcnt \in [Bufs -> 0..Cardinality(Procs)]
    /\ valid \in [Bufs -> BOOLEAN] /\ dirty \in [Bufs -> BOOLEAN]
    /\ data \in [Bufs -> Values]
    /\ lock \in [Bufs -> Procs \cup {NoProc}]
    /\ idequeue \in Seq(Bufs)
    /\ disk \in [Blocks -> Values]
    /\ pc \in [Procs -> PC]
    /\ buf \in [Procs -> Bufs \cup {0}]
    /\ want \in [Procs -> Blocks \cup {NoBlock}]

(* binit(): every buffer in the list, with the last one first. *)
Init ==
    /\ lru = [i \in 1..NBUF |-> NBUF + 1 - i]
    /\ blockno = [b \in Bufs |-> NoBlock]
    /\ refcnt = [b \in Bufs |-> 0]
    /\ valid = [b \in Bufs |-> FALSE] /\ dirty = [b \in Bufs |-> FALSE]
    /\ data = [b \in Bufs |-> 0]
    /\ lock = [b \in Bufs |-> NoProc]
    /\ idequeue = <<>>
    /\ disk = [k \in Blocks |-> 0]
    /\ pc = [p \in Procs |-> "out"]
    /\ buf = [p \in Procs |-> 0]
    /\ want = [p \in Procs |-> NoBlock]

At(p, label) == [pc EXCEPT ![p] = label]

-----------------------------------------------------------------------------
Cached(k) == {b \in Bufs : blockno[b] = k}

(* Mutant of Unused: a buffer is in use only while it is locked. *)
UnusedUnlocked == {i \in 1..NBUF : lock[lru[i]] = NoProc /\ ~dirty[lru[i]]}
(* Positions in the list of the buffers that may be recycled. *)
Unused == {i \in 1..NBUF : refcnt[lru[i]] = 0 /\ ~dirty[lru[i]]}

(* bget() under bcache.lock: the block is cached, *)
BgetHit(p, k) ==
    /\ pc[p] = "out"
    /\ \E b \in Cached(k) :
        /\ refcnt' = [refcnt EXCEPT ![b] = @ + 1]
        /\ buf' = [buf EXCEPT ![p] = b]
    /\ want' = [want EXCEPT ![p] = k]
    /\ pc' = At(p, "lock")
    /\ UNCHANGED <<lru, blockno, valid, dirty, data, lock, idequeue, disk>>

(* or takes the least recently used buffer that is not in use, or panics.  *)
BgetMiss(p, k) ==
    /\ pc[p] = "out"
    /\ Cached(k) = {}
    /\ want' = [want EXCEPT ![p] = k]
    /\ \/ /\ Unused = {}
          /\ pc' = At(p, "nobufs")
          /\ UNCHANGED <<blockno, refcnt, valid, dirty, buf>>
       \/ \E i \in Unused :
          /\ \A j \in Unused : j <= i
          /\ blockno' = [blockno EXCEPT ![lru[i]] = k]
          /\ valid' = [valid EXCEPT ![lru[i]] = FALSE]
          /\ dirty' = [dirty EXCEPT ![lru[i]] = FALSE]
          /\ refcnt' = [refcnt EXCEPT ![lru[i]] = 1]
          /\ buf' = [buf EXCEPT ![p] = lru[i]]
          /\ pc' = At(p, "lock")
    /\ UNCHANGED <<lru, data, lock, idequeue, disk>>

(* acquiresleep(&b->lock) *)
Lock(p) ==
    /\ pc[p] = "lock"
    /\ lock[buf[p]] = NoProc
    /\ lock' = [lock EXCEPT ![buf[p]] = p]
    /\ pc' = At(p, "read")
    /\ UNCHANGED <<lru, buffers, idequeue, disk, buf, want>>

(* bread() looks at B_VALID. *)
Bread(p) ==
    /\ pc[p] = "read"
    /\ pc' = At(p, IF valid[buf[p]] THEN "use" ELSE "iderw")
    /\ UNCHANGED <<lru, buffers, lock, idequeue, disk, buf, want>>

(* The caller modifies the block; bwrite() or log_write() must follow. *)
Modify(p) ==
    /\ pc[p] = "use" /\ want[p] \in Written
    /\ data' = [data EXCEPT ![buf[p]] = 1 - @]
    /\ pc' = At(p, "changed")
    /\ UNCHANGED <<lru, blockno, refcnt, valid, dirty, lock, idequeue, disk, buf, want>>

(* log_write(): the buffer stays, pinned, until a commit writes it. *)
LogWrite(p) ==
    /\ pc[p] = "changed"
    /\ Cardinality({b \in Bufs : dirty[b]} \cup {buf[p]}) <= MaxPinned
    /\ dirty' = [dirty EXCEPT ![buf[p]] = TRUE]
    /\ pc' = At(p, "use")
    /\ UNCHANGED <<lru, blockno, refcnt, valid, data, lock, idequeue, disk, buf, want>>

(* bwrite(), of a modified block or, by a commit, of a pinned one. *)
Bwrite(p) ==
    /\ \/ pc[p] = "changed"
       \/ pc[p] = "use" /\ dirty[buf[p]]
    /\ dirty' = [dirty EXCEPT ![buf[p]] = TRUE]
    /\ pc' = At(p, "iderw")
    /\ UNCHANGED <<lru, blockno, refcnt, valid, data, lock, idequeue, disk, buf, want>>

(* brelse(): releasesleep(), *)
Brelse(p) ==
    /\ pc[p] = "use"
    /\ lock' = [lock EXCEPT ![buf[p]] = NoProc]
    /\ pc' = At(p, "put")
    /\ UNCHANGED <<lru, buffers, idequeue, disk, buf, want>>

(* The list with b moved to its head. *)
ToFront(b) ==
    LET place == CHOOSE i \in 1..NBUF : lru[i] = b
    IN [i \in 1..NBUF |-> IF i = 1 THEN b ELSE IF i <= place THEN lru[i-1] ELSE lru[i]]

(* Mutant of Unref: the reference is kept. *)
UnrefLeaks(p) ==
    /\ pc[p] = "put"
    /\ buf' = [buf EXCEPT ![p] = 0]
    /\ want' = [want EXCEPT ![p] = NoBlock]
    /\ pc' = At(p, "out")
    /\ UNCHANGED <<lru, buffers, lock, idequeue, disk>>

(* and, under bcache.lock, the reference and the place in the list.        *)
Unref(p) ==
    LET b == buf[p] IN
    /\ pc[p] = "put"
    /\ refcnt' = [refcnt EXCEPT ![b] = @ - 1]
    /\ lru' = IF refcnt[b] = 1 THEN ToFront(b) ELSE lru
    /\ buf' = [buf EXCEPT ![p] = 0]
    /\ want' = [want EXCEPT ![p] = NoBlock]
    /\ pc' = At(p, "out")
    /\ UNCHANGED <<blockno, valid, dirty, data, lock, idequeue, disk>>

-----------------------------------------------------------------------------
(* iderw() under idelock: appends the request and sleeps.  The disk is     *)
(* started if the queue was empty: it works whenever the queue is not.     *)
Iderw(p) ==
    LET b == buf[p] IN
    /\ pc[p] = "iderw"
    /\ LET nothing == valid[b] /\ ~dirty[b] IN
       /\ pc' = At(p, IF nothing THEN "panic" ELSE "asleep")
       /\ idequeue' = IF nothing THEN idequeue ELSE Append(idequeue, b)
    /\ UNCHANGED <<lru, buffers, lock, disk, buf, want>>

(* Mutant of Awake: iderw() returns at the first wakeup. *)
AwakeOnce(p) ==
    /\ pc[p] = "awake"
    /\ pc' = At(p, "use")
    /\ UNCHANGED <<lru, buffers, lock, idequeue, disk, buf, want>>

(* The loop of iderw() tests the flags again. *)
Awake(p) ==
    /\ pc[p] = "awake"
    /\ pc' = At(p, IF valid[buf[p]] /\ ~dirty[buf[p]] THEN "use" ELSE "asleep")
    /\ UNCHANGED <<lru, buffers, lock, idequeue, disk, buf, want>>

(* kill() wakes the process, whatever it waits for. *)
Killed(p) ==
    /\ pc[p] = "asleep"
    /\ pc' = At(p, "awake")
    /\ UNCHANGED <<lru, buffers, lock, idequeue, disk, buf, want>>

WakeOwner(b) == [p \in Procs |-> IF buf[p] = b /\ pc[p] = "asleep" THEN "awake" ELSE pc[p]]

(* The disk has finished its request: ideintr() takes the data of a read,  *)
(* unless the disk reports an error, wakes the process and starts the next *)
(* request.                                                                *)
Ideintr ==
    /\ idequeue # <<>>
    /\ LET b == Head(idequeue) IN
       /\ disk' = IF dirty[b] THEN [disk EXCEPT ![blockno[b]] = data[b]] ELSE disk
       /\ \E ok \in (IF ReadErrors THEN BOOLEAN ELSE {TRUE}) :
            data' = IF dirty[b] \/ ~ok THEN data ELSE [data EXCEPT ![b] = disk[blockno[b]]]
       /\ valid' = [valid EXCEPT ![b] = TRUE]
       /\ dirty' = [dirty EXCEPT ![b] = FALSE]
       /\ pc' = WakeOwner(b)
    /\ idequeue' = Tail(idequeue)
    /\ UNCHANGED <<lru, blockno, refcnt, lock, buf, want>>

-----------------------------------------------------------------------------
bget(p, k) == BgetHit(p, k) \/ BgetMiss(p, k)
iderw(p) == Iderw(p) \/ Awake(p)
brelse(p) == Brelse(p) \/ Unref(p)

Next ==
    \/ \E p \in Procs :
        \/ \E k \in Blocks : bget(p, k)
        \/ Lock(p) \/ Bread(p) \/ Modify(p) \/ LogWrite(p) \/ Bwrite(p)
        \/ iderw(p) \/ brelse(p) \/ Killed(p)
    \/ Ideintr

Spec == Init /\ [][Next]_vars

-----------------------------------------------------------------------------
Referring == {"lock", "read", "iderw", "asleep", "awake", "use", "changed", "put"}

(* A block has at most one buffer, and a process that waits for a buffer   *)
(* or has it still finds the block there that it asked for: references,    *)
(* not locks, keep a buffer from being recycled.                           *)
KeepsItsBlock ==
    /\ \A k \in Blocks : Cardinality(Cached(k)) <= 1
    /\ \A p \in Procs : pc[p] \in Referring => blockno[buf[p]] = want[p]

(* The types, and no buffer that is recycled in use. *)
BcacheInv == TypeOK /\ KeepsItsBlock

(* bget() runs out of buffers (which it can: NBUF is 30, NPROC 64) only    *)
(* when each one is pinned or somebody has it: no reference is ever lost.  *)
(* "iderw: nothing to do" is not reached.                                  *)
PanicsWhenTaken ==
    [][\A p \in Procs : pc'[p] # pc[p] =>
          /\ pc'[p] # "panic"
          /\ pc'[p] = "nobufs" => \A b \in Bufs : dirty[b] \/ \E q \in Procs : buf[q] = b]_vars

(* What the cache and the disk hold of each block, and who has it.         *)
Contents ==
    [k \in Blocks |->
        IF \E b \in Cached(k) : valid[b] THEN data[CHOOSE b \in Cached(k) : valid[b]] ELSE disk[k]]

Owner ==
    [k \in Blocks |->
        IF \E b \in Cached(k) : lock[b] # NoProc
        THEN lock[CHOOSE b \in Cached(k) : lock[b] # NoProc]
        ELSE NoProc]

Abstract == INSTANCE BlockStore WITH contents <- Contents, owner <- Owner

(* The cache is transparent: whoever has a block finds what its last owner *)
(* left there, wherever the block has been in between.                     *)
ImplementsBlockStore == Abstract!SSpec
=============================================================================
