# A verification project for the kernels of write_os

The repository is a collection of small operating systems and boot loaders
written while learning how to write one. This project models the one that is a
complete multiprocessor kernel, `xv6_uefi/xv6_public` (xv6 for 32-bit x86,
started from UEFI, with an Intel network card and a small network stack), in
TLA+. TLC checks the models on small instances; TLAPS proves the theorems
listed below for every value of the constants.

Note on this commit: `main()` calls `i8254_recv()` (`main.c:46`), whose loop never ends, before
`userinit()`, so that the boot ends in the packet loop and no process is ever made.
The models are of the kernel behind that call.

Paths are relative to `src/xv6_uefi/xv6_public/` unless they start with `src/`.

## 1. Inventory

| Component | State | Operations | Hard because |
|---|---|---|---|
| spin locks (`spinlock.c`) | `lk->locked`, `lk->cpu`; per CPU `ncli`, `intena`, the interrupt flag | `acquire`, `release`, `pushcli`, `popcli`, `holding` | CPUs race on `xchg`; interrupts arrive until `cli`; locks nest and are not released in stack order |
| sleep/wakeup (`proc.c`) | `p->state`, `p->chan`, `ptable.lock` | `sleep`, `wakeup`, `kill` | a wakeup between the test and the sleep; a kill of a sleeper |
| processes (`proc.c`, `trap.c`) | `ptable`, `cpus[].proc`, `nextpid` | `fork`, `exit`, `wait`, `kill`, `yield`, `scheduler`, `sched` | hand-over of `ptable.lock` across `swtch`; stacks freed by another process; orphans |
| sleep locks (`sleeplock.c`) | `lk->locked`, `lk->pid`, `lk->lk` | `acquiresleep`, `releasesleep`, `holdingsleep` | every waiter wakes, one wins |
| pipes (`pipe.c`) | ring of `PIPESIZE` bytes, `nread`, `nwrite`, two open flags | `pipewrite`, `piperead`, `pipeclose` | counters wrap; ends close and processes die while others sleep; the last closer frees |
| log (`log.c`) | `log.lh`, `outstanding`, `committing`; header and log blocks on disk | `begin_op`, `end_op`, `log_write`, `commit`, `recover_from_log` | a crash between any two disk writes; concurrent operations share a transaction; space reservation |
| buffer cache and disk driver (`bio.c`, `ide.c`) | `bcache` list, `refcnt`, `B_VALID`/`B_DIRTY`, a sleep lock per buffer, `idequeue` | `bget`, `bread`, `bwrite`, `brelse`, `iderw`, `ideintr` | recycling against use; queue hand-over between processes and the interrupt |
| inodes and directories (`fs.c`) | `icache`, on-disk inodes and bitmap | `iget`, `ilock`, `iput`, `ialloc`, `bmap`, `readi`, `writei`, `namex` | the last reference to an unlinked inode; lock order between two inodes |
| open files and file system calls (`file.c`, `sysfile.c`) | `ftable`, `p->ofile` | `filealloc`, `filedup`, `fileclose`, `sys_open`, `sys_link`, `sys_unlink`, ... | reference counts; partial failure |
| console (`console.c`, `kbd.c`, `uart.c`) | `input.buf` with indices `r`, `w`, `e` | `consoleintr`, `consoleread`, `consolewrite` | an interrupt edits the line a process reads; indices wrap; a reader must not hold up writers |
| clock and traps (`trap.c`, `sysproc.c`) | `ticks`, `p->killed` | `trap`, `sys_sleep` | `ticks` wraps; a kill just before the sleep |
| memory (`kalloc.c`, `vm.c`, `exec.c`, `umalloc.c`) | free list, page tables | `kalloc`, `kfree`, `allocuvm`, `copyuvm`, `exec` | running out half way |
| network (`i8254.c`, `eth.c`, `arp.c`, `ipv4.c`, `icmp.c`, `tcp.c`, `http.c`) | descriptor rings, ARP table, one TCP connection | `i8254_send`, `i8254_recv`, `arp_proc`, `tcp_proc`, ... | rings shared with the card; a full table |


How they interact. Spin locks are under everything; `ptable.lock` is the one
that is not released by the CPU stretch that took it but by the next thread the
CPU runs. `sleep()` exchanges the caller's spin lock for `ptable.lock`;
`wakeup()` and `kill()` make sleepers runnable. Sleep locks, pipes, the log, the
console and the disk queue are condition loops around `sleep()`. A system call on
files begins an operation of the log, locks inodes and buffers (sleep locks),
modifies buffers and hands them to `log_write()`; the last operation to end commits
through `bwrite()`. The IDE interrupt completes requests and wakes their
processes, the keyboard and the timer wake readers and sleepers. `exit()` closes
files, which closes pipes, which wakes their sleepers.

What makes each component correct:

- spin locks: mutual exclusion on every interleaving; interrupts off in every
  critical section and restored after the outermost one; no panic for callers
  that keep a lock order; every lock released.
- sleep/wakeup: no lost wakeup; to the caller, releasing the lock and sleeping
  are one step.
- sleep locks: one owner; nobody sleeps for a free lock; the lock keeps being
  handed on whatever `kill()` wakes.
- processes: a process runs on one CPU; its stack is not freed while it is run
  on; orphans get a parent that is alive and will collect them; every
  runnable process runs and every killed one exits.
- pipes: a bounded queue of bytes; nobody sleeps over data or room; one closer
  frees; killed processes leave.
- log: whatever the moment of a crash, a boot finds the effects of whole
  operations; reserved space suffices.
- buffer cache: one buffer per block; a buffer in use or pinned is not
  recycled; what a process reads is what was last left in the block.
- inodes and files: a name never leads to an inode that has been freed; an
  inode stays while it has a name or a user; every reference is counted and given
  back, also where a call fails half way; to programs every call is one step.
- console: a line discipline - typed bytes are delivered once and in order, only
  unfinished ones are erased, `^D` ends a call; no reader sleeps over finished input.
- clock: no sleep is short, wherever `ticks` wraps, and every sleep ends.

## 2. Modules

| Module | Stands for | Specification it implements | Proofs |
|---|---|---|---|
| `SpinLock` | `spinlock.c`, interrupt entry and `iret` | - | `SpinLockProofs` |
| `SleepWakeup` | `sleep`, `wakeup`, `kill` of `proc.c` | `Monitor` | `SleepProofs` |
| `SleepLock` | `sleeplock.c` over `Monitor` | `Mutex` | `SleepProofs` |
| `Pipe` | `pipe.c`, the part of `fileclose()` that reaches it, `kill()` of its processes | `ByteStream` | `PipeProofs` |
| `Log` | `log.c` | `DurableDisk` | `LogProofs` |
| `Bcache` | `bio.c`, `ide.c`, the pinning of `log_write()` | `BlockStore` | `BcacheProofs` |
| `Proc` | `proc.c`, the part of `trap.c` that kills and preempts | `ProcTree` | `ProcProofs` |
| `Files` | `fs.c`, `file.c`, `sysfile.c`, the files in `fork()` and `exit()`, `pipealloc()` | `FileStore` | `FilesProofs` |
| `Console` | `console.c`, the timer in `trap.c`, `sys_sleep()` | `LineQueue` | `ConsoleProofs` |

`MC<Module>` gives the constants of a module their values for TLC.

The models stack the way the code does, and each uses the abstract
specification that the one below is shown to implement. `SpinLock` is at the
grain of single instructions (`pushfl`, `cli`, the counter, `xchg`, the stores of
`lk->cpu` and `lk->locked`); it shows that stretches of code under one spin lock
exclude each other. Everywhere else a stretch of code under a lock is therefore
one step. `SleepWakeup` keeps the two locks and the order of `sleep()`'s steps
and shows that it behaves like `Monitor`, where releasing the lock and waiting
are one step. `SleepLock` is written on `Monitor`'s actions, and the others
have the shape it justifies: a call's step ends where the code releases the lock
or sleeps. `Bcache` takes sleep locks for the mutual exclusion locks of `Mutex`,
`Log` takes the cache for what `BlockStore` says, and `Files` takes blocks and
transactions for what `DurableDisk` says.

State and actions, module by module (PROJECT.json names the lines of each):

- `SpinLock`: per CPU the next instruction `pc`, `ncli`, `intena`, the flag `FL_IF`,
  the code an interrupt suspended (`frame`) and the locks taken (`held`);
  per lock `locked` and `owner` (`lk->cpu`). Callers take locks in the order of
  `Rank` and release them in any order; a handler nests at most once, since
  handlers run with interrupts off. `getcallerpcs()` is left out.
- `SleepWakeup`: threads enter a spin lock, consume what a channel stands for
  or sleep until it is there, or provide it and wake the channel. The
  scheduler is only the release of `ptable.lock` after `sched()` and its
  acquisition before a thread runs again.
- `SleepLock`: `acquiresleep`, `holdingsleep`, `releasesleep`, and `kill()` of waiters.
- `Pipe`: the ring, its two counters modulo `UintMod` (the width of `uint`
  scaled down), the open flags, and per process where it is in a call.
  `WriteBlocked` stores up to the point where the pipe is full; `WriteDone`
  stores the rest. `kill()` takes no lock of the pipe: it may come between the
  test of `killed` and the sleep, and wakes only sleepers (`MayBeKilled`).
  `got` is what a read has copied to its caller. `missed` is a ghost: the last writer to
  leave the pipe was killed while it was full, and woke no reader (`pipe.c:86`).
  Closing the last end leads to another pipe in the same page. `ByteStream` knows what
  is left of each writer's call (`pending`), lets bytes enter only in its order and
  gives a read (`taken`) the oldest ones.
- `Log`: the header and data blocks on disk beside the in-memory log; every
  block write of `write_log`, `write_head` and `install_trans` is a step, `Crash`
  may fall between any two, also in `recover_from_log`. The buffer cache
  is a map from blocks to contents with a set of pinned blocks.
- `Bcache`: the list in order of use, reference counts, flags and contents of
  the buffers, the request queue and the disk. `Ideintr` completes the first
  request. A member of `Procs` is one access to a block, from `bread()` to `brelse()`; a
  process that has two blocks at a time (`log.c:75`, `bmap()`, `balloc()`) is two of them, less
  the order in which it takes and releases them. `Written` and `MaxPinned`
  bound which blocks are modified and how many are pinned.
- `Proc`: the slots of `ptable` and for each CPU its process, the loop variable of
  its `scheduler()`, interrupt flag and `intena`; for each process where it is,
  and its local variables that survive `swtch()`. `plock` names the CPU that holds
  `ptable.lock` across `sched()`. Sleeping is on the channels of `wait()` and on those of
  `Chans`, which stand for pipes, buffers, locks and the console. `wakeup()` of one of them
  wakes its sleepers only, and nobody has to call it.
- `Files`: types and link counts on disk, directory entries, the cache entry of
  each inode with its reference count and lock, the table of open files, the
  descriptors and the working directory of each process, and in every call the
  inodes it holds. Each lock of an inode taken and given back, each scan of
  the cache, each change of the table of files is a step of its own: `iput()`
  reads the reference count in one critical section and counts down in a later one,
  as in the code. `fileclose()` frees the file's slot in one step and gives back the inode,
  or closes the end of the pipe, in later ones. `sys_pipe()` has its files in `rf` and `wf` until
  they have descriptors, and closes them one after the other when `pipealloc()` or
  `fdalloc()` fails; its two `fdalloc()` are one step, as only the process itself looks at its
  descriptors. `kalloc()` has one page for a pipe, and may fail. Writing a directory entry, and the block bitmap, are data under
  the lock. Paths have one element that is not `.` or `..`.
- `Console`: the ring with `r`, `w`, `e`, the lock of the console's inode, `ticks`, and
  for each process the call it repeats and where it is. Testing `killed` and
  going to sleep are two steps. `owed` is a ghost that counts the ticks a sleep
  has still to wait for. No key is typed while nobody reads and no tick counted while
  nobody sleeps, as neither could be told from nothing happening; and neither comes while
  a process is between its test and its sleep, where it holds the spin lock.

## 3. Runs

| Run | Question | Instance |
|---|---|---|
| `spinlock` | exclusion, interrupts, panics, release | 2 CPUs, 2 nested locks, one handler per CPU |
| `sleepwakeup` | lost wakeups; implements `Monitor` | 3 threads, 2 channels |
| `sleeplock` | implements `Mutex`; hand-over | 4 processes |
| `pipe` | implements `ByteStream`; sleepers; closing; progress; killed processes leave | 2 writers, 1 reader, a writer and the reader may be killed, 2-byte ring, counters modulo 4 |
| `log` | implements `DurableDisk` under crashes; reservation; nobody waits while nobody else gets in | 3 processes, 3 blocks, a log with room for two operations |
| `bcache` | implements `BlockStore`; recycling; running out of buffers | 3 accesses, 3 blocks, 2 buffers, 1 pinned |
| `proc` | one CPU per process, stacks, parents, interrupt flag; implements `ProcTree` | 2 CPUs, 3 slots, 2 channels |
| `proc_live` | starvation; killed processes exit, or sleep on a channel nobody wakes | 1 CPU, 3 slots, 2 channels |
| `proc_kill_unused` | finding 2 | 2 CPUs, 3 slots, 1 channel |
| `files` | implements `FileStore`; references, links, panics, stale cache entries | 2 processes, 4 inodes, 2 names, 3 files, 2 descriptors, 3 calls |
| `files_deadlock` | finding 1 | the same |
| `console` | implements `LineQueue`; nobody sleeps over input; short sleeps; progress | 2 processes: two readers, a reader and a writer, or two sleepers; buffer of 3, indices modulo 6, `ticks` modulo 4 |

Why the bounds are enough:

- Two CPUs are what a race needs, and two nested locks give releases out of
  order; a handler can interrupt either, with or without locks below it.
  The theorems lift the bounds for the safety of `SpinLock`, `SleepWakeup`, `SleepLock`,
  `Pipe`, `Bcache`, `Console` and `Proc`.
- Three threads give one that sleeps, one that provides and one that takes the
  condition away in between; two channels tell a wakeup of the wrong one.
- With four processes three contend for a lock that is given back, among
  them a newcomer and a sleeper killed at the same moment.
- A two-byte ring fills, empties and wraps its index; counters modulo 4 wrap
  after two rounds and tell full from empty exactly as 2^32 does, since
  `UintMod` is a multiple of `PIPESIZE`. `MCWrites` has a write that fits and one that
  is longer than the ring. Two writers compete for room; one of them and the reader may be killed
  anywhere, the other writer is there to come later and wake the reader.
- In `log` two operations overlap and absorb each other's block while a third one
  waits for space. There is no bound on crashes: a boot starts over with the
  disk it finds, so that crashes in recovery after crashes are included. Nor is there one on
  the operations that processes begin. `OpWrites` is below `MAXOPBLOCKS`, see section 6.
- Two buffers for three accesses and one pinned block run out, so that `bget()` panics as
  it does in the kernel, where `NBUF` is 30 and there may be 64 processes; and three
  blocks force recycling. A contents bit is flipped by each modification,
  so that stale contents are seen.
- Three slots hold init, a process and its child, and are reused. Process ids
  end at `MaxPid`; forks that fail are included. `KillPids` are the ids `kill()` is
  called with; id 0 and ids in no use are in `proc_kill_unused` only. Two channels tell
  a wakeup of the wrong one. `ProcProofs`
  covers what needs four slots, an orphan that is a zombie itself with a parent
  other than init.
- In `files` one directory besides the root, where one process works, two free inodes
  and two names let a file or a directory be made, found under another name,
  removed and made again under the same number; three calls (`close()` does not
  count) are what the races of `link`, `unlink` and `create` take. Two
  descriptors and three files run out in the middle of `sys_pipe()` and `sys_open()`.
  Names and processes are interchangeable (symmetry).
- A console buffer of three is filled by a line in progress, by a finished one and
  by both; reads of two stop at a line, in a line and at `^D`. Indices modulo 6 wrap
  after two rounds. With `ticks` modulo 4 the arguments 0, 1 and 3 are the smallest ones
  and the one that is -1 as a signed number.

Runs that set `CHECK_DEADLOCK FALSE` may really stop: a bound on calls or ids is
used up, init has exited and panicked, or (`files`) finding 1 happens.

## 4. Fairness

- `SpinLock`: a CPU goes on executing and its critical sections end (program
  text without loops). That a CPU that spins gets the lock in the end, if it is
  free again and again (strong fairness of `Xchg`), is an assumption about the
  arbitration of the memory bus; `xchg` in a loop has no queue.
- `SleepWakeup`, `SleepLock`: the same assumption for the two spin locks;
  threads inside go on. Nobody has to provide a condition or ask for a lock.
- `Pipe`: calls go on when awake, killed processes exit. For `WriteReturns` also
  `ReadersGoOn`: readers read again or close, as nothing in the kernel can make
  them, and some byte is read again and again while one can be. Of several writers woken
  together the kernel does not keep one from losing the race every time, and nothing is
  assumed that would: `WriteReturns` says that a write that never returns is overtaken by other
  writes for ever, so that a lost wakeup is caught and starvation is not excluded.
  `KilledLeaves` does not need `ReadersGoOn`, but is silent on a process killed between its test
  and its sleep.
- `Log`: operations end, commits go on; nobody has to begin an operation. Who is woken in
  `begin_op()` may find the log full again each time; `WaitersAdvance` therefore says that
  a process that waits for ever is overtaken for ever by operations of others that begin.
- `Proc`: only for one CPU, where the round of `scheduler()` meets no contention
  for `ptable.lock`. The timer keeps interrupting, and a process does what
  it has begun; programs need not call anything, and nobody has to wake a channel of `Chans`.
  `KilledExits` therefore allows for a killed process one way not to exit: to sleep
  on such a channel for ever, as it does when it is killed after its test of `killed`.
  Liveness is excused when init exits, since the kernel then panics ("init exiting").
- `Console`: the timer keeps ticking (strong, as a step that changes nothing does not
  count), a process that has the inode's lock or is between its test and its sleep
  goes on, and one that asks for the inode's lock again and again while it is free gets
  it (strong: sleep locks have no queue). Nobody has to type. `FairSpec` asks
  nothing of a reader that waits for input.

`Files` has no liveness property: finding 1 is a deadlock.

## 5. What is proved

With TLAPS, for every value of the constants that meets the named assumptions:

- `SpinLockProofs`: `TypeOK`, `MutualExclusion`, `InterruptsOffWhileHolding`, `NoPanic`,
  `FlagRestored`, `NoSelfDeadlock`. None is inductive alone. `IInv` adds that `ncli`
  counts the held locks and at most one pending `pushcli()` (so that the last
  `popcli()`, and no other, restores the flag), that an interrupt only suspends code
  that holds no lock, where the flag and its saved value are for each `pc`, and that
  `lk->cpu` names the holder but between the store that clears it and the one that
  unlocks. Assumed: `NoCPU` is no CPU, `NoLock` no lock, `Rank` gives numbers.
- `SleepProofs`: `TypeOK`, `NoLostWakeup` and the refinement of `Monitor`. `IInv`
  ties the two locks to the places of the threads, says that a SLEEPING thread is
  inside `sched()` on the channel it asked for, and that a thread that found its
  condition false and is still inside `lk` finds it false until it lets go. In the
  refinement the release of `lk` inside `sleep()` is the monitor's wait, and the
  scan of `wakeup()` ends the waits: no thread can be between the two, because
  `ptable.lock` is held from before the one to after the SLEEPING state.
  Of a sleep lock on top of that monitor: `LockTypeOK`, `NoneSleepsOnFree`, the assertions of `holdingsleep()`, and the
  refinement of `Mutex`.
- `PipeProofs`: `FreedByLast`, `PipeInv` and the refinement of `ByteStream`. The flags and
  the processes must agree about each end: a process that is in `pipeclose()` as the last
  one of its end finds the end still marked, alone. `PipeInv` is proved for any set of processes
  that `kill()` may hit; its exception (`missed`) lasts from a write killed on a full pipe to the next
  end of another write or of the write end. The refinement, which also says what a read
  copies, has as its heart the arithmetic of counters that wrap: where
  `PIPESIZE` divides the range of the counters, the distance of the counters is the
  number of bytes and `nread + i` modulo `PIPESIZE` is where the i-th byte is, also
  across a wrap; it needs only that the ring is never more than full.
- `LogProofs`: `LogInv`, `NoPanic`, `QuietIsDurable` and the refinement of `DurableDisk`, with
  a crash before any block write. `NoPanic` needs two counts (`CountInv`, `SpaceInv`):
  `outstanding` is the number of processes inside an operation, and the blocks in `log.lh` plus
  those that the operations under way may still add (`Spare`) never exceed `Room`.
  `begin_op()` adds `MAXOPBLOCKS` for each of them and an operation writes only `OpWrites` different
  blocks, so what the several reservations leave unused is the distance to the limits of
  `log_write()`. `RoomAssumption` says that this distance is enough. The kernel meets it: at
  most 9 different blocks per operation (a write of `filewrite()` touches 4 data blocks, the inode, the
  indirect block and the bitmap; the other calls touch fewer) make `Room` 28, below `LOGSIZE` 30 and
  `sb.nlog - 1` 29; with 10 it would not, see section 6. `LogInv` and the
  refinement need to know what every place of `commit()` has on disk: `HeadInv` that
  the header is empty or the whole of `log.lh`, `CommitInv` that the log blocks copied
  so far hold what the cache has and that exactly the blocks not yet installed are
  pinned, `RecoverInv` that recovery has installed the home blocks up to `tail`. In the
  refinement the one block write that commits is that of the header; every other step, the
  writes of the log blocks before it, of the home blocks after it and of the recovery
  included, leaves what a boot would find (`Recovered`) as it is, also when a
  crash cuts the installation short and the next boot starts it again.
- `BcacheProofs`: `BcacheInv` (one buffer per block, none recycled in use), `PanicsWhenTaken` and
  the refinement of `BlockStore`. `IInv` says that the list has every buffer once, that
  `refcnt` counts the processes that have the buffer, that a buffer's lock has one owner
  who refers to it, which flags fit which place of the owner, and that the queue
  has each waiting request once, with its owner waiting. `PanicsWhenTaken` relates no numbers of
  buffers and processes, as the kernel's own (`NBUF` 30, `NPROC` 64, a process with up to
  two or three) leave room for the panic of `bget()` when many processes read at once: it says that
  the panic comes then only, because `refcnt` is exactly who has the buffer. The
  refinement assumes a disk without errors (`~ReadErrors`, see section 6) and needs that
  a clean valid buffer agrees with the disk and that a dirty one is pinned or in use.
- `ProcProofs`: `OnOneCpu`, `StackKept`, `ProcInv` (every process has a parent that has not
  exited), `WaiterHasNoZombie`, `FlagFollowsProcess` and the refinement of `ProcTree`. The
  first five hold only together: that
  `wait()` frees no stack in use needs that a ZOMBIE whose CPU is still on it has that
  CPU hold `ptable.lock`; that the flag comes back needs what `pushcli()` noted in each
  kind of switch (`Keeps`: on in a system call, off in a tick's handler); that an orphan's
  new parent is alive needs that init does not exit, as it panics; and `fork()` needs that
  no two processes fill one EMBRYO slot, and that `exit()` leaves it alone. The refinement
  of `ProcTree` adds `IdInv`: `nextpid` is above every id, so that the slots in use have
  different ids and an id names one slot; then only three steps change the tree, the
  one that makes a child RUNNABLE, `exit()` and a successful `wait()`. `MaxPid` is only a
  bound on the ids given out, so an `int` that wraps is not covered.
- `ConsoleProofs`: `ConsoleInv` (no reader sleeps over finished input), `NeverEarly` and
  the refinement of `LineQueue`. The
  first needs that the three indices are in their order, at most `INPUT_BUF` apart, across
  their wraps, as `w` is only advanced by a step that wakes every reader; the second that
  what is `owed` and the wrapped difference `ticks - ticks0` add up to the argument. For the
  refinement, bytes less than `INPUT_BUF` apart are at different places of the ring, so
  that a byte typed at `e` overwrites none that is unread, and `w` cuts the bytes from
  `r` to `e` into the two sequences of `LineQueue`.

- `FilesProofs`: `FilesInv` (every reference to an inode and to an open file is counted, no
  more and no fewer), `NoPanic`, `LinksCover`, `CacheIsTrue` and the refinement of `FileStore`,
  assuming finitely many processes, inodes and names. None of them is inductive: that an
  inode in use is never freed needs the counts of references and of links, and the counts
  need that nothing they count is freed. `IInv` joins them with what each place of a
  call knows (`PlaceInv`), who has which inode's lock and that a locked copy is valid (`LockInv`,
  `CacheInv`), and that what is referred to has a type (`LiveInv`). The rest is about
  windows in which a lock is given back. `LinksInv` is exact where `LinksCover` is not: `nlink`
  also covers the link that `sys_link()` has counted and not yet entered, and the one
  that `sys_unlink()` has removed and not yet counted down, which is why the victim of
  one call is not freed under the other. `NewInv`: between `ialloc()` and its name an
  inode is nobody else's but for an old `iput()` that is past its test, and the name stays
  free, as the directory is locked. `FreeingInv`: an `iput()` that found one reference and
  no link is alone with the inode, and stays so while it has let go of `icache.lock`, because no
  name, descriptor or directory leads there. `TableInv`: an end of the
  pipe is one file or one `pipeclose()` under way, so that of two that close it only the last changes
  its flag; what `sys_pipe()` has in hand (`PipeOf`) is no other process's (`Apart`), and what `filealloc()`
  gives is nobody's, so that undoing half of a pipe closes no file of another. In the refinement an inode without its name yet is
  "free" (`Kind`), so that `create()` takes effect when it enters the name and `sys_unlink()`
  when it clears it; freeing is `Collect`, allowed without names and users only; the
  changes of the table of files are `Use`.

The steps of an inductive invariant are lemmas, one per action; a temporal theorem
combines them. Theorems named `...Holds` state a property that a run checks.

Only model-checked: every liveness property (liveness under fairness is not within the reach
of the installed provers). `NoDeadlock` of `Files` and `BornUnkilled` of `Proc` are the two
that TLC refutes.

## 6. Findings and limits

1. `sysfile.c:281`: `create()` gives back the directory with `iunlockput(dp)` while it has
   the new inode locked, and `iput()` takes the directory's sleep lock again (`fs.c:335`).
   `sys_unlink()` locks the directory first and then the inode. A create and an unlink of
   the same name can wait for each other for ever, with their log operations
   outstanding (`files_deadlock`).
2. `proc.c:492`: `kill()` does not look at the state of the slot. `kill(0)`, or the id
   of a failed `fork()`, marks a slot that is not in use, and the next process
   there is born killed (`proc_kill_unused`).

Seen while modelling and not counted as findings:

- `pipewrite()` that is killed while the pipe is full returns -1 without
  `wakeup(&p->nread)` (`pipe.c:86`), although it has stored bytes. A reader that slept
  before then sleeps over them until another write ends or the write end is closed. No comment
  or test says otherwise; `PipeInv` names this exception (`missed`) and excludes every other.
- `kill()` between the test of `killed` and the sleep wakes nobody (`pipe.c:107`,
  `console.c:277`): the process sleeps on until data comes. `KilledExits` of `Proc` and
  `KilledLeaves` of `Pipe` leave this case out, and say so.
- `bget()` panics with "no buffers" when all `NBUF` buffers are in use or pinned (`bio.c:92`).
- `log_write()` panics with "too big a transaction" when the log holds `log.size - 1`
  blocks, one less than `begin_op()` reserves against, as `mkfs.c:25` makes `nlog`
  equal to `LOGSIZE` including the header block. Operations that write all of their
  `MAXOPBLOCKS` blocks at once would reach it; the ones of the kernel write fewer, and
  the run has `OpWrites` below `MAXOPBLOCKS`, and `RoomAssumption` states what is needed.
- `ideintr()` sets `B_VALID` also when `idewait(1)` has reported an error (`ide.c:118`). With
  `ReadErrors = TRUE` TLC refutes `ImplementsBlockStore`; the run assumes a disk without
  errors.
- Two `iput()`s of an unlinked inode can both read two references (`fs.c:338`) and then
  both count down (`fs.c:351`): neither frees it, and the inode is lost on disk. So is one
  that was open when the machine stops (`sysfile.c:229`): nothing collects it at the next
  boot.
- The `..` of a removed directory names a number that may be free or another inode once
  the parent is removed too: looking it up panics with "ilock: no type" (`fs.c:311`).
  `create()` of a name in a directory removed meanwhile leaves an inode nobody reaches,
  and the entry `..` that `mkdir` writes there counts up a link of a removed directory.
- `link(f, "d/.")` takes the lock of `d` again in the `iput()` of `dirlink()`, while it has it.
- `ref` (an `int`) and `nlink` (a `short`) are numbers without a width in `Files`; nothing in
  `sys_link()` keeps `nlink` from wrapping.
- `iget()` panics without a free cache entry (`fs.c:263`); `NINODE` is not a bound of the model.
- `consolewrite()` unlocks the console's inode inside an operation of the log, so that a
  write of the console can be interleaved with another; output is left out of the model.
- The receive ring's `(*rdt)--` at index 0 (`i8254.c:208`) leaves the ring.
- `exit()` of init panics; a program that kills init stops the machine.

Not modelled, and why:

- Page tables, trap frames, `exec` and user memory: data that one process alone sees.
  `kalloc()` and `kfree()` push and pop one list under one spin lock; their failure is
  an action of `Proc` and `Files`.
- The network: one loop on one CPU (`i8254_recv()`) that nobody shares the tables with but
  the card, whose side is not in the repository; what it computes are packet formats.
- Boot, the memory map and interrupt controllers: once, on one CPU, before any process.
- The loader, the font generator, the image builder and the user programs: sequential.
- `memide.c`, the memory disk that can be linked in place of `ide.c`: no interrupt,
  no queue.
- In `fs.c`: the block bitmap, `bmap()`, `readi()`, `writei()` (data under the inode's lock),
  paths of several elements; in `sysfile.c`: `mknod` and `exec`; in `bio.c`: the order in
  which one process takes several buffers.
- The rest of the repository: `src/os_in_action_45` (Cosmos, a second kernel built lesson by
  lesson, for one CPU), `src/xv6-64`, `src/os-elephant`, `src/efi-and-bochs-loader-for-x64`
  and smaller studies: boot sector exercises, snapshots of books' examples and
  vendored loaders and libraries. Cosmos has logic of its own (scheduler, semaphores,
  wait lists, a buddy allocator) and shares nothing with the modelled kernel; it would be a
  project of its own.

## 7. What could follow

Paths of several elements with `..`; the cache under the log, with the order in which a process takes its buffers.
