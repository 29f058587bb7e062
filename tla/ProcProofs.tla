----------------------------- MODULE ProcProofs -----------------------------
(***************************************************************************)
(* For any number of CPUs and slots: a process runs on one CPU, on a stack *)
(* that is not freed under it, with its own interrupt flag; every process  *)
(* that is not init has a parent that will collect it; and the ids of the  *)
(* processes form the tree that ProcTree promises.                         *)
(***************************************************************************)
EXTENDS Proc, WellFoundedInduction, TLAPS

(* The least of some numbers. *)
LEMMA LeastOf ==
  ASSUME NEW S \in SUBSET Nat, NEW R, \A x \in Nat, y \in Nat : y < x => <<y, x>> \in R,
         \E x \in S : \A y \in S : ~(<<y, x>> \in R)
  PROVE  Min(S) \in S /\ \A x \in S : Min(S) <= x
  <1>1. PICK x \in S : \A y \in S : ~(<<y, x>> \in R)
    OBVIOUS
  <1>2. ASSUME NEW y \in S PROVE x <= y
    <2>1. ~(y < x)
      BY <1>1, Zenon
    <2> QED
      BY <2>1
  <1> QED
    BY <1>2 DEF Min

(* Some numbers have a least one: they are well founded.                    *)
LEMMA MinExists ==
  ASSUME NEW S \in SUBSET Nat, S # {}
  PROVE  Min(S) \in S /\ \A x \in S : Min(S) <= x
  <1>1. \E x \in S : \A y \in S : ~(<<y, x>> \in OpToRel(<, Nat))
    BY WFMin, NatLessThanWellFounded, Zenon
  <1>2. ASSUME NEW x \in Nat, NEW y \in Nat, y < x PROVE <<y, x>> \in OpToRel(<, Nat)
    <2>1. <<y, x>> \in Nat \X Nat /\ <<y, x>>[1] < <<y, x>>[2]
      BY <1>2
    <2> QED
      BY <2>1, Zenon DEF OpToRel
  <1> QED
    BY <1>1, <1>2, LeastOf, Zenon

-----------------------------------------------------------------------------

Alive == {"SLEEPING", "RUNNABLE", "RUNNING"}
Begun == Alive \cup {"ZOMBIE"}

(* Places in sched(), or before the first instruction. *)
Switched == {"forkret", "yield", "sleep", "wait"}

(* Where a process is, or will be when the handler of the tick returns. *)
Where(p) == IF pc[p] \in {"yield", "intr"} THEN under[p] ELSE pc[p]

Forking(p) == Where(p) \in {"alloc", "ready"}

(* The state of a process fits the place where it is. *)
PlaceInv ==
    \A i \in Slots :
        /\ state[i] = "UNUSED" => pc[i] = "none"
        /\ state[i] = "EMBRYO" => pc[i] \in {"none", "forkret"}
        /\ state[i] = "RUNNABLE" => pc[i] \in Switched
        /\ state[i] = "SLEEPING" => pc[i] \in {"sleep", "wait"}
        /\ state[i] = "RUNNING" => pc[i] \notin {"none", "zombie"}
        /\ state[i] = "ZOMBIE" => pc[i] = "zombie"
        /\ state[i] \in Begun => kstack[i]
        /\ pc[i] \in {"yield", "intr"} => under[i] \in Interruptible
        /\ pc[i] = "sleep" => under[i] \in {"kernel", "exit"}

(* The process of a CPU: it runs, or is on its way out of sched() with the *)
(* lock held.                                                              *)
CpuInv ==
    /\ OnOneCpu
    /\ \A c \in CPUs : cproc[c] # None =>
          /\ state[cproc[c]] \in Begun
          /\ plock # c => pc[cproc[c]] \in Interruptible \cup {"intr", "panic"}
          /\ plock = c => pc[cproc[c]] \in Switched \cup {"zombie"}

(* What sched() must restore for p: the flag that pushcli() has noted. *)
Keeps(p, flag) ==
    /\ pc[p] = "yield" => ~flag
    /\ pc[p] = "wait" => flag
    /\ pc[p] = "sleep" /\ under[p] = "kernel" => flag

FlagInv ==
    /\ FlagFollowsProcess
    /\ \A c \in CPUs : plock = c => ~IF_[c]
    /\ \A c \in CPUs : plock = c /\ cproc[c] # None => Keeps(cproc[c], intena[c])
    /\ \A i \in Slots : (\A c \in CPUs : cproc[c] # i) => Keeps(i, saved[i])

(* A process in fork() has a slot of its own, and the rest of the slot is  *)
(* filled in when it becomes RUNNABLE.                                     *)
ForkInv ==
    /\ \A p \in Slots : Forking(p) => child[p] \in Slots /\ state[child[p]] = "EMBRYO"
    /\ \A p \in Slots : Where(p) = "alloc" => pc[child[p]] = "none"
    /\ \A p \in Slots : Where(p) = "ready" =>
          pc[child[p]] = "forkret" /\ kstack[child[p]] /\ parent[child[p]] = p
    /\ \A p, q \in Slots : Forking(p) /\ Forking(q) /\ child[p] = child[q] => p = q

(* init does not exit, as its exit() is a panic. *)
InitInv ==
    /\ state[initproc] \in Alive
    /\ pc[initproc] \notin {"exit", "zombie"} /\ under[initproc] # "exit"

ParentInv ==
    /\ ParentAlive
    /\ \A i \in Slots \ {initproc} : state[i] \in Begun => parent[i] # i

IInv ==
    /\ TypeOK /\ PlaceInv /\ CpuInv /\ FlagInv /\ ForkInv
    /\ InitInv /\ ParentInv /\ WaiterHasNoZombie

-----------------------------------------------------------------------------
LEMMA Constants ==
    /\ initproc \in Slots /\ Slots \subseteq Nat /\ None \notin Slots /\ None \notin CPUs
    /\ Chans \cap Slots = {} /\ None \notin Chans /\ None \notin Nat
  BY ProcAssumption DEF initproc, Slots

LEMMA Types ==
  ASSUME TypeOK
  PROVE  /\ state \in [Slots -> States] /\ parent \in [Slots -> Slots \cup {None}]
         /\ kstack \in [Slots -> BOOLEAN] /\ chan \in [Slots -> Slots \cup Chans \cup {None}]
         /\ cproc \in [CPUs -> Slots \cup {None}] /\ plock \in CPUs \cup {None}
         /\ IF_ \in [CPUs -> BOOLEAN] /\ intena \in [CPUs -> BOOLEAN]
         /\ pc \in [Slots -> Labels] /\ under \in [Slots -> Interruptible \cup {"none"}]
         /\ child \in [Slots -> Slots \cup {None}] /\ saved \in [Slots -> BOOLEAN]
  BY DEF TypeOK

LEMMA InitIInv == Init => IInv
  <1> SUFFICES ASSUME Init PROVE IInv
    OBVIOUS
  <1>1. TypeOK
    BY ProcAssumption, Constants
       DEF Init, TypeOK, States, Labels, Interruptible, Slots, initproc
  <1>2. PlaceInv /\ CpuInv /\ InitInv
    BY Constants DEF Init, PlaceInv, CpuInv, OnOneCpu, InitInv, Alive, Begun, Switched
  <1>3. FlagInv
    BY Constants DEF Init, FlagInv, FlagFollowsProcess, Keeps
  <1>4. ForkInv
    BY DEF Init, ForkInv, Forking, Where
  <1>5. ParentInv /\ WaiterHasNoZombie
    BY Constants DEF Init, ParentInv, ParentAlive, WaiterHasNoZombie, Begun, Alive
  <1> QED
    BY <1>1, <1>2, <1>3, <1>4, <1>5 DEF IInv

-----------------------------------------------------------------------------
(* What is said of slots alone is kept by what leaves the slots alone. *)
LEMMA SameSlots ==
  ASSUME IInv, UNCHANGED <<table, pc, under, child>>
  PROVE  PlaceInv' /\ ForkInv' /\ InitInv' /\ ParentInv' /\ WaiterHasNoZombie'
  <1>1. PlaceInv'
    BY DEF IInv, PlaceInv, table
  <1>2. ForkInv'
    BY DEF IInv, ForkInv, Forking, Where, table
  <1>3. InitInv' /\ ParentInv'
    BY DEF IInv, InitInv, ParentInv, ParentAlive, table
  <1>4. WaiterHasNoZombie'
    BY DEF IInv, WaiterHasNoZombie, Zombies, Children, table
  <1> QED
    BY <1>1, <1>2, <1>3, <1>4

LEMMA SchedLockStep ==
  ASSUME IInv, NEW c \in CPUs, SchedLock(c)
  PROVE  IInv'
  <1>1. /\ cproc[c] = None /\ plock = None /\ plock' = c
        /\ intena' = [intena EXCEPT ![c] = IF_[c]] /\ IF_' = [IF_ EXCEPT ![c] = FALSE]
        /\ scan' = [scan EXCEPT ![c] = 1] /\ UNCHANGED <<table, cproc, local>>
    BY DEF SchedLock, Acquire
  <1>2. TypeOK /\ CpuInv /\ FlagInv
    BY DEF IInv
  <1>3. TypeOK'
    BY <1>1, <1>2, ProcAssumption DEF TypeOK, table, local
  <1>4. PlaceInv' /\ ForkInv' /\ InitInv' /\ ParentInv' /\ WaiterHasNoZombie'
    BY <1>1, SameSlots DEF local
  <1>5. CpuInv'
    BY <1>1, <1>2, Types, Constants DEF CpuInv, OnOneCpu, table, local
  <1>6. FlagInv'
    BY <1>1, <1>2, Types, Constants DEF FlagInv, FlagFollowsProcess, Keeps, table, local
  <1> QED
    BY <1>3, <1>4, <1>5, <1>6 DEF IInv

LEMMA SchedReleaseStep ==
  ASSUME IInv, NEW c \in CPUs, SchedRelease(c)
  PROVE  IInv'
  <1>1. /\ cproc[c] = None /\ plock = c /\ plock' = None /\ IF_' = [IF_ EXCEPT ![c] = TRUE]
        /\ scan' = [scan EXCEPT ![c] = 1] /\ UNCHANGED <<table, cproc, intena, local>>
    BY DEF SchedRelease
  <1>2. TypeOK /\ CpuInv /\ FlagInv
    BY DEF IInv
  <1>3. TypeOK'
    BY <1>1, <1>2, ProcAssumption DEF TypeOK, table, local
  <1>4. PlaceInv' /\ ForkInv' /\ InitInv' /\ ParentInv' /\ WaiterHasNoZombie'
    BY <1>1, SameSlots DEF local
  <1>5. CpuInv'
    BY <1>1, <1>2, Types, Constants DEF CpuInv, OnOneCpu, table, local
  <1>6. FlagInv'
    BY <1>1, <1>2, Types, Constants DEF FlagInv, FlagFollowsProcess, Keeps, table, local
  <1> QED
    BY <1>3, <1>4, <1>5, <1>6 DEF IInv

LEMMA SwtchStep ==
  ASSUME IInv, NEW c \in CPUs, Swtch(c)
  PROVE  IInv'
  <1>1. PICK p \in Slots :
        /\ p = cproc[c] /\ plock = c /\ state[p] # "RUNNING"
        /\ saved' = [saved EXCEPT ![p] = intena[c]] /\ cproc' = [cproc EXCEPT ![c] = None]
        /\ scan' = [scan EXCEPT ![c] = p + 1]
        /\ UNCHANGED <<table, plock, IF_, intena, pc, under, child>>
    BY Types DEF Swtch, IInv
  <1>2. TypeOK /\ CpuInv /\ FlagInv
    BY DEF IInv
  <1>3. TypeOK'
    <2>1. p + 1 \in 1..NPROC+1
      BY ProcAssumption DEF Slots
    <2>2. scan' \in [CPUs -> 1..NPROC+1] /\ saved' \in [Slots -> BOOLEAN] /\ cproc' \in [CPUs -> Slots \cup {None}]
      BY <1>1, <1>2, <2>1 DEF TypeOK
    <2> QED
      BY <1>1, <1>2, <2>2 DEF TypeOK, table
  <1>4. PlaceInv' /\ ForkInv' /\ InitInv' /\ ParentInv' /\ WaiterHasNoZombie'
    BY <1>1, SameSlots
  <1>5. CpuInv'
    BY <1>1, <1>2, Types, Constants DEF CpuInv, OnOneCpu, table
  <1>6. FlagInv'
    <2>1. FlagFollowsProcess' /\ \A d \in CPUs : plock' = d => ~IF_'[d]
      BY <1>1, <1>2, Types, Constants DEF FlagInv, FlagFollowsProcess
    <2>2. \A d \in CPUs : plock' = d => cproc'[d] = None
      BY <1>1, <1>2, Types, Constants
    <2>3. ASSUME NEW i \in Slots, \A d \in CPUs : cproc'[d] # i PROVE Keeps(i, saved[i])'
      <3>1. CASE i = p
        <4>1. Keeps(p, intena[c]) /\ saved'[p] = intena[c]
          BY <1>1, <1>2, Types, Constants DEF FlagInv
        <4> QED
          BY <1>1, <3>1, <4>1 DEF Keeps
      <3>2. CASE i # p
        <4>1. \A d \in CPUs : cproc[d] # i
          BY <1>1, <1>2, <2>3, <3>2, Types
        <4> QED
          BY <1>1, <1>2, <3>2, <4>1, Types DEF FlagInv, Keeps
      <3> QED
        BY <3>1, <3>2
    <2> QED
      BY <2>1, <2>2, <2>3, <1>1 DEF FlagInv
  <1> QED
    BY <1>3, <1>4, <1>5, <1>6 DEF IInv

LEMMA DispatchStep ==
  ASSUME IInv, NEW c \in CPUs, Dispatch(c)
  PROVE  IInv'
  <1>1. TypeOK /\ PlaceInv /\ CpuInv /\ FlagInv /\ ForkInv /\ InitInv /\ ParentInv /\ WaiterHasNoZombie
    BY DEF IInv
  <1>2. PICK p \in Slots :
        /\ state[p] = "RUNNABLE" /\ plock = c /\ cproc[c] = None
        /\ state' = [state EXCEPT ![p] = "RUNNING"] /\ cproc' = [cproc EXCEPT ![c] = p]
        /\ intena' = [intena EXCEPT ![c] = Resumption(c, p)]
        /\ UNCHANGED <<pid, parent, killed, chan, kstack, nextpid, plock, scan, IF_, local>>
    <2>1. Candidates(c) # {} /\ Candidates(c) \in SUBSET Nat
      BY Constants DEF Dispatch, Candidates
    <2>2. Min(Candidates(c)) \in Candidates(c)
      BY <2>1, MinExists
    <2> QED
      BY <2>2 DEF Dispatch, Candidates
  <1>3. Resumption(c, p) \in BOOLEAN
    BY <1>1, Types DEF Resumption
  <1>4. \A d \in CPUs : cproc[d] # p
    BY <1>1, <1>2, Types, Constants DEF CpuInv, OnOneCpu
  <1>5. \A i \in Slots : i # p => state'[i] = state[i]
    BY <1>1, <1>2, Types
  <1>6. state'[p] = "RUNNING" /\ pc[p] \in Switched /\ kstack[p]
    BY <1>1, <1>2, Types DEF PlaceInv, Begun, Alive
  <1>7. TypeOK'
    BY <1>1, <1>2, <1>3 DEF TypeOK, States, local
  <1>8. PlaceInv'
    BY <1>1, <1>2, <1>5, <1>6 DEF PlaceInv, Switched, Begun, Alive, local
  <1>9. CpuInv'
    <2>1. \A d \in CPUs : cproc'[d] = IF d = c THEN p ELSE cproc[d]
      BY <1>1, <1>2, Types
    <2>2. OnOneCpu'
      BY <1>1, <1>2, <1>4, <1>5, <1>6, <2>1, Types, Constants DEF CpuInv, OnOneCpu
    <2>3. ASSUME NEW d \in CPUs, cproc'[d] # None
          PROVE  /\ state'[cproc'[d]] \in Begun
                 /\ plock' # d => pc'[cproc'[d]] \in Interruptible \cup {"intr", "panic"}
                 /\ plock' = d => pc'[cproc'[d]] \in Switched \cup {"zombie"}
      <3>1. CASE d = c
        BY <1>2, <1>6, <2>1, <3>1 DEF Begun, Alive, local
      <3>2. CASE d # c
        BY <1>1, <1>2, <1>4, <1>5, <2>1, <2>3, <3>2, Types DEF CpuInv, local
      <3> QED
        BY <3>1, <3>2
    <2> QED
      BY <2>2, <2>3 DEF CpuInv
  <1>10. FlagInv'
    <2>1. \A d \in CPUs : cproc'[d] = IF d = c THEN p ELSE cproc[d]
      BY <1>1, <1>2, Types
    <2>2. FlagFollowsProcess'
      BY <1>1, <1>2, <2>1, Types DEF FlagInv, FlagFollowsProcess, local
    <2>3. Keeps(p, saved[p])
      BY <1>1, <1>4 DEF FlagInv
    <2>4. Keeps(p, intena[c])'
      BY <1>1, <1>2, <2>3, Types DEF Keeps, Resumption, local
    <2>5. ASSUME NEW d \in CPUs, plock' = d, cproc'[d] # None PROVE Keeps(cproc[d], intena[d])'
      <3>1. d = c /\ cproc'[d] = p
        BY <1>2, <2>1, <2>5
      <3> QED
        BY <2>4, <3>1 DEF Keeps
    <2>6. ASSUME NEW i \in Slots, \A d \in CPUs : cproc'[d] # i PROVE Keeps(i, saved[i])'
      <3>1. \A d \in CPUs : cproc[d] # i
        BY <1>1, <1>2, <2>1, <2>6, Types, Constants
      <3>2. Keeps(i, saved[i])
        BY <1>1, <3>1 DEF FlagInv
      <3> QED
        BY <1>2, <3>2 DEF Keeps, local
    <2> QED
      BY <1>1, <1>2, <2>2, <2>4, <2>5, <2>6 DEF FlagInv
  <1>11. ForkInv'
    <2>1. \A q \in Slots : Forking(q)' = Forking(q) /\ Where(q)' = Where(q)
      BY <1>2 DEF Forking, Where, local
    <2> QED
      BY <1>1, <1>2, <1>5, <2>1 DEF ForkInv, local, Forking
  <1>12. InitInv' /\ ParentInv'
    <2>1. \A i \in Slots : (state'[i] \in Begun <=> state[i] \in Begun) /\ (state'[i] \in Alive <=> state[i] \in Alive)
      BY <1>2, <1>5, <1>6 DEF Begun, Alive
    <2> QED
      BY <1>1, <1>2, <2>1, Constants DEF InitInv, ParentInv, ParentAlive, Begun, Alive, local
  <1>13. WaiterHasNoZombie'
    BY <1>1, <1>2, <1>5, <1>6 DEF WaiterHasNoZombie, Zombies, Children
  <1> QED
    BY <1>7, <1>8, <1>9, <1>10, <1>11, <1>12, <1>13 DEF IInv

-----------------------------------------------------------------------------
(* A process that its CPU runs is RUNNING. *)
LEMMA RunsRunning ==
  ASSUME IInv, NEW c \in CPUs, NEW p \in Slots, NEW label, Runs(c, p, label)
  PROVE  state[p] = "RUNNING" /\ pc[p] \in Interruptible \cup {"intr", "panic"}
  BY Constants DEF Runs, IInv, CpuInv, OnOneCpu

(* A running process goes on to another place outside sched(), and leaves  *)
(* its state and its place in the tree alone.                              *)
LEMMA OwnStep ==
  ASSUME IInv, TypeOK', NEW c \in CPUs, NEW p \in Slots, cproc[c] = p, state[p] = "RUNNING",
         NEW label \in Interruptible \cup {"intr", "panic"}, pc' = [pc EXCEPT ![p] = label],
         plock' \in {plock, None}, plock' # c, plock' = plock \/ plock = c,
         \A d \in CPUs : d # c => IF_'[d] = IF_[d],
         label \in {"user", "kernel", "alloc", "ready"} => IF_'[c],
         label = "intr" => ~IF_'[c] /\ under'[p] \in Interruptible,
         \A i \in Slots : i # p => under'[i] = under[i] /\ chan'[i] = chan[i],
         Forking(p)' => Where(p)' = Where(p),
         p = initproc => label # "exit" /\ under'[p] # "exit",
         UNCHANGED <<state, parent, kstack, cproc, child, saved, intena>>
  PROVE  IInv'
  <1>1. TypeOK /\ PlaceInv /\ CpuInv /\ FlagInv /\ ForkInv /\ InitInv /\ ParentInv /\ WaiterHasNoZombie
    BY DEF IInv
  <1>2. pc'[p] = label /\ \A i \in Slots : i # p => pc'[i] = pc[i]
    BY <1>1, Types
  <1>3. PlaceInv'
    <2>1. label \notin {"none", "zombie", "yield", "sleep"}
      BY DEF Interruptible
    <2> QED
      BY <1>1, <1>2, <2>1 DEF PlaceInv, Begun, Alive
  <1>4. CpuInv'
    <2>1. OnOneCpu'
      BY <1>1, Types, Constants DEF CpuInv, OnOneCpu
    <2>2. ASSUME NEW d \in CPUs, cproc[d] # None
          PROVE  /\ state[cproc[d]] \in Begun
                 /\ plock' # d => pc'[cproc[d]] \in Interruptible \cup {"intr", "panic"}
                 /\ plock' = d => pc'[cproc[d]] \in Switched \cup {"zombie"}
      <3>1. CASE d = c
        BY <1>1, <1>2, <2>2, <3>1 DEF CpuInv
      <3>2. CASE d # c
        <4>1. cproc[d] # p /\ cproc[d] \in Slots
          BY <1>1, <2>2, <3>2, Types DEF CpuInv, OnOneCpu
        <4>2. plock' = d <=> plock = d
          BY <3>2, Constants
        <4> QED
          BY <1>1, <1>2, <2>2, <4>1, <4>2 DEF CpuInv
      <3> QED
        BY <3>1, <3>2
    <2> QED
      BY <2>1, <2>2 DEF CpuInv
  <1>5. FlagInv'
    <2>1. \A d \in CPUs : d # c => (plock' = d <=> plock = d)
      BY Constants
    <2>2. ASSUME NEW d \in CPUs, NEW i \in Slots, cproc[d] = i, plock' # d
          PROVE  /\ pc'[i] \in {"user", "kernel", "alloc", "ready"} => IF_'[d]
                 /\ pc'[i] = "intr" => ~IF_'[d]
      <3>1. CASE d = c
        BY <1>2, <2>2, <3>1
      <3>2. CASE d # c
        <4>1. i # p
          BY <1>1, <2>2, <3>2, Constants DEF CpuInv, OnOneCpu
        <4> QED
          BY <1>1, <1>2, <2>1, <2>2, <3>2, <4>1 DEF FlagInv, FlagFollowsProcess
      <3> QED
        BY <3>1, <3>2
    <2>3. FlagFollowsProcess'
      BY <2>2 DEF FlagFollowsProcess
    <2>4. ASSUME NEW d \in CPUs, plock' = d
          PROVE  ~IF_'[d] /\ (cproc[d] # None => Keeps(cproc[d], intena[d])')
      <3>1. d # c /\ plock = d
        BY <2>1, <2>4
      <3>2. cproc[d] # None => cproc[d] # p /\ cproc[d] \in Slots /\ Keeps(cproc[d], intena[d])
        BY <1>1, <3>1, Types DEF CpuInv, OnOneCpu, FlagInv
      <3> QED
        BY <1>1, <1>2, <3>1, <3>2 DEF FlagInv, Keeps
    <2>5. ASSUME NEW i \in Slots, \A d \in CPUs : cproc[d] # i PROVE Keeps(i, saved[i])'
      <3>1. i # p /\ Keeps(i, saved[i])
        BY <1>1, <2>5 DEF FlagInv
      <3> QED
        BY <1>2, <3>1 DEF Keeps
    <2> QED
      BY <2>3, <2>4, <2>5 DEF FlagInv
  <1>6. ForkInv'
    <2>1. \A q \in Slots : q # p => Where(q)' = Where(q)
      BY <1>2 DEF Where
    <2>2. \A q \in Slots : Forking(q)' => Forking(q) /\ Where(q)' = Where(q)
      BY <2>1 DEF Forking
    <2>3. ASSUME NEW q \in Slots, Forking(q) PROVE child[q] # p
      BY <1>1, <2>3 DEF ForkInv
    <2>4. \A q \in Slots : Where(q)' \in {"alloc", "ready"} => Forking(q)'
      BY DEF Forking
    <2> QED
      BY <1>1, <1>2, <2>2, <2>3, <2>4 DEF ForkInv
  <1>7. InitInv' /\ ParentInv'
    <2>1. label # "zombie"
      BY DEF Interruptible
    <2> QED
      BY <1>1, <1>2, <2>1, Constants DEF InitInv, ParentInv, ParentAlive
  <1>8. WaiterHasNoZombie'
    BY <1>1 DEF WaiterHasNoZombie, Zombies, Children
  <1> QED
    BY <1>3, <1>4, <1>5, <1>6, <1>7, <1>8 DEF IInv

LEMMA TrapStep ==
  ASSUME IInv, NEW c \in CPUs, NEW p \in Slots,
         Syscall(c, p) \/ Sysret(c, p) \/ SysExit(c, p) \/ TickExit(c, p) \/ Fault(c, p)
  PROVE  IInv'
  <1>1. TypeOK /\ CpuInv /\ FlagInv
    BY DEF IInv
  <1>2. PICK label \in {"user", "kernel", "exit", "panic"} :
        /\ pc' = [pc EXCEPT ![p] = label] /\ (p = initproc => label # "exit")
        /\ pc[p] \in {"user", "kernel"} /\ cproc[c] = p /\ plock # c
        /\ label \in {"user", "kernel"} => IF_' = IF_
        /\ IF_' \in {IF_, [IF_ EXCEPT ![c] = FALSE]}
        /\ killed' \in {killed, [killed EXCEPT ![p] = TRUE]}
        /\ UNCHANGED <<state, pid, parent, chan, kstack, nextpid, plock, cproc, scan, intena, under, child, saved>>
    BY DEF Syscall, Sysret, SysExit, TickExit, Fault, Runs, At, ExitOf, table, cpu
  <1>3. state[p] = "RUNNING"
    BY <1>2, Constants DEF IInv, CpuInv, OnOneCpu
  <1>4. label \in Interruptible \cup {"intr", "panic"} /\ label # "intr"
    BY DEF Interruptible
  <1>5. IF_[c]
    BY <1>1, <1>2 DEF FlagInv, FlagFollowsProcess
  <1>6. TypeOK'
    <2>1. IF_' \in [CPUs -> BOOLEAN] /\ killed' \in [Slots -> BOOLEAN]
      BY <1>1, <1>2 DEF TypeOK
    <2>2. pc' \in [Slots -> Labels]
      BY <1>1, <1>2 DEF TypeOK, Labels
    <2> QED
      BY <1>1, <1>2, <2>1, <2>2 DEF TypeOK
  <1>7. Forking(p)' => Where(p)' = Where(p)
    BY <1>1, <1>2, Types DEF Forking, Where
  <1>8. \A d \in CPUs : d # c => IF_'[d] = IF_[d]
    BY <1>1, <1>2, Types
  <1>9. label \in {"user", "kernel", "alloc", "ready"} => IF_'[c]
    BY <1>2, <1>5
  <1>10. plock \in {plock, None}
    OBVIOUS
  <1>11. p = initproc => under[p] # "exit"
    BY DEF IInv, InitInv
  <1> QED
    BY <1>2, <1>3, <1>4, <1>6, <1>7, <1>8, <1>9, <1>10, <1>11, OwnStep

LEMMA ForkretStep ==
  ASSUME IInv, NEW c \in CPUs, NEW p \in Slots, Forkret(c, p)
  PROVE  IInv'
  <1>1. TypeOK
    BY DEF IInv
  <1>2. /\ cproc[c] = p /\ plock = c /\ state[p] = "RUNNING" /\ plock' = None
        /\ IF_' = [IF_ EXCEPT ![c] = TRUE] /\ pc' = [pc EXCEPT ![p] = "user"]
        /\ UNCHANGED <<table, cproc, scan, intena, under, child, saved>>
    BY DEF Forkret, Resumed, At
  <1>3. TypeOK'
    BY <1>1, <1>2 DEF TypeOK, Labels, table
  <1>4. ~Forking(p)'
    BY <1>1, <1>2, Types DEF Forking, Where
  <1>5. IF_'[c] /\ \A d \in CPUs : d # c => IF_'[d] = IF_[d]
    BY <1>1, <1>2, Types
  <1>6. "user" \in Interruptible \cup {"intr", "panic"} /\ None # c
    BY Constants DEF Interruptible
  <1>7. p = initproc => under[p] # "exit"
    BY DEF IInv, InitInv
  <1> QED
    BY <1>2, <1>3, <1>4, <1>5, <1>6, <1>7, OwnStep DEF table

LEMMA YieldReturnStep ==
  ASSUME IInv, NEW c \in CPUs, NEW p \in Slots, YieldReturn(c, p)
  PROVE  IInv'
  <1>1. TypeOK /\ FlagInv /\ PlaceInv
    BY DEF IInv
  <1>2. /\ cproc[c] = p /\ plock = c /\ state[p] = "RUNNING" /\ plock' = None /\ pc[p] = "yield"
        /\ IF_' = [IF_ EXCEPT ![c] = @ \/ intena[c]] /\ pc' = [pc EXCEPT ![p] = "intr"]
        /\ UNCHANGED <<table, cproc, scan, intena, under, child, saved>>
    BY DEF YieldReturn, Resumed, Release, At
  <1>3. ~IF_[c] /\ ~intena[c] /\ under[p] \in Interruptible
    BY <1>1, <1>2, Constants DEF FlagInv, Keeps, PlaceInv
  <1>4. TypeOK'
    BY <1>1, <1>2 DEF TypeOK, Labels, table
  <1>5. Where(p)' = Where(p)
    BY <1>1, <1>2, Types DEF Where
  <1>6. ~IF_'[c] /\ \A d \in CPUs : d # c => IF_'[d] = IF_[d]
    BY <1>1, <1>2, <1>3, Types
  <1>7. None # c /\ "intr" \in Interruptible \cup {"intr", "panic"}
        /\ "intr" \notin {"user", "kernel", "alloc", "ready"}
    BY Constants
  <1>8. p = initproc => under[p] # "exit"
    BY DEF IInv, InitInv
  <1> QED
    BY <1>2, <1>3, <1>4, <1>5, <1>6, <1>7, <1>8, OwnStep DEF table

LEMMA IntrReturnStep ==
  ASSUME IInv, NEW c \in CPUs, NEW p \in Slots, IntrReturn(c, p)
  PROVE  IInv'
  <1>1. TypeOK /\ PlaceInv /\ InitInv
    BY DEF IInv
  <1>2. PICK label \in Interruptible \cup {"panic"} :
        /\ cproc[c] = p /\ plock # c /\ pc[p] = "intr"
        /\ pc' = [pc EXCEPT ![p] = label]
        /\ \/ label = under[p] /\ IF_' = [IF_ EXCEPT ![c] = TRUE]
           \/ label \in {"exit", "panic"} /\ IF_' = [IF_ EXCEPT ![c] = FALSE]
        /\ p = initproc => label # "exit"
        /\ under' = [under EXCEPT ![p] = "none"]
        /\ UNCHANGED <<table, plock, cproc, scan, intena, child, saved>>
    <2>1. pc[p] = "intr" /\ cproc[c] = p /\ plock # c
      BY DEF IntrReturn, Runs
    <2>2. under[p] \in Interruptible /\ (p = initproc => under[p] # "exit")
      BY <1>1, <2>1 DEF PlaceInv, InitInv
    <2>3. under' = [under EXCEPT ![p] = "none"] /\ UNCHANGED <<table, plock, cproc, scan, intena, child, saved>>
      BY DEF IntrReturn
    <2>4. CASE killed[p] /\ under[p] = "user"
      <3>1. pc' = [pc EXCEPT ![p] = ExitOf(p)] /\ IF_' = [IF_ EXCEPT ![c] = FALSE]
        BY <2>4 DEF IntrReturn, At
      <3>2. ExitOf(p) \in {"exit", "panic"} /\ (p = initproc => ExitOf(p) # "exit")
        BY DEF ExitOf
      <3>3. ExitOf(p) \in Interruptible \cup {"panic"}
        BY <3>2 DEF Interruptible
      <3> QED
        BY <2>1, <2>3, <3>1, <3>2, <3>3
    <2>5. CASE ~(killed[p] /\ under[p] = "user")
      <3>1. pc' = [pc EXCEPT ![p] = under[p]] /\ IF_' = [IF_ EXCEPT ![c] = TRUE]
        BY <2>5 DEF IntrReturn, At
      <3>2. under[p] \in Interruptible \cup {"panic"}
        BY <2>2
      <3> QED
        BY <2>1, <2>2, <2>3, <3>1, <3>2
    <2> QED
      BY <2>4, <2>5
  <1>3. state[p] = "RUNNING"
    BY <1>2, Constants DEF IInv, CpuInv, OnOneCpu
  <1>4. TypeOK'
    BY <1>1, <1>2 DEF TypeOK, Labels, Interruptible, table
  <1>5. Forking(p)' => Where(p)' = Where(p)
    BY <1>1, <1>2, Types DEF Forking, Where, Interruptible
  <1>6. /\ label \in {"user", "kernel", "alloc", "ready"} => IF_'[c]
        /\ \A d \in CPUs : d # c => IF_'[d] = IF_[d]
    BY <1>1, <1>2, Types
  <1>7. under'[p] # "exit" /\ \A i \in Slots : i # p => under'[i] = under[i]
    BY <1>1, <1>2, Types
  <1>8. label # "intr"
    BY DEF Interruptible
  <1> QED
    BY <1>2, <1>3, <1>4, <1>5, <1>6, <1>7, <1>8, OwnStep DEF table

LEMMA SleepReturnStep ==
  ASSUME IInv, NEW c \in CPUs, NEW p \in Slots, SleepReturn(c, p)
  PROVE  IInv'
  <1>1. TypeOK /\ FlagInv /\ PlaceInv /\ InitInv
    BY DEF IInv
  <1>2. PICK label \in {"kernel", "exit"} :
        /\ cproc[c] = p /\ plock = c /\ state[p] = "RUNNING" /\ plock' = None /\ pc[p] = "sleep"
        /\ IF_' = [IF_ EXCEPT ![c] = @ \/ intena[c]]
        /\ label = under[p] /\ pc' = [pc EXCEPT ![p] = label]
        /\ under' = [under EXCEPT ![p] = "none"] /\ chan' = [chan EXCEPT ![p] = None]
        /\ UNCHANGED <<state, pid, parent, killed, kstack, nextpid, cproc, scan, intena, child, saved>>
    BY <1>1 DEF SleepReturn, Resumed, Release, At, PlaceInv
  <1>3. label = "kernel" => IF_'[c]
    BY <1>1, <1>2, Types, Constants DEF FlagInv, Keeps
  <1>4. TypeOK'
    BY <1>1, <1>2 DEF TypeOK, Labels
  <1>5. ~Forking(p)'
    BY <1>1, <1>2, Types DEF Forking, Where
  <1>6. \A d \in CPUs : d # c => IF_'[d] = IF_[d]
    BY <1>1, <1>2, Types
  <1>7. under'[p] # "exit" /\ \A i \in Slots : i # p => under'[i] = under[i] /\ chan'[i] = chan[i]
    BY <1>1, <1>2, Types
  <1>8. label \in Interruptible \cup {"intr", "panic"} /\ label # "intr" /\ None # c
    BY Constants DEF Interruptible
  <1>9. p = initproc => label # "exit"
    BY <1>1, <1>2 DEF InitInv
  <1>10. /\ cproc[c] = p /\ state[p] = "RUNNING"
         /\ plock' \in {plock, None} /\ plock' # c /\ (plock' = plock \/ plock = c)
         /\ (label \in {"user", "kernel", "alloc", "ready"} => IF_'[c])
         /\ pc' = [pc EXCEPT ![p] = label] /\ UNCHANGED <<state, parent, kstack, cproc, child, saved, intena>>
    BY <1>2, <1>3, <1>8
  <1> QED
    BY <1>4, <1>5, <1>6, <1>7, <1>8, <1>9, <1>10, OwnStep, ZenonT(40)

(* The head of the loop of wait(). *)
LEMMA InWaitFacts ==
  ASSUME IInv, NEW c \in CPUs, NEW p \in Slots, InWait(c, p)
  PROVE  /\ cproc[c] = p /\ state[p] = "RUNNING" /\ pc[p] \in {"kernel", "wait"}
         /\ plock = None \/ plock = c
         /\ IF_'[c] /\ IF_' \in [CPUs -> BOOLEAN] /\ \A d \in CPUs : d # c => IF_'[d] = IF_[d]
  <1>1. TypeOK /\ FlagInv
    BY DEF IInv
  <1>2. CASE Runs(c, p, "kernel") /\ plock = None /\ UNCHANGED IF_
    BY <1>1, <1>2, RunsRunning, Types DEF Runs, FlagInv, FlagFollowsProcess
  <1>3. CASE Resumed(c, p, "wait") /\ IF_' = [IF_ EXCEPT ![c] = intena[c]]
    BY <1>1, <1>3, Types, Constants DEF Resumed, FlagInv, Keeps
  <1> QED
    BY <1>2, <1>3 DEF InWait

LEMMA WaitFailsStep ==
  ASSUME IInv, NEW c \in CPUs, NEW p \in Slots, WaitFails(c, p)
  PROVE  IInv'
  <1>1. TypeOK
    BY DEF IInv
  <1>2. /\ InWait(c, p) /\ plock' = None /\ pc' = [pc EXCEPT ![p] = "kernel"]
        /\ chan' = [chan EXCEPT ![p] = None]
        /\ UNCHANGED <<state, pid, parent, killed, kstack, nextpid, cproc, scan, intena, under, child, saved>>
    BY DEF WaitFails, At
  <1>3. TypeOK'
    BY <1>1, <1>2, InWaitFacts DEF TypeOK, Labels
  <1>4. ~Forking(p)'
    BY <1>1, <1>2, Types DEF Forking, Where
  <1>5. \A i \in Slots : i # p => under'[i] = under[i] /\ chan'[i] = chan[i]
    BY <1>1, <1>2, Types
  <1>6. "kernel" \in Interruptible \cup {"intr", "panic"} /\ None # c
    BY Constants DEF Interruptible
  <1>7. p = initproc => under[p] # "exit"
    BY DEF IInv, InitInv
  <1>8. /\ cproc[c] = p /\ state[p] = "RUNNING" /\ IF_'[c]
        /\ plock' \in {plock, None} /\ plock' # c /\ (plock' = plock \/ plock = c)
        /\ \A d \in CPUs : d # c => IF_'[d] = IF_[d]
        /\ UNCHANGED <<state, parent, kstack, cproc, child, saved, intena>>
    BY <1>2, <1>6, InWaitFacts
  <1>9. /\ pc' = [pc EXCEPT ![p] = "kernel"] /\ "kernel" # "intr" /\ "kernel" # "exit"
        /\ (p = initproc => under'[p] # "exit")
    BY <1>2, <1>7
  <1> QED
    BY <1>3, <1>4, <1>5, <1>6, <1>8, <1>9, OwnStep, ZenonT(40)

(* A running process takes ptable.lock and gives up its CPU. *)
LEMMA SwitchStep ==
  ASSUME IInv, TypeOK', NEW c \in CPUs, NEW p \in Slots, cproc[c] = p, state[p] = "RUNNING",
         NEW label \in {"yield", "sleep", "wait"}, pc' = [pc EXCEPT ![p] = label],
         NEW st \in {"RUNNABLE", "SLEEPING"}, state' = [state EXCEPT ![p] = st],
         label = "yield" => st = "RUNNABLE" /\ under'[p] \in Interruptible,
         label = "sleep" => under'[p] \in {"kernel", "exit"},
         plock \in {c, None}, plock' = c, ~IF_'[c],
         Keeps(p, intena[c])',
         \A i \in Slots : i # p => under'[i] = under[i] /\ chan'[i] = chan[i],
         Forking(p)' => Where(p)' = Where(p),
         p = initproc => under'[p] # "exit",
         st = "SLEEPING" /\ chan'[p] = p => Zombies(p) = {},
         \A d \in CPUs : d # c => IF_'[d] = IF_[d] /\ intena'[d] = intena[d],
         UNCHANGED <<parent, kstack, cproc, child, saved>>
  PROVE  IInv'
  <1>1. TypeOK /\ PlaceInv /\ CpuInv /\ FlagInv /\ ForkInv /\ InitInv /\ ParentInv /\ WaiterHasNoZombie
    BY DEF IInv
  <1>2. /\ pc'[p] = label /\ state'[p] = st
        /\ \A i \in Slots : i # p => pc'[i] = pc[i] /\ state'[i] = state[i]
    BY <1>1, Types
  <1>3. PlaceInv'
    <2>1. {"RUNNABLE", "SLEEPING", "RUNNING"} \subseteq Begun /\ {"yield", "sleep", "wait"} \subseteq Switched
      BY DEF Begun, Alive, Switched
    <2> QED
      BY <1>1, <1>2, <2>1 DEF PlaceInv
  <1>4. CpuInv'
    <2>1. \A d \in CPUs : d # c => plock # d /\ plock' # d /\ cproc[d] # p
      BY <1>1, Constants DEF CpuInv, OnOneCpu
    <2>2. OnOneCpu'
      <3>1. \A i \in Slots : state'[i] = "RUNNING" => state[i] = "RUNNING"
        BY <1>2
      <3>2. ASSUME NEW d \in CPUs, cproc[d] # None PROVE state'[cproc[d]] = "RUNNING" \/ plock' = d
        BY <1>1, <1>2, <2>1, <3>2, Types DEF CpuInv, OnOneCpu
      <3> QED
        BY <1>1, <3>1, <3>2 DEF CpuInv, OnOneCpu
    <2>3. ASSUME NEW d \in CPUs, cproc[d] # None
          PROVE  /\ state'[cproc[d]] \in Begun
                 /\ plock' # d => pc'[cproc[d]] \in Interruptible \cup {"intr", "panic"}
                 /\ plock' = d => pc'[cproc[d]] \in Switched \cup {"zombie"}
      <3>1. CASE d = c
        BY <1>2, <3>1 DEF Begun, Alive, Switched
      <3>2. CASE d # c
        BY <1>1, <1>2, <2>1, <2>3, <3>2, Types DEF CpuInv
      <3> QED
        BY <3>1, <3>2
    <2> QED
      BY <2>2, <2>3 DEF CpuInv
  <1>5. FlagInv'
    <2>1. \A d \in CPUs : d # c => plock # d /\ plock' # d /\ cproc[d] # p
      BY <1>1, Constants DEF CpuInv, OnOneCpu
    <2>2. FlagFollowsProcess'
      BY <1>1, <1>2, <2>1 DEF FlagInv, FlagFollowsProcess
    <2>3. \A d \in CPUs : plock' = d => ~IF_'[d]
      OBVIOUS
    <2>4. ASSUME NEW d \in CPUs, plock' = d, cproc'[d] # None PROVE Keeps(cproc[d], intena[d])'
      <3>1. d = c /\ cproc'[d] = p
        BY <2>4
      <3> QED
        BY <3>1 DEF Keeps
    <2>5. ASSUME NEW i \in Slots, \A d \in CPUs : cproc[d] # i PROVE Keeps(i, saved[i])'
      <3>1. i # p /\ Keeps(i, saved[i])
        BY <1>1, <2>5 DEF FlagInv
      <3> QED
        BY <1>2, <3>1 DEF Keeps
    <2> QED
      BY <2>2, <2>3, <2>4, <2>5 DEF FlagInv
  <1>6. ForkInv'
    <2>1. \A q \in Slots : q # p => Where(q)' = Where(q)
      BY <1>2 DEF Where
    <2>2. \A q \in Slots : Forking(q)' => Forking(q) /\ Where(q)' = Where(q)
      BY <2>1 DEF Forking
    <2>3. ASSUME NEW q \in Slots, Forking(q) PROVE child[q] # p
      BY <1>1, <2>3 DEF ForkInv
    <2>4. \A q \in Slots : Where(q)' \in {"alloc", "ready"} => Forking(q)'
      BY DEF Forking
    <2> QED
      BY <1>1, <1>2, <2>2, <2>3, <2>4 DEF ForkInv
  <1>7. \A i \in Slots : (state'[i] \in Alive <=> state[i] \in Alive) /\ (state'[i] \in Begun <=> state[i] \in Begun)
    BY <1>2 DEF Alive, Begun
  <1>8. InitInv' /\ ParentInv'
    BY <1>1, <1>2, <1>7, Constants DEF InitInv, ParentInv, ParentAlive, Alive, Begun
  <1>9. WaiterHasNoZombie'
    <2>1. \A i \in Slots : Zombies(i)' = Zombies(i)
      BY <1>2 DEF Zombies, Children
    <2> QED
      BY <1>1, <1>2, <2>1 DEF WaiterHasNoZombie
  <1> QED
    BY <1>3, <1>4, <1>5, <1>6, <1>8, <1>9 DEF IInv

LEMMA YieldStep ==
  ASSUME IInv, NEW c \in CPUs, NEW p \in Slots, Yield(c, p)
  PROVE  IInv'
  <1>1. TypeOK /\ InitInv
    BY DEF IInv
  <1>2. /\ cproc[c] = p /\ pc[p] \in Interruptible /\ plock = None /\ plock' = c
        /\ IF_' = [IF_ EXCEPT ![c] = FALSE] /\ intena' = [intena EXCEPT ![c] = FALSE]
        /\ state' = [state EXCEPT ![p] = "RUNNABLE"] /\ under' = [under EXCEPT ![p] = pc[p]]
        /\ pc' = [pc EXCEPT ![p] = "yield"]
        /\ UNCHANGED <<pid, parent, killed, chan, kstack, nextpid, cproc, scan, child, saved>>
    BY DEF Yield, Runs, At
  <1>3. state[p] = "RUNNING"
    BY RunsRunning DEF Yield
  <1>4. TypeOK'
    BY <1>1, <1>2 DEF TypeOK, Labels, States
  <1>5. Where(p)' = Where(p)
    BY <1>1, <1>2, Types DEF Where, Interruptible
  <1>6. Keeps(p, intena[c])'
    BY <1>1, <1>2, Types DEF Keeps
  <1>7. p = initproc => under'[p] # "exit"
    BY <1>1, <1>2, Types DEF InitInv
  <1>8. /\ ~IF_'[c] /\ under'[p] \in Interruptible
        /\ \A i \in Slots : i # p => under'[i] = under[i]
        /\ \A d \in CPUs : d # c => IF_'[d] = IF_[d] /\ intena'[d] = intena[d]
    BY <1>1, <1>2, Types
  <1> QED
    BY <1>2, <1>3, <1>4, <1>5, <1>6, <1>7, <1>8, SwitchStep

LEMMA SleepStep ==
  ASSUME IInv, NEW c \in CPUs, NEW p \in Slots, Sleep(c, p)
  PROVE  IInv'
  <1>1. TypeOK /\ InitInv /\ FlagInv
    BY DEF IInv
  <1>2. PICK ch \in Chans :
        /\ cproc[c] = p /\ pc[p] \in {"kernel", "exit"} /\ plock # c /\ plock = None /\ plock' = c
        /\ IF_' = [IF_ EXCEPT ![c] = FALSE] /\ intena' = [intena EXCEPT ![c] = IF_[c]]
        /\ state' = [state EXCEPT ![p] = "SLEEPING"] /\ under' = [under EXCEPT ![p] = pc[p]]
        /\ chan' = [chan EXCEPT ![p] = ch] /\ pc' = [pc EXCEPT ![p] = "sleep"]
        /\ UNCHANGED <<pid, parent, killed, kstack, nextpid, cproc, scan, child, saved>>
    BY DEF Sleep, Runs, At, Acquire
  <1>3. state[p] = "RUNNING"
    BY RunsRunning DEF Sleep
  <1>4. TypeOK'
    BY <1>1, <1>2 DEF TypeOK, Labels, States, Interruptible
  <1>5. ~Forking(p)'
    BY <1>1, <1>2, Types DEF Forking, Where
  <1>6. Keeps(p, intena[c])'
    BY <1>1, <1>2, Types DEF Keeps, FlagInv, FlagFollowsProcess
  <1>7. p = initproc => under'[p] # "exit"
    BY <1>1, <1>2, Types DEF InitInv
  <1>8. /\ ~IF_'[c] /\ under'[p] \in {"kernel", "exit"} /\ chan'[p] # p
        /\ \A i \in Slots : i # p => under'[i] = under[i] /\ chan'[i] = chan[i]
        /\ \A d \in CPUs : d # c => IF_'[d] = IF_[d] /\ intena'[d] = intena[d]
    BY <1>1, <1>2, Types, Constants
  <1> QED
    BY <1>2, <1>3, <1>4, <1>5, <1>6, <1>7, <1>8, SwitchStep

LEMMA WaitSleepStep ==
  ASSUME IInv, NEW c \in CPUs, NEW p \in Slots, WaitSleep(c, p)
  PROVE  IInv'
  <1>1. TypeOK /\ InitInv /\ FlagInv
    BY DEF IInv
  <1>2. /\ Zombies(p) = {} /\ state' = [state EXCEPT ![p] = "SLEEPING"]
        /\ chan' = [chan EXCEPT ![p] = p] /\ pc' = [pc EXCEPT ![p] = "wait"]
        /\ UNCHANGED <<pid, parent, killed, kstack, nextpid, cproc, scan, under, child, saved>>
    BY DEF WaitSleep, At
  <1>3. /\ cproc[c] = p /\ state[p] = "RUNNING" /\ plock \in {c, None} /\ plock' = c
        /\ ~IF_'[c] /\ intena'[c] /\ IF_' \in [CPUs -> BOOLEAN] /\ intena' \in [CPUs -> BOOLEAN]
        /\ \A d \in CPUs : d # c => IF_'[d] = IF_[d] /\ intena'[d] = intena[d]
    <2>1. CASE Runs(c, p, "kernel") /\ Acquire(c)
      BY <1>1, <2>1, RunsRunning, Types DEF Runs, Acquire, FlagInv, FlagFollowsProcess
    <2>2. CASE Resumed(c, p, "wait") /\ UNCHANGED <<plock, IF_, intena>>
      BY <1>1, <2>2, Types, Constants DEF Resumed, FlagInv, Keeps
    <2> QED
      BY <2>1, <2>2 DEF WaitSleep
  <1>4. TypeOK'
    BY <1>1, <1>2, <1>3 DEF TypeOK, Labels, States
  <1>5. ~Forking(p)'
    BY <1>1, <1>2, Types DEF Forking, Where
  <1>6. Keeps(p, intena[c])'
    BY <1>1, <1>2, <1>3, Types DEF Keeps
  <1>7. p = initproc => under[p] # "exit"
    BY <1>1 DEF InitInv
  <1>8. \A i \in Slots : i # p => under'[i] = under[i] /\ chan'[i] = chan[i]
    BY <1>1, <1>2, Types
  <1> QED
    BY <1>2, <1>3, <1>4, <1>5, <1>6, <1>7, <1>8, SwitchStep

(* Some sleepers become RUNNABLE, by wakeup() or kill(). *)
LEMMA WakeStep ==
  ASSUME IInv, TypeOK', plock = None,
         \A i \in Slots : state'[i] = state[i] \/ (state[i] = "SLEEPING" /\ state'[i] = "RUNNABLE"),
         UNCHANGED <<parent, chan, kstack, cpu, local>>
  PROVE  IInv'
  <1>1. TypeOK /\ PlaceInv /\ CpuInv /\ FlagInv /\ ForkInv /\ InitInv /\ ParentInv /\ WaiterHasNoZombie
    BY DEF IInv
  <1>2. PlaceInv'
    BY <1>1 DEF PlaceInv, Switched, Begun, Alive, local
  <1>3. \A i \in Slots : state[i] \in {"RUNNING", "ZOMBIE", "UNUSED", "EMBRYO"} \/ state'[i] \in {"RUNNING", "ZOMBIE", "UNUSED", "EMBRYO"}
                            => state'[i] = state[i]
    OBVIOUS
  <1>4. \A i \in Slots : (state'[i] \in Alive <=> state[i] \in Alive) /\ (state'[i] \in Begun <=> state[i] \in Begun)
    BY DEF Alive, Begun
  <1>5. CpuInv'
    <2>1. \A i \in Slots : state'[i] = "RUNNING" <=> state[i] = "RUNNING"
      OBVIOUS
    <2>2. \A d \in CPUs : plock # d
      BY Constants
    <2>3. \A d \in CPUs : cproc[d] # None => cproc[d] \in Slots
      BY <1>1, Types
    <2>4. OnOneCpu'
      BY <1>1, <2>1, <2>2, <2>3 DEF CpuInv, OnOneCpu, cpu
    <2>5. \A d \in CPUs : cproc[d] # None =>
             state'[cproc[d]] \in Begun /\ pc[cproc[d]] \in Interruptible \cup {"intr", "panic"}
      BY <1>1, <1>4, <2>2, <2>3 DEF CpuInv
    <2> QED
      BY <2>2, <2>4, <2>5 DEF CpuInv, cpu, local
  <1>6. FlagInv'
    BY <1>1 DEF FlagInv, FlagFollowsProcess, Keeps, cpu, local
  <1>7. ForkInv'
    BY <1>1, <1>3 DEF ForkInv, Forking, Where, local
  <1>8. InitInv' /\ ParentInv'
    BY <1>1, <1>4, Constants DEF InitInv, ParentInv, ParentAlive, Alive, Begun, local
  <1>9. WaiterHasNoZombie'
    <2>1. \A i \in Slots : Zombies(i)' = Zombies(i)
      BY <1>3 DEF Zombies, Children
    <2> QED
      BY <1>1, <2>1 DEF WaiterHasNoZombie
  <1> QED
    BY <1>2, <1>5, <1>6, <1>7, <1>8, <1>9 DEF IInv

LEMMA WakeupStep ==
  ASSUME IInv, NEW c \in CPUs, NEW ch \in Chans, Wakeup(c, ch)
  PROVE  IInv'
  <1>1. TypeOK
    BY DEF IInv
  <1>2. /\ plock = None /\ state' = wakeup1(state, ch)
        /\ UNCHANGED <<pid, parent, killed, chan, kstack, nextpid, cpu, local>>
    BY DEF Wakeup
  <1>3. TypeOK'
    <2>1. state' \in [Slots -> States]
      BY <1>1, <1>2, Types DEF wakeup1, States
    <2> QED
      BY <1>1, <1>2, <2>1 DEF TypeOK, cpu, local
  <1>4. \A i \in Slots : state'[i] = state[i] \/ (state[i] = "SLEEPING" /\ state'[i] = "RUNNABLE")
    BY <1>2 DEF wakeup1
  <1> QED
    BY <1>2, <1>3, <1>4, WakeStep

LEMMA KillStep ==
  ASSUME IInv, NEW c \in CPUs, NEW p \in Slots, NEW k \in KillPids, Kill(c, p, k)
  PROVE  IInv'
  <1>1. TypeOK
    BY DEF IInv
  <1>2. PICK t \in Slots :
        /\ plock = None /\ killed' = [killed EXCEPT ![t] = TRUE]
        /\ state' = [state EXCEPT ![t] = IF @ = "SLEEPING" THEN "RUNNABLE" ELSE @]
        /\ UNCHANGED <<pid, parent, chan, kstack, nextpid, cpu, local>>
    <2>1. Named(k) # {} /\ Named(k) \in SUBSET Nat
      BY Constants DEF Kill, Named
    <2>2. Min(Named(k)) \in Named(k)
      BY <2>1, MinExists
    <2> QED
      BY <2>2 DEF Kill, Named
  <1>3. TypeOK'
    <2>1. state' \in [Slots -> States]
      BY <1>1, <1>2, Types DEF States
    <2> QED
      BY <1>1, <1>2, <2>1 DEF TypeOK, cpu, local
  <1>4. \A i \in Slots : state'[i] = state[i] \/ (state[i] = "SLEEPING" /\ state'[i] = "RUNNABLE")
    BY <1>1, <1>2, Types
  <1> QED
    BY <1>2, <1>3, <1>4, WakeStep

-----------------------------------------------------------------------------
(* Steps of fork(): p stays where it runs and changes one slot k, on which *)
(* no CPU is. *)
LEMMA ForkStep ==
  ASSUME IInv, NEW c \in CPUs, NEW p \in Slots, NEW k \in Slots,
         cproc[c] = p, plock # c, k # p,
         state[k] \in {"UNUSED", "EMBRYO"}, state'[k] \in {"UNUSED", "EMBRYO", "RUNNABLE"},
         pc'[k] \in {"none", "forkret"}, state'[k] = "UNUSED" => pc'[k] = "none",
         state'[k] = "RUNNABLE" => pc'[k] = "forkret" /\ kstack'[k] /\ parent'[k] = p,
         pc[p] \in {"kernel", "alloc", "ready"}, pc'[p] \in {"kernel", "alloc", "ready"},
         state'[p] = state[p],
         \A i \in Slots : i # k => state'[i] = state[i] /\ kstack'[i] = kstack[i] /\ parent'[i] = parent[i],
         \A i \in Slots : i # k /\ i # p => pc'[i] = pc[i],
         UNCHANGED <<chan, cpu, under, saved>>
  PROVE  PlaceInv' /\ CpuInv' /\ FlagInv' /\ InitInv' /\ ParentInv' /\ WaiterHasNoZombie'
  <1>1. TypeOK /\ PlaceInv /\ CpuInv /\ FlagInv /\ ForkInv /\ InitInv /\ ParentInv /\ WaiterHasNoZombie
    BY DEF IInv
  <1>2. state[p] = "RUNNING"
    BY <1>1, Constants DEF CpuInv, OnOneCpu
  <1>3. \A d \in CPUs : cproc[d] # k
    BY <1>1, Constants DEF CpuInv, Begun, Alive
  <1>4. \A d \in CPUs : d # c /\ cproc[d] # None => cproc[d] \in Slots /\ cproc[d] # p
    BY <1>1, Types DEF CpuInv, OnOneCpu
  <1>5. PlaceInv'
    BY <1>1, <1>2 DEF PlaceInv, Begun, Alive, Switched
  <1>6. CpuInv'
    <2>1. OnOneCpu'
      <3>1. \A i \in Slots : state'[i] = "RUNNING" => state[i] = "RUNNING"
        OBVIOUS
      <3>2. \A d \in CPUs : cproc[d] # None => state'[cproc[d]] = state[cproc[d]]
        BY <1>3, <1>4
      <3> QED
        BY <1>1, <3>1, <3>2 DEF CpuInv, OnOneCpu, cpu
    <2>2. ASSUME NEW d \in CPUs, cproc[d] # None
          PROVE  /\ state'[cproc[d]] \in Begun
                 /\ plock # d => pc'[cproc[d]] \in Interruptible \cup {"intr", "panic"}
                 /\ plock = d => pc'[cproc[d]] \in Switched \cup {"zombie"}
      <3>1. CASE d = c
        BY <1>2, <3>1 DEF Begun, Alive, Interruptible
      <3>2. CASE d # c
        BY <1>1, <1>3, <1>4, <2>2, <3>2 DEF CpuInv
      <3> QED
        BY <3>1, <3>2
    <2> QED
      BY <2>1, <2>2 DEF CpuInv, cpu
  <1>7. FlagInv'
    <2>1. ASSUME NEW d \in CPUs, NEW i \in Slots, cproc[d] = i, plock # d
          PROVE  /\ pc'[i] \in {"user", "kernel", "alloc", "ready"} => IF_[d]
                 /\ pc'[i] = "intr" => ~IF_[d]
      <3>1. CASE d = c
        BY <1>1, <2>1, <3>1 DEF FlagInv, FlagFollowsProcess
      <3>2. CASE d # c
        BY <1>1, <1>3, <1>4, <2>1, <3>2, Constants DEF FlagInv, FlagFollowsProcess
      <3> QED
        BY <3>1, <3>2
    <2>2. FlagFollowsProcess'
      BY <2>1 DEF FlagFollowsProcess, cpu
    <2>3. ASSUME NEW d \in CPUs, plock = d, cproc[d] # None PROVE Keeps(cproc[d], intena[d])'
      <3>1. cproc[d] \in Slots /\ cproc[d] # p /\ cproc[d] # k /\ Keeps(cproc[d], intena[d])
        BY <1>1, <1>3, <1>4, <2>3 DEF FlagInv
      <3> QED
        BY <3>1 DEF Keeps, cpu
    <2>4. ASSUME NEW i \in Slots, \A d \in CPUs : cproc[d] # i PROVE Keeps(i, saved[i])'
      <3>1. i # p /\ Keeps(i, saved[i])
        BY <1>1, <2>4 DEF FlagInv
      <3>2. CASE i = k
        BY <3>2 DEF Keeps
      <3>3. CASE i # k
        BY <3>1, <3>3 DEF Keeps
      <3> QED
        BY <3>2, <3>3
    <2>5. \A d \in CPUs : plock = d => ~IF_[d]
      BY <1>1 DEF FlagInv
    <2> QED
      BY <2>2, <2>3, <2>4, <2>5 DEF FlagInv, cpu
  <1>8. InitInv'
    <2>1. k # initproc
      BY <1>1 DEF InitInv, Alive
    <2> QED
      BY <1>1, <2>1, Constants DEF InitInv
  <1>9. ParentInv'
    <2>1. \A i \in Slots : state[i] \in Alive => state'[i] = state[i]
      BY DEF Alive
    <2>2. ASSUME NEW i \in Slots \ {initproc}, state'[i] \in Begun
          PROVE  parent'[i] \in Slots /\ state'[parent'[i]] \in Alive /\ parent'[i] # i
      <3>1. CASE i = k
        BY <1>2, <2>2, <3>1 DEF Begun, Alive
      <3>2. CASE i # k
        BY <1>1, <2>1, <2>2, <3>2 DEF ParentInv, ParentAlive, Begun, Alive
      <3> QED
        BY <3>1, <3>2
    <2> QED
      BY <2>2 DEF ParentInv, ParentAlive, Begun, Alive
  <1>10. WaiterHasNoZombie'
    BY <1>1 DEF WaiterHasNoZombie, Zombies, Children
  <1> QED
    BY <1>5, <1>6, <1>7, <1>8, <1>9, <1>10

LEMMA AllocProcStep ==
  ASSUME IInv, NEW c \in CPUs, NEW p \in Slots, AllocProc(c, p)
  PROVE  IInv'
  <1>1. TypeOK /\ PlaceInv /\ ForkInv
    BY DEF IInv
  <1>2. PICK k \in Slots :
        /\ state[k] = "UNUSED" /\ nextpid <= MaxPid /\ nextpid' = nextpid + 1
        /\ state' = [state EXCEPT ![k] = "EMBRYO"] /\ pid' = [pid EXCEPT ![k] = nextpid]
        /\ child' = [child EXCEPT ![p] = k] /\ pc' = [pc EXCEPT ![p] = "alloc"]
        /\ cproc[c] = p /\ pc[p] = "kernel" /\ plock # c
        /\ UNCHANGED <<parent, killed, chan, kstack, cpu, under, saved>>
    <2> DEFINE free == {i \in Slots : state[i] = "UNUSED"}
    <2>1. free # {} /\ free \in SUBSET Nat
      BY Constants DEF AllocProc
    <2>2. Min(free) \in free
      BY <2>1, MinExists
    <2> QED
      BY <2>2 DEF AllocProc, Runs, At
  <1>3. pc[k] = "none" /\ k # p
    BY <1>1, <1>2 DEF PlaceInv
  <1>4. TypeOK'
    <2>1. nextpid \in 0..MaxPid /\ nextpid' \in 1..MaxPid+1
      BY <1>1, <1>2, ProcAssumption DEF TypeOK
    <2> QED
      BY <1>1, <1>2, <2>1 DEF TypeOK, States, Labels, cpu
  <1>5. /\ state'[k] = "EMBRYO" /\ pc'[k] = "none" /\ pc'[p] = "alloc" /\ child'[p] = k
        /\ \A i \in Slots : (i # k => state'[i] = state[i]) /\ (i # p => pc'[i] = pc[i] /\ child'[i] = child[i])
    BY <1>1, <1>2, <1>3, Types
  <1>6. PlaceInv' /\ CpuInv' /\ FlagInv' /\ InitInv' /\ ParentInv' /\ WaiterHasNoZombie'
    BY <1>2, <1>3, <1>5, ForkStep
  <1>7. ForkInv'
    <2>1. \A q \in Slots : q # p => Where(q)' = Where(q)
      BY <1>2, <1>5 DEF Where
    <2>2. Where(p)' = "alloc"
      BY <1>2, <1>5 DEF Where
    <2>3. \A q \in Slots : q # p /\ Forking(q)' => Forking(q) /\ child[q] \in Slots /\ child[q] # k /\ child[q] # p
      BY <1>1, <1>2, <2>1 DEF Forking, ForkInv
    <2> QED
      BY <1>1, <1>2, <1>3, <1>5, <2>1, <2>2, <2>3 DEF ForkInv, Forking
  <1> QED
    BY <1>4, <1>6, <1>7 DEF IInv

LEMMA ForkFailsStep ==
  ASSUME IInv, NEW c \in CPUs, NEW p \in Slots, ForkFails(c, p)
  PROVE  IInv'
  <1>1. TypeOK /\ PlaceInv /\ ForkInv /\ state[p] = "RUNNING"
    BY RunsRunning DEF IInv, ForkFails
  <1>2. PICK k \in Slots :
        /\ k = child[p] /\ state[k] = "EMBRYO" /\ pc[k] = "none"
        /\ state' = [state EXCEPT ![k] = "UNUSED"] /\ child' = [child EXCEPT ![p] = None]
        /\ pc' = [pc EXCEPT ![p] = "kernel"] /\ cproc[c] = p /\ pc[p] = "alloc" /\ plock # c
        /\ UNCHANGED <<pid, parent, killed, chan, kstack, nextpid, cpu, under, saved>>
    <2>1. pc[p] = "alloc" /\ cproc[c] = p /\ plock # c
      BY DEF ForkFails, Runs
    <2>2. Where(p) = "alloc" /\ Forking(p)
      BY <2>1 DEF Where, Forking
    <2>3. child[p] \in Slots /\ state[child[p]] = "EMBRYO" /\ pc[child[p]] = "none"
      BY <1>1, <2>2 DEF ForkInv
    <2> QED
      BY <2>1, <2>3 DEF ForkFails, At
  <1>3. TypeOK' /\ k # p
    BY <1>1, <1>2 DEF TypeOK, States, Labels, cpu
  <1>4. /\ state'[k] = "UNUSED" /\ pc'[k] = "none" /\ pc'[p] = "kernel"
        /\ \A i \in Slots : (i # k => state'[i] = state[i]) /\ (i # p => pc'[i] = pc[i] /\ child'[i] = child[i])
    BY <1>1, <1>2, <1>3, Types
  <1>5. PlaceInv' /\ CpuInv' /\ FlagInv' /\ InitInv' /\ ParentInv' /\ WaiterHasNoZombie'
    BY <1>2, <1>3, <1>4, ForkStep
  <1>6. ForkInv'
    <2>1. \A q \in Slots : q # p => Where(q)' = Where(q)
      BY <1>2, <1>4 DEF Where
    <2>2. Where(p)' = "kernel" /\ Forking(p)
      BY <1>2, <1>4 DEF Where, Forking
    <2>3. \A q \in Slots : q # p /\ Forking(q) => child[q] \in Slots /\ child[q] # k /\ child[q] # p
      BY <1>1, <1>2, <2>2 DEF ForkInv
    <2>4. \A q \in Slots : Forking(q)' => q # p /\ Forking(q)
      BY <2>1, <2>2 DEF Forking
    <2>5. \A q \in Slots : Where(q)' \in {"alloc", "ready"} => Forking(q)'
      BY DEF Forking
    <2> QED
      BY <1>1, <1>2, <1>4, <2>1, <2>3, <2>4, <2>5 DEF ForkInv
  <1> QED
    BY <1>3, <1>5, <1>6 DEF IInv

LEMMA ForkFillStep ==
  ASSUME IInv, NEW c \in CPUs, NEW p \in Slots, ForkFill(c, p)
  PROVE  IInv'
  <1>1. TypeOK /\ PlaceInv /\ ForkInv /\ state[p] = "RUNNING"
    BY RunsRunning DEF IInv, ForkFill
  <1>2. PICK k \in Slots :
        /\ k = child[p] /\ state[k] = "EMBRYO" /\ pc[k] = "none"
        /\ kstack' = [kstack EXCEPT ![k] = TRUE] /\ parent' = [parent EXCEPT ![k] = p]
        /\ pc' = [pc EXCEPT ![p] = "ready", ![k] = "forkret"] /\ cproc[c] = p /\ pc[p] = "alloc" /\ plock # c
        /\ UNCHANGED <<state, pid, killed, chan, nextpid, cpu, under, child, saved>>
    BY <1>1 DEF ForkFill, Runs, ForkInv, Forking, Where
  <1>3. TypeOK' /\ k # p
    BY <1>1, <1>2 DEF TypeOK, Labels, cpu
  <1>4. /\ pc'[k] = "forkret" /\ pc'[p] = "ready" /\ kstack'[k] /\ parent'[k] = p
        /\ \A i \in Slots : i # k => kstack'[i] = kstack[i] /\ parent'[i] = parent[i]
        /\ \A i \in Slots : i # k /\ i # p => pc'[i] = pc[i]
        /\ \A i \in Slots : state'[i] = state[i] /\ child'[i] = child[i] /\ under'[i] = under[i]
    BY <1>1, <1>2, <1>3, Types
  <1>5. PlaceInv' /\ CpuInv' /\ FlagInv' /\ InitInv' /\ ParentInv' /\ WaiterHasNoZombie'
    <2>1. /\ cproc[c] = p /\ plock # c /\ UNCHANGED <<chan, cpu, under, saved>>
          /\ state[k] = "EMBRYO" /\ state'[k] = "EMBRYO" /\ state'[p] = state[p]
          /\ pc[p] \in {"kernel", "alloc", "ready"} /\ pc'[p] \in {"kernel", "alloc", "ready"}
          /\ pc'[k] \in {"none", "forkret"}
      BY <1>2, <1>4
    <2>2. \A i \in Slots : i # k => state'[i] = state[i] /\ kstack'[i] = kstack[i] /\ parent'[i] = parent[i]
      BY <1>4
    <2>3. \A i \in Slots : i # k /\ i # p => pc'[i] = pc[i]
      BY <1>4
    <2>4. state[k] \in {"UNUSED", "EMBRYO"} /\ state'[k] \in {"UNUSED", "EMBRYO", "RUNNABLE"}
          /\ state'[k] # "UNUSED" /\ state'[k] # "RUNNABLE"
      BY <2>1
    <2> QED
      BY <1>3, <2>1, <2>2, <2>3, <2>4, ForkStep
  <1>6. ForkInv'
    <2>1. \A q \in Slots : q # p /\ q # k => Where(q)' = Where(q)
      BY <1>4 DEF Where
    <2>2. Where(p)' = "ready" /\ Where(k)' = "forkret" /\ Forking(p)
      BY <1>2, <1>4 DEF Where, Forking
    <2>3. \A q \in Slots : q # p /\ Forking(q) => child[q] \in Slots /\ child[q] # k /\ child[q] # p
      BY <1>1, <1>2, <2>2 DEF ForkInv
    <2>4. \A q \in Slots : Forking(q)' => q = p \/ (q # k /\ Where(q)' = Where(q) /\ Forking(q))
      BY <2>1, <2>2 DEF Forking
    <2>5. \A q \in Slots : Where(q)' \in {"alloc", "ready"} => Forking(q)'
      BY DEF Forking
    <2>6. child'[p] = k /\ state'[k] = "EMBRYO" /\ pc'[k] = "forkret" /\ kstack'[k] /\ parent'[k] = p
      BY <1>2, <1>4
    <2>7. ASSUME NEW q \in Slots, Forking(q)', q # p
          PROVE  /\ child'[q] = child[q] /\ child'[q] \in Slots /\ child'[q] # k /\ state'[child'[q]] = "EMBRYO"
                 /\ Where(q)' = "alloc" => pc'[child'[q]] = "none"
                 /\ Where(q)' = "ready" =>
                       pc'[child'[q]] = "forkret" /\ kstack'[child'[q]] /\ parent'[child'[q]] = q
      <3>1. Forking(q) /\ Where(q)' = Where(q) /\ child'[q] = child[q]
        BY <1>4, <2>4, <2>7
      <3>2. child[q] \in Slots /\ child[q] # k /\ child[q] # p
        BY <2>3, <2>7, <3>1
      <3>3. UNCHANGED <<state[child[q]], pc[child[q]], kstack[child[q]], parent[child[q]]>>
        BY <1>4, <3>2
      <3> QED
        BY <1>1, <2>7, <3>1, <3>2, <3>3 DEF ForkInv
    <2>8. \A q, r \in Slots : Forking(q)' /\ Forking(r)' /\ child'[q] = child'[r] => q = r
      BY <1>1, <2>4, <2>6, <2>7 DEF ForkInv
    <2> QED
      BY <2>2, <2>5, <2>6, <2>7, <2>8 DEF ForkInv
  <1> QED
    BY <1>3, <1>5, <1>6 DEF IInv

LEMMA ForkReadyStep ==
  ASSUME IInv, NEW c \in CPUs, NEW p \in Slots, ForkReady(c, p)
  PROVE  IInv'
  <1>1. TypeOK /\ PlaceInv /\ ForkInv /\ state[p] = "RUNNING"
    BY RunsRunning DEF IInv, ForkReady
  <1>2. PICK k \in Slots :
        /\ k = child[p] /\ state[k] = "EMBRYO" /\ pc[k] = "forkret" /\ kstack[k] /\ parent[k] = p
        /\ state' = [state EXCEPT ![k] = "RUNNABLE"] /\ child' = [child EXCEPT ![p] = None]
        /\ pc' = [pc EXCEPT ![p] = "kernel"] /\ cproc[c] = p /\ pc[p] = "ready" /\ plock # c
        /\ UNCHANGED <<pid, parent, killed, chan, kstack, nextpid, cpu, under, saved>>
    BY <1>1 DEF ForkReady, Runs, At, ForkInv, Forking, Where
  <1>3. TypeOK' /\ k # p
    BY <1>1, <1>2 DEF TypeOK, States, Labels, cpu
  <1>4. /\ state'[k] = "RUNNABLE" /\ pc'[k] = "forkret" /\ pc'[p] = "kernel"
        /\ \A i \in Slots : (i # k => state'[i] = state[i]) /\ (i # p => pc'[i] = pc[i] /\ child'[i] = child[i])
    BY <1>1, <1>2, <1>3, Types
  <1>5. PlaceInv' /\ CpuInv' /\ FlagInv' /\ InitInv' /\ ParentInv' /\ WaiterHasNoZombie'
    BY <1>2, <1>3, <1>4, ForkStep
  <1>6. ForkInv'
    <2>1. \A q \in Slots : q # p => Where(q)' = Where(q)
      BY <1>2, <1>4 DEF Where
    <2>2. Where(p)' = "kernel" /\ Forking(p)
      BY <1>2, <1>4 DEF Where, Forking
    <2>3. \A q \in Slots : q # p /\ Forking(q) => child[q] \in Slots /\ child[q] # k /\ child[q] # p
      BY <1>1, <1>2, <2>2 DEF ForkInv
    <2>4. \A q \in Slots : Forking(q)' => q # p /\ Forking(q)
      BY <2>1, <2>2 DEF Forking
    <2>5. \A q \in Slots : Where(q)' \in {"alloc", "ready"} => Forking(q)'
      BY DEF Forking
    <2> QED
      BY <1>1, <1>2, <1>4, <2>1, <2>3, <2>4, <2>5 DEF ForkInv
  <1> QED
    BY <1>3, <1>5, <1>6 DEF IInv

-----------------------------------------------------------------------------
(* exit() wakes the parent, also the one that inherits a zombie. *)
LEMMA ExitStep ==
  ASSUME IInv, NEW c \in CPUs, NEW p \in Slots, Exit(c, p)
  PROVE  IInv'
  <1>1. /\ TypeOK /\ PlaceInv /\ CpuInv /\ FlagInv /\ ForkInv /\ InitInv /\ ParentInv /\ WaiterHasNoZombie
        /\ state[p] = "RUNNING" /\ initproc \in Slots /\ None \notin Slots
    BY RunsRunning, Constants DEF IInv, Exit
  <1>2. /\ cproc[c] = p /\ pc[p] = "exit" /\ plock = None /\ plock' = c /\ Disown(p)
        /\ intena' = [intena EXCEPT ![c] = IF_[c]] /\ IF_' = [IF_ EXCEPT ![c] = FALSE]
        /\ pc' = [pc EXCEPT ![p] = "zombie"]
        /\ UNCHANGED <<pid, killed, chan, kstack, nextpid, cproc, scan, under, child, saved>>
    BY DEF Exit, Runs, Acquire, At
  <1>3. p # initproc /\ parent[p] \in Slots /\ parent[p] # p /\ state[parent[p]] \in Alive
    BY <1>1, <1>2 DEF InitInv, ParentInv, ParentAlive, Begun, Alive
  <1>4. parent' = [i \in Slots |-> IF parent[i] = p THEN initproc ELSE parent[i]]
    BY <1>2 DEF Disown, Children
  <1> DEFINE told == wakeup1(state, parent[p])
             orphans == \E i \in Children(p) : state[i] = "ZOMBIE"
  <1>5. state' = [IF orphans THEN wakeup1(told, initproc) ELSE told EXCEPT ![p] = "ZOMBIE"]
    BY <1>1, <1>2, <1>3 DEF Disown
  <1>6. /\ told \in [Slots -> States]
        /\ \A i \in Slots : told[i] = IF state[i] = "SLEEPING" /\ chan[i] = parent[p] THEN "RUNNABLE" ELSE state[i]
    BY <1>1, Types DEF wakeup1, States
  <1>7. /\ wakeup1(told, initproc) \in [Slots -> States]
        /\ \A i \in Slots : wakeup1(told, initproc)[i] =
               IF told[i] = "SLEEPING" /\ chan[i] = initproc THEN "RUNNABLE" ELSE told[i]
    BY <1>6 DEF wakeup1, States
  <1> HIDE DEF told, orphans
  <1>8. state' \in [Slots -> States] /\ state'[p] = "ZOMBIE"
    BY <1>5, <1>6, <1>7 DEF States
  <1>9. \A i \in Slots : i # p =>
           \/ state'[i] = state[i] /\ (state[i] = "SLEEPING" => chan[i] # parent[p] /\ (orphans => chan[i] # initproc))
           \/ state[i] = "SLEEPING" /\ state'[i] = "RUNNABLE"
    BY <1>5, <1>6, <1>7
  <1>10. pc'[p] = "zombie" /\ \A i \in Slots : i # p => pc'[i] = pc[i]
    BY <1>1, <1>2, Types
  <1>11. \A i \in Slots : i # p => (state'[i] \in Alive <=> state[i] \in Alive) /\ (state'[i] \in Begun <=> state[i] \in Begun)
    BY <1>9 DEF Alive, Begun
  <1>12. TypeOK'
    <2>1. parent' \in [Slots -> Slots \cup {None}]
      BY <1>1, <1>4, Types
    <2> QED
      BY <1>1, <1>2, <1>8, <2>1 DEF TypeOK, Labels
  <1>13. PlaceInv'
    BY <1>1, <1>2, <1>8, <1>9, <1>10 DEF PlaceInv, Begun, Alive, Switched
  <1>14. \A d \in CPUs : d # c => plock # d /\ plock' # d /\ cproc[d] # p
    BY <1>1, <1>2, Constants DEF CpuInv, OnOneCpu
  <1>15. CpuInv'
    <2>1. \A i \in Slots : i # p => (state'[i] = "RUNNING" <=> state[i] = "RUNNING")
      BY <1>9
    <2>2. \A d \in CPUs : d # c /\ cproc[d] # None => cproc[d] \in Slots /\ cproc[d] # p
      BY <1>1, <1>14, Types
    <2>3. OnOneCpu'
      <3>1. ASSUME NEW d \in CPUs, cproc[d] # None PROVE state'[cproc[d]] = "RUNNING" \/ plock' = d
        BY <1>1, <1>2, <1>14, <2>1, <2>2, <3>1 DEF CpuInv, OnOneCpu
      <3> QED
        BY <1>1, <1>2, <1>8, <2>1, <3>1 DEF CpuInv, OnOneCpu
    <2>4. ASSUME NEW d \in CPUs, cproc[d] # None
          PROVE  /\ state'[cproc[d]] \in Begun
                 /\ plock' # d => pc'[cproc[d]] \in Interruptible \cup {"intr", "panic"}
                 /\ plock' = d => pc'[cproc[d]] \in Switched \cup {"zombie"}
      <3>1. CASE d = c
        BY <1>2, <1>8, <1>10, <3>1 DEF Begun
      <3>2. CASE d # c
        BY <1>1, <1>10, <1>11, <1>14, <2>2, <2>4, <3>2 DEF CpuInv
      <3> QED
        BY <3>1, <3>2
    <2> QED
      BY <1>2, <2>3, <2>4 DEF CpuInv
  <1>16. FlagInv'
    <2>1. \A d \in CPUs : d # c => IF_'[d] = IF_[d]
      BY <1>1, <1>2, Types
    <2>2. FlagFollowsProcess'
      BY <1>1, <1>2, <1>10, <1>14, <2>1 DEF FlagInv, FlagFollowsProcess
    <2>3. ~IF_'[c]
      BY <1>1, <1>2, Types
    <2>4. ASSUME NEW d \in CPUs, plock' = d, cproc'[d] # None PROVE Keeps(cproc[d], intena[d])'
      <3>1. d = c /\ cproc'[d] = p
        BY <1>2, <2>4
      <3> QED
        BY <1>10, <3>1 DEF Keeps
    <2>5. ASSUME NEW i \in Slots, \A d \in CPUs : cproc[d] # i PROVE Keeps(i, saved[i])'
      <3>1. i # p /\ Keeps(i, saved[i])
        BY <1>1, <1>2, <2>5 DEF FlagInv
      <3> QED
        BY <1>2, <1>10, <3>1 DEF Keeps
    <2> QED
      BY <1>2, <2>2, <2>3, <2>4, <2>5 DEF FlagInv
  <1>17. ForkInv'
    <2>1. \A q \in Slots : q # p => Where(q)' = Where(q)
      BY <1>2, <1>10 DEF Where
    <2>2. ~Forking(p)'
      BY <1>10 DEF Forking, Where
    <2>3. \A q \in Slots : Forking(q)' => q # p /\ Forking(q) /\ Where(q)' = Where(q)
      BY <2>1, <2>2 DEF Forking
    <2>4. \A q \in Slots : Forking(q) => /\ child[q] \in Slots /\ child[q] # p
                                          /\ state'[child[q]] = "EMBRYO" /\ pc'[child[q]] = pc[child[q]]
      BY <1>1, <1>9, <1>10 DEF ForkInv
    <2>5. \A q \in Slots : q # p /\ Forking(q) /\ parent[child[q]] = q => parent'[child[q]] = q
      BY <1>1, <1>4 DEF ForkInv
    <2>6. \A q \in Slots : Where(q)' \in {"alloc", "ready"} => Forking(q)'
      BY DEF Forking
    <2> QED
      BY <1>1, <1>2, <2>3, <2>4, <2>5, <2>6 DEF ForkInv
  <1>18. InitInv'
    BY <1>1, <1>2, <1>3, <1>10, <1>11 DEF InitInv
  <1>19. ParentInv'
    <2>1. ASSUME NEW i \in Slots \ {initproc}, state'[i] \in Begun
          PROVE  parent'[i] \in Slots /\ state'[parent'[i]] \in Alive /\ parent'[i] # i
      <3>1. state[i] \in Begun
        BY <1>1, <1>11, <2>1 DEF Begun, Alive
      <3>2. parent[i] \in Slots /\ state[parent[i]] \in Alive /\ parent[i] # i
        BY <1>1, <3>1 DEF ParentInv, ParentAlive, Begun, Alive
      <3>3. parent'[i] = IF parent[i] = p THEN initproc ELSE parent[i]
        BY <1>4
      <3> QED
        BY <1>1, <1>3, <1>11, <3>2, <3>3 DEF InitInv
    <2> QED
      BY <2>1 DEF ParentInv, ParentAlive, Begun, Alive
  <1>20. WaiterHasNoZombie'
    <2> SUFFICES ASSUME NEW i \in Slots, state'[i] = "SLEEPING", chan[i] = i,
                        NEW z \in Slots, parent'[z] = i, state'[z] = "ZOMBIE"
                 PROVE  FALSE
      BY <1>2 DEF WaiterHasNoZombie, Zombies, Children
    <2>1. i # p /\ state[i] = "SLEEPING" /\ i # parent[p] /\ (orphans => i # initproc)
      BY <1>8, <1>9
    <2>2. CASE z = p
      BY <1>3, <1>4, <2>1, <2>2
    <2>3. CASE z # p /\ parent[z] = p
      <3>1. state[z] = "ZOMBIE" /\ i = initproc
        BY <1>4, <1>9, <2>3
      <3> QED
        BY <2>1, <2>3, <3>1 DEF orphans, Children
    <2>4. CASE z # p /\ parent[z] # p
      <3>1. state[z] = "ZOMBIE" /\ parent[z] = i
        BY <1>4, <1>9, <2>4
      <3> QED
        BY <1>1, <2>1, <3>1 DEF WaiterHasNoZombie, Zombies, Children
    <2> QED
      BY <2>2, <2>3, <2>4
  <1> QED
    BY <1>12, <1>13, <1>15, <1>16, <1>17, <1>18, <1>19, <1>20 DEF IInv

(* wait() frees the slot of a child that no CPU is on any more. *)
LEMMA WaitReapStep ==
  ASSUME IInv, NEW c \in CPUs, NEW p \in Slots, WaitReap(c, p)
  PROVE  IInv'
  <1>1. TypeOK /\ PlaceInv /\ CpuInv /\ FlagInv /\ ForkInv /\ InitInv /\ ParentInv /\ WaiterHasNoZombie
    BY DEF IInv
  <1>2. PICK z \in Slots :
        /\ state[z] = "ZOMBIE" /\ parent[z] = p
        /\ state' = [state EXCEPT ![z] = "UNUSED"] /\ pid' = [pid EXCEPT ![z] = 0]
        /\ parent' = [parent EXCEPT ![z] = None] /\ killed' = [killed EXCEPT ![z] = FALSE]
        /\ kstack' = [kstack EXCEPT ![z] = FALSE] /\ pc' = [pc EXCEPT ![p] = "kernel", ![z] = "none"]
        /\ chan' = [chan EXCEPT ![p] = None] /\ plock' = None
        /\ UNCHANGED <<nextpid, cproc, scan, intena, under, child, saved>>
    <2>1. Zombies(p) # {} /\ Zombies(p) \in SUBSET Nat
      BY Constants DEF WaitReap, Zombies, Children
    <2>2. Min(Zombies(p)) \in Zombies(p)
      BY <2>1, MinExists
    <2> QED
      BY <2>2 DEF WaitReap, Zombies, Children
  <1>3. /\ cproc[c] = p /\ state[p] = "RUNNING" /\ pc[p] \in {"kernel", "wait"} /\ plock \in {None, c}
        /\ IF_'[c] /\ IF_' \in [CPUs -> BOOLEAN] /\ \A d \in CPUs : d # c => IF_'[d] = IF_[d]
    BY InWaitFacts DEF WaitReap
  <1>4. z # p
    BY <1>2, <1>3
  <1>5. TypeOK'
    <2>1. /\ state' \in [Slots -> States] /\ pid' \in [Slots -> 0..MaxPid]
          /\ parent' \in [Slots -> Slots \cup {None}] /\ killed' \in [Slots -> BOOLEAN]
          /\ kstack' \in [Slots -> BOOLEAN] /\ chan' \in [Slots -> Slots \cup Chans \cup {None}]
      BY <1>1, <1>2, ProcAssumption DEF TypeOK, States
    <2>2. pc' \in [Slots -> Labels]
      BY <1>1, <1>2 DEF TypeOK, Labels
    <2> QED
      BY <1>1, <1>2, <1>3, <2>1, <2>2 DEF TypeOK
  <1>6. /\ state'[z] = "UNUSED" /\ pc'[z] = "none" /\ pc'[p] = "kernel" /\ chan'[p] = None /\ state'[p] = "RUNNING"
        /\ \A i \in Slots : i # z => state'[i] = state[i] /\ parent'[i] = parent[i] /\ kstack'[i] = kstack[i]
        /\ \A i \in Slots : i # z /\ i # p => pc'[i] = pc[i]
        /\ \A i \in Slots : i # p => chan'[i] = chan[i]
    BY <1>1, <1>2, <1>3, <1>4, Types
  <1>7. \A d \in CPUs : /\ d # c => plock # d /\ cproc[d] # p
                        /\ cproc[d] # z /\ plock' # d
    BY <1>1, <1>2, <1>3, <1>4, Constants DEF CpuInv, OnOneCpu
  <1>8. \A d \in CPUs : cproc[d] # None => cproc[d] \in Slots
    BY <1>1, Types
  <1>9. UNCHANGED <<cproc, under, child, saved>>
    BY <1>2
  <1>10. PlaceInv'
    BY <1>1, <1>3, <1>6, <1>9 DEF PlaceInv, Begun, Alive
  <1>11. CpuInv'
    <2>1. OnOneCpu'
      BY <1>1, <1>3, <1>6, <1>7, <1>8, <1>9 DEF CpuInv, OnOneCpu
    <2>2. ASSUME NEW d \in CPUs, cproc[d] # None
          PROVE  state'[cproc[d]] \in Begun /\ pc'[cproc[d]] \in Interruptible \cup {"intr", "panic"}
      <3>1. CASE d = c
        BY <1>3, <1>6, <3>1 DEF Begun, Alive, Interruptible
      <3>2. CASE d # c
        BY <1>1, <1>6, <1>7, <1>8, <2>2, <3>2 DEF CpuInv
      <3> QED
        BY <3>1, <3>2
    <2> QED
      BY <1>7, <1>9, <2>1, <2>2 DEF CpuInv
  <1>12. FlagInv'
    <2>1. ASSUME NEW d \in CPUs, NEW i \in Slots, cproc[d] = i
          PROVE  /\ pc'[i] \in {"user", "kernel", "alloc", "ready"} => IF_'[d]
                 /\ pc'[i] = "intr" => ~IF_'[d]
      <3>1. CASE d = c
        BY <1>3, <1>6, <2>1, <3>1
      <3>2. CASE d # c
        BY <1>1, <1>3, <1>6, <1>7, <2>1, <3>2 DEF FlagInv, FlagFollowsProcess
      <3> QED
        BY <3>1, <3>2
    <2>2. FlagFollowsProcess'
      BY <1>9, <2>1 DEF FlagFollowsProcess
    <2>3. ASSUME NEW i \in Slots, \A d \in CPUs : cproc[d] # i PROVE Keeps(i, saved[i])'
      <3>1. i # p /\ Keeps(i, saved[i])
        BY <1>1, <1>3, <2>3 DEF FlagInv
      <3>2. CASE i = z
        BY <1>6, <3>2 DEF Keeps
      <3>3. CASE i # z
        BY <1>6, <1>9, <3>1, <3>3 DEF Keeps
      <3> QED
        BY <3>2, <3>3
    <2> QED
      BY <1>7, <1>9, <2>2, <2>3 DEF FlagInv
  <1>13. ForkInv'
    <2>1. \A q \in Slots : q # p /\ q # z => Where(q)' = Where(q)
      BY <1>6, <1>9 DEF Where
    <2>2. ~Forking(p)' /\ ~Forking(z)'
      BY <1>6 DEF Forking, Where
    <2>3. \A q \in Slots : Forking(q)' => Forking(q) /\ Where(q)' = Where(q)
      BY <2>1, <2>2 DEF Forking
    <2>4. ASSUME NEW q \in Slots, Forking(q)
          PROVE  /\ child[q] \in Slots /\ child[q] # z /\ child[q] # p
                 /\ UNCHANGED <<state[child[q]], pc[child[q]], kstack[child[q]], parent[child[q]]>>
      <3>1. child[q] \in Slots /\ child[q] # z /\ child[q] # p
        BY <1>1, <1>2, <1>3, <2>4 DEF ForkInv
      <3> QED
        BY <1>6, <1>9, <3>1
    <2>5. \A q \in Slots : Where(q)' \in {"alloc", "ready"} => Forking(q)'
      BY DEF Forking
    <2> QED
      BY <1>1, <1>9, <2>3, <2>4, <2>5 DEF ForkInv
  <1>14. InitInv'
    <2>1. z # initproc
      BY <1>1, <1>2 DEF InitInv, Alive
    <2> QED
      BY <1>1, <1>6, <1>9, <2>1, Constants DEF InitInv
  <1>15. ParentInv'
    <2>1. ASSUME NEW i \in Slots \ {initproc}, state'[i] \in Begun
          PROVE  parent'[i] \in Slots /\ state'[parent'[i]] \in Alive /\ parent'[i] # i
      <3>1. i # z /\ state[i] \in Begun
        BY <1>6, <2>1 DEF Begun, Alive
      <3>2. parent[i] \in Slots /\ state[parent[i]] \in Alive /\ parent[i] # i
        BY <1>1, <3>1 DEF ParentInv, ParentAlive, Begun, Alive
      <3>3. parent[i] # z
        BY <1>2, <3>2 DEF Alive
      <3> QED
        BY <1>6, <3>1, <3>2, <3>3
    <2> QED
      BY <2>1 DEF ParentInv, ParentAlive, Begun, Alive
  <1>16. WaiterHasNoZombie'
    <2> SUFFICES ASSUME NEW i \in Slots, state'[i] = "SLEEPING", chan'[i] = i,
                        NEW y \in Slots, parent'[y] = i, state'[y] = "ZOMBIE"
                 PROVE  FALSE
      BY DEF WaiterHasNoZombie, Zombies, Children
    <2>1. i # p /\ i # z /\ y # z
      BY <1>6, Constants
    <2>2. state[i] = "SLEEPING" /\ chan[i] = i /\ parent[y] = i /\ state[y] = "ZOMBIE"
      BY <1>6, <2>1
    <2> QED
      BY <1>1, <2>2 DEF WaiterHasNoZombie, Zombies, Children
  <1> QED
    BY <1>5, <1>10, <1>11, <1>12, <1>13, <1>14, <1>15, <1>16 DEF IInv

-----------------------------------------------------------------------------
LEMMA NextIInv ==
  ASSUME IInv, [Next]_vars
  PROVE  IInv'
  <1>1. CASE UNCHANGED vars
    <2>1. UNCHANGED <<table, cpu, local>>
      BY <1>1 DEF vars
    <2>2. PlaceInv' /\ ForkInv' /\ InitInv' /\ ParentInv' /\ WaiterHasNoZombie'
      BY <2>1, SameSlots DEF local
    <2>3. TypeOK' /\ CpuInv'
      BY <2>1 DEF IInv, TypeOK, CpuInv, OnOneCpu, table, cpu, local
    <2>4. FlagInv'
      BY <2>1 DEF IInv, FlagInv, FlagFollowsProcess, Keeps, table, cpu, local
    <2> QED
      BY <2>2, <2>3, <2>4 DEF IInv
  <1>2. ASSUME NEW c \in CPUs, scheduler(c) \/ \E ch \in Chans : Wakeup(c, ch) PROVE IInv'
    BY <1>2, SchedLockStep, DispatchStep, SwtchStep, SchedReleaseStep, WakeupStep DEF scheduler
  <1>3. ASSUME NEW c \in CPUs, NEW p \in Slots, trap(c, p) PROVE IInv'
    BY <1>3, ForkretStep, TrapStep, YieldStep, YieldReturnStep, IntrReturnStep DEF trap
  <1>4. ASSUME NEW c \in CPUs, NEW p \in Slots, sleep(c, p) \/ wait(c, p) PROVE IInv'
    BY <1>4, SleepStep, SleepReturnStep, WaitReapStep, WaitFailsStep, WaitSleepStep DEF sleep, wait
  <1>5. ASSUME NEW c \in CPUs, NEW p \in Slots, fork(c, p) \/ exit(c, p) PROVE IInv'
    BY <1>5, AllocProcStep, ForkFailsStep, ForkFillStep, ForkReadyStep, TrapStep, ExitStep DEF fork, exit
  <1>6. ASSUME NEW c \in CPUs, NEW p \in Slots, NEW k \in KillPids, Kill(c, p, k) PROVE IInv'
    BY <1>6, KillStep
  <1> QED
    BY <1>1, <1>2, <1>3, <1>4, <1>5, <1>6 DEF Next

(* What the steps of the CPUs and of the processes keep true.              *)
THEOREM Inductive == Spec => []IInv
  <1>1. Init => IInv
    BY InitIInv
  <1>2. IInv /\ [Next]_vars => IInv'
    BY NextIInv
  <1> QED
    BY <1>1, <1>2, PTL DEF Spec

(* Every process that is not init has a parent that has not exited: exit() *)
(* passes on all children, dead ones too.                                  *)
THEOREM ProcInvHolds == Spec => []ProcInv
  <1>1. IInv => ProcInv
    BY DEF IInv, ParentInv, ProcInv
  <1> QED
    BY <1>1, Inductive, PTL

(* sched() hands over ptable.lock with the CPU: no two CPUs are on one     *)
(* stack, and a process that is RUNNING has a CPU.                         *)
THEOREM OnOneCpuHolds == Spec => []OnOneCpu
  <1>1. IInv => OnOneCpu
    BY DEF IInv, CpuInv
  <1> QED
    BY <1>1, Inductive, PTL

(* wait() frees no kernel stack that is still in use. *)
THEOREM StackKeptHolds == Spec => []StackKept
  <1>1. IInv => StackKept
    <2> SUFFICES ASSUME IInv PROVE StackKept
      OBVIOUS
    <2>1. \A i \in Slots : state[i] \in Begun => kstack[i]
      BY DEF IInv, PlaceInv
    <2>2. \A c \in CPUs : cproc[c] # None => cproc[c] \in Slots /\ state[cproc[c]] \in Begun
      BY Types DEF IInv, CpuInv
    <2> QED
      BY <2>1, <2>2 DEF StackKept, Begun, Alive
  <1> QED
    BY <1>1, Inductive, PTL

(* The interrupt flag travels with the process, through c->intena and the  *)
(* local variable of sched().                                              *)
THEOREM FlagFollowsProcessHolds == Spec => []FlagFollowsProcess
  <1>1. IInv => FlagFollowsProcess
    BY DEF IInv, FlagInv
  <1> QED
    BY <1>1, Inductive, PTL

(* exit() loses no wakeup of a parent in wait(). *)
THEOREM WaiterHasNoZombieHolds == Spec => []WaiterHasNoZombie
  <1>1. IInv => WaiterHasNoZombie
    BY DEF IInv
  <1> QED
    BY <1>1, Inductive, PTL
-----------------------------------------------------------------------------
(* Process ids: fork() gives a new one, and the slots in use have          *)
(* different ones.  init has no parent.                                    *)
InUse(i) == state[i] # "UNUSED"

IdInv ==
    /\ \A i \in Slots : pid[i] < nextpid
    /\ \A i \in Slots : InUse(i) => pid[i] > 0
    /\ \A i, j \in Slots : InUse(i) /\ InUse(j) /\ pid[i] = pid[j] => i = j
    /\ pid[initproc] = 1 /\ parent[initproc] = None

(* The tree of process ids that ProcTree is about. *)
Ids == {pid[i] : i \in Live \cup Dead}
LiveIds == {pid[i] : i \in Live}
DeadIds == {pid[i] : i \in Dead}
Parents == [k \in Ids |-> IF parent[SlotOf(k)] = None THEN 0 ELSE pid[parent[SlotOf(k)]]]

LEMMA InitIdInv == Init => IdInv
  BY Constants DEF Init, IdInv, InUse

LEMMA InTree == \A i \in Slots : (i \in Live <=> state[i] \in Alive) /\ (i \in Dead <=> state[i] = "ZOMBIE")
  BY DEF Live, Dead, Alive

(* Slots and ids correspond, and a parent is in the tree. *)
TreeOK ==
    /\ Live \subseteq Slots /\ Dead \subseteq Slots
    /\ \A i, j \in Live \cup Dead : pid[i] = pid[j] => i = j
    /\ \A i \in Live \cup Dead : pid[i] \in 1..MaxPid
    /\ \A i \in Live \cup Dead : parent[i] = None \/ parent[i] \in Live
    /\ initproc \in Live /\ pid[initproc] = 1
    /\ Ids = LiveIds \cup DeadIds
    /\ Parents = [k \in Ids |-> Parents[k]]
    /\ \A i \in Live \cup Dead : Parents[pid[i]] = IF parent[i] = None THEN 0 ELSE pid[parent[i]]

LEMMA TreeFacts == IInv /\ IdInv => TreeOK
  <1> SUFFICES ASSUME IInv, IdInv PROVE TreeOK
    OBVIOUS
  <1>1. Live \subseteq Slots /\ Dead \subseteq Slots
    BY DEF Live, Dead
  <1>2. \A i, j \in Live \cup Dead : pid[i] = pid[j] => i = j
    BY DEF IdInv, InUse, Live, Dead
  <1>3. \A i \in Live \cup Dead : pid[i] \in 1..MaxPid
    <2>1. ASSUME NEW i \in Slots, state[i] # "UNUSED" PROVE pid[i] \in 1..MaxPid
      <3>1. pid[i] \in 0..MaxPid /\ pid[i] > 0
        BY <2>1 DEF IdInv, InUse, IInv, TypeOK
      <3> QED
        BY <3>1, ProcAssumption
    <2> QED
      BY <2>1 DEF Live, Dead
  <1>4. /\ initproc \in Live /\ parent[initproc] = None /\ pid[initproc] = 1
    BY Constants DEF IdInv, IInv, InitInv, Alive, Live
  <1>5. \A i \in (Live \cup Dead) \ {initproc} : parent[i] \in Live
    BY DEF IInv, ParentInv, ParentAlive, Live, Dead
  <1>6. Ids = LiveIds \cup DeadIds
    BY DEF Ids, LiveIds, DeadIds
  <1>7. Parents = [k \in Ids |-> Parents[k]]
    BY DEF Parents
  <1>8. ASSUME NEW i \in Live \cup Dead
        PROVE  Parents[pid[i]] = IF parent[i] = None THEN 0 ELSE pid[parent[i]]
    <2>1. SlotOf(pid[i]) = i
      BY <1>2 DEF SlotOf
    <2>2. pid[i] \in Ids
      BY DEF Ids
    <2> QED
      BY <2>1, <2>2 DEF Parents
  <1> QED
    BY <1>1, <1>2, <1>3, <1>4, <1>5, <1>6, <1>7, <1>8 DEF TreeOK

-----------------------------------------------------------------------------
(* Steps that leave the tree alone: a slot changes only as long as nobody  *)
(* is in it.                                                               *)
LEMMA SameTree ==
  ASSUME IInv, IdInv, IInv', IdInv',
         \A i \in Slots : /\ state'[i] \in Alive <=> state[i] \in Alive
                          /\ state'[i] = "ZOMBIE" <=> state[i] = "ZOMBIE"
                          /\ state[i] \in Begun => pid'[i] = pid[i] /\ parent'[i] = parent[i]
  PROVE  UNCHANGED <<LiveIds, DeadIds, Parents>>
  <1>1. Live' = Live /\ Dead' = Dead
    BY DEF Live, Dead, Alive
  <1>2. \A i \in Live \cup Dead : pid'[i] = pid[i] /\ parent'[i] = parent[i]
    BY DEF Live, Dead, Begun, Alive
  <1>3. LiveIds' = LiveIds /\ DeadIds' = DeadIds /\ Ids' = Ids
    BY <1>1, <1>2 DEF LiveIds, DeadIds, Ids
  <1>4. TreeOK /\ TreeOK'
    BY TreeFacts, PTL
  <1>6. ASSUME NEW k \in Ids PROVE Parents'[k] = Parents[k]
    <2>1. PICK i \in Live \cup Dead : k = pid[i]
      BY DEF Ids
    <2>2. Parents'[pid'[i]] = IF parent'[i] = None THEN 0 ELSE pid'[parent'[i]]
      BY <1>1, <1>4 DEF TreeOK
    <2>3. parent[i] # None => pid'[parent[i]] = pid[parent[i]]
      BY <1>2, <1>4 DEF TreeOK
    <2> QED
      BY <1>2, <1>4, <2>1, <2>2, <2>3 DEF TreeOK
  <1>7. Parents' = Parents
    <2>1. Parents' = [k \in Ids |-> Parents'[k]] /\ Parents = [k \in Ids |-> Parents[k]]
      BY <1>3, <1>4 DEF TreeOK
    <2> QED
      BY <1>6, <2>1
  <1> QED
    BY <1>3, <1>7

(* The program outside fork(), exit() and wait(). *)
Aside ==
    /\ UNCHANGED <<pid, parent, nextpid>>
    /\ \A i \in Slots : state'[i] = state[i] \/ (state[i] \in Alive /\ state'[i] \in Alive)

LEMMA AsideStep ==
  ASSUME IInv, IdInv, IInv', Aside
  PROVE  IdInv' /\ UNCHANGED <<LiveIds, DeadIds, Parents>>
  <1>1. IdInv'
    BY DEF Aside, IdInv, InUse, Alive
  <1> QED
    BY <1>1, SameTree DEF Aside, Alive
LEMMA SchedulerAside ==
  ASSUME IInv, NEW c \in CPUs, scheduler(c) \/ \E ch \in Chans : Wakeup(c, ch)
  PROVE  Aside
  <1>1. state \in [Slots -> States]
    BY Types DEF IInv
  <1>2. CASE SchedLock(c) \/ SchedRelease(c) \/ Swtch(c)
    BY <1>2 DEF SchedLock, SchedRelease, Swtch, Aside, table
  <1>3. CASE Dispatch(c)
    <2>1. Candidates(c) # {} /\ Candidates(c) \in SUBSET Nat
      BY <1>3, Constants DEF Dispatch, Candidates
    <2>2. Min(Candidates(c)) \in Candidates(c)
      BY <2>1, MinExists
    <2> QED
      BY <1>1, <1>3, <2>2 DEF Dispatch, Candidates, Aside, Alive
  <1>4. CASE \E ch \in Chans : Wakeup(c, ch)
    BY <1>1, <1>4 DEF Wakeup, wakeup1, Aside, Alive
  <1> QED
    BY <1>2, <1>3, <1>4 DEF scheduler

LEMMA ProcessAside ==
  ASSUME IInv, NEW c \in CPUs, NEW p \in Slots,
         trap(c, p) \/ sleep(c, p) \/ SysExit(c, p) \/ WaitFails(c, p) \/ WaitSleep(c, p)
  PROVE  Aside
  <1>1. state \in [Slots -> States]
    BY Types DEF IInv
  <1>2. CASE \/ Forkret(c, p) \/ Syscall(c, p) \/ Sysret(c, p) \/ Fault(c, p) \/ TickExit(c, p)
            \/ YieldReturn(c, p) \/ IntrReturn(c, p) \/ SleepReturn(c, p) \/ SysExit(c, p) \/ WaitFails(c, p)
    BY <1>2 DEF Forkret, Syscall, Sysret, Fault, TickExit, YieldReturn, IntrReturn, SleepReturn, SysExit,
                WaitFails, Aside, table
  <1>3. CASE Yield(c, p)
    <2>1. state[p] = "RUNNING"
      BY <1>3, RunsRunning DEF Yield
    <2> QED
      BY <1>1, <1>3, <2>1 DEF Yield, Aside, Alive
  <1>4. CASE Sleep(c, p)
    <2>1. state[p] = "RUNNING"
      BY <1>4, RunsRunning DEF Sleep
    <2> QED
      BY <1>1, <1>4, <2>1 DEF Sleep, Aside, Alive
  <1>5. CASE WaitSleep(c, p)
    <2>1. state[p] = "RUNNING"
      BY <1>5, RunsRunning DEF WaitSleep, Resumed
    <2> QED
      BY <1>1, <1>5, <2>1 DEF WaitSleep, Aside, Alive
  <1> QED
    BY <1>2, <1>3, <1>4, <1>5 DEF trap, sleep

LEMMA KillAside ==
  ASSUME IInv, NEW c \in CPUs, NEW p \in Slots, NEW k \in KillPids, Kill(c, p, k)
  PROVE  Aside
  <1>1. state \in [Slots -> States]
    BY Types DEF IInv
  <1> DEFINE t == Min(Named(k))
  <1>2. state' = [state EXCEPT ![t] = IF @ = "SLEEPING" THEN "RUNNABLE" ELSE @] /\ UNCHANGED <<pid, parent, nextpid>>
    BY DEF Kill
  <1> HIDE DEF t
  <1> QED
    BY <1>1, <1>2 DEF Aside, Alive

-----------------------------------------------------------------------------
(* fork() before the child can run. *)
LEMMA AllocTree ==
  ASSUME IInv, IdInv, IInv', NEW c \in CPUs, NEW p \in Slots, AllocProc(c, p)
  PROVE  IdInv' /\ UNCHANGED <<LiveIds, DeadIds, Parents>>
  <1>1. PICK k \in Slots :
        /\ state[k] = "UNUSED" /\ nextpid' = nextpid + 1
        /\ state' = [state EXCEPT ![k] = "EMBRYO"] /\ pid' = [pid EXCEPT ![k] = nextpid]
        /\ parent' = parent
    <2> DEFINE free == {i \in Slots : state[i] = "UNUSED"}
    <2>1. free # {} /\ free \in SUBSET Nat
      BY Constants DEF AllocProc
    <2>2. Min(free) \in free
      BY <2>1, MinExists
    <2> QED
      BY <2>2 DEF AllocProc
  <1>2. /\ state \in [Slots -> States] /\ pid \in [Slots -> 0..MaxPid] /\ nextpid \in Nat /\ nextpid > 0
        /\ state[initproc] \in Alive /\ initproc \in Slots
    BY Constants, ProcAssumption DEF IInv, TypeOK, InitInv
  <1>3. /\ state'[k] = "EMBRYO" /\ pid'[k] = nextpid
        /\ \A i \in Slots : i # k => state'[i] = state[i] /\ pid'[i] = pid[i]
    BY <1>1, <1>2
  <1>4. \A i \in Slots : pid[i] \in Nat
    BY <1>2, ProcAssumption
  <1>5. IdInv'
    <2>1. \A i \in Slots : pid'[i] < nextpid'
      BY <1>1, <1>2, <1>3, <1>4 DEF IdInv
    <2>2. \A i \in Slots : InUse(i)' => pid'[i] > 0
      BY <1>2, <1>3 DEF IdInv, InUse
    <2>3. ASSUME NEW i \in Slots, NEW j \in Slots, InUse(i)', InUse(j)', pid'[i] = pid'[j] PROVE i = j
      <3>1. \A l \in Slots : pid[l] # nextpid
        BY <1>2, <1>4 DEF IdInv
      <3> QED
        BY <1>3, <2>3, <3>1 DEF IdInv, InUse
    <2>4. pid'[initproc] = 1 /\ parent'[initproc] = None
      BY <1>1, <1>2, <1>3 DEF IdInv, Alive
    <2> QED
      BY <2>1, <2>2, <2>3, <2>4 DEF IdInv
  <1> QED
    BY <1>1, <1>3, <1>5, SameTree DEF Begun, Alive

LEMMA ForkFailsTree ==
  ASSUME IInv, IdInv, IInv', NEW c \in CPUs, NEW p \in Slots, ForkFails(c, p)
  PROVE  IdInv' /\ UNCHANGED <<LiveIds, DeadIds, Parents>>
  <1>1. PICK k \in Slots :
        state[k] = "EMBRYO" /\ state' = [state EXCEPT ![k] = "UNUSED"] /\ UNCHANGED <<pid, parent, nextpid>>
    <2>1. Forking(p)
      BY DEF ForkFails, Runs, Forking, Where
    <2>2. child[p] \in Slots /\ state[child[p]] = "EMBRYO"
      BY <2>1 DEF IInv, ForkInv
    <2> QED
      BY <2>2 DEF ForkFails
  <1>2. state'[k] = "UNUSED" /\ \A i \in Slots : i # k => state'[i] = state[i]
    BY <1>1, Types DEF IInv
  <1>3. IdInv'
    BY <1>1, <1>2 DEF IdInv, InUse
  <1> QED
    BY <1>1, <1>2, <1>3, SameTree DEF Begun, Alive

LEMMA ForkFillTree ==
  ASSUME IInv, IdInv, IInv', NEW c \in CPUs, NEW p \in Slots, ForkFill(c, p)
  PROVE  IdInv' /\ UNCHANGED <<LiveIds, DeadIds, Parents>>
  <1>1. PICK k \in Slots :
        state[k] = "EMBRYO" /\ parent' = [parent EXCEPT ![k] = p] /\ UNCHANGED <<state, pid, nextpid>>
    <2>1. Forking(p)
      BY DEF ForkFill, Runs, Forking, Where
    <2>2. child[p] \in Slots /\ state[child[p]] = "EMBRYO"
      BY <2>1 DEF IInv, ForkInv
    <2> QED
      BY <2>2 DEF ForkFill
  <1>2. \A i \in Slots : i # k => parent'[i] = parent[i]
    BY <1>1, Types DEF IInv
  <1>3. k # initproc /\ initproc \in Slots
    BY <1>1, Constants DEF IInv, InitInv, Alive
  <1>4. IdInv'
    BY <1>1, <1>2, <1>3 DEF IdInv, InUse
  <1> QED
    BY <1>1, <1>2, <1>4, SameTree DEF Begun, Alive
-----------------------------------------------------------------------------
(* The child is RUNNABLE: fork() has happened. *)
LEMMA ForkTree ==
  ASSUME IInv, IdInv, IInv', NEW c \in CPUs, NEW p \in Slots, ForkReady(c, p)
  PROVE  IdInv' /\ \E q, new \in 1..MaxPid : Tree!Fork(q, new)
  <1>1. PICK k \in Slots :
        /\ state[k] = "EMBRYO" /\ parent[k] = p /\ state' = [state EXCEPT ![k] = "RUNNABLE"]
        /\ UNCHANGED <<pid, parent, nextpid>>
    <2>1. Where(p) = "ready"
      BY DEF ForkReady, Runs, Where
    <2>2. child[p] \in Slots /\ state[child[p]] = "EMBRYO" /\ parent[child[p]] = p
      BY <2>1 DEF IInv, ForkInv, Forking
    <2> QED
      BY <2>2 DEF ForkReady
  <1>2. state'[k] = "RUNNABLE" /\ \A i \in Slots : i # k => state'[i] = state[i]
    BY <1>1, Types DEF IInv
  <1>3. IdInv'
    BY <1>1, <1>2 DEF IdInv, InUse
  <1>4. state[p] = "RUNNING"
    BY RunsRunning DEF ForkReady
  <1>5. Live' = Live \cup {k} /\ Dead' = Dead /\ k \notin Live \cup Dead /\ p \in Live
    BY <1>1, <1>2, <1>4 DEF Live, Dead
  <1>6. TreeOK /\ TreeOK'
    BY <1>3, TreeFacts, PTL
  <1>7. /\ pid[k] \in 1..MaxPid /\ pid[p] \in 1..MaxPid
        /\ \A i \in Live \cup Dead : pid[i] # pid[k]
    <2>1. \A i \in Slots : i # k /\ state[i] # "UNUSED" => pid[i] # pid[k]
      BY <1>1 DEF IdInv, InUse
    <2>2. pid[k] \in 1..MaxPid
      BY <1>1, <1>5, <1>6 DEF TreeOK
    <2> QED
      BY <1>5, <1>6, <2>1, <2>2 DEF TreeOK, Live, Dead
  <1>8. LiveIds' = LiveIds \cup {pid[k]} /\ DeadIds' = DeadIds /\ Ids' = Ids \cup {pid[k]}
    BY <1>1, <1>5 DEF LiveIds, DeadIds, Ids
  <1>9. ASSUME NEW q \in Ids'
        PROVE  Parents'[q] = IF q = pid[k] THEN pid[p] ELSE Parents[q]
    <2>1. PICK i \in Live' \cup Dead' : q = pid[i]
      BY <1>1 DEF Ids
    <2>2. Parents'[q] = IF parent[i] = None THEN 0 ELSE pid[parent[i]]
      BY <1>1, <1>6, <2>1 DEF TreeOK
    <2>3. CASE i = k
      BY <1>1, <2>1, <2>2, <2>3, Constants
    <2>4. CASE i # k
      <3>1. i \in Live \cup Dead
        BY <1>5, <2>1, <2>4
      <3>2. Parents[pid[i]] = IF parent[i] = None THEN 0 ELSE pid[parent[i]]
        BY <1>6, <3>1 DEF TreeOK
      <3>3. pid[i] # pid[k]
        BY <1>7, <3>1
      <3> QED
        BY <2>1, <2>2, <3>2, <3>3
    <2> QED
      BY <2>3, <2>4
  <1>10. Parents' = [q \in LiveIds \cup DeadIds \cup {pid[k]} |-> IF q = pid[k] THEN pid[p] ELSE Parents[q]]
    <2>1. Ids' = LiveIds \cup DeadIds \cup {pid[k]}
      BY <1>6, <1>8 DEF TreeOK
    <2>2. Parents' = [q \in Ids' |-> Parents'[q]]
      BY <1>6 DEF TreeOK
    <2>3. Parents' = [q \in Ids' |-> IF q = pid[k] THEN pid[p] ELSE Parents[q]]
      BY <1>9, <2>2
    <2> QED
      BY <2>1, <2>3
  <1>11. pid[p] \in LiveIds /\ pid[k] \notin LiveIds \cup DeadIds
    BY <1>5, <1>7 DEF LiveIds, DeadIds
  <1>12. \E q, new \in 1..MaxPid : Tree!Fork(q, new)
    BY <1>7, <1>8, <1>10, <1>11 DEF Tree!Fork, LiveIds, DeadIds, Parents, Ids
  <1> QED
    BY <1>3, <1>12

(* exit() passes the children to init. *)
LEMMA ExitTree ==
  ASSUME IInv, IdInv, IInv', NEW c \in CPUs, NEW p \in Slots, Exit(c, p)
  PROVE  IdInv' /\ \E q, new \in 1..MaxPid : Tree!Exit(q)
  <1>1. /\ state[p] = "RUNNING" /\ pc[p] = "exit" /\ p # initproc /\ initproc \in Slots /\ None \notin Slots
        /\ state \in [Slots -> States]
    BY RunsRunning, Constants, Types DEF IInv, Exit, Runs, InitInv
  <1>2. /\ parent' = [i \in Slots |-> IF parent[i] = p THEN initproc ELSE parent[i]]
        /\ UNCHANGED <<pid, nextpid>>
    BY DEF Exit, Disown, Children
  <1>3. state'[p] = "ZOMBIE" /\ \A i \in Slots : i # p =>
           state'[i] = state[i] \/ (state[i] = "SLEEPING" /\ state'[i] = "RUNNABLE")
    <2>1. \A ch : \A st \in [Slots -> States] :
            /\ wakeup1(st, ch) \in [Slots -> States]
            /\ \A i \in Slots : wakeup1(st, ch)[i] = st[i] \/ (st[i] = "SLEEPING" /\ wakeup1(st, ch)[i] = "RUNNABLE")
      BY DEF wakeup1, States
    <2> DEFINE told == IF parent[p] = None THEN state ELSE wakeup1(state, parent[p])
               woken == IF \E i \in Children(p) : state[i] = "ZOMBIE" THEN wakeup1(told, initproc) ELSE told
    <2>2. /\ told \in [Slots -> States]
          /\ \A i \in Slots : told[i] = state[i] \/ (state[i] = "SLEEPING" /\ told[i] = "RUNNABLE")
      BY <1>1, <2>1
    <2>3. state' = [woken EXCEPT ![p] = "ZOMBIE"]
      BY DEF Exit, Disown
    <2> HIDE DEF told
    <2>4. /\ woken \in [Slots -> States]
          /\ \A i \in Slots : woken[i] = told[i] \/ (told[i] = "SLEEPING" /\ woken[i] = "RUNNABLE")
      BY <2>1, <2>2
    <2> HIDE DEF woken
    <2> QED
      BY <2>2, <2>3, <2>4
  <1>4. IdInv'
    BY <1>1, <1>2, <1>3 DEF IdInv, InUse
  <1>5. Live' = Live \ {p} /\ Dead' = Dead \cup {p} /\ p \in Live
    BY <1>1, <1>3 DEF Live, Dead
  <1>6. TreeOK
    BY TreeFacts
  <1>7. TreeOK'
    BY <1>4, TreeFacts, PTL
  <1>8. LiveIds' = LiveIds \ {pid[p]} /\ DeadIds' = DeadIds \cup {pid[p]} /\ Ids' = Ids
    BY <1>2, <1>5, <1>6 DEF TreeOK, LiveIds, DeadIds, Ids
  <1>9. ASSUME NEW k \in Ids
        PROVE  Parents'[k] = IF Parents[k] = pid[p] THEN 1 ELSE Parents[k]
    <2>1. PICK i \in Live \cup Dead : k = pid[i]
      BY DEF Ids
    <2>2. parent'[i] = IF parent[i] = p THEN initproc ELSE parent[i]
      BY <1>2, <1>6 DEF TreeOK
    <2>3. Parents'[k] = IF parent'[i] = None THEN 0 ELSE pid[parent'[i]]
      BY <1>2, <1>5, <1>7, <2>1 DEF TreeOK
    <2>4. Parents[k] = IF parent[i] = None THEN 0 ELSE pid[parent[i]]
      BY <1>6, <2>1 DEF TreeOK
    <2>5. pid[p] # 0 /\ (parent[i] # None /\ parent[i] # p => pid[parent[i]] # pid[p])
      BY <1>5, <1>6 DEF TreeOK
    <2> QED
      BY <1>1, <1>6, <2>2, <2>3, <2>4, <2>5 DEF TreeOK
  <1>10. Parents' = [k \in DOMAIN Parents |-> IF Parents[k] = pid[p] THEN 1 ELSE Parents[k]]
    <2>1. DOMAIN Parents = Ids
      BY <1>6 DEF TreeOK
    <2> QED
      BY <1>7, <1>8, <1>9, <2>1 DEF TreeOK
  <1>11. pid[p] \in LiveIds \ {1} /\ pid[p] \in 1..MaxPid
    BY <1>1, <1>5, <1>6 DEF TreeOK, LiveIds
  <1>12. \E q, new \in 1..MaxPid : Tree!Exit(q)
    BY <1>8, <1>10, <1>11 DEF Tree!Exit, LiveIds, DeadIds, Parents, Ids
  <1> QED
    BY <1>4, <1>12

(* wait() collects a child of its own. *)
LEMMA ReapTree ==
  ASSUME IInv, IdInv, IInv', NEW c \in CPUs, NEW p \in Slots, WaitReap(c, p)
  PROVE  IdInv' /\ \E q, new \in 1..MaxPid : Tree!Reap(q)
  <1>1. PICK z \in Slots :
        /\ state[z] = "ZOMBIE" /\ parent[z] = p /\ state' = [state EXCEPT ![z] = "UNUSED"]
        /\ pid' = [pid EXCEPT ![z] = 0] /\ parent' = [parent EXCEPT ![z] = None] /\ nextpid' = nextpid
    <2>1. Zombies(p) # {} /\ Zombies(p) \in SUBSET Nat
      BY Constants DEF WaitReap, Zombies, Children
    <2>2. Min(Zombies(p)) \in Zombies(p)
      BY <2>1, MinExists
    <2> QED
      BY <2>2 DEF WaitReap, Zombies, Children
  <1>2. /\ state'[z] = "UNUSED" /\ pid'[z] = 0
        /\ \A i \in Slots : i # z => state'[i] = state[i] /\ pid'[i] = pid[i] /\ parent'[i] = parent[i]
    BY <1>1 DEF IInv, TypeOK
  <1>3. state[p] = "RUNNING" /\ nextpid \in Nat /\ nextpid > 0 /\ state[initproc] \in Alive /\ initproc \in Slots
    BY InWaitFacts, Constants, ProcAssumption DEF WaitReap, IInv, TypeOK, InitInv
  <1>4. IdInv'
    BY <1>1, <1>2, <1>3 DEF IdInv, InUse, Alive
  <1>5. Live' = Live /\ Dead' = Dead \ {z} /\ z \in Dead /\ z \notin Live /\ p \in Live
    BY <1>1, <1>2, <1>3 DEF Live, Dead
  <1>6. TreeOK
    BY TreeFacts
  <1>7. TreeOK'
    BY <1>4, TreeFacts, PTL
  <1>8. \A i \in (Live \cup Dead) \ {z} : pid'[i] = pid[i] /\ parent'[i] = parent[i]
    BY <1>2, <1>6 DEF TreeOK
  <1>9. LiveIds' = LiveIds /\ DeadIds' = DeadIds \ {pid[z]} /\ Ids' = Ids \ {pid[z]}
    BY <1>5, <1>6, <1>8 DEF TreeOK, LiveIds, DeadIds, Ids
  <1>10. ASSUME NEW k \in Ids' PROVE Parents'[k] = Parents[k]
    <2>1. PICK i \in (Live \cup Dead) \ {z} : k = pid'[i]
      BY <1>5 DEF Ids
    <2>2. Parents'[k] = IF parent[i] = None THEN 0 ELSE pid'[parent[i]]
      BY <1>5, <1>7, <1>8, <2>1 DEF TreeOK
    <2>3. parent[i] # None => pid'[parent[i]] = pid[parent[i]]
      BY <1>5, <1>6, <1>8 DEF TreeOK
    <2> QED
      BY <1>6, <1>8, <2>1, <2>2, <2>3 DEF TreeOK
  <1>11. Parents' = [k \in DOMAIN Parents \ {pid[z]} |-> Parents[k]]
    <2>1. DOMAIN Parents \ {pid[z]} = Ids'
      BY <1>6, <1>9 DEF TreeOK
    <2>2. Parents' = [k \in Ids' |-> Parents'[k]]
      BY <1>7 DEF TreeOK
    <2>3. Parents' = [k \in Ids' |-> Parents[k]]
      BY <1>10, <2>2
    <2> QED
      BY <2>1, <2>3
  <1>12. pid[z] \in DeadIds /\ Parents[pid[z]] \in LiveIds /\ pid[z] \in 1..MaxPid
    BY <1>1, <1>5, <1>6, Constants DEF TreeOK, LiveIds, DeadIds
  <1>13. \E q, new \in 1..MaxPid : Tree!Reap(q)
    BY <1>9, <1>11, <1>12 DEF Tree!Reap, LiveIds, DeadIds, Parents, Ids
  <1> QED
    BY <1>4, <1>13

-----------------------------------------------------------------------------
LEMMA NextTree ==
  ASSUME IInv, IdInv, IInv', [Next]_vars
  PROVE  IdInv' /\ [Tree!TNext]_<<LiveIds, DeadIds, Parents>>
  <1>1. CASE UNCHANGED vars
    <2>1. Aside
      BY <1>1 DEF vars, table, Aside
    <2> QED
      BY <2>1, AsideStep
  <1>2. ASSUME NEW c \in CPUs, scheduler(c) \/ \E ch \in Chans : Wakeup(c, ch)
        PROVE  IdInv' /\ UNCHANGED <<LiveIds, DeadIds, Parents>>
    BY <1>2, SchedulerAside, AsideStep
  <1>3. ASSUME NEW c \in CPUs, NEW p \in Slots,
               trap(c, p) \/ sleep(c, p) \/ SysExit(c, p) \/ WaitFails(c, p) \/ WaitSleep(c, p)
        PROVE  IdInv' /\ UNCHANGED <<LiveIds, DeadIds, Parents>>
    BY <1>3, ProcessAside, AsideStep
  <1>4. ASSUME NEW c \in CPUs, NEW p \in Slots, NEW k \in KillPids, Kill(c, p, k)
        PROVE  IdInv' /\ UNCHANGED <<LiveIds, DeadIds, Parents>>
    BY <1>4, KillAside, AsideStep
  <1>5. ASSUME NEW c \in CPUs, NEW p \in Slots, AllocProc(c, p) \/ ForkFails(c, p) \/ ForkFill(c, p)
        PROVE  IdInv' /\ UNCHANGED <<LiveIds, DeadIds, Parents>>
    BY <1>5, AllocTree, ForkFailsTree, ForkFillTree
  <1>6. ASSUME NEW c \in CPUs, NEW p \in Slots, ForkReady(c, p) \/ Exit(c, p) \/ WaitReap(c, p)
        PROVE  IdInv' /\ Tree!TNext
    BY <1>6, ForkTree, ExitTree, ReapTree DEF Tree!TNext
  <1> QED
    BY <1>1, <1>2, <1>3, <1>4, <1>5, <1>6 DEF Next, fork, exit, wait

(* fork(), exit() and wait(), with slots that are reused and locks that    *)
(* are handed over, implement the tree of process ids ProcTree: an orphan  *)
(* passes to init, and an exited child is collected once, by its parent.   *)
THEOREM Refinement == Spec => ImplementsProcTree
  <1>1. Init => Tree!TInit
    <2> SUFFICES ASSUME Init PROVE Tree!TInit
      OBVIOUS
    <2>1. Live = {initproc} /\ Dead = {} /\ pid[initproc] = 1 /\ parent[initproc] = None
      BY Constants DEF Init, Live, Dead
    <2>2. LiveIds = {1} /\ DeadIds = {} /\ Ids = {1}
      BY <2>1 DEF LiveIds, DeadIds, Ids
    <2>3. SlotOf(1) = initproc
      BY <2>1 DEF SlotOf
    <2>4. Parents = [q \in {1} |-> 0]
      BY <2>1, <2>2, <2>3 DEF Parents
    <2> QED
      BY <2>2, <2>4 DEF Tree!TInit, LiveIds, DeadIds, Parents, Ids
  <1>2. Init => IdInv
    BY InitIdInv
  <1>3. IInv /\ IdInv /\ IInv' /\ [Next]_vars => IdInv' /\ [Tree!TNext]_<<LiveIds, DeadIds, Parents>>
    BY NextTree
  <1> QED
    BY <1>1, <1>2, <1>3, Inductive, PTL DEF Spec, ImplementsProcTree, Tree!TSpec, LiveIds, DeadIds, Parents, Ids
=============================================================================
