--------------------------- MODULE SpinLockProofs ---------------------------
(***************************************************************************)
(* What spinlock.c promises, for any number of CPUs and locks: the safety  *)
(* invariants of SpinLock follow from the inductive invariant IInv, which  *)
(* ties the nesting counter, the saved flag and lk->cpu to what each CPU   *)
(* holds and to the instruction it is at.                                  *)
(***************************************************************************)
EXTENDS SpinLock, FiniteSetTheorems, TLAPS

(* The pushcli() counted in ncli[c] that belongs to no lock in held[c]: of *)
(* an acquire() that still spins, of a release() that has unlocked, or of  *)
(* a bare pair.                                                            *)
Pending(c) == IF pc[c] \in {"check", "spin", "pop"} THEN 1 ELSE 0

(* ncli counts the locks held and the pending pushcli(). *)
CountInv ==
    \A c \in CPUs :
        /\ IsFiniteSet(held[c])
        /\ ncli[c] = Cardinality(held[c]) + Pending(c)

(* An interrupt only ever suspends code that holds no lock. *)
FrameInv == \A c \in CPUs : frame[c].held = {}

(* Where the interrupt flag is, and where its value to restore is. *)
FlagInv ==
    \A c \in CPUs :
        /\ pc[c] \notin {"run", "cli"} \/ held[c] # {} => ~FL_IF[c]
        /\ pc[c] \in {"run", "cli"} /\ held[c] = {} => (FL_IF[c] <=> frame[c] = Empty)
        /\ pc[c] = "cli" => eflags[c] = FL_IF[c]
        /\ pc[c] = "count" /\ held[c] = {} => (eflags[c] <=> frame[c] = Empty)
        /\ ncli[c] # 0 => (intena[c] <=> frame[c] = Empty)

(* lk->cpu names the holder, but for the moments it is being written. *)
OwnerInv ==
    \A c \in CPUs :
        /\ \A l \in held[c] :
              /\ locked[l]
              /\ owner[l] # c => pc[c] \in {"own", "unlock"} /\ arg[c] = l
        /\ \A l \in Locks : owner[l] = c => l \in held[c]
        /\ pc[c] \in {"cli", "count", "check", "spin"} => arg[c] \notin held[c]
        /\ pc[c] \in {"check", "spin"} => arg[c] \in Locks
        /\ pc[c] \in {"own", "clear", "unlock"} => arg[c] \in held[c]
        /\ pc[c] = "unlock" => owner[arg[c]] # c

Excl == \A c, d \in CPUs : c # d => held[c] \cap held[d] = {}

IInv == TypeOK /\ CountInv /\ FrameInv /\ FlagInv /\ OwnerInv /\ Excl /\ NoPanic

-----------------------------------------------------------------------------
(* The inductive invariant holds when every lock has just been initialised.*)
LEMMA InitIInv == Init => IInv
  <1> SUFFICES ASSUME Init PROVE IInv
    OBVIOUS
  <1> USE DEF Init
  <1>1. TypeOK
    BY DEF TypeOK, PC
  <1>2. CountInv
    BY FS_EmptySet DEF CountInv, Pending
  <1>3. FrameInv /\ FlagInv /\ OwnerInv /\ Excl /\ NoPanic
    BY NoCPUAssumption DEF FrameInv, FlagInv, OwnerInv, Excl, NoPanic, Empty
  <1> QED
    BY <1>1, <1>2, <1>3 DEF IInv

(* Adding a lock to a finite set of held ones, or removing it, moves its   *)
(* size by one; a set of size 0 is empty.                                  *)
LEMMA HeldSize ==
  ASSUME NEW S, IsFiniteSet(S), NEW l
  PROVE  /\ Cardinality(S) \in Nat
         /\ Cardinality(S) = 0 <=> S = {}
         /\ IsFiniteSet(S \cup {l}) /\ IsFiniteSet(S \ {l})
         /\ l \notin S => Cardinality(S \cup {l}) = Cardinality(S) + 1
         /\ l \in S => Cardinality(S \ {l}) + 1 = Cardinality(S)
  <1>1. Cardinality(S) \in Nat /\ (Cardinality(S) = 0 <=> S = {})
    BY FS_EmptySet, FS_CardinalityType
  <1>2. IsFiniteSet(S \cup {l}) /\ (l \notin S => Cardinality(S \cup {l}) = Cardinality(S) + 1)
    BY FS_AddElement
  <1>3. IsFiniteSet(S \ {l})
    BY FS_RemoveElement
  <1>4. l \in S => Cardinality(S \ {l}) = Cardinality(S) - 1
    BY FS_RemoveElement
  <1>5. l \in S => Cardinality(S \ {l}) + 1 = Cardinality(S)
    BY <1>1, <1>4
  <1> QED
    BY <1>1, <1>2, <1>3, <1>5

(* The steps of pushcli() keep the invariant. *)
LEMMA PushcliIInv ==
  ASSUME IInv, NEW c \in CPUs, NEW l \in Locks \cup {NoLock}, Pushcli(c, l)
  PROVE  IInv'
  <1> USE DEF IInv, Pushcli, Goto
  <1>1. TypeOK'
    BY DEF TypeOK, PC
  <1>2. CountInv'
    BY DEF CountInv, Pending, TypeOK
  <1>3. FrameInv'
    BY DEF FrameInv, TypeOK
  <1>4. FlagInv'
    BY DEF FlagInv, TypeOK
  <1>5. OwnerInv'
    BY RankAssumption, NoLockAssumption DEF OwnerInv, TypeOK
  <1>6. Excl' /\ NoPanic'
    BY DEF Excl, NoPanic, TypeOK
  <1> QED
    BY <1>1, <1>2, <1>3, <1>4, <1>5, <1>6
(* After cli() interrupts are off. *)
LEMMA CliIInv ==
  ASSUME IInv, NEW c \in CPUs, Cli(c)
  PROVE  IInv'
  <1> USE DEF IInv, Cli, Goto
  <1>1. TypeOK'
    BY DEF TypeOK, PC
  <1>2. CountInv'
    BY DEF CountInv, Pending, TypeOK
  <1>3. FrameInv'
    BY DEF FrameInv, TypeOK
  <1>4. FlagInv'
    BY DEF FlagInv, TypeOK
  <1>5. OwnerInv'
    BY DEF OwnerInv, TypeOK
  <1>6. Excl' /\ NoPanic'
    BY DEF Excl, NoPanic, TypeOK
  <1> QED
    BY <1>1, <1>2, <1>3, <1>4, <1>5, <1>6

(* The rest of pushcli() saves the flag when nothing was held. *)
LEMMA CountIInv ==
  ASSUME IInv, NEW c \in CPUs, Count(c)
  PROVE  IInv'
  <1> USE DEF IInv, Count, Goto
  <1>0. /\ \A d \in CPUs : /\ IsFiniteSet(held[d])
                           /\ Cardinality(held[d]) \in Nat
                           /\ Cardinality(held[d]) = 0 <=> held[d] = {}
    BY HeldSize DEF CountInv
  <1>1. TypeOK'
    BY DEF TypeOK, PC
  <1>2. CountInv'
    BY <1>0 DEF CountInv, Pending, FlagInv, TypeOK, OwnerInv
  <1>3. FrameInv'
    BY DEF FrameInv, TypeOK
  <1>4. FlagInv'
    BY <1>0 DEF FlagInv, CountInv, Pending, TypeOK, OwnerInv
  <1>5. OwnerInv'
    BY DEF OwnerInv, TypeOK
  <1>6. Excl' /\ NoPanic'
    BY DEF Excl, NoPanic, TypeOK
  <1> QED
    BY <1>1, <1>2, <1>3, <1>4, <1>5, <1>6

(* The check of acquire() never panics: lk->cpu does not name this CPU. *)
LEMMA CheckIInv ==
  ASSUME IInv, NEW c \in CPUs, Check(c)
  PROVE  IInv'
  <1> USE DEF IInv, Check, Goto, holding
  <1>1. TypeOK'
    BY DEF TypeOK, PC
  <1>2. CountInv'
    BY DEF CountInv, Pending, OwnerInv, TypeOK
  <1>3. FrameInv'
    BY DEF FrameInv, TypeOK
  <1>4. FlagInv'
    BY DEF FlagInv, TypeOK
  <1>5. OwnerInv'
    BY DEF OwnerInv, TypeOK
  <1>6. Excl' /\ NoPanic'
    BY DEF Excl, NoPanic, OwnerInv, TypeOK
  <1> QED
    BY <1>1, <1>2, <1>3, <1>4, <1>5, <1>6

(* The xchg that wins finds a lock nobody holds. *)
LEMMA XchgIInv ==
  ASSUME IInv, NEW c \in CPUs, Xchg(c)
  PROVE  IInv'
  <1> USE DEF IInv, Xchg, Goto
  <1>0. /\ \A d \in CPUs : /\ IsFiniteSet(held[d])
                           /\ Cardinality(held[d]) \in Nat
                           /\ Cardinality(held[d]) = 0 <=> held[d] = {}
        /\ IsFiniteSet(held[c] \cup {arg[c]})
        /\ arg[c] \notin held[c] =>
              Cardinality(held[c] \cup {arg[c]}) = Cardinality(held[c]) + 1
    BY HeldSize DEF CountInv
  <1>1. TypeOK'
    BY DEF TypeOK, PC, OwnerInv
  <1>2. CountInv'
    BY <1>0 DEF CountInv, Pending, OwnerInv, TypeOK
  <1>3. FrameInv'
    BY DEF FrameInv, TypeOK
  <1>4. FlagInv'
    BY DEF FlagInv, TypeOK
  <1>5. OwnerInv'
    BY DEF OwnerInv, TypeOK, Excl
  <1>6. Excl' /\ NoPanic'
    BY DEF Excl, NoPanic, OwnerInv, TypeOK
  <1> QED
    BY <1>1, <1>2, <1>3, <1>4, <1>5, <1>6

(* Recording lk->cpu completes the acquisition. *)
LEMMA OwnIInv ==
  ASSUME IInv, NEW c \in CPUs, Own(c)
  PROVE  IInv'
  <1> USE DEF IInv, Own, Goto, Leave
  <1>1. TypeOK'
    BY NoLockAssumption DEF TypeOK, PC
  <1>2. CountInv'
    BY DEF CountInv, Pending, TypeOK
  <1>3. FrameInv'
    BY DEF FrameInv, TypeOK
  <1>4. FlagInv'
    BY DEF FlagInv, OwnerInv, TypeOK
  <1>5. OwnerInv'
    BY DEF OwnerInv, TypeOK, Excl
  <1>6. Excl' /\ NoPanic'
    BY DEF Excl, NoPanic, TypeOK
  <1> QED
    BY <1>1, <1>2, <1>3, <1>4, <1>5, <1>6

(* release() of a lock the code holds finds lk->cpu right. *)
LEMMA ReleaseIInv ==
  ASSUME IInv, NEW c \in CPUs, NEW l \in Locks, Release(c, l)
  PROVE  IInv'
  <1> USE DEF IInv, Release, Goto, holding
  <1>1. TypeOK'
    BY DEF TypeOK, PC
  <1>2. CountInv'
    BY DEF CountInv, Pending, OwnerInv, TypeOK
  <1>3. FrameInv'
    BY DEF FrameInv, TypeOK
  <1>4. FlagInv'
    BY DEF FlagInv, TypeOK
  <1>5. OwnerInv'
    BY DEF OwnerInv, TypeOK
  <1>6. Excl' /\ NoPanic'
    BY DEF Excl, NoPanic, OwnerInv, TypeOK
  <1> QED
    BY <1>1, <1>2, <1>3, <1>4, <1>5, <1>6

(* release() forgets the CPU before it unlocks. *)
LEMMA ClearIInv ==
  ASSUME IInv, NEW c \in CPUs, Clear(c)
  PROVE  IInv'
  <1> USE DEF IInv, Clear, Goto
  <1>1. TypeOK'
    BY DEF TypeOK, PC
  <1>2. CountInv'
    BY DEF CountInv, Pending, TypeOK
  <1>3. FrameInv'
    BY DEF FrameInv, TypeOK
  <1>4. FlagInv'
    BY DEF FlagInv, TypeOK
  <1>5. OwnerInv'
    BY NoCPUAssumption DEF OwnerInv, TypeOK, Excl
  <1>6. Excl' /\ NoPanic'
    BY DEF Excl, NoPanic, TypeOK
  <1> QED
    BY <1>1, <1>2, <1>3, <1>4, <1>5, <1>6

(* The store that unlocks. *)
LEMMA UnlockIInv ==
  ASSUME IInv, NEW c \in CPUs, Unlock(c)
  PROVE  IInv'
  <1> USE DEF IInv, Unlock, Goto
  <1>0. /\ \A d \in CPUs : /\ IsFiniteSet(held[d])
                           /\ Cardinality(held[d]) \in Nat
                           /\ Cardinality(held[d]) = 0 <=> held[d] = {}
        /\ IsFiniteSet(held[c] \ {arg[c]})
        /\ arg[c] \in held[c] =>
              Cardinality(held[c] \ {arg[c]}) + 1 = Cardinality(held[c])
        /\ Cardinality(held[c] \ {arg[c]}) \in Nat
    BY HeldSize, FS_CardinalityType DEF CountInv
  <1>1. TypeOK'
    BY DEF TypeOK, PC
  <1>2. CountInv'
    BY <1>0 DEF CountInv, Pending, OwnerInv, TypeOK
  <1>3. FrameInv'
    BY DEF FrameInv, TypeOK
  <1>4. FlagInv'
    BY DEF FlagInv, TypeOK
  <1>5. OwnerInv'
    BY DEF OwnerInv, TypeOK, Excl
  <1>6. Excl' /\ NoPanic'
    BY DEF Excl, NoPanic, TypeOK
  <1> QED
    BY <1>1, <1>2, <1>3, <1>4, <1>5, <1>6

(* popcli() is matched, with interrupts off. *)
LEMMA PopcliIInv ==
  ASSUME IInv, NEW c \in CPUs, Popcli(c)
  PROVE  IInv'
  <1> USE DEF IInv, Popcli, Goto, Leave
  <1>0. /\ \A d \in CPUs : /\ IsFiniteSet(held[d])
                           /\ Cardinality(held[d]) \in Nat
                           /\ Cardinality(held[d]) = 0 <=> held[d] = {}
    BY HeldSize DEF CountInv
  <1>1. TypeOK'
    BY <1>0 DEF TypeOK, PC, CountInv, Pending
  <1>2. CountInv'
    BY <1>0 DEF CountInv, Pending, TypeOK, FlagInv
  <1>3. FrameInv'
    BY DEF FrameInv, TypeOK
  <1>4. FlagInv'
    BY <1>0 DEF FlagInv, CountInv, Pending, TypeOK
  <1>5. OwnerInv'
    BY DEF OwnerInv, TypeOK
  <1>6. Excl' /\ NoPanic'
    BY <1>0 DEF Excl, NoPanic, FlagInv, CountInv, Pending, TypeOK
  <1> QED
    BY <1>1, <1>2, <1>3, <1>4, <1>5, <1>6

(* An interrupt finds no lock held. *)
LEMMA InterruptIInv ==
  ASSUME IInv, NEW c \in CPUs, Interrupt(c)
  PROVE  IInv'
  <1> USE DEF IInv, Interrupt, Goto, Leave
  <1>1. TypeOK'
    BY DEF TypeOK, PC, Frames
  <1>2. CountInv'
    BY FS_EmptySet DEF CountInv, Pending, FlagInv, TypeOK
  <1>3. FrameInv'
    BY DEF FrameInv, FlagInv, TypeOK
  <1>4. FlagInv'
    <2>1. frame'[c].pc # "none" /\ frame'[c] # Empty
      BY DEF TypeOK, Empty
    <2>2. held[c] = {} /\ ncli[c] = 0
      BY FS_EmptySet DEF FlagInv, CountInv, Pending, TypeOK
    <2> QED
      BY <2>1, <2>2 DEF FlagInv, TypeOK
  <1>5. OwnerInv'
    BY DEF OwnerInv, FlagInv, TypeOK
  <1>6. Excl' /\ NoPanic'
    BY DEF Excl, NoPanic, TypeOK, FlagInv
  <1> QED
    BY <1>1, <1>2, <1>3, <1>4, <1>5, <1>6

(* The return from a handler. *)
LEMMA IretIInv ==
  ASSUME IInv, NEW c \in CPUs, Iret(c)
  PROVE  IInv'
  <1> USE DEF IInv, Iret, Goto
  <1>1. TypeOK'
    BY DEF TypeOK, PC, Frames, Empty
  <1>2. CountInv'
    BY FS_EmptySet DEF CountInv, Pending, FrameInv, TypeOK, Frames
  <1>3. FrameInv'
    BY DEF FrameInv, TypeOK, Empty
  <1>4. FlagInv'
    <2>1. frame'[c] = Empty /\ held'[c] = {} /\ ncli'[c] = 0
      BY FS_EmptySet DEF FrameInv, CountInv, Pending, TypeOK
    <2>2. /\ FL_IF'[c] = TRUE
          /\ pc'[c] \in {"run", "cli"}
          /\ pc'[c] = "cli" => eflags'[c] = TRUE
      BY DEF TypeOK, Frames, Empty
    <2>3. ASSUME NEW d \in CPUs, d # c
          PROVE  UNCHANGED <<pc[d], held[d], FL_IF[d], eflags[d], frame[d], ncli[d], intena[d]>>
      BY <2>3 DEF TypeOK
    <2> HIDE DEF IInv, Iret
    <2>4. FlagInv
      BY DEF IInv
    <2> QED
      BY <2>1, <2>2, <2>3, <2>4 DEF FlagInv
  <1>5. OwnerInv'
    BY DEF OwnerInv, FrameInv, TypeOK, Frames
  <1>6. Excl' /\ NoPanic'
    BY DEF Excl, NoPanic, TypeOK, FrameInv, Frames
  <1> QED
    BY <1>1, <1>2, <1>3, <1>4, <1>5, <1>6

-----------------------------------------------------------------------------
(* Every step keeps the inductive invariant. *)
LEMMA NextIInv == IInv /\ [Next]_vars => IInv'
  <1> SUFFICES ASSUME IInv, [Next]_vars PROVE IInv'
    OBVIOUS
  <1>1. CASE UNCHANGED vars
    BY <1>1 DEF IInv, TypeOK, CountInv, Pending, FrameInv, FlagInv, OwnerInv, Excl, NoPanic, vars
  <1>2. ASSUME NEW c \in CPUs, Step(c) PROVE IInv'
    <2>1. CASE \E l \in Locks \cup {NoLock} : Pushcli(c, l)
      BY <2>1, PushcliIInv
    <2>2. CASE Xchg(c)
      BY <2>2, XchgIInv
    <2>3. CASE \E l \in Locks : Release(c, l)
      BY <2>3, ReleaseIInv
    <2>4. CASE InSpinlock(c)
      BY <2>4, CliIInv, CountIInv, CheckIInv, OwnIInv, ClearIInv, UnlockIInv, PopcliIInv DEF InSpinlock
    <2>5. CASE Interrupt(c)
      BY <2>5, InterruptIInv
    <2>6. CASE Iret(c)
      BY <2>6, IretIInv
    <2> QED
      BY <1>2, <2>1, <2>2, <2>3, <2>4, <2>5, <2>6 DEF Step
  <1> QED
    BY <1>1, <1>2 DEF Next

(* What every step keeps true.                                             *)
THEOREM Inductive == Spec => []IInv
  <1>1. Init => IInv
    BY InitIInv
  <1>2. IInv /\ [Next]_vars => IInv'
    BY NextIInv
  <1> QED
    BY <1>1, <1>2, PTL DEF Spec

(* Every variable keeps its type: in particular ncli never goes below zero *)
(* although popcli() decrements it before it tests it.                     *)
THEOREM TypeCorrect == Spec => []TypeOK
  <1>1. IInv => TypeOK
    BY DEF IInv
  <1> QED
    BY <1>1, Inductive, PTL

(* acquire() and release() exclude every two CPUs from each other's        *)
(* critical sections of a lock.                                            *)
THEOREM MutualExclusionHolds == Spec => []MutualExclusion
  <1>1. IInv => MutualExclusion
    BY DEF IInv, Excl, FrameInv, MutualExclusion, Holds
  <1> QED
    BY <1>1, Inductive, PTL

(* pushcli() before the lock and popcli() after it keep handlers out of    *)
(* every critical section, whatever the order of the releases.             *)
THEOREM InterruptsOffHolds == Spec => []InterruptsOffWhileHolding
  <1>1. IInv => InterruptsOffWhileHolding
    BY DEF IInv, FlagInv, FrameInv, InterruptsOffWhileHolding, Holds
  <1> QED
    BY <1>1, Inductive, PTL

(* The panics of spinlock.c are unreachable for callers that respect the   *)
(* ranking and release what they hold.                                     *)
THEOREM NoPanicHolds == Spec => []NoPanic
  <1>1. IInv => NoPanic
    BY DEF IInv
  <1> QED
    BY <1>1, Inductive, PTL

(* intena gives back the interrupt flag the outermost pushcli() found.     *)
THEOREM FlagRestoredHolds == Spec => []FlagRestored
  <1>1. IInv => FlagRestored
    BY DEF IInv, FlagInv, FlagRestored
  <1> QED
    BY <1>1, Inductive, PTL

(* No CPU spins for a lock that it holds itself.                           *)
THEOREM NoSelfDeadlockHolds == Spec => []NoSelfDeadlock
  <1>1. IInv => NoSelfDeadlock
    BY DEF IInv, OwnerInv, FrameInv, NoSelfDeadlock, Holds
  <1> QED
    BY <1>1, Inductive, PTL
=============================================================================
