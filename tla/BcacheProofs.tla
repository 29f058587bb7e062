---------------------------- MODULE BcacheProofs ----------------------------
(***************************************************************************)
(* The buffer cache keeps the buffers in use, loses none of them, and is   *)
(* transparent, for any number of processes, buffers and blocks.           *)
(***************************************************************************)
EXTENDS Bcache, FiniteSetTheorems, TLAPS

(* Places inside acquiresleep() .. releasesleep(). *)
Locked == Referring \ {"lock", "put"}

(* Who refers to a buffer. *)
Users(b) == {p \in Procs : pc[p] \in Referring /\ buf[p] = b}

(* Every buffer is in the list, once. *)
ListInv == \A b \in Bufs : \E i \in 1..NBUF : lru[i] = b

(* A process that refers to a buffer finds its block there; the references *)
(* are counted, and no two buffers have the same block.                    *)
RefInv ==
    /\ \A p \in Procs : pc[p] \in Referring =>
          buf[p] \in Bufs /\ want[p] \in Blocks /\ blockno[buf[p]] = want[p]
    /\ \A b \in Bufs : refcnt[b] = Cardinality(Users(b))
    /\ \A b, c \in Bufs : blockno[b] = blockno[c] => b = c \/ blockno[b] = NoBlock

(* The sleep lock is held where the code says so, and nowhere else. *)
LockInv ==
    /\ \A p \in Procs : pc[p] \in Locked => lock[buf[p]] = p
    /\ \A b \in Bufs : lock[b] # NoProc => pc[lock[b]] \in Locked /\ buf[lock[b]] = b

(* What the flags say: only a valid buffer is dirty, whoever has the block *)
(* has it valid, and a request that is about to be queued is one.          *)
FlagInv ==
    /\ \A b \in Bufs : dirty[b] => valid[b]
    /\ \A b \in Bufs : valid[b] => blockno[b] # NoBlock
    /\ \A p \in Procs : pc[p] \in {"use", "changed"} => valid[buf[p]]
    /\ \A p \in Procs : pc[p] = "iderw" => ~valid[buf[p]] \/ dirty[buf[p]]

(* A request is queued once, by a process that waits for it. *)
QueueInv ==
    /\ \A i, j \in 1..Len(idequeue) : idequeue[i] = idequeue[j] => i = j
    /\ \A i \in 1..Len(idequeue) :
          /\ ~valid[idequeue[i]] \/ dirty[idequeue[i]]
          /\ \E p \in Procs : buf[p] = idequeue[i] /\ pc[p] \in {"asleep", "awake"}

IInv == TypeOK /\ ListInv /\ RefInv /\ LockInv /\ FlagInv /\ QueueInv

-----------------------------------------------------------------------------
LEMMA UserCount ==
  ASSUME NEW b
  PROVE  IsFiniteSet(Users(b)) /\ Cardinality(Users(b)) \in 0..Cardinality(Procs)
  <1>1. IsFiniteSet(Procs) /\ Users(b) \in SUBSET Procs
    BY BcacheAssumption DEF Users
  <1>2. IsFiniteSet(Users(b)) /\ Cardinality(Users(b)) <= Cardinality(Procs)
    BY <1>1, FS_Subset
  <1> QED
    BY <1>1, <1>2, FS_CardinalityType

(* A buffer that is not referred to: nobody uses it, and it is unlocked. *)
LEMMA Unreferred ==
  ASSUME TypeOK, RefInv, LockInv, NEW b \in Bufs, refcnt[b] = 0
  PROVE  Users(b) = {} /\ lock[b] = NoProc
  <1>1. Users(b) = {}
    BY UserCount, FS_EmptySet DEF RefInv
  <1> QED
    BY <1>1 DEF TypeOK, LockInv, Users, Locked

(* Types are kept by the changes that actions make. *)
LEMMA UpdatedBuf ==
  ASSUME NEW S, NEW f \in [Bufs -> S], NEW b \in Bufs, NEW v \in S
  PROVE  [f EXCEPT ![b] = v] \in [Bufs -> S]
  OBVIOUS

LEMMA UpdatedProc ==
  ASSUME NEW S, NEW f \in [Procs -> S], NEW p \in Procs, NEW v \in S
  PROVE  [f EXCEPT ![p] = v] \in [Procs -> S]
  OBVIOUS

(* Moving a buffer to the head keeps every buffer in the list, once. *)
LEMMA Moved ==
  ASSUME lru \in [1..NBUF -> Bufs], IsInjective(lru), ListInv, NEW b \in Bufs
  PROVE  /\ ToFront(b) \in [1..NBUF -> Bufs] /\ IsInjective(ToFront(b))
         /\ \A c \in Bufs : \E i \in 1..NBUF : ToFront(b)[i] = c
  <1> DEFINE place == CHOOSE i \in 1..NBUF : lru[i] = b
             new == [i \in 1..NBUF |-> IF i = 1 THEN b ELSE IF i <= place THEN lru[i-1] ELSE lru[i]]
  <1>1. place \in 1..NBUF /\ lru[place] = b
    BY DEF ListInv
  <1>2. ToFront(b) = new
    BY DEF ToFront
  <1>3. NBUF \in Nat \ {0}
    BY BcacheAssumption
  <1> HIDE DEF place
  <1>4. new \in [1..NBUF -> Bufs]
    BY <1>1, <1>3
  <1>5. \A i, j \in 1..NBUF : lru[i] = lru[j] => i = j
    BY DEF IsInjective
  <1>6. ASSUME NEW i \in 1..NBUF, NEW j \in 1..NBUF, new[i] = new[j] PROVE i = j
    BY <1>1, <1>3, <1>5, <1>6
  <1>7. IsInjective(new)
    BY <1>4, <1>6 DEF IsInjective
  <1>8. ASSUME NEW c \in Bufs PROVE \E i \in 1..NBUF : new[i] = c
    <2>1. PICK i \in 1..NBUF : lru[i] = c
      BY DEF ListInv
    <2>2. CASE i = place
      BY <1>1, <1>3, <2>1, <2>2
    <2>3. CASE i < place
      <3>1. i + 1 \in 1..NBUF /\ i + 1 # 1 /\ i + 1 <= place /\ (i + 1) - 1 = i
        BY <1>1, <1>3, <2>3
      <3> QED
        BY <2>1, <3>1
    <2>4. CASE i > place
      BY <1>1, <1>3, <2>1, <2>4
    <2> QED
      BY <1>1, <2>2, <2>3, <2>4
  <1> QED
    BY <1>2, <1>4, <1>7, <1>8

-----------------------------------------------------------------------------
LEMMA InitIInv == Init => IInv
  <1> SUFFICES ASSUME Init PROVE IInv
    OBVIOUS
  <1>1. NBUF \in Nat \ {0} /\ Cardinality(Procs) \in Nat
    BY BcacheAssumption, FS_CardinalityType
  <1>2. lru \in [1..NBUF -> Bufs] /\ IsInjective(lru)
    BY <1>1 DEF Init, Bufs, IsInjective
  <1>3. TypeOK
    BY <1>1, <1>2 DEF Init, TypeOK, PC, Values
  <1>4. ListInv
    <2>1. ASSUME NEW b \in Bufs PROVE NBUF + 1 - b \in 1..NBUF /\ NBUF + 1 - (NBUF + 1 - b) = b
      BY <1>1 DEF Bufs
    <2> QED
      BY <2>1 DEF ListInv, Init
  <1>5. RefInv
    <2>1. \A b \in Bufs : Users(b) = {}
      BY DEF Init, Users, Referring
    <2> QED
      BY <2>1, FS_EmptySet DEF Init, RefInv, Referring
  <1>6. LockInv /\ FlagInv /\ QueueInv
    BY DEF Init, LockInv, FlagInv, QueueInv, Locked, Referring
  <1> QED
    BY <1>3, <1>4, <1>5, <1>6 DEF IInv

(* A step that changes places of processes, but not who refers to a buffer *)
(* nor who has it locked, keeps what is said of these.                     *)
LEMMA SameUsers ==
  ASSUME IInv, buf' = buf, want' = want, refcnt' = refcnt, blockno' = blockno,
         \A p \in Procs : pc'[p] \in Referring <=> pc[p] \in Referring
  PROVE  RefInv'
  <1>1. ASSUME NEW b \in Bufs PROVE Users(b)' = Users(b)
    BY DEF Users
  <1> QED
    BY <1>1 DEF IInv, RefInv

LEMMA SameLocks ==
  ASSUME IInv, buf' = buf, lock' = lock,
         \A p \in Procs : pc'[p] \in Locked <=> pc[p] \in Locked
  PROVE  LockInv'
  <1>1. \A b \in Bufs : lock[b] # NoProc => lock[b] \in Procs
    BY DEF IInv, TypeOK
  <1> QED
    BY <1>1 DEF IInv, LockInv

(* The buffer of a process that has it locked, or is about to. *)
LEMMA Place ==
  ASSUME IInv, NEW p \in Procs, pc[p] \in Referring
  PROVE  buf[p] \in Bufs /\ want[p] \in Blocks /\ blockno[buf[p]] = want[p]
  BY DEF IInv, RefInv

LEMMA OneUser ==
  ASSUME IInv, NEW p \in Procs, NEW q \in Procs, pc[p] \in Locked, pc[q] \in Locked, buf[p] = buf[q]
  PROVE  p = q
  BY DEF IInv, LockInv

LEMMA HitStep ==
  ASSUME IInv, NEW p \in Procs, NEW k \in Blocks, BgetHit(p, k)
  PROVE  IInv'
  <1>1. PICK b \in Cached(k) : refcnt' = [refcnt EXCEPT ![b] = @ + 1] /\ buf' = [buf EXCEPT ![p] = b]
    BY DEF BgetHit
  <1>2. b \in Bufs /\ blockno[b] = k
    BY DEF Cached
  <1>3. /\ pc[p] = "out" /\ pc' = [pc EXCEPT ![p] = "lock"] /\ want' = [want EXCEPT ![p] = k]
        /\ UNCHANGED <<lru, blockno, valid, dirty, data, lock, idequeue, disk>>
    BY DEF BgetHit, At
  <1>4. TypeOK /\ ListInv /\ RefInv /\ LockInv /\ FlagInv /\ QueueInv
    BY DEF IInv
  <1>5. /\ pc \in [Procs -> PC] /\ buf \in [Procs -> Bufs \cup {0}]
        /\ want \in [Procs -> Blocks \cup {NoBlock}] /\ refcnt \in [Bufs -> 0..Cardinality(Procs)]
        /\ lock \in [Bufs -> Procs \cup {NoProc}]
    BY <1>4 DEF TypeOK
  <1>6. "lock" \in Referring /\ "out" \notin Referring /\ "lock" \notin Locked /\ "out" \notin Locked
    BY DEF Referring, Locked
  <1>7. Users(b)' = Users(b) \cup {p} /\ p \notin Users(b)
    BY <1>1, <1>2, <1>3, <1>5, <1>6 DEF Users
  <1>8. ASSUME NEW c \in Bufs, c # b PROVE Users(c)' = Users(c)
    BY <1>1, <1>2, <1>3, <1>5, <1>6, <1>8 DEF Users
  <1>9. Cardinality(Users(b)') = Cardinality(Users(b)) + 1 /\ Cardinality(Users(b)') \in 0..Cardinality(Procs)
    <2>1. Cardinality(Users(b)') = Cardinality(Users(b)) + 1
      BY <1>7, UserCount, FS_AddElement
    <2>2. IsFiniteSet(Procs) /\ Users(b)' \in SUBSET Procs
      BY BcacheAssumption DEF Users
    <2>3. IsFiniteSet(Users(b)') /\ Cardinality(Users(b)') <= Cardinality(Procs)
      BY <2>2, FS_Subset
    <2> QED
      BY <2>1, <2>2, <2>3, FS_CardinalityType
  <1>10. refcnt[b] = Cardinality(Users(b)) /\ refcnt'[b] = Cardinality(Users(b)')
    BY <1>1, <1>2, <1>4, <1>5, <1>9 DEF RefInv
  <1>11. TypeOK'
    <2>1. refcnt' \in [Bufs -> 0..Cardinality(Procs)]
      BY <1>1, <1>2, <1>5, <1>9, <1>10
    <2> QED
      BY <1>1, <1>2, <1>3, <1>4, <2>1 DEF TypeOK, PC
  <1>12. RefInv'
    <2>1. ASSUME NEW c \in Bufs PROVE refcnt'[c] = Cardinality(Users(c)')
      BY <1>1, <1>2, <1>4, <1>5, <1>8, <1>10 DEF RefInv
    <2>2. ASSUME NEW q \in Procs, pc'[q] \in Referring
          PROVE  buf'[q] \in Bufs /\ want'[q] \in Blocks /\ blockno'[buf'[q]] = want'[q]
      BY <1>1, <1>2, <1>3, <1>4, <1>5, <2>2 DEF RefInv
    <2> QED
      BY <1>3, <1>4, <2>1, <2>2 DEF RefInv
  <1>13. ListInv'
    BY <1>3, <1>4 DEF ListInv
  <1>14. LockInv'
    BY <1>1, <1>3, <1>4, <1>5, <1>6 DEF LockInv
  <1>15. FlagInv'
    BY <1>1, <1>3, <1>4, <1>5 DEF FlagInv
  <1>16. QueueInv'
    BY <1>1, <1>3, <1>4, <1>5 DEF QueueInv
  <1> QED
    BY <1>11, <1>12, <1>13, <1>14, <1>15, <1>16 DEF IInv

LEMMA MissStep ==
  ASSUME IInv, NEW p \in Procs, NEW k \in Blocks, BgetMiss(p, k)
  PROVE  IInv'
  <1>1. /\ pc[p] = "out" /\ Cached(k) = {} /\ want' = [want EXCEPT ![p] = k]
        /\ UNCHANGED <<lru, data, lock, idequeue, disk>>
    BY DEF BgetMiss
  <1>2. TypeOK /\ ListInv /\ RefInv /\ LockInv /\ FlagInv /\ QueueInv
    BY DEF IInv
  <1>3. /\ pc \in [Procs -> PC] /\ buf \in [Procs -> Bufs \cup {0}]
        /\ want \in [Procs -> Blocks \cup {NoBlock}] /\ refcnt \in [Bufs -> 0..Cardinality(Procs)]
        /\ lock \in [Bufs -> Procs \cup {NoProc}] /\ blockno \in [Bufs -> Blocks \cup {NoBlock}]
        /\ valid \in [Bufs -> BOOLEAN] /\ dirty \in [Bufs -> BOOLEAN] /\ idequeue \in Seq(Bufs)
    BY <1>2 DEF TypeOK
  <1>4. /\ {"out", "nobufs"} \cap Referring = {} /\ "lock" \in Referring
        /\ {"out", "nobufs", "lock"} \cap Locked = {}
    BY DEF Referring, Locked
  <1>5. CASE pc' = [pc EXCEPT ![p] = "nobufs"] /\ UNCHANGED <<blockno, refcnt, valid, dirty, buf>>
    <2>1. TypeOK'
      BY <1>1, <1>2, <1>5 DEF TypeOK, PC
    <2>2. RefInv'
      <3>1. ASSUME NEW b \in Bufs PROVE Users(b)' = Users(b)
        BY <1>1, <1>3, <1>4, <1>5 DEF Users
      <3> QED
        BY <1>1, <1>2, <1>3, <1>4, <1>5, <3>1 DEF RefInv
    <2>3. ListInv'
      BY <1>1, <1>2 DEF ListInv
    <2>4. LockInv'
      BY <1>1, <1>2, <1>3, <1>4, <1>5 DEF LockInv
    <2>5. FlagInv'
      BY <1>1, <1>2, <1>3, <1>5 DEF FlagInv
    <2>6. QueueInv'
      BY <1>1, <1>2, <1>3, <1>5 DEF QueueInv
    <2> QED
      BY <2>1, <2>2, <2>3, <2>4, <2>5, <2>6 DEF IInv
  <1>6. CASE \E i \in Unused :
                /\ blockno' = [blockno EXCEPT ![lru[i]] = k]
                /\ valid' = [valid EXCEPT ![lru[i]] = FALSE]
                /\ dirty' = [dirty EXCEPT ![lru[i]] = FALSE]
                /\ refcnt' = [refcnt EXCEPT ![lru[i]] = 1]
                /\ buf' = [buf EXCEPT ![p] = lru[i]]
                /\ pc' = [pc EXCEPT ![p] = "lock"]
    <2>1. PICK b \in Bufs :
                /\ refcnt[b] = 0 /\ ~dirty[b]
                /\ blockno' = [blockno EXCEPT ![b] = k]
                /\ valid' = [valid EXCEPT ![b] = FALSE]
                /\ dirty' = [dirty EXCEPT ![b] = FALSE]
                /\ refcnt' = [refcnt EXCEPT ![b] = 1]
                /\ buf' = [buf EXCEPT ![p] = b]
                /\ pc' = [pc EXCEPT ![p] = "lock"]
      <3>1. PICK i \in Unused :
                /\ blockno' = [blockno EXCEPT ![lru[i]] = k]
                /\ valid' = [valid EXCEPT ![lru[i]] = FALSE]
                /\ dirty' = [dirty EXCEPT ![lru[i]] = FALSE]
                /\ refcnt' = [refcnt EXCEPT ![lru[i]] = 1]
                /\ buf' = [buf EXCEPT ![p] = lru[i]]
                /\ pc' = [pc EXCEPT ![p] = "lock"]
        BY <1>6
      <3>2. lru[i] \in Bufs /\ refcnt[lru[i]] = 0 /\ ~dirty[lru[i]]
        BY <1>2 DEF TypeOK, Unused
      <3> QED
        BY <3>1, <3>2
    <2>2. Users(b) = {} /\ lock[b] = NoProc
      BY <1>2, <2>1, Unreferred
    <2>3. Users(b)' = {p}
      BY <1>3, <1>4, <2>1, <2>2 DEF Users
    <2>4. ASSUME NEW c \in Bufs, c # b PROVE Users(c)' = Users(c)
      <3>1. ASSUME NEW q \in Procs
            PROVE  pc'[q] \in Referring /\ buf'[q] = c <=> pc[q] \in Referring /\ buf[q] = c
        <4>1. CASE q = p
          <5>1. pc[q] \notin Referring /\ buf'[q] = b
            BY <1>1, <1>3, <1>4, <2>1, <4>1
          <5> QED
            BY <2>4, <5>1
        <4>2. CASE q # p
          BY <1>3, <2>1, <4>2
        <4> QED
          BY <4>1, <4>2
      <3> QED
        BY <3>1 DEF Users
    <2>5. Cardinality(Users(b)') = 1 /\ 1 \in 0..Cardinality(Procs)
      <3>1. Cardinality({p}) = 1
        BY FS_Singleton
      <3>2. Cardinality({p}) <= Cardinality(Procs) /\ Cardinality(Procs) \in Nat
        BY BcacheAssumption, FS_Subset, FS_CardinalityType
      <3> QED
        BY <2>3, <3>1, <3>2
    <2>6. \A c \in Bufs : blockno[c] # k
      BY <1>1 DEF Cached
    <2>7. TypeOK'
      <3>1. refcnt' \in [Bufs -> 0..Cardinality(Procs)]
        BY <1>3, <2>1, <2>5
      <3> QED
        BY <1>1, <1>2, <2>1, <3>1 DEF TypeOK, PC
    <2>8. RefInv'
      <3>1. ASSUME NEW c \in Bufs PROVE refcnt'[c] = Cardinality(Users(c)')
        BY <1>2, <1>3, <2>1, <2>4, <2>5 DEF RefInv
      <3>2. ASSUME NEW q \in Procs, pc'[q] \in Referring
            PROVE  buf'[q] \in Bufs /\ want'[q] \in Blocks /\ blockno'[buf'[q]] = want'[q]
        <4>1. CASE q = p
          BY <1>1, <1>3, <2>1, <4>1
        <4>2. CASE q # p
          <5>1. pc[q] \in Referring /\ buf'[q] = buf[q] /\ want'[q] = want[q]
            BY <1>1, <1>3, <2>1, <3>2, <4>2
          <5>2. buf[q] \in Bufs /\ want[q] \in Blocks /\ blockno[buf[q]] = want[q] /\ buf[q] # b
            BY <1>2, <2>2, <5>1 DEF RefInv, Users
          <5> QED
            BY <1>3, <2>1, <5>1, <5>2
        <4> QED
          BY <4>1, <4>2
      <3>3. \A c, d \in Bufs : blockno'[c] = blockno'[d] => c = d \/ blockno'[c] = NoBlock
        BY <1>2, <1>3, <2>1, <2>6 DEF RefInv
      <3> QED
        BY <3>1, <3>2, <3>3 DEF RefInv
    <2>9. ListInv'
      BY <1>1, <1>2 DEF ListInv
    <2>10. LockInv'
      <3>1. ASSUME NEW q \in Procs, q # p PROVE pc'[q] = pc[q] /\ buf'[q] = buf[q]
        BY <1>3, <2>1, <3>1
      <3>2. pc[p] \notin Locked /\ pc'[p] \notin Locked
        BY <1>1, <1>3, <1>4, <2>1
      <3>3. \A c \in Bufs : lock'[c] = lock[c] /\ lock[c] \in Procs \cup {NoProc}
        BY <1>1, <1>3
      <3>4. ASSUME NEW c \in Bufs, lock'[c] # NoProc PROVE pc'[lock'[c]] \in Locked /\ buf'[lock'[c]] = c
        BY <1>2, <3>1, <3>2, <3>3, <3>4 DEF LockInv
      <3>5. ASSUME NEW q \in Procs, pc'[q] \in Locked PROVE lock'[buf'[q]] = q
        <4>1. q # p /\ pc[q] \in Locked
          BY <3>1, <3>2, <3>5
        <4> QED
          BY <1>1, <1>2, <3>1, <4>1 DEF LockInv
      <3> QED
        BY <3>4, <3>5 DEF LockInv
    <2>11. ASSUME NEW q \in Procs, pc[q] \in Referring PROVE buf[q] # b /\ buf[q] \in Bufs
      BY <1>2, <2>2, <2>11 DEF Users, RefInv
    <2>12. FlagInv'
      <3>1. \A c \in Bufs : (dirty'[c] => valid'[c]) /\ (valid'[c] => blockno'[c] # NoBlock)
        BY <1>2, <1>3, <2>1 DEF FlagInv
      <3>2. ASSUME NEW q \in Procs, pc'[q] \in Locked
            PROVE  /\ pc[q] = pc'[q] /\ buf'[q] = buf[q]
                   /\ valid'[buf[q]] = valid[buf[q]] /\ dirty'[buf[q]] = dirty[buf[q]]
        <4>1. q # p
          BY <1>3, <1>4, <2>1, <3>2
        <4>2. pc[q] = pc'[q] /\ buf'[q] = buf[q] /\ pc[q] \in Referring
          BY <1>3, <2>1, <3>2, <4>1 DEF Locked
        <4> QED
          BY <1>3, <2>1, <2>11, <4>2
      <3>3. {"use", "changed", "iderw"} \subseteq Locked
        BY DEF Locked, Referring
      <3> QED
        BY <1>2, <3>1, <3>2, <3>3 DEF FlagInv
    <2>13. QueueInv'
      <3>1. ASSUME NEW i \in 1..Len(idequeue)
            PROVE  /\ ~valid'[idequeue[i]] \/ dirty'[idequeue[i]]
                   /\ \E q \in Procs : buf'[q] = idequeue[i] /\ pc'[q] \in {"asleep", "awake"}
        <4>1. PICK q \in Procs : buf[q] = idequeue[i] /\ pc[q] \in {"asleep", "awake"}
          BY <1>2 DEF QueueInv
        <4>2. pc[q] \in Referring /\ q # p
          BY <1>1, <4>1 DEF Referring
        <4>3. idequeue[i] \in Bufs /\ idequeue[i] # b
          BY <2>11, <4>1, <4>2
        <4>4. ~valid[idequeue[i]] \/ dirty[idequeue[i]]
          BY <1>2 DEF QueueInv
        <4>5. ~valid'[idequeue[i]] \/ dirty'[idequeue[i]]
          BY <1>3, <2>1, <4>3, <4>4
        <4>6. buf'[q] = idequeue[i] /\ pc'[q] \in {"asleep", "awake"}
          BY <1>3, <2>1, <4>1, <4>2
        <4> QED
          BY <4>5, <4>6
      <3> QED
        BY <1>1, <1>2, <3>1 DEF QueueInv
    <2> QED
      BY <2>7, <2>8, <2>9, <2>10, <2>12, <2>13 DEF IInv
  <1> QED
    BY <1>5, <1>6 DEF BgetMiss, At

LEMMA LockStep ==
  ASSUME IInv, NEW p \in Procs, Lock(p)
  PROVE  IInv'
  <1>1. /\ pc[p] = "lock" /\ lock[buf[p]] = NoProc
        /\ lock' = [lock EXCEPT ![buf[p]] = p] /\ pc' = [pc EXCEPT ![p] = "read"]
        /\ UNCHANGED <<lru, buffers, idequeue, disk, buf, want>>
    BY DEF Lock, At
  <1>2. TypeOK /\ ListInv /\ RefInv /\ LockInv /\ FlagInv /\ QueueInv
    BY DEF IInv
  <1>3. /\ pc \in [Procs -> PC] /\ lock \in [Bufs -> Procs \cup {NoProc}]
        /\ NoProc \notin Procs
    BY <1>2, BcacheAssumption DEF TypeOK
  <1>4. buf[p] \in Bufs
    BY <1>1, Place DEF Referring
  <1>5. TypeOK'
    BY <1>1, <1>2, <1>4 DEF TypeOK, PC, buffers
  <1>6. RefInv'
    BY <1>1, <1>3, SameUsers DEF buffers, Referring
  <1>7. ListInv'
    BY <1>1, <1>2 DEF ListInv
  <1>8. LockInv'
    <2>1. ASSUME NEW q \in Procs, pc'[q] \in Locked PROVE lock'[buf[q]] = q
      <3>1. CASE q = p
        BY <1>1, <1>3, <1>4, <3>1
      <3>2. CASE q # p
        <4>1. pc[q] \in Locked
          BY <1>1, <1>3, <2>1, <3>2
        <4>2. lock[buf[q]] = q /\ buf[q] # buf[p]
          BY <1>1, <1>2, <1>3, <4>1 DEF LockInv
        <4> QED
          BY <1>1, <1>3, <4>2
      <3> QED
        BY <3>1, <3>2
    <2>2. ASSUME NEW b \in Bufs, lock'[b] # NoProc PROVE pc'[lock'[b]] \in Locked /\ buf[lock'[b]] = b
      <3>1. CASE b = buf[p]
        BY <1>1, <1>3, <1>4, <3>1 DEF Locked, Referring
      <3>2. CASE b # buf[p]
        <4>1. lock'[b] = lock[b] /\ pc[lock[b]] \in Locked /\ buf[lock[b]] = b
          BY <1>1, <1>2, <1>3, <2>2, <3>2 DEF LockInv
        <4>2. lock[b] # p /\ lock[b] \in Procs
          BY <1>1, <1>3, <2>2, <4>1 DEF Locked, Referring
        <4> QED
          BY <1>1, <1>3, <4>1, <4>2
      <3> QED
        BY <3>1, <3>2
    <2> QED
      BY <1>1, <2>1, <2>2 DEF LockInv
  <1>9. FlagInv'
    BY <1>1, <1>2, <1>3 DEF FlagInv, buffers
  <1>10. QueueInv'
    BY <1>1, <1>2, <1>3 DEF QueueInv, buffers
  <1> QED
    BY <1>5, <1>6, <1>7, <1>8, <1>9, <1>10 DEF IInv

LEMMA BreadStep ==
  ASSUME IInv, NEW p \in Procs, Bread(p)
  PROVE  IInv'
  <1>1. /\ pc[p] = "read" /\ pc' = [pc EXCEPT ![p] = IF valid[buf[p]] THEN "use" ELSE "iderw"]
        /\ UNCHANGED <<lru, buffers, lock, idequeue, disk, buf, want>>
    BY DEF Bread, At
  <1>2. TypeOK /\ ListInv /\ RefInv /\ LockInv /\ FlagInv /\ QueueInv
    BY DEF IInv
  <1>3. pc \in [Procs -> PC]
    BY <1>2 DEF TypeOK
  <1>4. TypeOK'
    BY <1>1, <1>2 DEF TypeOK, PC, buffers
  <1>5. RefInv'
    BY <1>1, <1>3, SameUsers DEF buffers, Referring
  <1>6. LockInv'
    BY <1>1, <1>3, SameLocks DEF Locked, Referring
  <1>7. ListInv'
    BY <1>1, <1>2 DEF ListInv
  <1>8. FlagInv'
    BY <1>1, <1>2, <1>3 DEF FlagInv, buffers
  <1>9. QueueInv'
    BY <1>1, <1>2, <1>3 DEF QueueInv, buffers
  <1> QED
    BY <1>4, <1>5, <1>6, <1>7, <1>8, <1>9 DEF IInv

LEMMA ModifyStep ==
  ASSUME IInv, NEW p \in Procs, Modify(p)
  PROVE  IInv'
  <1>1. /\ pc[p] = "use" /\ data' = [data EXCEPT ![buf[p]] = 1 - @]
        /\ pc' = [pc EXCEPT ![p] = "changed"]
        /\ UNCHANGED <<lru, blockno, refcnt, valid, dirty, lock, idequeue, disk, buf, want>>
    BY DEF Modify, At
  <1>2. TypeOK /\ ListInv /\ RefInv /\ LockInv /\ FlagInv /\ QueueInv
    BY DEF IInv
  <1>3. pc \in [Procs -> PC] /\ data \in [Bufs -> Values]
    BY <1>2 DEF TypeOK
  <1>4. TypeOK'
    <2>1. \A v \in Values : 1 - v \in Values
      BY DEF Values
    <2>2. data' \in [Bufs -> Values]
      BY <1>1, <1>3, <2>1
    <2> QED
      BY <1>1, <1>2, <2>2 DEF TypeOK, PC
  <1>5. RefInv'
    BY <1>1, <1>3, SameUsers DEF Referring
  <1>6. LockInv'
    BY <1>1, <1>3, SameLocks DEF Locked, Referring
  <1>7. ListInv'
    BY <1>1, <1>2 DEF ListInv
  <1>8. FlagInv'
    BY <1>1, <1>2, <1>3 DEF FlagInv
  <1>9. QueueInv'
    BY <1>1, <1>2, <1>3 DEF QueueInv
  <1> QED
    BY <1>4, <1>5, <1>6, <1>7, <1>8, <1>9 DEF IInv

(* log_write() and bwrite() both make the buffer of p dirty. *)
LEMMA DirtyStep ==
  ASSUME IInv, NEW p \in Procs, LogWrite(p) \/ Bwrite(p)
  PROVE  IInv'
  <1>1. PICK label \in {"use", "iderw"} :
        /\ pc[p] \in {"use", "changed"} /\ dirty' = [dirty EXCEPT ![buf[p]] = TRUE]
        /\ pc' = [pc EXCEPT ![p] = label]
        /\ UNCHANGED <<lru, blockno, refcnt, valid, data, lock, idequeue, disk, buf, want>>
    BY DEF LogWrite, Bwrite, At
  <1>2. TypeOK /\ ListInv /\ RefInv /\ LockInv /\ FlagInv /\ QueueInv
    BY DEF IInv
  <1>3. pc \in [Procs -> PC] /\ dirty \in [Bufs -> BOOLEAN] /\ idequeue \in Seq(Bufs)
    BY <1>2 DEF TypeOK
  <1>4. buf[p] \in Bufs
    BY <1>1, Place DEF Referring
  <1>5. TypeOK'
    <2>1. dirty' \in [Bufs -> BOOLEAN]
      BY <1>1, <1>3
    <2> QED
      BY <1>1, <1>2, <2>1 DEF TypeOK, PC
  <1>6. RefInv'
    BY <1>1, <1>3, SameUsers DEF Referring
  <1>7. LockInv'
    BY <1>1, <1>3, SameLocks DEF Locked, Referring
  <1>8. ListInv'
    BY <1>1, <1>2 DEF ListInv
  <1>9. valid[buf[p]] /\ dirty'[buf[p]] /\ \A b \in Bufs : b # buf[p] => dirty'[b] = dirty[b]
    BY <1>1, <1>2, <1>3, <1>4 DEF FlagInv
  <1>10. FlagInv'
    <2>1. ASSUME NEW q \in Procs, pc'[q] = "iderw" PROVE ~valid[buf[q]] \/ dirty'[buf[q]]
      <3>1. CASE buf[q] = buf[p]
        BY <1>9, <3>1
      <3>2. CASE buf[q] # buf[p]
        <4>1. pc[q] = "iderw" /\ buf[q] \in Bufs
          BY <1>1, <1>3, <2>1, <3>2, Place DEF Referring
        <4> QED
          BY <1>2, <1>9, <3>2, <4>1 DEF FlagInv
      <3> QED
        BY <3>1, <3>2
    <2>2. \A q \in Procs : pc'[q] \in {"use", "changed"} => valid[buf[q]]
      BY <1>1, <1>2, <1>3, <1>9 DEF FlagInv
    <2>3. \A b \in Bufs : dirty'[b] => valid[b]
      BY <1>2, <1>9 DEF FlagInv
    <2> QED
      BY <1>1, <1>2, <2>1, <2>2, <2>3 DEF FlagInv
  <1>11. QueueInv'
    <2>1. ASSUME NEW i \in 1..Len(idequeue)
          PROVE  /\ ~valid[idequeue[i]] \/ dirty'[idequeue[i]]
                 /\ \E q \in Procs : buf[q] = idequeue[i] /\ pc'[q] \in {"asleep", "awake"}
      BY <1>1, <1>2, <1>3, <1>9 DEF QueueInv
    <2> QED
      BY <1>1, <1>2, <2>1 DEF QueueInv
  <1> QED
    BY <1>5, <1>6, <1>7, <1>8, <1>10, <1>11 DEF IInv

LEMMA BrelseStep ==
  ASSUME IInv, NEW p \in Procs, Brelse(p)
  PROVE  IInv'
  <1>1. /\ pc[p] = "use" /\ lock' = [lock EXCEPT ![buf[p]] = NoProc]
        /\ pc' = [pc EXCEPT ![p] = "put"]
        /\ UNCHANGED <<lru, buffers, idequeue, disk, buf, want>>
    BY DEF Brelse, At
  <1>2. TypeOK /\ ListInv /\ RefInv /\ LockInv /\ FlagInv /\ QueueInv
    BY DEF IInv
  <1>3. pc \in [Procs -> PC] /\ lock \in [Bufs -> Procs \cup {NoProc}]
    BY <1>2 DEF TypeOK
  <1>4. buf[p] \in Bufs
    BY <1>1, Place DEF Referring
  <1>5. TypeOK'
    BY <1>1, <1>2, <1>4 DEF TypeOK, PC, buffers
  <1>6. RefInv'
    BY <1>1, <1>3, SameUsers DEF buffers, Referring
  <1>7. ListInv'
    BY <1>1, <1>2 DEF ListInv
  <1>8. LockInv'
    <2>1. lock[buf[p]] = p /\ "put" \notin Locked
      BY <1>1, <1>2 DEF LockInv, Locked, Referring
    <2>2. ASSUME NEW q \in Procs, pc'[q] \in Locked PROVE lock'[buf[q]] = q
      <3>1. q # p /\ pc[q] \in Locked
        BY <1>1, <1>3, <2>1, <2>2
      <3>2. lock[buf[q]] = q /\ buf[q] # buf[p]
        BY <1>2, <2>1, <3>1 DEF LockInv
      <3> QED
        BY <1>1, <1>3, <3>2
    <2>3. ASSUME NEW b \in Bufs, lock'[b] # NoProc PROVE pc'[lock'[b]] \in Locked /\ buf[lock'[b]] = b
      <3>1. b # buf[p] /\ lock'[b] = lock[b]
        BY <1>1, <1>3, <1>4, <2>3
      <3>2. pc[lock[b]] \in Locked /\ buf[lock[b]] = b /\ lock[b] \in Procs
        BY <1>2, <1>3, <2>3, <3>1 DEF LockInv
      <3>3. lock[b] # p
        BY <3>1, <3>2
      <3> QED
        BY <1>1, <1>3, <3>1, <3>2, <3>3
    <2> QED
      BY <1>1, <2>2, <2>3 DEF LockInv
  <1>9. FlagInv'
    BY <1>1, <1>2, <1>3 DEF FlagInv, buffers
  <1>10. QueueInv'
    BY <1>1, <1>2, <1>3 DEF QueueInv, buffers
  <1> QED
    BY <1>5, <1>6, <1>7, <1>8, <1>9, <1>10 DEF IInv

LEMMA UnrefStep ==
  ASSUME IInv, NEW p \in Procs, Unref(p)
  PROVE  IInv'
  <1>1. TypeOK /\ ListInv /\ RefInv /\ LockInv /\ FlagInv /\ QueueInv
    BY DEF IInv
  <1>2. PICK b \in Bufs :
        /\ b = buf[p]
        /\ pc[p] = "put" /\ refcnt' = [refcnt EXCEPT ![b] = @ - 1]
        /\ lru' = IF refcnt[b] = 1 THEN ToFront(b) ELSE lru
        /\ buf' = [buf EXCEPT ![p] = 0] /\ want' = [want EXCEPT ![p] = NoBlock]
        /\ pc' = [pc EXCEPT ![p] = "out"]
        /\ UNCHANGED <<blockno, valid, dirty, data, lock, idequeue, disk>>
    BY Place DEF Unref, At, Referring
  <1>3. /\ pc \in [Procs -> PC] /\ lock \in [Bufs -> Procs \cup {NoProc}]
        /\ refcnt \in [Bufs -> 0..Cardinality(Procs)] /\ buf \in [Procs -> Bufs \cup {0}]
        /\ lru \in [1..NBUF -> Bufs] /\ IsInjective(lru)
        /\ want \in [Procs -> Blocks \cup {NoBlock}]
    BY <1>1 DEF TypeOK
  <1>4. \A q \in Procs : q # p => pc'[q] = pc[q] /\ buf'[q] = buf[q] /\ want'[q] = want[q]
    BY <1>2, <1>3
  <1>5. "put" \in Referring /\ "put" \notin Locked /\ "out" \notin Referring /\ "out" \notin Locked
    BY DEF Referring, Locked
  <1>6. pc'[p] = "out"
    BY <1>2, <1>3
  <1>7. Users(b)' = Users(b) \ {p} /\ p \in Users(b)
    BY <1>2, <1>4, <1>5, <1>6 DEF Users
  <1>8. ASSUME NEW c \in Bufs, c # b PROVE Users(c)' = Users(c)
    BY <1>2, <1>4, <1>5, <1>6, <1>8 DEF Users
  <1>9. /\ refcnt[b] = Cardinality(Users(b)) /\ refcnt'[b] = Cardinality(Users(b)')
        /\ refcnt'[b] \in 0..Cardinality(Procs)
    <2>1. Cardinality(Users(b)') = Cardinality(Users(b)) - 1
      BY <1>7, UserCount, FS_RemoveElement
    <2>2. refcnt[b] = Cardinality(Users(b))
      BY <1>1 DEF RefInv
    <2>3. Cardinality(Users(b)') \in Nat
      BY <1>7, UserCount, FS_RemoveElement, FS_CardinalityType
    <2>4. refcnt'[b] = refcnt[b] - 1 /\ refcnt[b] \in 0..Cardinality(Procs) /\ Cardinality(Procs) \in Nat
      BY <1>2, <1>3, BcacheAssumption, FS_CardinalityType
    <2> QED
      BY <2>1, <2>2, <2>3, <2>4
  <1>10. lru' \in [1..NBUF -> Bufs] /\ IsInjective(lru') /\ ListInv'
    BY <1>1, <1>2, <1>3, Moved DEF ListInv
  <1>11. TypeOK'
    <2>1. refcnt' \in [Bufs -> 0..Cardinality(Procs)]
      BY <1>2, <1>3, <1>9
    <2> QED
      BY <1>1, <1>2, <1>10, <2>1 DEF TypeOK, PC
  <1>12. RefInv'
    <2>1. ASSUME NEW c \in Bufs PROVE refcnt'[c] = Cardinality(Users(c)')
      BY <1>1, <1>2, <1>3, <1>8, <1>9 DEF RefInv
    <2>2. ASSUME NEW q \in Procs, pc'[q] \in Referring
          PROVE  buf'[q] \in Bufs /\ want'[q] \in Blocks /\ blockno[buf'[q]] = want'[q]
      BY <1>1, <1>4, <1>5, <1>6, <2>2 DEF RefInv
    <2> QED
      BY <1>1, <1>2, <2>1, <2>2 DEF RefInv
  <1>13. LockInv'
    <2>1. ASSUME NEW q \in Procs, pc'[q] \in Locked PROVE lock[buf'[q]] = q
      BY <1>1, <1>4, <1>5, <1>6, <2>1 DEF LockInv
    <2>2. ASSUME NEW c \in Bufs, lock[c] # NoProc PROVE pc'[lock[c]] \in Locked /\ buf'[lock[c]] = c
      <3>1. pc[lock[c]] \in Locked /\ buf[lock[c]] = c /\ lock[c] \in Procs
        BY <1>1, <1>3, <2>2 DEF LockInv
      <3>2. lock[c] # p
        BY <1>2, <1>5, <3>1
      <3> QED
        BY <1>4, <3>1, <3>2
    <2> QED
      BY <1>2, <2>1, <2>2 DEF LockInv
  <1>14. FlagInv'
    <2>1. ASSUME NEW q \in Procs, pc'[q] \in {"use", "changed", "iderw"}
          PROVE  pc[q] = pc'[q] /\ buf'[q] = buf[q]
      BY <1>4, <1>6, <2>1
    <2> QED
      BY <1>1, <1>2, <2>1 DEF FlagInv
  <1>15. QueueInv'
    <2>1. ASSUME NEW i \in 1..Len(idequeue)
          PROVE  /\ ~valid[idequeue[i]] \/ dirty[idequeue[i]]
                 /\ \E q \in Procs : buf'[q] = idequeue[i] /\ pc'[q] \in {"asleep", "awake"}
      <3>1. PICK q \in Procs : buf[q] = idequeue[i] /\ pc[q] \in {"asleep", "awake"}
        BY <1>1 DEF QueueInv
      <3>2. q # p
        BY <1>2, <3>1
      <3> QED
        BY <1>1, <1>4, <3>1, <3>2 DEF QueueInv
    <2> QED
      BY <1>1, <1>2, <2>1 DEF QueueInv
  <1> QED
    BY <1>10, <1>11, <1>12, <1>13, <1>14, <1>15 DEF IInv

LEMMA IderwStep ==
  ASSUME IInv, NEW p \in Procs, Iderw(p)
  PROVE  IInv' /\ pc'[p] = "asleep"
  <1>1. TypeOK /\ ListInv /\ RefInv /\ LockInv /\ FlagInv /\ QueueInv
    BY DEF IInv
  <1>2. pc[p] = "iderw" /\ buf[p] \in Bufs /\ (~valid[buf[p]] \/ dirty[buf[p]])
    BY <1>1, Place DEF Iderw, Referring, FlagInv
  <1>3. /\ pc' = [pc EXCEPT ![p] = "asleep"] /\ idequeue' = Append(idequeue, buf[p])
        /\ UNCHANGED <<lru, buffers, lock, disk, buf, want>>
    BY <1>2 DEF Iderw, At
  <1>4. pc \in [Procs -> PC] /\ idequeue \in Seq(Bufs)
    BY <1>1 DEF TypeOK
  <1>5. TypeOK'
    <2>1. idequeue' \in Seq(Bufs)
      BY <1>2, <1>3, <1>4
    <2> QED
      BY <1>1, <1>3, <2>1 DEF TypeOK, PC, buffers
  <1>6. RefInv'
    BY <1>2, <1>3, <1>4, SameUsers DEF buffers, Referring
  <1>7. LockInv'
    BY <1>2, <1>3, <1>4, SameLocks DEF Locked, Referring
  <1>8. ListInv'
    BY <1>1, <1>3 DEF ListInv
  <1>9. FlagInv'
    BY <1>1, <1>3, <1>4 DEF FlagInv, buffers
  <1>10. ASSUME NEW i \in 1..Len(idequeue) PROVE idequeue[i] # buf[p]
    <2>1. PICK q \in Procs : buf[q] = idequeue[i] /\ pc[q] \in {"asleep", "awake"}
      BY <1>1 DEF QueueInv
    <2> QED
      BY <1>2, <2>1, OneUser DEF Locked, Referring
  <1>11. QueueInv'
    <2>1. /\ Len(idequeue') = Len(idequeue) + 1 /\ Len(idequeue) \in Nat
          /\ idequeue'[Len(idequeue')] = buf[p]
          /\ \A i \in 1..Len(idequeue) : idequeue'[i] = idequeue[i]
      BY <1>2, <1>3, <1>4
    <2>2. ASSUME NEW i \in 1..Len(idequeue'), NEW j \in 1..Len(idequeue'), idequeue'[i] = idequeue'[j]
          PROVE  i = j
      <3>1. \A a \in 1..Len(idequeue') : a = Len(idequeue') \/ a \in 1..Len(idequeue)
        BY <2>1
      <3> QED
        BY <1>1, <1>10, <2>1, <2>2, <3>1 DEF QueueInv
    <2>3. ASSUME NEW i \in 1..Len(idequeue')
          PROVE  /\ ~valid[idequeue'[i]] \/ dirty[idequeue'[i]]
                 /\ \E q \in Procs : buf[q] = idequeue'[i] /\ pc'[q] \in {"asleep", "awake"}
      <3>1. CASE i = Len(idequeue')
        BY <1>2, <1>3, <1>4, <2>1, <3>1
      <3>2. CASE i \in 1..Len(idequeue)
        <4>1. PICK q \in Procs : buf[q] = idequeue[i] /\ pc[q] \in {"asleep", "awake"}
          BY <1>1, <3>2 DEF QueueInv
        <4>2. pc'[q] \in {"asleep", "awake"}
          BY <1>3, <1>4, <4>1
        <4> QED
          BY <1>1, <2>1, <3>2, <4>1, <4>2 DEF QueueInv
      <3> QED
        BY <2>1, <3>1, <3>2
    <2> QED
      BY <1>3, <2>2, <2>3 DEF QueueInv, buffers
  <1> QED
    BY <1>3, <1>4, <1>5, <1>6, <1>7, <1>8, <1>9, <1>11 DEF IInv

(* A waiting process that tests the flags, or is woken by kill(). *)
LEMMA WaitStep ==
  ASSUME IInv, NEW p \in Procs, Awake(p) \/ Killed(p)
  PROVE  IInv'
  <1>1. PICK label \in {"use", "asleep", "awake"} :
        /\ pc[p] \in {"asleep", "awake"} /\ pc' = [pc EXCEPT ![p] = label]
        /\ label = "use" => valid[buf[p]] /\ ~dirty[buf[p]]
        /\ UNCHANGED <<lru, buffers, lock, idequeue, disk, buf, want>>
    BY DEF Awake, Killed, At
  <1>2. TypeOK /\ ListInv /\ RefInv /\ LockInv /\ FlagInv /\ QueueInv
    BY DEF IInv
  <1>3. pc \in [Procs -> PC]
    BY <1>2 DEF TypeOK
  <1>4. TypeOK'
    BY <1>1, <1>2 DEF TypeOK, PC, buffers
  <1>5. RefInv'
    BY <1>1, <1>3, SameUsers DEF buffers, Referring
  <1>6. LockInv'
    BY <1>1, <1>3, SameLocks DEF Locked, Referring
  <1>7. ListInv'
    BY <1>1, <1>2 DEF ListInv
  <1>8. FlagInv'
    BY <1>1, <1>2, <1>3 DEF FlagInv, buffers
  <1>9. QueueInv'
    <2>1. ASSUME NEW i \in 1..Len(idequeue)
          PROVE  \E q \in Procs : buf[q] = idequeue[i] /\ pc'[q] \in {"asleep", "awake"}
      <3>1. PICK q \in Procs : buf[q] = idequeue[i] /\ pc[q] \in {"asleep", "awake"}
        BY <1>2 DEF QueueInv
      <3>2. ~valid[idequeue[i]] \/ dirty[idequeue[i]]
        BY <1>2 DEF QueueInv
      <3>3. pc'[q] \in {"asleep", "awake"}
        BY <1>1, <1>3, <3>1, <3>2
      <3> QED
        BY <3>1, <3>3
    <2> QED
      BY <1>1, <1>2, <2>1 DEF QueueInv, buffers
  <1> QED
    BY <1>4, <1>5, <1>6, <1>7, <1>8, <1>9 DEF IInv

(* What ideintr() does to the buffer of the first request. *)
LEMMA Completes ==
  ASSUME TypeOK, Ideintr
  PROVE  \E b \in Bufs :
            /\ b = idequeue[1] /\ idequeue # <<>>
            /\ disk' = IF dirty[b] THEN [disk EXCEPT ![blockno[b]] = data[b]] ELSE disk
            /\ data' = data \/ data' = [data EXCEPT ![b] = disk[blockno[b]]]
            /\ ~ReadErrors =>
                  data' = IF dirty[b] THEN data ELSE [data EXCEPT ![b] = disk[blockno[b]]]
            /\ valid' = [valid EXCEPT ![b] = TRUE] /\ dirty' = [dirty EXCEPT ![b] = FALSE]
            /\ pc' = WakeOwner(b) /\ idequeue' = Tail(idequeue)
            /\ UNCHANGED <<lru, blockno, refcnt, lock, buf, want>>
  <1> DEFINE h == Head(idequeue)
  <1>1. idequeue \in Seq(Bufs) /\ idequeue # <<>>
    BY DEF TypeOK, Ideintr
  <1>2. h \in Bufs /\ h = idequeue[1]
    BY <1>1
  <1>3. PICK ok \in (IF ReadErrors THEN BOOLEAN ELSE {TRUE}) :
            data' = IF dirty[h] \/ ~ok THEN data ELSE [data EXCEPT ![h] = disk[blockno[h]]]
    BY DEF Ideintr
  <1>4. data' = data \/ data' = [data EXCEPT ![h] = disk[blockno[h]]]
    BY <1>3, Zenon
  <1>5. ~ReadErrors => data' = IF dirty[h] THEN data ELSE [data EXCEPT ![h] = disk[blockno[h]]]
    <2>1. ~ReadErrors => ok = TRUE
      BY <1>3
    <2> QED
      BY <1>3, <2>1
  <1>6. /\ disk' = IF dirty[h] THEN [disk EXCEPT ![blockno[h]] = data[h]] ELSE disk
        /\ valid' = [valid EXCEPT ![h] = TRUE] /\ dirty' = [dirty EXCEPT ![h] = FALSE]
        /\ pc' = WakeOwner(h) /\ idequeue' = Tail(idequeue)
        /\ UNCHANGED <<lru, blockno, refcnt, lock, buf, want>>
    BY Zenon DEF Ideintr
  <1> HIDE DEF h
  <1> QED
    BY <1>1, <1>2, <1>4, <1>5, <1>6, Zenon

(* Its buffer becomes valid and clean, and its only owner, who waits, is   *)
(* woken.                                                                  *)
LEMMA InterruptStep ==
  ASSUME IInv, Ideintr
  PROVE  IInv'
  <1>1. TypeOK /\ ListInv /\ RefInv /\ LockInv /\ FlagInv /\ QueueInv
    BY DEF IInv
  <1>2. PICK b \in Bufs :
        /\ b = idequeue[1] /\ idequeue # <<>>
        /\ disk' = IF dirty[b] THEN [disk EXCEPT ![blockno[b]] = data[b]] ELSE disk
        /\ data' = data \/ data' = [data EXCEPT ![b] = disk[blockno[b]]]
        /\ valid' = [valid EXCEPT ![b] = TRUE] /\ dirty' = [dirty EXCEPT ![b] = FALSE]
        /\ pc' = WakeOwner(b) /\ idequeue' = Tail(idequeue)
        /\ UNCHANGED <<lru, blockno, refcnt, lock, buf, want>>
    BY <1>1, Completes
  <1>3. /\ pc \in [Procs -> PC] /\ idequeue \in Seq(Bufs) /\ blockno \in [Bufs -> Blocks \cup {NoBlock}]
        /\ valid \in [Bufs -> BOOLEAN] /\ dirty \in [Bufs -> BOOLEAN]
        /\ data \in [Bufs -> Values] /\ disk \in [Blocks -> Values]
    BY <1>1 DEF TypeOK
  <1>4. /\ Len(idequeue) \in Nat \ {0} /\ Len(idequeue') = Len(idequeue) - 1
        /\ \A i \in 1..Len(idequeue') : i + 1 \in 1..Len(idequeue) /\ idequeue'[i] = idequeue[i + 1]
    BY <1>2, <1>3
  <1>5. PICK owner \in Procs : buf[owner] = b /\ pc[owner] \in {"asleep", "awake"}
    BY <1>1, <1>2, <1>4 DEF QueueInv
  <1>6. blockno[b] \in Blocks
    BY <1>5, Place DEF Referring
  <1>7. ASSUME NEW q \in Procs, pc[q] \in Locked, q # owner PROVE buf[q] # b
    BY <1>5, <1>7, OneUser DEF Locked, Referring
  <1>8. ASSUME NEW q \in Procs PROVE pc'[q] = IF buf[q] = b /\ pc[q] = "asleep" THEN "awake" ELSE pc[q]
    BY <1>2 DEF WakeOwner
  <1>9. ASSUME NEW q \in Procs
        PROVE  /\ (pc'[q] \in Referring <=> pc[q] \in Referring) /\ (pc'[q] \in Locked <=> pc[q] \in Locked)
               /\ (pc'[q] \in {"asleep", "awake"} <=> pc[q] \in {"asleep", "awake"})
               /\ \A l \in {"use", "changed", "iderw"} : pc'[q] = l <=> pc[q] = l
    BY <1>8 DEF Referring, Locked
  <1>10. TypeOK'
    <2>1. pc' \in [Procs -> PC]
      BY <1>2, <1>3 DEF WakeOwner, PC
    <2>2. data' \in [Bufs -> Values] /\ disk' \in [Blocks -> Values]
      BY <1>2, <1>3, <1>6
    <2>3. valid' \in [Bufs -> BOOLEAN] /\ dirty' \in [Bufs -> BOOLEAN] /\ idequeue' \in Seq(Bufs)
      BY <1>2, <1>3
    <2> QED
      BY <1>1, <1>2, <2>1, <2>2, <2>3 DEF TypeOK
  <1>11. RefInv'
    BY <1>2, <1>9, SameUsers
  <1>12. LockInv'
    BY <1>2, <1>9, SameLocks
  <1>13. ListInv'
    BY <1>1, <1>2 DEF ListInv
  <1>14. /\ valid'[b] /\ ~dirty'[b]
         /\ \A c \in Bufs : c # b => valid'[c] = valid[c] /\ dirty'[c] = dirty[c]
    BY <1>2, <1>3
  <1>15. FlagInv'
    <2>1. \A c \in Bufs : (dirty'[c] => valid'[c]) /\ (valid'[c] => blockno[c] # NoBlock)
      BY <1>1, <1>6, <1>14, BcacheAssumption DEF FlagInv
    <2>2. ASSUME NEW q \in Procs, pc'[q] \in {"use", "changed", "iderw"}
          PROVE  pc[q] = pc'[q] /\ buf[q] # b /\ buf[q] \in Bufs
      <3>1. pc[q] = pc'[q] /\ q # owner
        BY <1>5, <1>9, <2>2
      <3>2. pc[q] \in Locked /\ pc[q] \in Referring
        BY <2>2, <3>1 DEF Locked, Referring
      <3> QED
        BY <1>7, <3>1, <3>2, Place
    <2> QED
      BY <1>1, <1>2, <1>14, <2>1, <2>2 DEF FlagInv
  <1>16. QueueInv'
    <2>1. ASSUME NEW i \in 1..Len(idequeue') PROVE idequeue'[i] \in Bufs /\ idequeue'[i] # b
      <3>1. i + 1 # 1 /\ 1 \in 1..Len(idequeue)
        BY <1>4
      <3>2. idequeue'[i] # b
        BY <1>1, <1>2, <1>4, <3>1 DEF QueueInv
      <3> QED
        BY <1>3, <1>4, <3>2
    <2>2. ASSUME NEW i \in 1..Len(idequeue')
          PROVE  /\ ~valid'[idequeue'[i]] \/ dirty'[idequeue'[i]]
                 /\ \E q \in Procs : buf[q] = idequeue'[i] /\ pc'[q] \in {"asleep", "awake"}
      <3>1. /\ ~valid[idequeue'[i]] \/ dirty[idequeue'[i]]
            /\ \E q \in Procs : buf[q] = idequeue'[i] /\ pc[q] \in {"asleep", "awake"}
        BY <1>1, <1>4 DEF QueueInv
      <3> QED
        BY <1>9, <1>14, <2>1, <3>1
    <2>3. ASSUME NEW i \in 1..Len(idequeue'), NEW j \in 1..Len(idequeue'), idequeue'[i] = idequeue'[j]
          PROVE  i = j
      <3>1. i + 1 = j + 1
        BY <1>1, <1>4, <2>3 DEF QueueInv
      <3> QED
        BY <3>1
    <2> QED
      BY <1>2, <2>2, <2>3 DEF QueueInv
  <1> QED
    BY <1>10, <1>11, <1>12, <1>13, <1>15, <1>16 DEF IInv

LEMMA NextIInv == IInv /\ [Next]_vars => IInv'
  <1> SUFFICES ASSUME IInv, [Next]_vars PROVE IInv'
    OBVIOUS
  <1>1. ASSUME NEW p \in Procs, NEW k \in Blocks, bget(p, k) PROVE IInv'
    BY <1>1, HitStep, MissStep DEF bget
  <1>2. ASSUME NEW p \in Procs, Lock(p) \/ Bread(p) \/ Modify(p) \/ LogWrite(p) \/ Bwrite(p) PROVE IInv'
    BY <1>2, LockStep, BreadStep, ModifyStep, DirtyStep
  <1>3. ASSUME NEW p \in Procs, iderw(p) \/ brelse(p) \/ Killed(p) PROVE IInv'
    BY <1>3, IderwStep, WaitStep, BrelseStep, UnrefStep DEF iderw, brelse
  <1>4. CASE Ideintr
    BY <1>4, InterruptStep
  <1>5. CASE UNCHANGED vars
    <2>1. ASSUME NEW b PROVE Users(b)' = Users(b)
      BY <1>5 DEF Users, vars
    <2> QED
      BY <1>5, <2>1 DEF IInv, TypeOK, ListInv, RefInv, LockInv, FlagInv, QueueInv, vars, buffers
  <1> QED
    BY <1>1, <1>2, <1>3, <1>4, <1>5 DEF Next

(* The invariant of every run of the cache. *)
THEOREM Inductive == Spec => []IInv
  BY InitIInv, NextIInv, PTL DEF Spec

(* A buffer that somebody refers to keeps its block (bio.c:81 recycles     *)
(* only what nobody does), and no block is in two buffers.                 *)
THEOREM BcacheInvHolds == Spec => []BcacheInv
  <1>1. IInv => BcacheInv
    <2> SUFFICES ASSUME IInv PROVE KeepsItsBlock /\ TypeOK
      BY DEF BcacheInv
    <2>1. ASSUME NEW k \in Blocks PROVE Cardinality(Cached(k)) <= 1
      <3>1. \A b, c \in Cached(k) : b = c
        BY BcacheAssumption DEF Cached, IInv, RefInv
      <3>2. CASE Cached(k) = {}
        BY <3>2, FS_EmptySet
      <3>3. ASSUME NEW b \in Cached(k) PROVE Cardinality(Cached(k)) <= 1
        <4>1. Cached(k) = {b}
          BY <3>1
        <4> QED
          BY <4>1, FS_Singleton
      <3> QED
        BY <3>2, <3>3
    <2> QED
      BY <2>1 DEF KeepsItsBlock, IInv, RefInv
  <1> QED
    BY <1>1, Inductive, PTL

-----------------------------------------------------------------------------
(* Without a buffer to recycle each one is pinned, or in use. *)
LEMMA AllTaken ==
  ASSUME IInv, Unused = {}, NEW b \in Bufs
  PROVE  dirty[b] \/ \E q \in Procs : pc[q] \in Referring /\ buf[q] = b
  <1>1. PICK i \in 1..NBUF : lru[i] = b
    BY DEF IInv, ListInv
  <1>2. refcnt[b] # 0 \/ dirty[b]
    BY <1>1 DEF Unused
  <1>3. refcnt[b] # 0 => Users(b) # {}
    BY FS_EmptySet DEF IInv, RefInv
  <1> QED
    BY <1>2, <1>3 DEF Users

(* Every other step leads to a place that is no panic. *)
LEMMA OneMoves ==
  ASSUME IInv, [Next]_vars, \A p \in Procs, k \in Blocks : ~BgetMiss(p, k)
  PROVE  \A q \in Procs : pc'[q] # pc[q] => pc'[q] \notin {"nobufs", "panic"}
  <1>0. pc \in [Procs -> PC]
    BY DEF IInv, TypeOK
  <1>1. ASSUME NEW p \in Procs, NEW label \in PC \ {"nobufs", "panic"}, pc' = [pc EXCEPT ![p] = label]
        PROVE  \A q \in Procs : pc'[q] # pc[q] => pc'[q] \notin {"nobufs", "panic"}
    BY <1>0, <1>1
  <1>2. ASSUME NEW p \in Procs, NEW k \in Blocks, BgetHit(p, k)
        PROVE  \A q \in Procs : pc'[q] # pc[q] => pc'[q] \notin {"nobufs", "panic"}
    BY <1>1, <1>2 DEF BgetHit, At, PC
  <1>3. ASSUME NEW p \in Procs,
               Lock(p) \/ Modify(p) \/ LogWrite(p) \/ Bwrite(p) \/ Brelse(p) \/ Unref(p) \/ Killed(p)
        PROVE  \A q \in Procs : pc'[q] # pc[q] => pc'[q] \notin {"nobufs", "panic"}
    BY <1>1, <1>3 DEF Lock, Modify, LogWrite, Bwrite, Brelse, Unref, Killed, At, PC
  <1>4. ASSUME NEW p \in Procs, Bread(p) \/ Awake(p)
        PROVE  \A q \in Procs : pc'[q] # pc[q] => pc'[q] \notin {"nobufs", "panic"}
    <2>1. \E label \in {"use", "iderw", "asleep"} : pc' = [pc EXCEPT ![p] = label]
      BY <1>4 DEF Bread, Awake, At
    <2> QED
      BY <1>1, <2>1 DEF PC
  <1>5. ASSUME NEW p \in Procs, Iderw(p)
        PROVE  \A q \in Procs : pc'[q] # pc[q] => pc'[q] \notin {"nobufs", "panic"}
    <2>1. pc'[p] = "asleep" /\ \A q \in Procs : q # p => pc'[q] = pc[q]
      BY <1>0, <1>5, IderwStep DEF Iderw, At
    <2> QED
      BY <2>1
  <1>6. CASE Ideintr
    BY <1>6 DEF Ideintr, WakeOwner
  <1>7. CASE UNCHANGED vars
    BY <1>7 DEF vars
  <1> QED
    BY <1>2, <1>3, <1>4, <1>5, <1>6, <1>7 DEF Next, bget, iderw, brelse

(* However the buffers are used, bget() panics (bio.c:92) only when each   *)
(* one is pinned or in use, and iderw() always has something to do         *)
(* (ide.c:143).                                                            *)
THEOREM PanicsWhenTakenHolds == Spec => PanicsWhenTaken
  <1> DEFINE Fine ==
        \A p \in Procs : pc'[p] # pc[p] =>
          /\ pc'[p] # "panic"
          /\ pc'[p] = "nobufs" => \A b \in Bufs : dirty[b] \/ \E q \in Procs : buf[q] = b
  <1>1. IInv /\ [Next]_vars => [Fine]_vars
    <2> SUFFICES ASSUME IInv, [Next]_vars PROVE Fine
      OBVIOUS
    <2>1. CASE \A p \in Procs, k \in Blocks : ~BgetMiss(p, k)
      BY <2>1, OneMoves
    <2>2. ASSUME NEW p \in Procs, NEW k \in Blocks, BgetMiss(p, k) PROVE Fine
      <3>1. /\ pc \in [Procs -> PC]
            /\ \/ Unused = {} /\ pc' = [pc EXCEPT ![p] = "nobufs"]
               \/ pc' = [pc EXCEPT ![p] = "lock"]
        BY <2>2 DEF BgetMiss, At, IInv, TypeOK
      <3>2. \A q \in Procs : pc'[q] # pc[q] => pc'[q] \in {"nobufs", "lock"}
        BY <3>1
      <3>3. CASE Unused = {}
        BY <3>2, <3>3, AllTaken
      <3>4. CASE Unused # {}
        BY <3>1, <3>4
      <3> QED
        BY <3>3, <3>4
    <2> QED
      BY <2>1, <2>2
  <1> QED
    BY <1>1, Inductive, PTL DEF Spec, PanicsWhenTaken

-----------------------------------------------------------------------------
(* A buffer that is valid and clean, and that nobody is about to hand to   *)
(* the log or the disk, holds what the disk holds.                         *)
CleanInv ==
    \A b \in Bufs :
        valid[b] /\ ~dirty[b] /\ (\A p \in Procs : buf[p] = b => pc[p] # "changed")
            => data[b] = disk[blockno[b]]

(* The one buffer that the choices in Contents and Owner can find.         *)
ContentsFact ==
    \A k \in Blocks :
        /\ \A b \in Bufs : blockno[b] = k /\ valid[b] => Contents[k] = data[b]
        /\ (\A b \in Bufs : blockno[b] = k => ~valid[b]) => Contents[k] = disk[k]

OwnerFact ==
    \A k \in Blocks :
        /\ \A b \in Bufs : blockno[b] = k => Owner[k] = lock[b]
        /\ (\A b \in Bufs : blockno[b] = k => lock[b] = NoProc) => Owner[k] = NoProc

LEMMA ContentsAre == IInv => ContentsFact
  <1> SUFFICES ASSUME IInv, NEW k \in Blocks
               PROVE  /\ \A b \in Bufs : blockno[b] = k /\ valid[b] => Contents[k] = data[b]
                      /\ (\A b \in Bufs : blockno[b] = k => ~valid[b]) => Contents[k] = disk[k]
    BY DEF ContentsFact
  <1>1. ASSUME NEW b \in Bufs, blockno[b] = k, valid[b] PROVE Contents[k] = data[b]
    <2>1. b \in Cached(k) /\ \A c \in Cached(k) : c = b
      BY <1>1, BcacheAssumption DEF Cached, IInv, RefInv
    <2>2. (CHOOSE c \in Cached(k) : valid[c]) = b
      BY <1>1, <2>1
    <2> QED
      BY <1>1, <2>1, <2>2 DEF Contents
  <1>2. (\A b \in Bufs : blockno[b] = k => ~valid[b]) => Contents[k] = disk[k]
    BY DEF Contents, Cached
  <1> QED
    BY <1>1, <1>2

LEMMA OwnerIs == IInv => OwnerFact
  <1> SUFFICES ASSUME IInv, NEW k \in Blocks
               PROVE  /\ \A b \in Bufs : blockno[b] = k => Owner[k] = lock[b]
                      /\ (\A b \in Bufs : blockno[b] = k => lock[b] = NoProc) => Owner[k] = NoProc
    BY DEF OwnerFact
  <1>1. ASSUME NEW b \in Bufs, blockno[b] = k PROVE Owner[k] = lock[b]
    <2>1. b \in Cached(k) /\ \A c \in Cached(k) : c = b
      BY <1>1, BcacheAssumption DEF Cached, IInv, RefInv
    <2>2. CASE lock[b] = NoProc
      BY <2>1, <2>2 DEF Owner
    <2>3. CASE lock[b] # NoProc
      <3>1. (CHOOSE c \in Cached(k) : lock[c] # NoProc) = b
        BY <2>1, <2>3
      <3> QED
        BY <2>1, <2>3, <3>1 DEF Owner
    <2> QED
      BY <2>2, <2>3
  <1>2. (\A b \in Bufs : blockno[b] = k => lock[b] = NoProc) => Owner[k] = NoProc
    BY DEF Owner, Cached
  <1> QED
    BY <1>1, <1>2

(* Steps that change neither the buffers and the disk nor the locks. *)
LEMMA SameContents ==
  UNCHANGED <<blockno, valid, data, disk>> => Contents' = Contents
  BY DEF Contents, Cached

LEMMA SameOwner ==
  UNCHANGED <<blockno, lock>> => Owner' = Owner
  BY DEF Owner, Cached

(* Two views of the blocks agree when they agree on each block.            *)
LEMMA ViewsEqual ==
  /\ (\A k \in Blocks : Contents'[k] = Contents[k]) => Contents' = Contents
  /\ (\A k \in Blocks : Owner'[k] = Owner[k]) => Owner' = Owner
  BY DEF Contents, Owner

(* Recycling a buffer shows nobody another contents or another owner. *)
LEMMA MissStutters ==
  ASSUME IInv, IInv', CleanInv, NEW p \in Procs, NEW k \in Blocks, BgetMiss(p, k)
  PROVE  UNCHANGED <<Contents, Owner>> /\ CleanInv'
  <1>1. /\ pc[p] = "out" /\ Cached(k) = {} /\ UNCHANGED <<data, lock, disk>>
        /\ pc \in [Procs -> PC] /\ valid \in [Bufs -> BOOLEAN] /\ blockno \in [Bufs -> Blocks \cup {NoBlock}]
        /\ dirty \in [Bufs -> BOOLEAN] /\ buf \in [Procs -> Bufs \cup {0}] /\ lru \in [1..NBUF -> Bufs]
    BY DEF BgetMiss, IInv, TypeOK
  <1>2. CASE pc' = [pc EXCEPT ![p] = "nobufs"] /\ UNCHANGED <<blockno, valid, dirty, buf>>
    <2>1. \A q \in Procs : pc'[q] = "changed" <=> pc[q] = "changed"
      BY <1>1, <1>2
    <2> QED
      BY <1>1, <1>2, <2>1, SameContents, SameOwner DEF CleanInv
  <1>3. ASSUME NEW b \in Bufs, refcnt[b] = 0, ~dirty[b],
               blockno' = [blockno EXCEPT ![b] = k], valid' = [valid EXCEPT ![b] = FALSE],
               dirty' = [dirty EXCEPT ![b] = FALSE], buf' = [buf EXCEPT ![p] = b],
               pc' = [pc EXCEPT ![p] = "lock"]
        PROVE  UNCHANGED <<Contents, Owner>> /\ CleanInv'
    <2>1. Users(b) = {} /\ lock[b] = NoProc
      BY <1>3, Unreferred DEF IInv
    <2>2. \A q \in Procs : buf[q] = b => pc[q] # "changed"
      BY <2>1 DEF Users, Referring
    <2>3. valid[b] => data[b] = disk[blockno[b]]
      BY <1>3, <2>2 DEF CleanInv
    <2>4. /\ blockno'[b] = k /\ ~valid'[b]
          /\ \A c \in Bufs : c # b => blockno'[c] = blockno[c] /\ valid'[c] = valid[c] /\ dirty'[c] = dirty[c]
      BY <1>1, <1>3
    <2>5. \A c \in Bufs : blockno[c] # k
      BY <1>1 DEF Cached
    <2>6. ContentsFact /\ OwnerFact /\ ContentsFact' /\ OwnerFact'
      BY ContentsAre, OwnerIs, PTL
    <2>7. /\ \A m \in Blocks :
                /\ \A c \in Bufs : blockno'[c] = m /\ valid'[c] => Contents'[m] = data[c]
                /\ (\A c \in Bufs : blockno'[c] = m => ~valid'[c]) => Contents'[m] = disk[m]
          /\ \A m \in Blocks :
                /\ \A c \in Bufs : blockno'[c] = m => Owner'[m] = lock[c]
                /\ (\A c \in Bufs : blockno'[c] = m => lock[c] = NoProc) => Owner'[m] = NoProc
      BY <1>1, <2>6 DEF ContentsFact, OwnerFact
    <2>8. ASSUME NEW m \in Blocks PROVE Contents'[m] = Contents[m]
      <3>1. CASE \E c \in Bufs : c # b /\ blockno[c] = m /\ valid[c]
        BY <1>1, <2>4, <2>6, <2>7, <3>1 DEF ContentsFact
      <3>2. CASE ~ \E c \in Bufs : c # b /\ blockno[c] = m /\ valid[c]
        <4>1. Contents'[m] = disk[m]
          BY <1>1, <2>4, <2>7, <3>2
        <4>2. CASE blockno[b] = m /\ valid[b]
          BY <2>3, <2>6, <4>1, <4>2 DEF ContentsFact
        <4>3. CASE ~(blockno[b] = m /\ valid[b])
          BY <3>2, <2>6, <4>1, <4>3 DEF ContentsFact
        <4> QED
          BY <4>2, <4>3
      <3> QED
        BY <3>1, <3>2
    <2>9. ASSUME NEW m \in Blocks PROVE Owner'[m] = Owner[m]
      <3>1. CASE \E c \in Bufs : c # b /\ blockno[c] = m
        BY <1>1, <2>4, <2>6, <2>7, <3>1 DEF OwnerFact
      <3>2. CASE ~ \E c \in Bufs : c # b /\ blockno[c] = m
        BY <1>1, <2>1, <2>4, <2>6, <2>7, <3>2 DEF OwnerFact
      <3> QED
        BY <3>1, <3>2
    <2>10. CleanInv'
      <3>1. ASSUME NEW c \in Bufs, valid'[c], ~dirty'[c],
                   \A q \in Procs : buf'[q] = c => pc'[q] # "changed"
            PROVE  data[c] = disk[blockno'[c]]
        <4>1. c # b /\ valid[c] /\ ~dirty[c] /\ blockno'[c] = blockno[c]
          BY <2>4, <3>1
        <4>2. \A q \in Procs : buf[q] = c => pc[q] # "changed"
          BY <1>1, <1>3, <3>1
        <4> QED
          BY <4>1, <4>2 DEF CleanInv
      <3> QED
        BY <1>1, <3>1 DEF CleanInv
    <2> QED
      BY <2>8, <2>9, <2>10, ViewsEqual
  <1>4. CASE \E i \in Unused :
              /\ blockno' = [blockno EXCEPT ![lru[i]] = k] /\ valid' = [valid EXCEPT ![lru[i]] = FALSE]
              /\ dirty' = [dirty EXCEPT ![lru[i]] = FALSE] /\ buf' = [buf EXCEPT ![p] = lru[i]]
              /\ pc' = [pc EXCEPT ![p] = "lock"]
    <2>1. \A i \in Unused : lru[i] \in Bufs /\ refcnt[lru[i]] = 0 /\ ~dirty[lru[i]]
      BY <1>1 DEF Unused
    <2> QED
      BY <1>3, <1>4, <2>1
  <1> QED
    BY <1>2, <1>4 DEF BgetMiss, At

(* Nor does the disk, when it does what it is asked to. *)
LEMMA InterruptStutters ==
  ASSUME IInv, IInv', CleanInv, ~ReadErrors, Ideintr
  PROVE  UNCHANGED <<Contents, Owner>> /\ CleanInv'
  <1>1. PICK b \in Bufs :
            /\ b = idequeue[1] /\ idequeue # <<>>
            /\ disk' = IF dirty[b] THEN [disk EXCEPT ![blockno[b]] = data[b]] ELSE disk
            /\ data' = IF dirty[b] THEN data ELSE [data EXCEPT ![b] = disk[blockno[b]]]
            /\ valid' = [valid EXCEPT ![b] = TRUE] /\ dirty' = [dirty EXCEPT ![b] = FALSE]
            /\ pc' = WakeOwner(b)
            /\ UNCHANGED <<blockno, lock, buf>>
    <2>1. TypeOK
      BY DEF IInv
    <2> QED
      BY <2>1, Completes
  <1>2. /\ valid \in [Bufs -> BOOLEAN] /\ blockno \in [Bufs -> Blocks \cup {NoBlock}]
        /\ dirty \in [Bufs -> BOOLEAN] /\ data \in [Bufs -> Values] /\ disk \in [Blocks -> Values]
        /\ idequeue \in Seq(Bufs)
    BY DEF IInv, TypeOK
  <1>3. 1 \in 1..Len(idequeue)
    BY <1>1, <1>2
  <1>4. (~valid[b] \/ dirty[b]) /\ \E q \in Procs : buf[q] = b /\ pc[q] \in {"asleep", "awake"}
    BY <1>1, <1>3 DEF IInv, QueueInv
  <1>5. blockno[b] \in Blocks
    BY <1>4, Place DEF Referring
  <1>6. /\ valid'[b] /\ data'[b] = disk'[blockno[b]] /\ (dirty[b] => data'[b] = data[b] /\ valid[b])
        /\ (~dirty[b] => ~valid[b] /\ data'[b] = disk[blockno[b]])
        /\ \A c \in Bufs : c # b => valid'[c] = valid[c] /\ data'[c] = data[c] /\ dirty'[c] = dirty[c]
        /\ \A m \in Blocks : m # blockno[b] => disk'[m] = disk[m]
    BY <1>1, <1>2, <1>4, <1>5 DEF IInv, FlagInv
  <1>7. \A c \in Bufs : blockno[c] = blockno[b] => c = b
    BY <1>5, BcacheAssumption DEF IInv, RefInv
  <1>8. ContentsFact /\ ContentsFact'
    BY ContentsAre, PTL
  <1>9. \A m \in Blocks :
            /\ \A c \in Bufs : blockno[c] = m /\ valid'[c] => Contents'[m] = data'[c]
            /\ (\A c \in Bufs : blockno[c] = m => ~valid'[c]) => Contents'[m] = disk'[m]
    BY <1>1, <1>8 DEF ContentsFact
  <1>10. ASSUME NEW m \in Blocks PROVE Contents'[m] = Contents[m]
    <2>1. CASE m = blockno[b]
      <3>1. Contents'[m] = data'[b]
        BY <1>6, <1>9, <2>1
      <3>2. CASE dirty[b]
        BY <1>6, <1>8, <2>1, <3>1, <3>2 DEF ContentsFact
      <3>3. CASE ~dirty[b]
        <4>1. \A c \in Bufs : blockno[c] = m => ~valid[c]
          BY <1>6, <1>7, <2>1, <3>3
        <4> QED
          BY <1>6, <1>8, <2>1, <3>1, <3>3, <4>1 DEF ContentsFact
      <3> QED
        BY <3>2, <3>3
    <2>2. CASE m # blockno[b]
      <3>1. CASE \E c \in Bufs : blockno[c] = m /\ valid[c]
        BY <1>6, <1>8, <1>9, <2>2, <3>1 DEF ContentsFact
      <3>2. CASE ~ \E c \in Bufs : blockno[c] = m /\ valid[c]
        BY <1>6, <1>8, <1>9, <2>2, <3>2 DEF ContentsFact
      <3> QED
        BY <3>1, <3>2
    <2> QED
      BY <2>1, <2>2
  <1>11. CleanInv'
    <2>1. ASSUME NEW c \in Bufs, valid'[c], ~dirty'[c], \A q \in Procs : buf[q] = c => pc'[q] # "changed"
          PROVE  data'[c] = disk'[blockno[c]]
      <3>1. CASE c = b
        BY <1>6, <3>1
      <3>2. CASE c # b
        <4>1. \A q \in Procs : buf[q] = c => pc[q] # "changed"
          BY <1>1, <2>1 DEF WakeOwner
        <4>2. valid[c] /\ ~dirty[c] /\ data'[c] = data[c]
          BY <1>6, <2>1, <3>2
        <4>3. blockno[c] \in Blocks /\ blockno[c] # blockno[b]
          BY <1>2, <1>7, <3>2, <4>2 DEF IInv, FlagInv
        <4> QED
          BY <1>6, <4>1, <4>2, <4>3 DEF CleanInv
      <3> QED
        BY <3>1, <3>2
    <2> QED
      BY <1>1, <2>1 DEF CleanInv
  <1> QED
    BY <1>1, <1>10, <1>11, SameOwner, ViewsEqual

(* acquiresleep() in bget() is where a process gets the block, *)
LEMMA LockGets ==
  ASSUME IInv, IInv', CleanInv, NEW p \in Procs, Lock(p)
  PROVE  Abstract!Get(p, want[p]) /\ want[p] \in Blocks /\ CleanInv'
  <1>1. /\ pc[p] = "lock" /\ lock[buf[p]] = NoProc /\ lock' = [lock EXCEPT ![buf[p]] = p]
        /\ pc' = [pc EXCEPT ![p] = "read"] /\ UNCHANGED <<blockno, valid, dirty, data, disk, buf>>
        /\ pc \in [Procs -> PC] /\ lock \in [Bufs -> Procs \cup {NoProc}]
        /\ blockno \in [Bufs -> Blocks \cup {NoBlock}]
    BY DEF Lock, At, buffers, IInv, TypeOK
  <1>2. buf[p] \in Bufs /\ want[p] \in Blocks /\ blockno[buf[p]] = want[p]
    BY <1>1, Place DEF Referring
  <1>3. OwnerFact /\ OwnerFact'
    BY OwnerIs, PTL
  <1>4. Owner[want[p]] = NoProc
    BY <1>1, <1>2, <1>3 DEF OwnerFact
  <1>5. lock'[buf[p]] = p /\ \A c \in Bufs : c # buf[p] => lock'[c] = lock[c]
    BY <1>1, <1>2
  <1>6. Owner'[want[p]] = p
    BY <1>1, <1>2, <1>3, <1>5 DEF OwnerFact
  <1>7. ASSUME NEW m \in Blocks, m # want[p] PROVE Owner'[m] = Owner[m]
    <2>1. \A c \in Bufs : blockno[c] = m => lock'[c] = lock[c]
      BY <1>2, <1>5, <1>7
    <2>2. CASE \E c \in Bufs : blockno[c] = m
      BY <1>1, <1>3, <2>1, <2>2 DEF OwnerFact
    <2>3. CASE ~ \E c \in Bufs : blockno[c] = m
      BY <1>1, <1>3, <2>3 DEF OwnerFact
    <2> QED
      BY <2>2, <2>3
  <1>8. Owner' = [Owner EXCEPT ![want[p]] = p]
    BY <1>2, <1>6, <1>7 DEF Owner
  <1>9. CleanInv'
    <2>1. \A q \in Procs : pc[q] = "changed" => pc'[q] = "changed"
      BY <1>1
    <2> QED
      BY <1>1, <2>1 DEF CleanInv
  <1> QED
    BY <1>1, <1>2, <1>4, <1>8, <1>9, SameContents DEF Abstract!Get

(* and releasesleep() in brelse() where it gives the block back. *)
LEMMA BrelsePuts ==
  ASSUME IInv, IInv', CleanInv, NEW p \in Procs, Brelse(p)
  PROVE  Abstract!Put(p, want[p]) /\ want[p] \in Blocks /\ CleanInv'
  <1>1. /\ pc[p] = "use" /\ lock' = [lock EXCEPT ![buf[p]] = NoProc]
        /\ pc' = [pc EXCEPT ![p] = "put"] /\ UNCHANGED <<blockno, valid, dirty, data, disk, buf>>
        /\ pc \in [Procs -> PC] /\ lock \in [Bufs -> Procs \cup {NoProc}]
        /\ blockno \in [Bufs -> Blocks \cup {NoBlock}]
    BY DEF Brelse, At, buffers, IInv, TypeOK
  <1>2. /\ buf[p] \in Bufs /\ want[p] \in Blocks /\ blockno[buf[p]] = want[p]
        /\ lock[buf[p]] = p
    BY <1>1, Place DEF Referring, Locked, IInv, LockInv
  <1>3. OwnerFact /\ OwnerFact'
    BY OwnerIs, PTL
  <1>4. Owner[want[p]] = p
    BY <1>1, <1>2, <1>3 DEF OwnerFact
  <1>5. lock'[buf[p]] = NoProc /\ \A c \in Bufs : c # buf[p] => lock'[c] = lock[c]
    BY <1>1, <1>2
  <1>6. Owner'[want[p]] = NoProc
    BY <1>1, <1>2, <1>3, <1>5 DEF OwnerFact
  <1>7. ASSUME NEW m \in Blocks, m # want[p] PROVE Owner'[m] = Owner[m]
    <2>1. \A c \in Bufs : blockno[c] = m => lock'[c] = lock[c]
      BY <1>2, <1>5, <1>7
    <2>2. CASE \E c \in Bufs : blockno[c] = m
      BY <1>1, <1>3, <2>1, <2>2 DEF OwnerFact
    <2>3. CASE ~ \E c \in Bufs : blockno[c] = m
      BY <1>1, <1>3, <2>3 DEF OwnerFact
    <2> QED
      BY <2>2, <2>3
  <1>8. Owner' = [Owner EXCEPT ![want[p]] = NoProc]
    BY <1>2, <1>6, <1>7 DEF Owner
  <1>9. CleanInv'
    <2>1. \A q \in Procs : pc[q] = "changed" => pc'[q] = "changed"
      BY <1>1
    <2> QED
      BY <1>1, <2>1 DEF CleanInv
  <1> QED
    BY <1>1, <1>2, <1>4, <1>8, <1>9, SameContents DEF Abstract!Put

(* The owner of a block changes it in its buffer. *)
LEMMA ModifySets ==
  ASSUME IInv, IInv', CleanInv, NEW p \in Procs, Modify(p)
  PROVE  /\ \E v \in Values : Abstract!Set(p, want[p], v)
         /\ want[p] \in Blocks /\ CleanInv'
  <1>1. /\ pc[p] = "use" /\ data' = [data EXCEPT ![buf[p]] = 1 - @]
        /\ pc' = [pc EXCEPT ![p] = "changed"] /\ UNCHANGED <<blockno, valid, dirty, lock, disk, buf>>
        /\ pc \in [Procs -> PC] /\ data \in [Bufs -> Values]
        /\ blockno \in [Bufs -> Blocks \cup {NoBlock}]
    BY DEF Modify, At, IInv, TypeOK
  <1>2. /\ buf[p] \in Bufs /\ want[p] \in Blocks /\ blockno[buf[p]] = want[p]
        /\ lock[buf[p]] = p /\ valid[buf[p]]
    BY <1>1, Place DEF Referring, Locked, IInv, LockInv, FlagInv
  <1>3. ContentsFact /\ ContentsFact' /\ OwnerFact
    BY ContentsAre, OwnerIs, PTL
  <1>4. Owner[want[p]] = p /\ Owner' = Owner
    BY <1>1, <1>2, <1>3, SameOwner DEF OwnerFact
  <1>5. data'[buf[p]] \in Values /\ \A c \in Bufs : c # buf[p] => data'[c] = data[c]
    BY <1>1, <1>2 DEF Values
  <1>6. Contents'[want[p]] = data'[buf[p]]
    BY <1>1, <1>2, <1>3 DEF ContentsFact
  <1>7. ASSUME NEW m \in Blocks, m # want[p] PROVE Contents'[m] = Contents[m]
    <2>1. \A c \in Bufs : blockno[c] = m => data'[c] = data[c]
      BY <1>2, <1>5, <1>7
    <2>2. CASE \E c \in Bufs : blockno[c] = m /\ valid[c]
      BY <1>1, <1>3, <2>1, <2>2 DEF ContentsFact
    <2>3. CASE ~ \E c \in Bufs : blockno[c] = m /\ valid[c]
      BY <1>1, <1>3, <2>3 DEF ContentsFact
    <2> QED
      BY <2>2, <2>3
  <1>8. Contents' = [Contents EXCEPT ![want[p]] = data'[buf[p]]]
    <2>1. Contents = [m \in Blocks |-> Contents[m]] /\ Contents' = [m \in Blocks |-> Contents'[m]]
      BY Zenon DEF Contents
    <2> QED
      BY <1>2, <1>6, <1>7, <2>1
  <1>9. CleanInv'
    <2>1. pc'[p] = "changed" /\ \A q \in Procs : q # p => pc'[q] = pc[q]
      BY <1>1
    <2>2. ASSUME NEW c \in Bufs, \A q \in Procs : buf[q] = c => pc'[q] # "changed"
          PROVE  c # buf[p] /\ \A q \in Procs : buf[q] = c => pc[q] # "changed"
      BY <1>1, <2>1, <2>2
    <2> QED
      BY <1>1, <1>5, <2>2 DEF CleanInv
  <1> QED
    BY <1>2, <1>4, <1>5, <1>8, <1>9 DEF Abstract!Set

(* The cache is transparent (bio.c, ide.c), as long as the disk does not   *)
(* fail: what a process finds in a block is what its last owner left       *)
(* there, whatever is recycled, pinned, or still in the queue of the disk. *)
THEOREM Refinement ==
  ASSUME ~ReadErrors
  PROVE  Spec => ImplementsBlockStore
  <1>1. Init => CleanInv /\ Abstract!SInit
    <2> SUFFICES ASSUME Init PROVE CleanInv /\ Abstract!SInit
      OBVIOUS
    <2>1. CleanInv
      BY DEF Init, CleanInv
    <2>2. ContentsFact /\ OwnerFact
      BY InitIInv, ContentsAre, OwnerIs
    <2>3. \A m \in Blocks : Contents[m] = 0 /\ Owner[m] = NoProc
      BY <2>2 DEF ContentsFact, OwnerFact, Init
    <2>4. Contents = [m \in Blocks |-> Contents[m]] /\ Owner = [m \in Blocks |-> Owner[m]]
      BY Zenon DEF Contents, Owner
    <2> QED
      BY <2>1, <2>3, <2>4 DEF Abstract!SInit, Values
  <1>2. IInv /\ IInv' /\ CleanInv /\ [Next]_vars => CleanInv' /\ [Abstract!SNext]_<<Contents, Owner>>
    <2> SUFFICES ASSUME IInv, IInv', CleanInv, [Next]_vars
                 PROVE  CleanInv' /\ [Abstract!SNext]_<<Contents, Owner>>
      OBVIOUS
    <2>0. pc \in [Procs -> PC] /\ buf \in [Procs -> Bufs \cup {0}] /\ dirty \in [Bufs -> BOOLEAN]
      BY DEF IInv, TypeOK
    <2>1. ASSUME NEW p \in Procs, NEW k \in Blocks, BgetHit(p, k)
          PROVE  UNCHANGED <<Contents, Owner>> /\ CleanInv'
      <3>1. /\ UNCHANGED <<blockno, valid, dirty, data, lock, disk>> /\ pc[p] = "out"
            /\ \A q \in Procs : q # p => pc'[q] = pc[q] /\ buf'[q] = buf[q]
        BY <2>0, <2>1 DEF BgetHit, At
      <3>2. ASSUME NEW b \in Bufs, \A q \in Procs : buf'[q] = b => pc'[q] # "changed"
            PROVE  \A q \in Procs : buf[q] = b => pc[q] # "changed"
        BY <3>1, <3>2
      <3> QED
        BY <3>1, <3>2, SameContents, SameOwner DEF CleanInv
    <2>2. ASSUME NEW p \in Procs, Unref(p)
          PROVE  UNCHANGED <<Contents, Owner>> /\ CleanInv'
      <3>1. /\ UNCHANGED <<blockno, valid, dirty, data, lock, disk>> /\ pc[p] = "put"
            /\ \A q \in Procs : q # p => pc'[q] = pc[q] /\ buf'[q] = buf[q]
        BY <2>0, <2>2 DEF Unref, At
      <3>2. ASSUME NEW b \in Bufs, \A q \in Procs : buf'[q] = b => pc'[q] # "changed"
            PROVE  \A q \in Procs : buf[q] = b => pc[q] # "changed"
        BY <3>1, <3>2
      <3> QED
        BY <3>1, <3>2, SameContents, SameOwner DEF CleanInv
    <2>3. ASSUME NEW p \in Procs, Bread(p) \/ Iderw(p) \/ Awake(p) \/ Killed(p)
          PROVE  UNCHANGED <<Contents, Owner>> /\ CleanInv'
      <3>1. /\ UNCHANGED <<blockno, valid, dirty, data, lock, disk, buf>> /\ pc[p] # "changed"
            /\ \A q \in Procs : q # p => pc'[q] = pc[q]
        BY <2>0, <2>3 DEF Bread, Iderw, Awake, Killed, At, buffers
      <3>2. \A q \in Procs : pc[q] = "changed" => pc'[q] = "changed"
        BY <3>1
      <3> QED
        BY <3>1, <3>2, SameContents, SameOwner DEF CleanInv
    <2>4. ASSUME NEW p \in Procs, LogWrite(p) \/ Bwrite(p)
          PROVE  UNCHANGED <<Contents, Owner>> /\ CleanInv'
      <3>1. /\ UNCHANGED <<blockno, valid, data, lock, disk, buf>>
            /\ dirty' = [dirty EXCEPT ![buf[p]] = TRUE] /\ pc[p] \in {"use", "changed"}
            /\ \A q \in Procs : q # p => pc'[q] = pc[q]
        BY <2>0, <2>4 DEF LogWrite, Bwrite, At
      <3>2. buf[p] \in Bufs
        BY <3>1, Place DEF Referring
      <3>3. ASSUME NEW b \in Bufs, ~dirty'[b], \A q \in Procs : buf[q] = b => pc'[q] # "changed"
            PROVE  ~dirty[b] /\ \A q \in Procs : buf[q] = b => pc[q] # "changed"
        <4>1. b # buf[p] /\ ~dirty[b]
          BY <2>0, <3>1, <3>2, <3>3
        <4> QED
          BY <3>1, <3>3, <4>1
      <3> QED
        BY <3>1, <3>3, SameContents, SameOwner DEF CleanInv
    <2>5. CASE UNCHANGED vars
      BY <2>5, SameContents, SameOwner DEF vars, buffers, CleanInv
    <2>6. ASSUME NEW p \in Procs, Lock(p) PROVE CleanInv' /\ Abstract!SNext
      BY <2>6, LockGets DEF Abstract!SNext
    <2>7. ASSUME NEW p \in Procs, Brelse(p) PROVE CleanInv' /\ Abstract!SNext
      BY <2>7, BrelsePuts DEF Abstract!SNext
    <2>8. ASSUME NEW p \in Procs, Modify(p) PROVE CleanInv' /\ Abstract!SNext
      BY <2>8, ModifySets DEF Abstract!SNext
    <2> QED
      BY <2>1, <2>2, <2>3, <2>4, <2>5, <2>6, <2>7, <2>8, MissStutters, InterruptStutters
         DEF Next, bget, iderw, brelse
  <1> QED
    BY <1>1, <1>2, Inductive, PTL DEF Spec, ImplementsBlockStore, Abstract!SSpec
=============================================================================
