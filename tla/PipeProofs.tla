----------------------------- MODULE PipeProofs -----------------------------
(***************************************************************************)
(* The pipe is freed once, by the last process that used it, and no reader *)
(* sleeps while there is something to read, unless a killed writer left it *)
(* there, for any number of processes, whoever is killed, and any size of  *)
(* the pipe.  The pipe is a bounded queue of bytes, for    *)
(* any size that divides the range of its counters, and any calls: what    *)
(* pipewrite() stores at nwrite % PIPESIZE is what piperead() finds at     *)
(* nread % PIPESIZE, wherever the counters wrap.                           *)
(***************************************************************************)
EXTENDS Pipe, SequenceTheorems, TLAPS

(* A remainder is an index. *)
LEMMA ModRange ==
  ASSUME NEW M \in Nat \ {0}, NEW a \in Int PROVE a % M \in 0..M-1
  OBVIOUS

(* Two counters of a ring, the first of which moves away from the second   *)
(* one: their distance grows by k.                                         *)
LEMMA ModAdd ==
  ASSUME NEW M \in Nat, NEW a \in 0..M-1, NEW b \in 0..M-1, NEW k \in Nat,
         ((a + M - b) % M) + k < M
  PROVE  (((a + k) % M) + M - b) % M = ((a + M - b) % M) + k
  OBVIOUS

(* Division with remainder. *)
LEMMA Quotient ==
  ASSUME NEW M \in Nat \ {0}, NEW a \in Int
  PROVE  \E k \in Int : a = k * M + (a % M)
  <1>1. a \div M \in Int /\ a = (a \div M) * M + (a % M)
    OBVIOUS
  <1> QED
    BY <1>1

(* Numbers that differ by a multiple of M. *)
LEMMA Congruent ==
  ASSUME NEW M \in Nat \ {0}, NEW a \in Int, NEW b \in Int,
         \E k \in Int : b = k * M + a
  PROVE  b % M = a % M
  <1>0. PICK k \in Int : b = k * M + a
    OBVIOUS
  <1> DEFINE c == a % M
  <1>1. PICK j \in Int : a = j * M + c
    BY Quotient
  <1>2. c \in 0..M-1
    OBVIOUS
  <1>3. ASSUME NEW q \in Int, NEW x \in 0..M-1 PROVE (q * M + x) % M = x
    OBVIOUS
  <1> HIDE DEF c
  <1>4. b = (k + j) * M + c /\ k + j \in Int
    BY <1>0, <1>1, <1>2
  <1>5. b % M = c
    BY <1>2, <1>3, <1>4
  <1> QED
    BY <1>5 DEF c

(* A counter that wraps at a multiple of M is at the same place of a ring  *)
(* of size M.                                                              *)
LEMMA ModMod ==
  ASSUME NEW M \in Nat \ {0}, NEW U \in Nat \ {0}, U % M = 0, NEW a \in Int
  PROVE  (a % U) % M = a % M
  <1> DEFINE c == a % U
  <1>1. PICK k \in Int : a = k * U + (a % U)
    BY Quotient
  <1>2. PICK m \in Int : U = m * M
    BY Quotient
  <1>3. c \in Int
    OBVIOUS
  <1>4. \E q \in Int : a = q * M + c
    <2>1. a = (k * m) * M + c /\ k * m \in Int
      BY <1>1, <1>2, <1>3
    <2> QED
      BY <2>1
  <1> HIDE DEF c
  <1>5. a % M = c % M
    BY <1>3, <1>4, Congruent
  <1> QED
    BY <1>5 DEF c

(* The distance of two places of a ring is that of the counters.            *)
LEMMA ModDistance ==
  ASSUME NEW M \in Nat \ {0}, NEW U \in Nat \ {0}, U % M = 0, NEW a \in Int, NEW b \in Int
  PROVE  ((a % M) + U - (b % M)) % M = (a - b) % M
  <1> DEFINE c == (a % M) + U - (b % M)
  <1>1. PICK k \in Int : a = k * M + (a % M)
    BY Quotient
  <1>2. PICK j \in Int : b = j * M + (b % M)
    BY Quotient
  <1>3. PICK m \in Int : U = m * M
    BY Quotient
  <1>4. c \in Int /\ a - b \in Int
    OBVIOUS
  <1>5. \E q \in Int : c = q * M + (a - b)
    <2>1. c = (m - k + j) * M + (a - b) /\ m - k + j \in Int
      BY <1>1, <1>2, <1>3, <1>4
    <2> QED
      BY <2>1
  <1> HIDE DEF c
  <1>6. c % M = (a - b) % M
    BY <1>4, <1>5, Congruent
  <1> QED
    BY <1>6 DEF c

-----------------------------------------------------------------------------

HasOpen == {"idle", "busy", "asleep"}

(* Both flags and the processes agree about an end: in pipeclose() the     *)
(* last one that had it open finds it still marked, alone.                 *)
EndInv(end, open) ==
    /\ \A q \in end : pc[q] \in HasOpen \cup {"last"} => open
    /\ \A q \in end : pc[q] = "last" => \A o \in end \ {q} : pc[o] = "closed"

FreeInv ==
    \A q \in Procs : pc[q] = "free" =>
        /\ ~readopen /\ ~writeopen
        /\ \A o \in Procs \ {q} : pc[o] = "closed"

(* The ring is never more than full. *)
RingInv == Count <= PIPESIZE

UseInv == EndInv(Writers, writeopen) /\ EndInv(Readers, readopen) /\ FreeInv

IInv == TypeOK /\ RingInv /\ UseInv

-----------------------------------------------------------------------------
(* A counter stays in its range. *)
LEMMA AddRange ==
  ASSUME NEW a \in Int, NEW b \in Int, UintMod # 0 PROVE Add(a, b) \in 0..UintMod-1
  BY SizeAssumption DEF Add

-----------------------------------------------------------------------------
(* What pipewrite() stores: Room(w) bytes, which the ring has room for. *)
LEMMA CountRange == TypeOK => Count \in 0..UintMod-1
  BY ModRange, SizeAssumption DEF TypeOK, Count

LEMMA RoomRange ==
  ASSUME IInv, NEW w \in Writers
  PROVE  Room(w) \in Nat /\ Room(w) <= Len(todo[w]) /\ Count + Room(w) <= PIPESIZE
  <1>1. Len(todo[w]) \in Nat
    BY DEF IInv, TypeOK
  <1>2. Count \in Nat /\ Count <= PIPESIZE /\ PIPESIZE \in Nat
    BY CountRange, SizeAssumption DEF IInv, RingInv
  <1> QED
    BY <1>1, <1>2 DEF Room

LEMMA StoredTypes ==
  ASSUME IInv, NEW w \in Writers, Stored(w), nread' = nread
  PROVE  /\ data' \in [0..PIPESIZE-1 -> Bytes]
         /\ nwrite' \in 0..UintMod-1
         /\ Count' = Count + Room(w)
         /\ RingInv'
  <1>1. Room(w) \in Nat /\ Room(w) <= Len(todo[w]) /\ Count + Room(w) <= PIPESIZE
    BY RoomRange
  <1>2. nwrite \in 0..UintMod-1 /\ nread \in 0..UintMod-1 /\ UintMod \in Nat \ {0}
    BY SizeAssumption DEF IInv, TypeOK
  <1>3. Count' = Count + Room(w)
    <2>1. Count + Room(w) < UintMod
      BY <1>1, <1>2, CountRange, SizeAssumption, RangeAssumption DEF IInv
    <2> QED
      BY <1>1, <1>2, <2>1, ModAdd DEF Stored, Add, Count
  <1>4. ASSUME NEW i \in 0..PIPESIZE-1,
               NEW k, k = (i + UintMod - (nwrite % PIPESIZE)) % PIPESIZE, k < Room(w)
        PROVE  todo[w][k+1] \in Bytes
    <2>1. nwrite % PIPESIZE \in 0..PIPESIZE-1
      BY <1>2, ModRange, SizeAssumption
    <2>2. i + UintMod - (nwrite % PIPESIZE) \in Int
      BY <1>2, <2>1, SizeAssumption
    <2>3. k \in 0..PIPESIZE-1
      BY <1>4, <2>2, ModRange, SizeAssumption
    <2> QED
      BY <1>1, <1>4, <2>3, SizeAssumption DEF IInv, TypeOK
  <1>5. data' \in [0..PIPESIZE-1 -> Bytes]
    BY <1>4 DEF Stored, IInv, TypeOK
  <1>6. nwrite' \in 0..UintMod-1
    <2>1. nwrite' = Add(nwrite, Room(w))
      BY DEF Stored
    <2>2. nwrite \in Int /\ Room(w) \in Int /\ UintMod # 0
      BY <1>1, <1>2
    <2> QED
      BY <2>1, <2>2, AddRange
  <1> QED
    BY <1>1, <1>3, <1>5, <1>6 DEF RingInv

(* A step that moves processes only between places where they have their   *)
(* end open, and closes nothing.                                           *)
LEMMA StayUseInv ==
  ASSUME UseInv, pc' \in [Procs -> PC], UNCHANGED <<readopen, writeopen>>,
         \A q \in Procs : pc'[q] = pc[q] \/ (pc[q] \in HasOpen /\ pc'[q] \in HasOpen)
  PROVE  UseInv'
  BY DEF UseInv, EndInv, FreeInv, HasOpen, Procs, PC

(* pipewrite() *)
LEMMA WriteIInv ==
  ASSUME IInv, NEW w \in Writers, pipewrite(w) \/ WriteCall(w)
  PROVE  IInv'
  <1>1. CASE WriteCall(w)
    <2>1. TypeOK' /\ RingInv'
      BY <1>1, WritesAssumption DEF WriteCall, IInv, TypeOK, RingInv, Count, At, PC, Procs
    <2>2. UseInv'
      BY <1>1, <2>1, StayUseInv DEF WriteCall, IInv, TypeOK, At, HasOpen, Procs
    <2> QED
      BY <2>1, <2>2 DEF IInv
  <1>2. CASE pipewrite(w)
    <2> USE <1>2 DEF pipewrite, WriteBlocked, WriteDone, WakeReaders, At, Procs
    <2>1. Stored(w) /\ nread' = nread
      BY DEF Stored
    <2>2. todo' \in [Writers -> Seq(Bytes)]
      <3>1. todo[w] \in Seq(Bytes) /\ Room(w) \in Nat
        BY RoomRange DEF IInv, TypeOK
      <3>2. SubSeq(todo[w], Room(w) + 1, Len(todo[w])) \in Seq(Bytes)
        BY <3>1
      <3>3. <<>> \in Seq(Bytes) /\ todo \in [Writers -> Seq(Bytes)]
        BY DEF IInv, TypeOK
      <3>4. \E s \in Seq(Bytes) : todo' = [todo EXCEPT ![w] = s]
        BY <3>1, <3>2, <3>3
      <3> QED
        BY <3>3, <3>4
    <2>3. TypeOK' /\ RingInv'
      BY <2>1, <2>2, StoredTypes DEF IInv, TypeOK, PC, MayBeKilled
    <2>4. UseInv'
      BY <2>3, StayUseInv DEF IInv, TypeOK, HasOpen
    <2> QED
      BY <2>3, <2>4 DEF IInv
  <1> QED
    BY <1>1, <1>2

(* What piperead() takes. *)
LEMMA ReadCount ==
  ASSUME IInv, NEW k \in 0..Count, nread' = Add(nread, k), nwrite' = nwrite
  PROVE  /\ Count \in Nat /\ k \in Nat /\ k <= Count
         /\ Count' = Count - k
         /\ nread' \in 0..UintMod-1
  <1>1. nread \in 0..UintMod-1 /\ nwrite \in 0..UintMod-1 /\ UintMod \in Nat \ {0}
    BY SizeAssumption DEF IInv, TypeOK
  <1>2. k \in Nat /\ k <= Count /\ Count \in Nat
    BY <1>1, CountRange DEF IInv
  <1>3. nread' \in 0..UintMod-1
    BY <1>1, <1>2, AddRange
  <1>4. k <= (nwrite + UintMod - nread) % UintMod
    BY <1>2 DEF Count
  <1>5. (nwrite + UintMod - ((nread + k) % UintMod)) % UintMod = ((nwrite + UintMod - nread) % UintMod) - k
    BY <1>1, <1>2, <1>4
  <1>6. nread' = (nread + k) % UintMod
    BY DEF Add
  <1>7. /\ Count' = (nwrite' + UintMod - nread') % UintMod
        /\ Count = (nwrite + UintMod - nread) % UintMod
    BY DEF Count
  <1> QED
    BY <1>2, <1>3, <1>5, <1>6, <1>7

(* What piperead() copies to addr. *)
LEMMA GotTypes ==
  ASSUME IInv, NEW r \in Readers, piperead(r) \/ ReadCall(r)
  PROVE  got' \in [Readers -> Seq(Bytes)]
  <1>1. CASE UNCHANGED got \/ got' = [got EXCEPT ![r] = <<>>]
    <2>1. <<>> \in Seq(Bytes)
      OBVIOUS
    <2>2. got \in [Readers -> Seq(Bytes)]
      BY DEF IInv, TypeOK
    <2> QED
      BY <1>1, <2>1, <2>2
  <1>2. CASE ReadDone(r)
    <2>1. PICK k \in 0..Count :
            got' = [got EXCEPT ![r] = [i \in 1..k |-> data[Add(nread, i - 1) % PIPESIZE]]]
      BY <1>2 DEF ReadDone
    <2> DEFINE s == [i \in 1..k |-> data[Add(nread, i - 1) % PIPESIZE]]
    <2>2. k \in Nat
      BY CountRange DEF IInv
    <2>3. ASSUME NEW i \in 1..k PROVE data[Add(nread, i - 1) % PIPESIZE] \in Bytes
      <3>1. Add(nread, i - 1) \in Int
        BY <2>2, AddRange, SizeAssumption, RangeAssumption DEF IInv, TypeOK
      <3> QED
        BY <3>1, ModRange, SizeAssumption DEF IInv, TypeOK
    <2>4. s \in Seq(Bytes)
      BY <2>2, <2>3
    <2> HIDE DEF s
    <2>5. got' = [got EXCEPT ![r] = s]
      BY <2>1 DEF s
    <2> QED
      BY <2>4, <2>5 DEF IInv, TypeOK
  <1> QED
    BY <1>1, <1>2 DEF piperead, ReadEmpty, ReadCall

(* piperead() *)
LEMMA ReadIInv ==
  ASSUME IInv, NEW r \in Readers, piperead(r) \/ ReadCall(r)
  PROVE  IInv'
  <1> USE DEF piperead, ReadCall, ReadEmpty, ReadDone, WakeWriters, At, Procs
  <1>1. nread' \in 0..UintMod-1 /\ RingInv'
    <2>1. CASE UNCHANGED <<nread, nwrite>>
      BY <2>1 DEF IInv, TypeOK, RingInv, Count
    <2>2. CASE ReadDone(r)
      <3>1. PICK k \in 0..Count : nread' = Add(nread, k) /\ nwrite' = nwrite
        BY <2>2
      <3>2. Count' = Count - k /\ k \in Nat /\ nread' \in 0..UintMod-1 /\ Count \in Nat
        BY <3>1, ReadCount
      <3> QED
        BY <3>2, SizeAssumption DEF IInv, RingInv
    <2> QED
      BY <2>1, <2>2
  <1>2. TypeOK'
    BY <1>1, GotTypes DEF IInv, TypeOK, PC, MayBeKilled
  <1>3. UseInv'
    BY <1>2, StayUseInv DEF IInv, TypeOK, HasOpen
  <1> QED
    BY <1>1, <1>2, <1>3 DEF IInv

(* close(): the last one is alone, everybody else has closed that end. *)
LEMMA CloseIInv ==
  ASSUME IInv, NEW q \in Procs, Close(q)
  PROVE  IInv'
  <1>1. TypeOK' /\ RingInv'
    BY DEF Close, At, IInv, TypeOK, PC, RingInv, Count
  <1>2. EndInv(Writers, writeopen)' /\ EndInv(Readers, readopen)'
    BY RoleAssumption DEF Close, At, IInv, TypeOK, PC, UseInv, EndInv, FreeInv, HasOpen, Procs
  <1>3. FreeInv'
    BY DEF Close, At, IInv, TypeOK, UseInv, FreeInv
  <1> QED
    BY <1>1, <1>2, <1>3 DEF IInv, UseInv

(* pipeclose() under p->lock: it clears its own end, and is to free the    *)
(* pipe only if the other end has been cleared already.                    *)
LEMMA PipeCloseIInv ==
  ASSUME IInv, NEW q \in Procs, PipeClose(q)
  PROVE  IInv'
  <1> USE DEF PipeClose, WakeReaders, WakeWriters, At
  <1>1. TypeOK' /\ RingInv'
    BY DEF IInv, TypeOK, PC, RingInv, Count
  <1>2. EndInv(Writers, writeopen)' /\ EndInv(Readers, readopen)'
    BY RoleAssumption DEF IInv, TypeOK, PC, UseInv, EndInv, FreeInv, HasOpen, Procs
  <1>3. FreeInv'
    BY RoleAssumption DEF IInv, TypeOK, PC, UseInv, EndInv, FreeInv, HasOpen, Procs
  <1> QED
    BY <1>1, <1>2, <1>3 DEF IInv, UseInv

(* kfree() and the next pipealloc(), and kill(). *)
LEMMA FreeIInv ==
  ASSUME IInv, NEW q \in Procs, FreeAndAlloc(q) \/ Kill(q)
  PROVE  IInv'
  <1>1. CASE FreeAndAlloc(q)
    <2>1. Count' = 0 /\ 0 \in 0..UintMod-1
      BY <1>1, SizeAssumption, RangeAssumption DEF FreeAndAlloc, Count
    <2>2. TypeOK'
      BY <1>1, <2>1 DEF FreeAndAlloc, IInv, TypeOK, PC
    <2> QED
      BY <1>1, <2>1, <2>2, SizeAssumption
         DEF FreeAndAlloc, IInv, RingInv, UseInv, EndInv, FreeInv, HasOpen, Procs
  <1>2. CASE Kill(q)
    <2>1. TypeOK' /\ RingInv'
      BY <1>2 DEF Kill, At, IInv, TypeOK, PC, RingInv, Count
    <2>2. UseInv'
      BY <1>2, <2>1, StayUseInv DEF Kill, At, IInv, TypeOK, HasOpen
    <2> QED
      BY <2>1, <2>2 DEF IInv
  <1> QED
    BY <1>1, <1>2

-----------------------------------------------------------------------------
LEMMA InitIInv == Init => IInv
  <1> SUFFICES ASSUME Init PROVE IInv
    OBVIOUS
  <1>1. Count = 0 /\ 0 \in 0..UintMod-1
    BY SizeAssumption, RangeAssumption DEF Init, Count
  <1>2. TypeOK
    <2>1. <<>> \in Seq(Bytes)
      OBVIOUS
    <2>2. todo \in [Writers -> Seq(Bytes)] /\ got \in [Readers -> Seq(Bytes)]
      BY <2>1 DEF Init
    <2> QED
      BY <1>1, <2>2 DEF Init, TypeOK, PC
  <1> QED
    BY <1>1, <1>2, SizeAssumption
       DEF Init, IInv, RingInv, UseInv, EndInv, FreeInv, HasOpen, Procs

LEMMA NextIInv == IInv /\ [Next]_vars => IInv'
  <1> SUFFICES ASSUME IInv, [Next]_vars PROVE IInv'
    OBVIOUS
  <1>1. CASE UNCHANGED vars
    BY <1>1 DEF vars, IInv, TypeOK, RingInv, Count, UseInv, EndInv, FreeInv
  <1> QED
    BY <1>1, WriteIInv, ReadIInv, CloseIInv, PipeCloseIInv, FreeIInv DEF Next, pipeclose

(* The ring, the two flags and the processes at each end fit together. *)
THEOREM Inductive == Spec => []IInv
  BY InitIInv, NextIInv, PTL DEF Spec

(* However the two ends are closed and whoever is killed, pipeclose()      *)
(* calls kfree() in one process only, and no other one can still use p.    *)
THEOREM FreedByLastHolds == Spec => []FreedByLast
  <1>1. IInv => FreedByLast
    BY DEF IInv, UseInv, FreeInv, FreedByLast
  <1> QED
    BY <1>1, Inductive, PTL

(* Whoever is killed, no reader sleeps while there is something to read,   *)
(* but for what a write killed on a full pipe has left without a wakeup.   *)
THEOREM PipeInvHolds == Spec => []PipeInv
  <1>1. Init => ReaderSleepsOnEmpty
    BY DEF Init, ReaderSleepsOnEmpty, Procs
  <1>2. IInv /\ ReaderSleepsOnEmpty /\ [Next]_vars => ReaderSleepsOnEmpty'
    <2> SUFFICES ASSUME IInv, ReaderSleepsOnEmpty, [Next]_vars PROVE ReaderSleepsOnEmpty'
      OBVIOUS
    <2>1. CASE UNCHANGED vars
      BY <2>1 DEF vars, ReaderSleepsOnEmpty, Empty
    <2>2. ASSUME NEW w \in Writers, WriteCall(w) PROVE ReaderSleepsOnEmpty'
      BY <2>2, RoleAssumption
         DEF WriteCall, At, ReaderSleepsOnEmpty, Empty, IInv, TypeOK, Procs
    <2>3. ASSUME NEW w \in Writers, WriteDone(w) PROVE ReaderSleepsOnEmpty'
      BY <2>3, RoleAssumption
         DEF WriteDone, WakeReaders, At, ReaderSleepsOnEmpty, IInv, TypeOK, Procs
    <2>4. ASSUME NEW w \in Writers, WriteBlocked(w) PROVE ReaderSleepsOnEmpty'
      <3>1. CASE readopen /\ ~killed[w]
        BY <2>4, <3>1, RoleAssumption
           DEF WriteBlocked, WakeReaders, At, ReaderSleepsOnEmpty, IInv, TypeOK, Procs
      <3>2. CASE ~readopen \/ killed[w]
        BY <2>4, <3>2, RoleAssumption
           DEF WriteBlocked, At, ReaderSleepsOnEmpty, IInv, TypeOK, Procs
      <3> QED
        BY <3>1, <3>2
    <2>5. ASSUME NEW r \in Readers, ReadCall(r) \/ piperead(r) PROVE ReaderSleepsOnEmpty'
      BY <2>5, RoleAssumption
         DEF ReadCall, piperead, ReadEmpty, ReadDone, WakeWriters, At, ReaderSleepsOnEmpty, Empty, Count,
             IInv, TypeOK, Procs
    <2>6. ASSUME NEW q \in Procs, Close(q) \/ PipeClose(q) \/ FreeAndAlloc(q) \/ Kill(q)
          PROVE  ReaderSleepsOnEmpty'
      BY <2>6, RoleAssumption
         DEF Close, PipeClose, FreeAndAlloc, Kill, WakeReaders, WakeWriters, At, ReaderSleepsOnEmpty, Empty,
             IInv, TypeOK, UseInv, EndInv, HasOpen, Procs
    <2> QED
      BY <2>1, <2>2, <2>3, <2>4, <2>5, <2>6 DEF Next, pipewrite, pipeclose
  <1>3. IInv /\ ReaderSleepsOnEmpty => PipeInv
    BY DEF IInv, PipeInv
  <1> QED
    BY <1>1, <1>2, <1>3, Inductive, PTL DEF Spec

-----------------------------------------------------------------------------
(* Where the i-th byte of the queue is. *)
Place(i) == Add(nread, i - 1) % PIPESIZE

LEMMA Sizes == PIPESIZE \in Nat \ {0} /\ UintMod \in Nat \ {0} /\ UintMod % PIPESIZE = 0
  BY SizeAssumption, RangeAssumption

LEMMA PlaceRange ==
  ASSUME IInv, NEW i \in Int
  PROVE  Place(i) = (nread + (i - 1)) % PIPESIZE /\ Place(i) \in 0..PIPESIZE-1
  <1>1. nread + (i - 1) \in Int
    BY DEF IInv, TypeOK
  <1>2. Place(i) = (nread + (i - 1)) % PIPESIZE
    BY <1>1, Sizes, ModMod DEF Place, Add
  <1>3. (nread + (i - 1)) % PIPESIZE \in 0..PIPESIZE-1
    BY <1>1, Sizes, ModRange
  <1> QED
    BY <1>2, <1>3

(* nwrite is the place behind the last byte of the queue. *)
LEMMA NextPlace ==
  ASSUME IInv PROVE nwrite % PIPESIZE = (nread + Count) % PIPESIZE
  <1>1. nread \in 0..UintMod-1 /\ nwrite \in 0..UintMod-1
    BY DEF IInv, TypeOK
  <1>2. Count \in 0..UintMod-1
    BY CountRange DEF IInv
  <1>3. nwrite = (nread + Count) % UintMod
    BY <1>1, Sizes DEF Count
  <1>4. nread + Count \in Int
    BY <1>1, <1>2
  <1>5. ((nread + Count) % UintMod) % PIPESIZE = (nread + Count) % PIPESIZE
    BY <1>4, Sizes, ModMod
  <1> QED
    BY <1>3, <1>5

LEMMA ContentsSeq ==
  ASSUME IInv
  PROVE  /\ Contents \in Seq(Bytes)
         /\ Len(Contents) = Count
         /\ Count \in Nat
         /\ \A i \in 1..Count : Contents[i] = data[Place(i)]
  <1>1. Count \in Nat
    BY CountRange, SizeAssumption DEF IInv
  <1>2. ASSUME NEW i \in 1..Count PROVE data[Place(i)] \in Bytes
    <2>1. Place(i) \in 0..PIPESIZE-1
      BY <1>1, PlaceRange
    <2> QED
      BY <2>1 DEF IInv, TypeOK
  <1>3. Contents = [i \in 1..Count |-> data[Place(i)]]
    BY DEF Contents, Place
  <1> QED
    BY <1>1, <1>2, <1>3

LEMMA ContentsTyped == IInv => Contents \in Seq(Bytes) /\ Len(Contents) = Count
  BY ContentsSeq

-----------------------------------------------------------------------------
(* The byte pipewrite() puts at the i-th place: one of its own behind the  *)
(* end of the queue, or the one that was there.                            *)
LEMMA StoredAt ==
  ASSUME IInv, NEW w \in Writers, Stored(w), NEW i \in 1..(Count + Room(w))
  PROVE  data'[Place(i)] = IF i <= Count THEN data[Place(i)] ELSE todo[w][i - Count]
  <1> DEFINE k == (Place(i) + UintMod - (nwrite % PIPESIZE)) % PIPESIZE
  <1>1. /\ Count \in Nat /\ Room(w) \in Nat /\ Count + Room(w) <= PIPESIZE
        /\ nread \in Int /\ i \in Int
    BY RoomRange, ContentsSeq DEF IInv, TypeOK
  <1>2. k = (i - 1 - Count) % PIPESIZE
    <2>1. Place(i) = (nread + (i - 1)) % PIPESIZE /\ nwrite % PIPESIZE = (nread + Count) % PIPESIZE
      BY <1>1, PlaceRange, NextPlace
    <2>2. nread + (i - 1) \in Int /\ nread + Count \in Int
      BY <1>1
    <2>3. k = ((nread + (i - 1)) - (nread + Count)) % PIPESIZE
      <3>1. \A a \in Int, b \in Int : ((a % PIPESIZE) + UintMod - (b % PIPESIZE)) % PIPESIZE = (a - b) % PIPESIZE
        BY Sizes, ModDistance
      <3> QED
        BY <2>1, <2>2, <3>1
    <2>4. (nread + (i - 1)) - (nread + Count) = i - 1 - Count
      BY <1>1
    <2> QED
      BY <2>3, <2>4
  <1>3. Place(i) \in 0..PIPESIZE-1
    BY <1>1, PlaceRange
  <1>4. data'[Place(i)] = IF k < Room(w) THEN todo[w][k + 1] ELSE data[Place(i)]
    BY <1>3 DEF Stored
  <1> HIDE DEF k
  <1>5. CASE i <= Count
    <2>1. k = i - 1 - Count + PIPESIZE
      BY <1>1, <1>2, <1>5, Sizes
    <2> QED
      BY <1>1, <1>4, <1>5, <2>1, Sizes
  <1>6. CASE i > Count
    <2>1. k = i - 1 - Count
      BY <1>1, <1>2, <1>6, Sizes
    <2> QED
      BY <1>1, <1>4, <1>6, <2>1
  <1> QED
    BY <1>1, <1>5, <1>6

-----------------------------------------------------------------------------
(* pipewrite(): the bytes it stores are put behind those of the queue. *)
LEMMA PutStep ==
  ASSUME IInv, IInv', NEW w \in Writers, pipewrite(w)
  PROVE  Abstract!Put(w)
  <1> DEFINE k == Room(w)
             moved == SubSeq(todo[w], 1, k)
  <1>1. /\ k \in Nat /\ k <= Len(todo[w]) /\ Count + k <= PIPESIZE /\ Count \in Nat
        /\ todo[w] \in Seq(Bytes) /\ Len(todo[w]) \in Nat
    BY RoomRange, ContentsSeq DEF IInv, TypeOK
  <1>2. Stored(w) /\ nread' = nread /\ UNCHANGED <<readopen, writeopen, got>> /\ pc[w] = "busy"
    BY DEF pipewrite, WriteBlocked, WriteDone
  <1>3. Count' = Count + k
    BY <1>2, StoredTypes
  <1>4. writeopen
    BY <1>2 DEF IInv, UseInv, EndInv, HasOpen
  <1>5. /\ moved \in Seq(Bytes) /\ Len(moved) = k
        /\ \A i \in 1..k : moved[i] = todo[w][i]
    BY <1>1
  <1>6. Contents' = Contents \o moved
    <2>1. /\ Contents \in Seq(Bytes) /\ Len(Contents) = Count
          /\ \A i \in 1..Count : Contents[i] = data[Place(i)]
      BY ContentsSeq
    <2>2. (Contents \in Seq(Bytes) /\ Len(Contents) = Count)'
      BY ContentsTyped, PTL
    <2>3. ASSUME NEW i \in 1..Count' PROVE Contents'[i] = data'[Place(i)]
      BY <1>2, <2>3 DEF Contents, Place, Add
    <2>4. /\ Contents \o moved \in Seq(Bytes) /\ Len(Contents \o moved) = Count + k
          /\ \A i \in 1..(Count + k) :
               (Contents \o moved)[i] = IF i <= Count THEN Contents[i] ELSE moved[i - Count]
      <3>1. /\ Contents \o moved \in Seq(Bytes)
            /\ Len(Contents \o moved) = Len(Contents) + Len(moved)
            /\ \A i \in 1..(Len(Contents) + Len(moved)) :
                 (Contents \o moved)[i] = IF i <= Len(Contents) THEN Contents[i] ELSE moved[i - Len(Contents)]
        BY <1>5, <2>1, ConcatProperties
      <3> QED
        BY <1>5, <2>1, <3>1
    <2>5. ASSUME NEW i \in 1..(Count + k) PROVE Contents'[i] = (Contents \o moved)[i]
      <3>1. Contents'[i] = IF i <= Count THEN data[Place(i)] ELSE todo[w][i - Count]
        BY <1>2, <1>3, <2>3, StoredAt
      <3>2. i <= Count => i \in 1..Count
        BY <1>1
      <3>3. ~(i <= Count) => i - Count \in 1..k
        BY <1>1
      <3> QED
        BY <1>5, <2>1, <2>4, <3>1, <3>2, <3>3
    <2> QED
      BY <1>3, <2>2, <2>4, <2>5, SeqEqual
  <1>7. Len(Contents') <= PIPESIZE
    BY <1>1, <1>3, <1>5, <1>6, ContentsSeq, ConcatProperties
  <1>8. \/ todo' = [todo EXCEPT ![w] = SubSeq(todo[w], k + 1, Len(todo[w]))]
        \/ todo' = [todo EXCEPT ![w] = <<>>]
    BY DEF pipewrite, WriteBlocked, WriteDone
  <1>9. k \in 0..Len(todo[w])
    BY <1>1
  <1> HIDE DEF k
  <1> QED
    BY <1>2, <1>4, <1>6, <1>7, <1>8, <1>9 DEF Abstract!Put

(* piperead(): the bytes it copies are the first ones of the queue. *)
LEMMA GetStep ==
  ASSUME IInv, IInv', NEW r \in Readers, ReadDone(r)
  PROVE  Abstract!Get(r)
  <1>1. PICK k \in 0..Count :
          /\ nread' = Add(nread, k)
          /\ got' = [got EXCEPT ![r] = [i \in 1..k |-> data[Place(i)]]]
    BY DEF ReadDone, Place
  <1>2. UNCHANGED <<data, nwrite, readopen, writeopen, todo>> /\ readopen
    BY DEF ReadDone, IInv, UseInv, EndInv, HasOpen
  <1>3. Count \in Nat /\ k \in Nat /\ k <= Count /\ Count' = Count - k
    BY <1>1, <1>2, ReadCount
  <1>4. nread \in 0..UintMod-1 /\ Count \in 0..UintMod-1
    BY CountRange DEF IInv, TypeOK
  <1>5. Contents' = SubSeq(Contents, k + 1, Len(Contents))
    <2>1. /\ Contents \in Seq(Bytes) /\ Len(Contents) = Count
          /\ \A i \in 1..Count : Contents[i] = data[Place(i)]
      BY ContentsSeq
    <2>2. (Contents \in Seq(Bytes) /\ Len(Contents) = Count)'
      BY ContentsTyped, PTL
    <2>3. /\ SubSeq(Contents, k + 1, Count) \in Seq(Bytes)
          /\ Len(SubSeq(Contents, k + 1, Count)) = Count - k
          /\ \A i \in 1..(Count - k) : SubSeq(Contents, k + 1, Count)[i] = Contents[k + i]
      BY <1>3, <2>1
    <2>4. ASSUME NEW i \in 1..(Count - k) PROVE Contents'[i] = Contents[k + i]
      <3>1. k + i \in 1..Count /\ i - 1 \in Nat /\ i \in Int
        BY <1>3
      <3>2. (((nread + k) % UintMod) + (i - 1)) % UintMod = (nread + (k + i - 1)) % UintMod
        BY <1>3, <1>4, <3>1, Sizes
      <3>3. Add(nread', i - 1) = Add(nread, k + i - 1)
        BY <1>1, <3>2 DEF Add
      <3>4. Contents'[i] = data[Add(nread, k + i - 1) % PIPESIZE]
        BY <1>2, <1>3, <3>3 DEF Contents
      <3> QED
        BY <2>1, <3>1, <3>4 DEF Place
    <2> QED
      BY <1>3, <2>1, <2>2, <2>3, <2>4, SeqEqual
  <1>6. k \in 0..Len(Contents)
    BY <1>3, ContentsSeq
  <1>7. [i \in 1..k |-> data[Place(i)]] = SubSeq(Contents, 1, k)
    <2>1. /\ Contents \in Seq(Bytes) /\ Len(Contents) = Count
          /\ \A i \in 1..Count : Contents[i] = data[Place(i)]
      BY ContentsSeq
    <2>2. SubSeq(Contents, 1, k) = [i \in 1..k |-> Contents[i]]
      BY <1>3, <2>1
    <2>3. \A i \in 1..k : i \in 1..Count
      BY <1>3
    <2> QED
      BY <2>1, <2>2, <2>3
  <1>8. got' = [got EXCEPT ![r] = SubSeq(Contents, 1, k)]
    BY <1>1, <1>7
  <1> QED
    BY <1>2, <1>5, <1>6, <1>8 DEF Abstract!Get

LEMMA SameContents == UNCHANGED <<data, nread, nwrite>> => Contents' = Contents
  BY DEF Contents, Count, Add

(* An empty pipe is an empty queue. *)
LEMMA EmptyContents ==
  /\ nread = 0 /\ nwrite = 0 => Contents = <<>>
  /\ nread' = 0 /\ nwrite' = 0 => Contents' = <<>>
  <1>1. (0 + UintMod - 0) % UintMod = 0
    BY Sizes
  <1> QED
    BY <1>1, Sizes DEF Contents, Count

(* A pipe implements the bounded queue ByteStream: what is written is      *)
(* read, in order, once, and the counters that wrap do not show.           *)
THEOREM Refinement == Spec => ImplementsByteStream
  <1>1. Init => Abstract!BInit
    BY EmptyContents DEF Init, Abstract!BInit
  <1>2. IInv /\ IInv' /\ [Next]_vars => [Abstract!BNext]_(Abstract!svars)
    <2> SUFFICES ASSUME IInv, IInv', [Next]_vars PROVE [Abstract!BNext]_(Abstract!svars)
      OBVIOUS
    <2>1. CASE UNCHANGED <<data, nread, nwrite, readopen, writeopen, todo, got>>
      BY <2>1, SameContents DEF Abstract!svars
    <2>2. ASSUME NEW w \in Writers, WriteCall(w) PROVE Abstract!BNext
      BY <2>2, SameContents DEF WriteCall, Abstract!BNext, Abstract!Ask
    <2>3. ASSUME NEW w \in Writers, pipewrite(w) PROVE Abstract!BNext
      BY <2>3, PutStep DEF Abstract!BNext
    <2>4. ASSUME NEW r \in Readers, ReadDone(r) PROVE Abstract!BNext
      BY <2>4, GetStep DEF Abstract!BNext
    <2>5. ASSUME NEW r \in Readers, ReadCall(r) PROVE Abstract!BNext
      BY <2>5, SameContents DEF ReadCall, Abstract!BNext, Abstract!AskBytes
    <2>6. ASSUME NEW q \in Procs, PipeClose(q) PROVE Abstract!BNext
      <3>1. IF q \in Writers THEN writeopen ELSE readopen
        BY <2>6 DEF PipeClose, IInv, UseInv, EndInv, Procs
      <3> QED
        BY <2>6, <3>1, SameContents
           DEF PipeClose, IInv, TypeOK, Abstract!BNext, Abstract!CloseWrite, Abstract!CloseRead
    <2>7. ASSUME NEW q \in Procs, FreeAndAlloc(q) PROVE Abstract!BNext
      BY <2>7, EmptyContents DEF FreeAndAlloc, IInv, UseInv, FreeInv, Abstract!BNext, Abstract!Reopen
    <2> QED
      BY <2>1, <2>2, <2>3, <2>4, <2>5, <2>6, <2>7
         DEF Next, vars, piperead, ReadEmpty, Close, pipeclose, Kill
  <1> QED
    BY <1>1, <1>2, Inductive, PTL DEF Spec, ImplementsByteStream, Abstract!BSpec
=============================================================================
