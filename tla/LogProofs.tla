------------------------------ MODULE LogProofs ------------------------------
(***************************************************************************)
(* The log keeps its promise through any number of crashes, for any number *)
(* of processes and blocks: log.c implements DurableDisk, and no operation *)
(* runs out of the space begin_op() has reserved.                          *)
(***************************************************************************)
EXTENDS Log, FiniteSetTheorems, SequenceTheorems, TLAPS

(* Processes between begin_op() and end_op(), and those inside commit(). *)
Active == {p \in Procs : pc[p] \in {"in", "log"}}
Commit == {"copy", "head", "install", "clear", "done"}

(* log.outstanding counts the operations, which exclude a commit. *)
CountInv ==
    /\ outstanding = Cardinality(Active)
    /\ committing => outstanding = 0
    /\ \A p \in Procs : pc[p] \in Commit => committing
    /\ \A p, q \in Procs : pc[p] \in Commit /\ pc[q] \in Commit => p = q
    /\ \A p \in Procs : mode = "recover" <=> pc[p] = "off"

(* What an operation has written is in the log, and is no more than it may *)
(* write.                                                                  *)
WroteInv ==
    \A p \in Procs :
        /\ wrote[p] \subseteq Range(lh) /\ Cardinality(wrote[p]) <= OpWrites
        /\ p \notin Active => wrote[p] = {}
        /\ pc[p] = "log" => arg[p] \in Blocks /\ Cardinality(wrote[p] \cup {arg[p]}) <= OpWrites

(* The blocks the active operations may still add to the log: the k-th one *)
(* of each.                                                                *)
Spare == {x \in Active \X (1..OpWrites) : x[2] > Cardinality(wrote[x[1]])}

SpaceInv == Len(lh) + Cardinality(Spare) <= Room

(* The header on disk is empty or the one in memory; the log is empty when *)
(* nothing runs; outside commit() all that is in the log is pinned.        *)
HeadInv ==
    /\ head = <<>> \/ head = lh
    /\ mode = "up" /\ ~committing =>
          /\ head = <<>> /\ dirty = Range(lh)
          /\ outstanding = 0 => lh = <<>>

(* How far commit() has come, for each of its phases. *)
Copied(n) == \A i \in 1..n : logblock[i] = cache[lh[i]]

CommitInv ==
    \A p \in Procs :
        /\ pc[p] = "copy" => head = <<>> /\ dirty = Range(lh) /\ tail < Len(lh) /\ Copied(tail)
        /\ pc[p] = "head" => /\ head = <<>> /\ dirty = Range(lh) /\ tail = 0 /\ lh # <<>>
                             /\ Copied(Len(lh))
        /\ pc[p] = "install" => /\ head = lh /\ tail < Len(lh) /\ Copied(Len(lh))
                                /\ dirty = {lh[i] : i \in tail+1..Len(lh)}
        /\ pc[p] = "clear" => head = lh /\ dirty = {} /\ Copied(Len(lh))
        /\ pc[p] = "done" => head = <<>> /\ lh = <<>> /\ dirty = {}

(* Recovery: nothing is running, and the log is installed up to tail. *)
RecoverInv ==
    mode = "recover" =>
        /\ outstanding = 0 /\ ~committing
        /\ head = lh /\ cache = disk /\ dirty = {} /\ tail <= Len(lh)
        /\ \A i \in 1..tail : disk[lh[i]] = logblock[i]

IInv ==
    /\ TypeOK /\ NoPanic /\ CountInv /\ WroteInv /\ SpaceInv
    /\ HeadInv /\ CommitInv /\ RecoverInv /\ UnpinnedIsClean

-----------------------------------------------------------------------------
(* Bounded sequences are the sequences of that length.                     *)
LEMMA BoundedSeqs ==
  ASSUME NEW S, NEW n \in Nat, NEW s
  PROVE  s \in BoundedSeq(S, n) <=> s \in Seq(S) /\ Len(s) <= n
  <1>1. ASSUME s \in BoundedSeq(S, n) PROVE s \in Seq(S) /\ Len(s) <= n
    <2>1. PICK m \in 0..n : s \in [1..m -> S]
      BY <1>1 DEF BoundedSeq, SeqOf
    <2> QED
      BY <2>1
  <1>2. ASSUME s \in Seq(S), Len(s) <= n PROVE s \in BoundedSeq(S, n)
    <2>1. s \in [1..Len(s) -> S] /\ Len(s) \in 0..n
      BY <1>2, LenProperties
    <2> QED
      BY <2>1 DEF BoundedSeq, SeqOf
  <1> QED
    BY <1>1, <1>2

(* log.lh and the header as sequences. *)
LEMMA LogSeqs ==
  ASSUME TypeOK
  PROVE  /\ lh \in Seq(Blocks) /\ Len(lh) \in Nat /\ Len(lh) <= LOGSIZE /\ DOMAIN lh = 1..Len(lh)
         /\ head \in Seq(Blocks) /\ Len(head) \in Nat /\ DOMAIN head = 1..Len(head)
         /\ LOGSIZE \in Nat
  <1>1. LOGSIZE \in Nat /\ lh \in BoundedSeq(Blocks, LOGSIZE) /\ head \in BoundedSeq(Blocks, LOGSIZE)
    BY SizeAssumption DEF TypeOK
  <1>2. lh \in Seq(Blocks) /\ Len(lh) <= LOGSIZE /\ head \in Seq(Blocks)
    BY <1>1, BoundedSeqs
  <1> QED
    BY <1>1, <1>2, LenProperties

(* A block is in the log when it is one of its elements. *)
LEMMA InLog ==
  ASSUME NEW s \in Seq(Blocks), NEW b
  PROVE  Contains(s, b) <=> b \in Range(s)
  BY LenProperties DEF Contains, Range

(* Appending a block that is not in the log. *)
LEMMA LogAppend ==
  ASSUME NEW s \in Seq(Blocks), IsInjective(s), NEW b \in Blocks, b \notin Range(s)
  PROVE  /\ Append(s, b) \in Seq(Blocks) /\ IsInjective(Append(s, b))
         /\ Range(Append(s, b)) = Range(s) \cup {b}
         /\ Len(Append(s, b)) = Len(s) + 1
  <1> DEFINE t == Append(s, b)
  <1>1. /\ t \in Seq(Blocks) /\ Len(t) = Len(s) + 1 /\ Len(s) \in Nat
        /\ DOMAIN t = 1..Len(s) + 1 /\ DOMAIN s = 1..Len(s)
        /\ \A i \in 1..Len(s) : t[i] = s[i]
        /\ t[Len(s) + 1] = b
    BY LenProperties
  <1> HIDE DEF t
  <1>2. IsInjective(t)
    BY <1>1 DEF IsInjective, Range
  <1>3. Range(t) = Range(s) \cup {b}
    BY <1>1 DEF Range
  <1> QED
    BY <1>1, <1>2, <1>3 DEF t

(* The number of blocks in the log. *)
LEMMA LogFinite ==
  ASSUME NEW s \in Seq(Blocks)
  PROVE  IsFiniteSet(Range(s))
  <1>1. Range(s) = {s[i] : i \in 1..Len(s)} /\ Len(s) \in Nat
    BY LenProperties DEF Range
  <1>2. IsFiniteSet(1..Len(s))
    BY <1>1, FS_Interval
  <1>3. s \in Surjection(1..Len(s), Range(s))
    BY <1>1, LenProperties DEF Surjection, Range
  <1> QED
    BY <1>2, <1>3, FS_Surjection

(* Sets of operations are finite, and so are their spare writes. *)
LEMMA SpareFinite ==
  ASSUME NEW S \in SUBSET Procs, OpWrites \in Nat
  PROVE  /\ IsFiniteSet(S) /\ Cardinality(S) \in Nat /\ Cardinality(S) <= Cardinality(Procs)
         /\ IsFiniteSet(S \X (1..OpWrites))
         /\ Cardinality(S \X (1..OpWrites)) = Cardinality(S) * OpWrites
  <1>1. IsFiniteSet(S) /\ Cardinality(S) \in Nat /\ Cardinality(S) <= Cardinality(Procs)
    BY SizeAssumption, FS_Subset, FS_CardinalityType
  <1>2. IsFiniteSet(1..OpWrites) /\ Cardinality(1..OpWrites) = OpWrites
    BY FS_Interval
  <1> QED
    BY <1>1, <1>2, FS_Product

(* The sizes, as numbers. *)
LEMMA Sizes ==
  /\ OpWrites \in Nat /\ OpWrites <= MAXOPBLOCKS /\ MAXOPBLOCKS \in Nat /\ LOGSIZE \in Nat /\ NLog \in Nat
  /\ Room \in Nat /\ OpWrites <= Room /\ LOGSIZE - 2 * (MAXOPBLOCKS - OpWrites) <= Room
  /\ Room < LOGSIZE /\ Room < NLog - 1
  BY SizeAssumption, RoomAssumption DEF Room

(* Without a reservation left, no operation exceeds the room in the log. *)
LEMMA LogHasRoom ==
  ASSUME TypeOK, SpaceInv
  PROVE  /\ Len(lh) \in Nat /\ Len(lh) <= Room
         /\ IsFiniteSet(Spare) /\ Cardinality(Spare) \in Nat
  <1>1. IsFiniteSet(Active \X (1..OpWrites)) /\ Spare \subseteq Active \X (1..OpWrites)
    BY SpareFinite, Sizes DEF Active, Spare
  <1>2. IsFiniteSet(Spare) /\ Cardinality(Spare) \in Nat
    BY <1>1, FS_Subset, FS_CardinalityType
  <1> QED
    BY <1>2, LogSeqs, Sizes DEF SpaceInv

(* An empty log. *)
LEMMA InitSeq ==
  /\ <<>> \in BoundedSeq(Blocks, LOGSIZE) /\ IsInjective(<<>>) /\ Range(<<>>) = {}
  /\ Len(<<>>) = 0
  <1>1. LOGSIZE \in Nat /\ Len(<<>>) = 0 /\ Len(<<>>) <= LOGSIZE /\ <<>> \in Seq(Blocks)
    BY Sizes
  <1>2. <<>> \in BoundedSeq(Blocks, LOGSIZE)
    BY <1>1 DEF BoundedSeq, SeqOf
  <1> QED
    BY <1>1, <1>2 DEF IsInjective, Range

-----------------------------------------------------------------------------
(* The inductive invariant holds on a fresh file system. *)
LEMMA InitIInv == Init => IInv
  <1> SUFFICES ASSUME Init PROVE IInv
    OBVIOUS
  <1>1. TypeOK
    <2>1. outstanding \in 0..Cardinality(Procs)
      BY SizeAssumption, FS_CardinalityType DEF Init
    <2>2. tail \in 0..LOGSIZE
      BY SizeAssumption DEF Init
    <2>3. pc \in [Procs -> PC]
      BY DEF Init, PC
    <2> QED
      BY InitSeq, <2>1, <2>2, <2>3 DEF Init, TypeOK, Values
  <1>2. Active = {} /\ Spare = {}
    BY DEF Init, Active, Spare
  <1>3. CountInv /\ SpaceInv
    BY InitSeq, <1>2, FS_EmptySet, Sizes DEF Init, CountInv, SpaceInv, Commit
  <1>4. WroteInv
    BY <1>2, FS_EmptySet, Sizes DEF Init, WroteInv
  <1>5. NoPanic /\ HeadInv /\ CommitInv /\ RecoverInv /\ UnpinnedIsClean
    BY InitSeq DEF Init, NoPanic, HeadInv, CommitInv, RecoverInv, UnpinnedIsClean
  <1> QED
    BY <1>1, <1>3, <1>4, <1>5 DEF IInv

-----------------------------------------------------------------------------
(* A process that is in no operation goes on or is woken: the operations   *)
(* and their reservations stay.                                            *)
LEMMA SameActive ==
  ASSUME UNCHANGED wrote,
         \A q \in Procs : pc'[q] \in {"in", "log"} <=> pc[q] \in {"in", "log"}
  PROVE  Active' = Active /\ Spare' = Spare
  <1>1. Active' = Active
    BY DEF Active
  <1> QED
    BY <1>1 DEF Spare

(* wakeup(&log) moves nobody but the sleepers. *)
LEMMA Waking ==
  ASSUME TypeOK, NEW p \in Procs, NEW label \in PC, pc' = WakeAll(p, label)
  PROVE  /\ pc' \in [Procs -> PC]
         /\ pc'[p] = label
         /\ \A q \in Procs : q # p => pc'[q] = pc[q] \/ (pc[q] = "asleep" /\ pc'[q] = "awake")
  BY DEF WakeAll, TypeOK, PC

(* begin_op() sleeps. *)
LEMMA BeginSleepIInv ==
  ASSUME IInv, NEW p \in Procs, BeginSleep(p)
  PROVE  IInv'
  <1>1. /\ pc' = [pc EXCEPT ![p] = "asleep"] /\ pc[p] \in {"out", "awake"} /\ pc \in [Procs -> PC]
        /\ UNCHANGED <<outstanding, committing, lh, cache, dirty, arg, wrote, tail, mode, disk, head, logblock>>
    BY DEF BeginSleep, At, IInv, TypeOK, memory, disks
  <1>2. Active' = Active /\ Spare' = Spare
    BY <1>1, SameActive
  <1>3. TypeOK'
    BY <1>1 DEF IInv, TypeOK, PC
  <1>4. CountInv' /\ NoPanic'
    BY <1>1, <1>2 DEF IInv, CountInv, Commit, NoPanic
  <1>5. WroteInv' /\ SpaceInv'
    BY <1>1, <1>2 DEF IInv, WroteInv, SpaceInv
  <1>6. HeadInv' /\ CommitInv' /\ RecoverInv' /\ UnpinnedIsClean'
    BY <1>1 DEF IInv, HeadInv, CommitInv, Copied, RecoverInv, UnpinnedIsClean
  <1> QED
    BY <1>3, <1>4, <1>5, <1>6 DEF IInv

(* begin_op() reserves: alone in an empty log, or with room for all. *)
LEMMA BeginOpIInv ==
  ASSUME IInv, NEW p \in Procs, BeginOp(p)
  PROVE  IInv'
  <1>1. /\ pc' = [pc EXCEPT ![p] = "in"] /\ pc[p] \in {"out", "awake"} /\ pc \in [Procs -> PC]
        /\ outstanding' = outstanding + 1
        /\ ~committing /\ Len(lh) + (outstanding + 1) * MAXOPBLOCKS <= LOGSIZE
        /\ UNCHANGED <<committing, lh, cache, dirty, arg, wrote, tail, mode, disk, head, logblock>>
    BY LogSeqs, Sizes DEF BeginOp, MustWait, At, IInv, TypeOK, disks
  <1>2. mode = "up"
    BY <1>1 DEF IInv, CountInv, TypeOK
  <1>3. /\ Active' = Active \cup {p} /\ p \notin Active
        /\ outstanding = Cardinality(Active) /\ outstanding + 1 = Cardinality(Active')
        /\ IsFiniteSet(Active') /\ outstanding \in Nat /\ outstanding + 1 <= Cardinality(Procs)
    <2>1. Active' = Active \cup {p} /\ p \notin Active /\ Active \subseteq Procs
      BY <1>1 DEF Active
    <2>2. IsFiniteSet(Active) /\ Cardinality(Active) \in Nat /\ outstanding = Cardinality(Active)
      BY <2>1, SpareFinite, Sizes DEF IInv, CountInv
    <2>3. Cardinality(Active') <= Cardinality(Procs)
      BY <2>1, SpareFinite, Sizes
    <2> QED
      BY <2>1, <2>2, <2>3, FS_AddElement
  <1>4. TypeOK'
    <2>1. outstanding' \in 0..Cardinality(Procs)
      BY <1>1, <1>3, SizeAssumption, FS_CardinalityType
    <2>2. pc' \in [Procs -> PC]
      BY <1>1, SizeAssumption DEF IInv, TypeOK, PC
    <2> QED
      BY <1>1, <2>1, <2>2 DEF IInv, TypeOK
  <1>5. CountInv' /\ NoPanic'
    BY <1>1, <1>2, <1>3 DEF IInv, CountInv, Commit, NoPanic
  <1>6. WroteInv'
    BY <1>1, <1>3 DEF IInv, WroteInv
  <1>7. SpaceInv'
    <2>1. Spare' \subseteq Active' \X (1..OpWrites)
      BY DEF Spare
    <2>2. /\ IsFiniteSet(Active' \X (1..OpWrites))
          /\ Cardinality(Active' \X (1..OpWrites)) = (outstanding + 1) * OpWrites
      BY <1>3, <1>1, SpareFinite, Sizes DEF Active
    <2>3. Cardinality(Spare') \in Nat /\ Cardinality(Spare') <= (outstanding + 1) * OpWrites
      BY <2>1, <2>2, FS_Subset, FS_CardinalityType
    <2>4. CASE outstanding = 0
      <3>1. lh = <<>> /\ Len(lh) = 0
        BY <1>1, <1>2, <2>4 DEF IInv, HeadInv
      <3> QED
        BY <1>1, <2>3, <2>4, <3>1, Sizes DEF SpaceInv
    <2>5. CASE outstanding # 0
      <3> DEFINE k == outstanding + 1
      <3>1. k \in Nat /\ k >= 2 /\ Len(lh) \in Nat
        BY <1>3, <2>5, LogSeqs DEF IInv
      <3>2. k * MAXOPBLOCKS - k * OpWrites >= 2 * (MAXOPBLOCKS - OpWrites)
        <4> DEFINE d == MAXOPBLOCKS - OpWrites
        <4>1. d \in Nat /\ k * MAXOPBLOCKS - k * OpWrites = k * d
          BY <3>1, Sizes
        <4>2. k * d >= 2 * d
          BY <3>1, <4>1
        <4> QED
          BY <4>1, <4>2
      <3>3. /\ k * MAXOPBLOCKS \in Nat /\ k * OpWrites \in Nat
            /\ Len(lh) + k * MAXOPBLOCKS <= LOGSIZE /\ Cardinality(Spare') <= k * OpWrites
        BY <1>1, <2>3, <3>1, Sizes
      <3> HIDE DEF k
      <3>4. Len(lh) + Cardinality(Spare') <= Room
        BY <2>3, <3>1, <3>2, <3>3, Sizes
      <3> QED
        BY <1>1, <3>4, Sizes DEF SpaceInv, Room
    <2> QED
      BY <2>4, <2>5
  <1>8. HeadInv' /\ CommitInv' /\ RecoverInv' /\ UnpinnedIsClean'
    BY <1>1, <1>2, <1>3 DEF IInv, HeadInv, CommitInv, Copied, RecoverInv, UnpinnedIsClean
  <1> QED
    BY <1>4, <1>5, <1>6, <1>7, <1>8 DEF IInv

(* log_write() passes its two tests: the operation that calls it has a     *)
(* block left, or has the block in the log already.                        *)
LEMMA LogCheckIInv ==
  ASSUME IInv, NEW p \in Procs, NEW b \in Blocks, LogCheck(p, b)
  PROVE  IInv'
  <1>1. pc[p] = "in" /\ pc \in [Procs -> PC] /\ arg \in [Procs -> Blocks \cup {NoBlock}]
    BY DEF LogCheck, IInv, TypeOK
  <1>2. ~(Len(lh) >= LOGSIZE \/ Len(lh) >= NLog - 1 \/ outstanding < 1)
    <2>1. Len(lh) \in Nat /\ Len(lh) <= Room
      BY LogHasRoom DEF IInv
    <2>2. outstanding \in Nat /\ outstanding # 0
      <3>1. p \in Active /\ Active \subseteq Procs
        BY <1>1 DEF Active
      <3>2. IsFiniteSet(Active) /\ Cardinality(Active) \in Nat
        BY <3>1, SpareFinite, Sizes
      <3> QED
        BY <3>1, <3>2, FS_EmptySet DEF IInv, CountInv
    <2> QED
      BY <2>1, <2>2, Sizes
  <1>3. /\ pc' = [pc EXCEPT ![p] = "log"] /\ arg' = [arg EXCEPT ![p] = b]
        /\ Cardinality(wrote[p] \cup {b}) <= OpWrites
        /\ UNCHANGED <<outstanding, committing, lh, cache, dirty, wrote, tail, mode, disk, head, logblock>>
    BY <1>2 DEF LogCheck, At, disks
  <1>4. Active' = Active /\ Spare' = Spare
    BY <1>1, <1>3, SameActive
  <1>5. TypeOK'
    BY <1>1, <1>3 DEF IInv, TypeOK, PC
  <1>6. CountInv' /\ NoPanic'
    BY <1>1, <1>3, <1>4 DEF IInv, CountInv, Commit, NoPanic
  <1>7. WroteInv'
    BY <1>1, <1>3, <1>4 DEF IInv, WroteInv
  <1>8. SpaceInv' /\ HeadInv' /\ CommitInv' /\ RecoverInv' /\ UnpinnedIsClean'
    BY <1>1, <1>3, <1>4 DEF IInv, SpaceInv, Room, HeadInv, CommitInv, Copied, RecoverInv, UnpinnedIsClean
  <1> QED
    BY <1>5, <1>6, <1>7, <1>8 DEF IInv

(* An operation runs only when no commit does. *)
LEMMA ActiveAlone ==
  ASSUME IInv, NEW p \in Procs, pc[p] \in {"in", "log"}
  PROVE  /\ outstanding \in Nat /\ outstanding >= 1 /\ ~committing /\ mode = "up"
         /\ \A q \in Procs : pc[q] \notin Commit
         /\ head = <<>> /\ dirty = Range(lh)
  <1>1. p \in Active /\ Active \subseteq Procs
    BY DEF Active
  <1>2. IsFiniteSet(Active) /\ Cardinality(Active) \in Nat
    BY <1>1, SpareFinite, Sizes
  <1>3. outstanding \in Nat /\ outstanding # 0
    BY <1>1, <1>2, FS_EmptySet DEF IInv, CountInv
  <1>4. ~committing /\ mode = "up"
    BY <1>3 DEF IInv, CountInv, TypeOK
  <1> QED
    BY <1>3, <1>4 DEF IInv, CountInv, HeadInv

(* log_write() of a block pins it; a block new to the log is one of the    *)
(* operation's spare writes.                                               *)
LEMMA LogWriteIInv ==
  ASSUME IInv, NEW p \in Procs, LogWrite(p)
  PROVE  IInv'
  <1> DEFINE b == arg[p]
  <1>1. /\ pc[p] = "log" /\ pc \in [Procs -> PC] /\ pc' = [pc EXCEPT ![p] = "in"]
        /\ cache' = [cache EXCEPT ![b] = 1 - @] /\ dirty' = dirty \cup {b}
        /\ wrote' = [wrote EXCEPT ![p] = @ \cup {b}] /\ wrote \in [Procs -> SUBSET Blocks]
        /\ arg' = [arg EXCEPT ![p] = NoBlock]
        /\ UNCHANGED <<outstanding, committing, tail, mode, disk, head, logblock>>
    BY DEF LogWrite, At, IInv, TypeOK, disks
  <1>2. /\ b \in Blocks /\ Cardinality(wrote[p] \cup {b}) <= OpWrites
        /\ wrote[p] \subseteq Range(lh)
    BY <1>1 DEF IInv, WroteInv
  <1>3. /\ outstanding \in Nat /\ outstanding >= 1 /\ ~committing /\ mode = "up"
        /\ \A q \in Procs : pc[q] \notin Commit
        /\ head = <<>> /\ dirty = Range(lh)
    BY <1>1, ActiveAlone
  <1>4. /\ lh \in Seq(Blocks) /\ IsInjective(lh) /\ Len(lh) \in Nat /\ Len(lh) <= Room
        /\ IsFiniteSet(Spare) /\ Cardinality(Spare) \in Nat
    BY LogSeqs, LogHasRoom DEF IInv, TypeOK
  <1>5. /\ lh' \in Seq(Blocks) /\ IsInjective(lh') /\ Range(lh') = Range(lh) \cup {b}
        /\ b \in Range(lh) => lh' = lh
        /\ b \notin Range(lh) => Len(lh') = Len(lh) + 1
    <2>1. lh' = IF b \in Range(lh) THEN lh ELSE Append(lh, b)
      BY <1>4, InLog DEF LogWrite
    <2> HIDE DEF b
    <2> QED
      BY <1>2, <1>4, <2>1, LogAppend
  <1>6. Active' = Active
    BY <1>1 DEF Active
  <1>7. IsFiniteSet(wrote[p]) /\ Cardinality(wrote[p]) \in Nat
    BY <1>2, <1>4, LogFinite, FS_Subset, FS_CardinalityType
  <1>8. /\ Cardinality(wrote[p] \cup {b}) \in Nat
        /\ Cardinality(wrote[p] \cup {b}) =
              IF b \in wrote[p] THEN Cardinality(wrote[p]) ELSE Cardinality(wrote[p]) + 1
    BY <1>7, FS_AddElement
  <1> DEFINE n == Cardinality(wrote[p])
  <1>9. SpaceInv' /\ Len(lh') <= Room
    <2>1. CASE b \in Range(lh)
      <3>1. Spare' \subseteq Spare
        BY <1>1, <1>2, <1>6, <1>7, <1>8 DEF Spare, Active
      <3>2. IsFiniteSet(Spare') /\ Cardinality(Spare') \in Nat /\ Cardinality(Spare') <= Cardinality(Spare)
        BY <1>4, <3>1, FS_Subset, FS_CardinalityType
      <3> QED
        BY <1>4, <1>5, <2>1, <3>2, Sizes DEF IInv, SpaceInv, Room
    <2>2. CASE b \notin Range(lh)
      <3>1. b \notin wrote[p] /\ n + 1 \in 1..OpWrites
        BY <1>2, <1>7, <1>8, <2>2, Sizes
      <3>2. <<p, n + 1>> \in Spare
        BY <1>1, <1>7, <3>1 DEF Spare, Active
      <3>3. Spare' \subseteq Spare \ {<<p, n + 1>>}
        BY <1>1, <1>6, <1>7, <1>8, <3>1 DEF Spare, Active
      <3>4. /\ IsFiniteSet(Spare \ {<<p, n + 1>>})
            /\ Cardinality(Spare \ {<<p, n + 1>>}) = Cardinality(Spare) - 1
        BY <1>4, <3>2, FS_RemoveElement
      <3>5. Cardinality(Spare') \in Nat /\ Cardinality(Spare') <= Cardinality(Spare) - 1
        BY <3>3, <3>4, FS_Subset, FS_CardinalityType
      <3>6. Len(lh) + Cardinality(Spare) <= Room /\ Len(lh') = Len(lh) + 1 /\ Room' = Room
        BY <1>5, <2>2 DEF IInv, SpaceInv, Room
      <3> QED
        BY <1>4, <3>5, <3>6, Sizes DEF SpaceInv
    <2> QED
      BY <2>1, <2>2
  <1>10. TypeOK'
    <2>1. lh' \in BoundedSeq(Blocks, LOGSIZE)
      <3>1. Len(lh') \in Nat /\ Len(lh') <= LOGSIZE
        BY <1>4, <1>5, <1>9, Sizes, LenProperties
      <3> QED
        BY <1>5, <3>1, Sizes, BoundedSeqs
    <2>2. cache' \in [Blocks -> Values]
      <3>1. cache \in [Blocks -> {0, 1}] /\ 1 - cache[b] \in {0, 1}
        BY <1>2 DEF IInv, TypeOK, Values
      <3> QED
        BY <1>1, <3>1 DEF Values
    <2>3. dirty' \subseteq Blocks /\ wrote' \in [Procs -> SUBSET Blocks] /\ arg' \in [Procs -> Blocks \cup {NoBlock}]
      BY <1>1, <1>2 DEF IInv, TypeOK
    <2>4. pc' \in [Procs -> PC]
      BY <1>1 DEF PC
    <2> QED
      BY <1>1, <1>5, <2>1, <2>2, <2>3, <2>4 DEF IInv, TypeOK
  <1>11. CountInv' /\ NoPanic'
    BY <1>1, <1>6 DEF IInv, CountInv, Commit, NoPanic
  <1>12. WroteInv'
    <2> SUFFICES ASSUME NEW q \in Procs
                 PROVE  /\ wrote'[q] \subseteq Range(lh') /\ Cardinality(wrote'[q]) <= OpWrites
                        /\ q \notin Active => wrote'[q] = {}
                        /\ pc'[q] = "log" =>
                              arg'[q] \in Blocks /\ Cardinality(wrote'[q] \cup {arg'[q]}) <= OpWrites
      BY <1>6 DEF WroteInv
    <2>1. CASE q = p
      <3>1. wrote'[p] = wrote[p] \cup {b} /\ pc'[p] = "in" /\ p \in Active
        BY <1>1 DEF Active
      <3> QED
        BY <1>2, <1>5, <2>1, <3>1
    <2>2. CASE q # p
      <3>1. wrote'[q] = wrote[q] /\ pc'[q] = pc[q] /\ arg'[q] = arg[q]
        BY <1>1, <2>2 DEF IInv, TypeOK
      <3> QED
        BY <1>5, <3>1 DEF IInv, WroteInv
    <2> QED
      BY <2>1, <2>2
  <1>13. HeadInv' /\ CommitInv' /\ RecoverInv' /\ UnpinnedIsClean'
    <2>1. HeadInv'
      BY <1>1, <1>3, <1>5 DEF HeadInv
    <2>2. CommitInv'
      BY <1>1, <1>3 DEF CommitInv, Commit
    <2>3. RecoverInv' /\ UnpinnedIsClean'
      BY <1>1, <1>3 DEF IInv, RecoverInv, UnpinnedIsClean, TypeOK
    <2> QED
      BY <2>1, <2>2, <2>3
  <1> QED
    BY <1>9, <1>10, <1>11, <1>12, <1>13 DEF IInv

(* An operation ends: what it has not used is given back. *)
LEMMA EndActive ==
  ASSUME IInv, NEW p \in Procs, pc[p] = "in",
         wrote' = [wrote EXCEPT ![p] = {}], UNCHANGED lh,
         \A q \in Procs : pc'[q] \in {"in", "log"} <=> q # p /\ pc[q] \in {"in", "log"}
  PROVE  /\ Active' = Active \ {p} /\ Cardinality(Active') = outstanding - 1
         /\ SpaceInv'
         /\ \A q \in Procs : q # p => wrote'[q] = wrote[q]
         /\ wrote'[p] = {}
  <1>1. Active' = Active \ {p} /\ p \in Active /\ Active \subseteq Procs
    BY DEF Active
  <1>2. IsFiniteSet(Active)
    BY <1>1, SpareFinite, Sizes
  <1>3. Cardinality(Active') = outstanding - 1
    BY <1>1, <1>2, FS_RemoveElement DEF IInv, CountInv
  <1>4. wrote \in [Procs -> SUBSET Blocks]
    BY DEF IInv, TypeOK
  <1>5. Spare' \subseteq Spare
    BY <1>1, <1>4 DEF Spare
  <1>6. /\ Len(lh) \in Nat /\ Len(lh) + Cardinality(Spare) <= Room /\ Room' = Room
        /\ IsFiniteSet(Spare) /\ Cardinality(Spare) \in Nat
    BY LogHasRoom DEF IInv, SpaceInv, Room
  <1>7. Cardinality(Spare') \in Nat /\ Cardinality(Spare') <= Cardinality(Spare)
    BY <1>5, <1>6, FS_Subset, FS_CardinalityType
  <1> QED
    BY <1>1, <1>3, <1>4, <1>6, <1>7, Sizes DEF SpaceInv

(* What is left of the operations when p ends: the others have written     *)
(* what they had, p nothing.                                               *)
LEMMA EndWrote ==
  ASSUME IInv, NEW p \in Procs, UNCHANGED <<lh, arg>>,
         Active' = Active \ {p}, wrote'[p] = {},
         \A q \in Procs : q # p => wrote'[q] = wrote[q],
         pc'[p] # "log", \A q \in Procs : q # p /\ pc'[q] = "log" => pc[q] = "log"
  PROVE  WroteInv'
  <1> SUFFICES ASSUME NEW q \in Procs
               PROVE  /\ wrote'[q] \subseteq Range(lh) /\ Cardinality(wrote'[q]) <= OpWrites
                      /\ q \notin Active \ {p} => wrote'[q] = {}
                      /\ pc'[q] = "log" =>
                            arg[q] \in Blocks /\ Cardinality(wrote'[q] \cup {arg[q]}) <= OpWrites
    BY DEF WroteInv
  <1>1. CASE q = p
    BY <1>1, FS_EmptySet, Sizes
  <1>2. CASE q # p
    BY <1>2 DEF IInv, WroteInv
  <1> QED
    BY <1>1, <1>2

(* end_op() while others are in operations. *)
LEMMA EndOpIInv ==
  ASSUME IInv, NEW p \in Procs, EndOp(p)
  PROVE  IInv'
  <1>1. pc[p] = "in" /\ outstanding # 1
    BY DEF EndOp
  <1>2. /\ outstanding \in Nat /\ outstanding >= 2 /\ ~committing /\ mode = "up"
        /\ \A q \in Procs : pc[q] \notin Commit
        /\ head = <<>> /\ dirty = Range(lh)
    BY <1>1, ActiveAlone
  <1>3. /\ pc' = WakeAll(p, "out") /\ outstanding' = outstanding - 1
        /\ wrote' = [wrote EXCEPT ![p] = {}] /\ wrote \in [Procs -> SUBSET Blocks]
        /\ UNCHANGED <<committing, lh, cache, dirty, arg, tail, mode, disk, head, logblock>>
    BY <1>2 DEF EndOp, disks, IInv, TypeOK
  <1>4. /\ pc' \in [Procs -> PC] /\ pc'[p] = "out"
        /\ \A q \in Procs : q # p => pc'[q] = pc[q] \/ (pc[q] = "asleep" /\ pc'[q] = "awake")
    BY <1>3, Waking DEF IInv, PC
  <1>5. /\ Active' = Active \ {p} /\ Cardinality(Active') = outstanding - 1
        /\ SpaceInv'
        /\ \A q \in Procs : q # p => wrote'[q] = wrote[q]
        /\ wrote'[p] = {}
    <2>1. \A q \in Procs : pc'[q] \in {"in", "log"} <=> q # p /\ pc[q] \in {"in", "log"}
      BY <1>1, <1>4
    <2> QED
      BY <1>1, <1>3, <2>1, EndActive
  <1>6. TypeOK'
    <2>1. outstanding' \in 0..Cardinality(Procs)
      BY <1>2, <1>3, SizeAssumption, FS_CardinalityType DEF IInv, TypeOK
    <2> QED
      BY <1>3, <1>4, <2>1 DEF IInv, TypeOK
  <1>7. CountInv' /\ NoPanic'
    BY <1>1, <1>2, <1>3, <1>4, <1>5 DEF IInv, CountInv, Commit, NoPanic
  <1>8. WroteInv'
    BY <1>3, <1>4, <1>5, EndWrote
  <1>9. HeadInv' /\ CommitInv' /\ RecoverInv' /\ UnpinnedIsClean'
    <2>1. HeadInv' /\ RecoverInv' /\ UnpinnedIsClean'
      BY <1>2, <1>3 DEF IInv, HeadInv, RecoverInv, UnpinnedIsClean
    <2>2. CommitInv'
      BY <1>2, <1>3, <1>4 DEF CommitInv, Commit
    <2> QED
      BY <2>1, <2>2
  <1> QED
    BY <1>5, <1>6, <1>7, <1>8, <1>9 DEF IInv

(* end_op() of the last operation begins to copy, or has nothing to do. *)
LEMMA EndLastOpIInv ==
  ASSUME IInv, NEW p \in Procs, EndLastOp(p)
  PROVE  IInv'
  <1>1. pc[p] = "in" /\ outstanding = 1
    BY DEF EndLastOp
  <1>2. /\ ~committing /\ mode = "up"
        /\ \A q \in Procs : pc[q] \notin Commit
        /\ head = <<>> /\ dirty = Range(lh)
    BY <1>1, ActiveAlone
  <1>3. /\ pc' = [pc EXCEPT ![p] = IF lh = <<>> THEN "done" ELSE "copy"] /\ pc \in [Procs -> PC]
        /\ outstanding' = 0 /\ committing' = TRUE /\ tail' = 0
        /\ wrote' = [wrote EXCEPT ![p] = {}] /\ wrote \in [Procs -> SUBSET Blocks]
        /\ UNCHANGED <<lh, cache, dirty, arg, mode, disk, head, logblock>>
    BY <1>2 DEF EndLastOp, At, disks, IInv, TypeOK
  <1>4. /\ pc'[p] \in {"done", "copy"} /\ \A q \in Procs : q # p => pc'[q] = pc[q]
        /\ pc'[p] = "done" <=> lh = <<>>
    BY <1>3
  <1>5. /\ Active' = Active \ {p} /\ Cardinality(Active') = 0
        /\ SpaceInv'
        /\ \A q \in Procs : q # p => wrote'[q] = wrote[q]
        /\ wrote'[p] = {}
    <2>1. \A q \in Procs : pc'[q] \in {"in", "log"} <=> q # p /\ pc[q] \in {"in", "log"}
      BY <1>1, <1>4
    <2>2. outstanding - 1 = 0
      BY <1>1
    <2> QED
      BY <1>1, <1>3, <2>1, <2>2, EndActive
  <1>6. TypeOK'
    <2>1. outstanding' \in 0..Cardinality(Procs) /\ tail' \in 0..LOGSIZE
      BY <1>3, SizeAssumption, FS_CardinalityType
    <2>2. pc' \in [Procs -> PC] /\ wrote' \in [Procs -> SUBSET Blocks]
      BY <1>3 DEF PC
    <2> QED
      BY <1>3, <2>1, <2>2 DEF IInv, TypeOK
  <1>7. CountInv' /\ NoPanic'
    BY <1>1, <1>2, <1>3, <1>4, <1>5 DEF IInv, CountInv, Commit, NoPanic
  <1>8. WroteInv'
    BY <1>3, <1>4, <1>5, EndWrote
  <1>9. HeadInv' /\ RecoverInv' /\ UnpinnedIsClean'
    BY <1>2, <1>3 DEF IInv, HeadInv, RecoverInv, UnpinnedIsClean
  <1>10. CommitInv'
    <2>1. lh # <<>> => 0 < Len(lh)
      BY LogSeqs, EmptySeq DEF IInv
    <2>2. lh = <<>> => Range(lh) = {}
      BY DEF Range
    <2> QED
      BY <1>2, <1>3, <1>4, <2>1, <2>2 DEF CommitInv, Commit, Copied
  <1> QED
    BY <1>5, <1>6, <1>7, <1>8, <1>9, <1>10 DEF IInv

-----------------------------------------------------------------------------
(* While commit() runs no operation does, and nobody else commits.         *)
LEMMA CommitAlone ==
  ASSUME IInv, NEW p \in Procs, pc[p] \in Commit
  PROVE  /\ outstanding = 0 /\ committing /\ mode = "up" /\ Active = {}
         /\ \A q \in Procs : q # p => pc[q] \notin Commit
  <1>1. committing /\ outstanding = 0
    BY DEF IInv, CountInv
  <1>2. mode = "up"
    BY DEF IInv, CountInv, Commit, TypeOK
  <1>3. Active = {}
    <2>1. IsFiniteSet(Active)
      BY SpareFinite, Sizes DEF Active
    <2> QED
      BY <1>1, <2>1, FS_EmptySet DEF IInv, CountInv
  <1> QED
    BY <1>1, <1>2, <1>3 DEF IInv, CountInv

(* From one phase of commit() to the next. *)
LEMMA CommitStep ==
  ASSUME IInv, NEW p \in Procs, pc[p] \in Commit, NEW label \in Commit,
         pc' = [pc EXCEPT ![p] = label],
         UNCHANGED <<outstanding, committing, arg, wrote, mode>>,
         lh' = lh \/ lh' = <<>>
  PROVE  /\ pc' \in [Procs -> PC] /\ pc'[p] = label /\ \A q \in Procs : q # p => pc'[q] = pc[q]
         /\ NoPanic' /\ CountInv' /\ WroteInv' /\ SpaceInv'
  <1>1. /\ outstanding = 0 /\ committing /\ mode = "up" /\ Active = {}
        /\ \A q \in Procs : q # p => pc[q] \notin Commit
    BY CommitAlone
  <1>2. pc' \in [Procs -> PC] /\ pc'[p] = label /\ \A q \in Procs : q # p => pc'[q] = pc[q]
    BY DEF IInv, TypeOK, PC, Commit
  <1>3. Active' = Active /\ Spare' = Spare
    BY <1>2, SameActive DEF Commit
  <1>4. NoPanic' /\ CountInv'
    BY <1>1, <1>2, <1>3 DEF IInv, CountInv, NoPanic, Commit
  <1>5. WroteInv'
    BY <1>1, <1>2, <1>3 DEF IInv, WroteInv, Active
  <1>6. SpaceInv'
    <2>1. Len(lh) \in Nat /\ IsFiniteSet(Spare) /\ Cardinality(Spare) \in Nat
      BY LogHasRoom DEF IInv
    <2>2. Len(lh') <= Len(lh) /\ Len(lh') \in Nat
      BY <2>1
    <2> QED
      BY <1>3, <2>1, <2>2, Sizes DEF IInv, SpaceInv, Room
  <1> QED
    BY <1>2, <1>4, <1>5, <1>6

(* The block of the log that write_log() or install_trans() is at. *)
LEMMA LogPlace ==
  ASSUME IInv, tail < Len(lh)
  PROVE  /\ tail \in Nat /\ tail + 1 \in 1..Len(lh) /\ Len(lh) \in Nat
         /\ tail + 1 <= LOGSIZE /\ LOGSIZE \in Nat
         /\ 1..Len(lh) \subseteq 1..NLog-1 /\ tail + 1 \in 1..NLog-1
         /\ lh[tail + 1] \in Blocks
         /\ \A i, j \in 1..Len(lh) : lh[i] = lh[j] => i = j
  <1>1. /\ lh \in Seq(Blocks) /\ Len(lh) \in Nat /\ DOMAIN lh = 1..Len(lh) /\ LOGSIZE \in Nat
        /\ tail \in 0..LOGSIZE /\ IsInjective(lh)
    BY LogSeqs DEF IInv, TypeOK
  <1>2. tail \in Nat /\ tail + 1 \in 1..Len(lh)
    BY <1>1
  <1>3. Len(lh) <= Room
    BY LogHasRoom DEF IInv
  <1>4. 1..Len(lh) \subseteq 1..NLog-1 /\ tail + 1 <= LOGSIZE
    BY <1>1, <1>2, <1>3, Sizes
  <1>5. lh[tail + 1] \in Blocks
    BY <1>1, <1>2, ElementOfSeq
  <1> QED
    BY <1>1, <1>2, <1>4, <1>5 DEF IsInjective

(* write_log() copies one more block. *)
LEMMA WriteLogIInv ==
  ASSUME IInv, NEW p \in Procs, WriteLog(p)
  PROVE  IInv'
  <1> DEFINE n == tail + 1
  <1>1. /\ pc[p] = "copy" /\ pc[p] \in Commit /\ pc \in [Procs -> PC]
        /\ logblock' = [logblock EXCEPT ![n] = cache[lh[n]]]
        /\ logblock \in [1..NLog-1 -> Values] /\ cache \in [Blocks -> Values]
        /\ UNCHANGED <<outstanding, committing, lh, cache, dirty, arg, wrote, mode, disk, head>>
    BY DEF WriteLog, Commit, IInv, TypeOK
  <1>2. head = <<>> /\ dirty = Range(lh) /\ tail < Len(lh) /\ Copied(tail)
    BY <1>1 DEF IInv, CommitInv
  <1>3. /\ tail \in Nat /\ n \in 1..Len(lh) /\ Len(lh) \in Nat /\ n <= LOGSIZE /\ LOGSIZE \in Nat
        /\ 1..Len(lh) \subseteq 1..NLog-1 /\ n \in 1..NLog-1
        /\ lh[n] \in Blocks
    BY <1>2, LogPlace
  <1>4. \A i \in 1..n : logblock'[i] = cache[lh[i]]
    BY <1>1, <1>2, <1>3 DEF Copied
  <1>5. /\ outstanding = 0 /\ committing /\ mode = "up"
        /\ \A q \in Procs : q # p => pc[q] \notin Commit
    BY <1>1, CommitAlone
  <1>6. \E label \in Commit :
           /\ pc' = [pc EXCEPT ![p] = label]
           /\ \/ label = "copy" /\ tail' = n /\ n < Len(lh)
              \/ label = "head" /\ tail' = 0 /\ n = Len(lh) /\ lh # <<>>
    <2>1. CASE n < Len(lh)
      BY <1>1, <2>1 DEF WriteLog, Commit
    <2>2. CASE ~(n < Len(lh))
      <3>1. n = Len(lh) /\ lh # <<>>
        BY <1>3, <2>2
      <3> QED
        BY <2>2, <3>1 DEF WriteLog, At, Commit
    <2> QED
      BY <2>1, <2>2
  <1>7. PICK label \in Commit :
           /\ pc' = [pc EXCEPT ![p] = label]
           /\ \/ label = "copy" /\ tail' = n /\ n < Len(lh)
              \/ label = "head" /\ tail' = 0 /\ n = Len(lh) /\ lh # <<>>
    BY <1>6
  <1>8. /\ pc' \in [Procs -> PC] /\ pc'[p] = label /\ \A q \in Procs : q # p => pc'[q] = pc[q]
        /\ NoPanic' /\ CountInv' /\ WroteInv' /\ SpaceInv'
    BY <1>1, <1>7, CommitStep
  <1>9. TypeOK'
    <2>1. logblock' \in [1..NLog-1 -> Values]
      BY <1>1, <1>3
    <2>2. tail' \in 0..LOGSIZE
      BY <1>3, <1>7
    <2> QED
      BY <1>1, <1>8, <2>1, <2>2 DEF IInv, TypeOK
  <1>10. HeadInv' /\ RecoverInv' /\ UnpinnedIsClean'
    BY <1>1, <1>2, <1>5 DEF IInv, HeadInv, RecoverInv, UnpinnedIsClean
  <1>11. CommitInv'
    <2>1. \A q \in Procs : pc'[q] \in Commit => q = p
      BY <1>5, <1>8
    <2>2. CASE label = "copy"
      <3>1. tail' < Len(lh) /\ pc'[p] = "copy" /\ \A i \in 1..tail' : logblock'[i] = cache[lh[i]]
        BY <1>4, <1>7, <1>8, <2>2
      <3> QED
        BY <1>1, <1>2, <2>1, <3>1 DEF CommitInv, Commit, Copied
    <2>3. CASE label = "head"
      <3>1. /\ tail' = 0 /\ pc'[p] = "head" /\ lh # <<>>
            /\ \A i \in 1..Len(lh) : logblock'[i] = cache[lh[i]]
        BY <1>4, <1>7, <1>8, <2>3
      <3> QED
        BY <1>1, <1>2, <2>1, <3>1 DEF CommitInv, Commit, Copied
    <2> QED
      BY <1>7, <2>2, <2>3
  <1> QED
    BY <1>8, <1>9, <1>10, <1>11 DEF IInv

(* write_head(): the commit point. *)
LEMMA WriteHeadIInv ==
  ASSUME IInv, NEW p \in Procs, WriteHead(p)
  PROVE  IInv'
  <1>1. /\ pc[p] = "head" /\ pc[p] \in Commit /\ "install" \in Commit
        /\ pc' = [pc EXCEPT ![p] = "install"] /\ head' = lh
        /\ UNCHANGED <<outstanding, committing, lh, cache, dirty, arg, wrote, tail, mode, disk, logblock>>
    BY DEF WriteHead, At, Commit, memory
  <1>2. dirty = Range(lh) /\ tail = 0 /\ lh # <<>> /\ Copied(Len(lh))
    BY <1>1 DEF IInv, CommitInv
  <1>3. /\ outstanding = 0 /\ committing /\ mode = "up"
        /\ \A q \in Procs : q # p => pc[q] \notin Commit
    BY <1>1, CommitAlone
  <1>4. /\ pc' \in [Procs -> PC] /\ pc'[p] = "install" /\ \A q \in Procs : q # p => pc'[q] = pc[q]
        /\ NoPanic' /\ CountInv' /\ WroteInv' /\ SpaceInv'
    BY <1>1, CommitStep
  <1>5. TypeOK'
    BY <1>1, <1>4 DEF IInv, TypeOK
  <1>6. HeadInv' /\ RecoverInv' /\ UnpinnedIsClean'
    BY <1>1, <1>2, <1>3 DEF IInv, HeadInv, RecoverInv, UnpinnedIsClean
  <1>7. CommitInv'
    <2>1. tail < Len(lh) /\ Range(lh) = {lh[i] : i \in tail+1..Len(lh)}
      BY <1>2, LogSeqs, EmptySeq DEF IInv, Range
    <2> QED
      BY <1>1, <1>2, <1>3, <1>4, <2>1 DEF CommitInv, Commit, Copied
  <1> QED
    BY <1>4, <1>5, <1>6, <1>7 DEF IInv

(* install_trans() of commit(): one more block is home, and unpinned. *)
LEMMA InstallIInv ==
  ASSUME IInv, NEW p \in Procs, Install(p)
  PROVE  IInv'
  <1> DEFINE n == tail + 1
  <1> DEFINE b == lh[n]
  <1>1. /\ pc[p] = "install" /\ pc[p] \in Commit
        /\ cache' = [cache EXCEPT ![b] = logblock[n]]
        /\ disk' = [disk EXCEPT ![b] = logblock[n]]
        /\ dirty' = dirty \ {b}
        /\ disk \in [Blocks -> Values] /\ cache \in [Blocks -> Values]
        /\ UNCHANGED <<outstanding, committing, lh, arg, wrote, mode, head, logblock>>
    BY DEF Install, InstallBlock, Commit, IInv, TypeOK
  <1>2. /\ head = lh /\ tail < Len(lh) /\ Copied(Len(lh))
        /\ dirty = {lh[i] : i \in tail+1..Len(lh)}
    BY <1>1 DEF IInv, CommitInv
  <1>3. /\ tail \in Nat /\ n \in 1..Len(lh) /\ Len(lh) \in Nat /\ n <= LOGSIZE /\ LOGSIZE \in Nat
        /\ b \in Blocks
        /\ \A i, j \in 1..Len(lh) : lh[i] = lh[j] => i = j
    BY <1>2, LogPlace
  <1>4. cache[b] = logblock[n] /\ cache' = cache
    BY <1>1, <1>2, <1>3 DEF Copied
  <1>5. dirty' = {lh[i] : i \in n+1..Len(lh)}
    <2>1. \A i \in tail+1..Len(lh) : lh[i] = b <=> i = n
      BY <1>3
    <2> HIDE DEF b
    <2> QED
      BY <1>1, <1>2, <1>3, <2>1
  <1>6. /\ outstanding = 0 /\ committing /\ mode = "up"
        /\ \A q \in Procs : q # p => pc[q] \notin Commit
    BY <1>1, CommitAlone
  <1>7. \E label \in Commit :
           /\ pc' = [pc EXCEPT ![p] = label]
           /\ \/ label = "install" /\ tail' = n /\ n < Len(lh)
              \/ label = "clear" /\ tail' = 0 /\ n = Len(lh)
    <2>1. CASE n < Len(lh)
      BY <1>1, <2>1 DEF Install, Commit, IInv, TypeOK
    <2>2. CASE ~(n < Len(lh))
      <3>1. n = Len(lh)
        BY <1>3, <2>2
      <3> QED
        BY <2>2, <3>1 DEF Install, At, Commit
    <2> QED
      BY <2>1, <2>2
  <1>8. PICK label \in Commit :
           /\ pc' = [pc EXCEPT ![p] = label]
           /\ \/ label = "install" /\ tail' = n /\ n < Len(lh)
              \/ label = "clear" /\ tail' = 0 /\ n = Len(lh)
    BY <1>7
  <1>9. /\ pc' \in [Procs -> PC] /\ pc'[p] = label /\ \A q \in Procs : q # p => pc'[q] = pc[q]
        /\ NoPanic' /\ CountInv' /\ WroteInv' /\ SpaceInv'
    BY <1>1, <1>8, CommitStep
  <1>10. TypeOK'
    <2>1. tail' \in 0..LOGSIZE /\ dirty' \subseteq Blocks
      BY <1>1, <1>3, <1>8 DEF IInv, TypeOK
    <2>2. disk' \in [Blocks -> Values]
      BY <1>1, <1>3, <1>4
    <2> QED
      BY <1>1, <1>4, <1>9, <2>1, <2>2 DEF IInv, TypeOK
  <1>11. UnpinnedIsClean'
    BY <1>1, <1>3, <1>4, <1>6 DEF IInv, UnpinnedIsClean
  <1>12. HeadInv' /\ RecoverInv'
    BY <1>1, <1>2, <1>6 DEF HeadInv, RecoverInv
  <1>13. CommitInv'
    <2>1. \A q \in Procs : pc'[q] \in Commit => q = p
      BY <1>6, <1>9
    <2>2. CASE label = "install"
      <3>1. tail' = n /\ n < Len(lh) /\ pc'[p] = "install"
        BY <1>8, <1>9, <2>2
      <3>2. tail' < Len(lh') /\ dirty' = {lh'[i] : i \in tail'+1..Len(lh')}
        BY <1>1, <1>5, <3>1
      <3>3. head' = lh' /\ \A i \in 1..Len(lh') : logblock'[i] = cache'[lh'[i]]
        BY <1>1, <1>2, <1>4 DEF Copied
      <3> QED
        BY <2>1, <3>1, <3>2, <3>3 DEF CommitInv, Commit, Copied
    <2>3. CASE label = "clear"
      <3>1. n + 1..Len(lh) = {}
        BY <1>3, <1>8, <2>3
      <3>2. dirty' = {} /\ pc'[p] = "clear"
        BY <1>5, <1>9, <2>3, <3>1
      <3> QED
        BY <1>1, <1>2, <1>4, <2>1, <3>2 DEF CommitInv, Commit, Copied
    <2> QED
      BY <1>8, <2>2, <2>3
  <1> QED
    BY <1>9, <1>10, <1>11, <1>12, <1>13 DEF IInv

(* The header is cleared when all blocks are home. *)
LEMMA ClearHeadIInv ==
  ASSUME IInv, NEW p \in Procs, ClearHead(p)
  PROVE  IInv'
  <1>1. /\ pc[p] = "clear" /\ pc[p] \in Commit /\ "done" \in Commit
        /\ pc' = [pc EXCEPT ![p] = "done"] /\ head' = <<>> /\ lh' = <<>>
        /\ UNCHANGED <<outstanding, committing, cache, dirty, arg, wrote, tail, mode, disk, logblock>>
    BY DEF ClearHead, At, Commit
  <1>2. dirty = {}
    BY <1>1 DEF IInv, CommitInv
  <1>3. /\ outstanding = 0 /\ committing /\ mode = "up"
        /\ \A q \in Procs : q # p => pc[q] \notin Commit
    BY <1>1, CommitAlone
  <1>4. /\ pc' \in [Procs -> PC] /\ pc'[p] = "done" /\ \A q \in Procs : q # p => pc'[q] = pc[q]
        /\ NoPanic' /\ CountInv' /\ WroteInv' /\ SpaceInv'
    BY <1>1, CommitStep
  <1>5. TypeOK'
    <2>1. <<>> \in BoundedSeq(Blocks, LOGSIZE) /\ IsInjective(<<>>)
      BY InitSeq
    <2> QED
      BY <1>1, <1>4, <2>1 DEF IInv, TypeOK
  <1>6. HeadInv' /\ RecoverInv' /\ UnpinnedIsClean'
    BY <1>1, <1>2, <1>3 DEF IInv, HeadInv, RecoverInv, UnpinnedIsClean
  <1>7. CommitInv'
    BY <1>1, <1>2, <1>3, <1>4 DEF CommitInv, Commit
  <1> QED
    BY <1>4, <1>5, <1>6, <1>7 DEF IInv

(* The end of end_op() after a commit. *)
LEMMA CommitDoneIInv ==
  ASSUME IInv, NEW p \in Procs, CommitDone(p)
  PROVE  IInv'
  <1>1. /\ pc[p] = "done" /\ pc[p] \in Commit
        /\ pc' = WakeAll(p, "out") /\ committing' = FALSE
        /\ UNCHANGED <<outstanding, lh, cache, dirty, arg, wrote, tail, mode, disk, head, logblock>>
    BY DEF CommitDone, Commit, disks
  <1>2. head = <<>> /\ lh = <<>> /\ dirty = {}
    BY <1>1 DEF IInv, CommitInv
  <1>3. /\ outstanding = 0 /\ committing /\ mode = "up" /\ Active = {}
        /\ \A q \in Procs : q # p => pc[q] \notin Commit
    BY <1>1, CommitAlone
  <1>4. /\ pc' \in [Procs -> PC] /\ pc'[p] = "out"
        /\ \A q \in Procs : q # p => pc'[q] = pc[q] \/ (pc[q] = "asleep" /\ pc'[q] = "awake")
    BY <1>1, Waking DEF IInv, PC
  <1>5. Active' = Active /\ Spare' = Spare
    BY <1>1, <1>4, SameActive
  <1>6. TypeOK'
    BY <1>1, <1>4 DEF IInv, TypeOK
  <1>7. CountInv' /\ NoPanic'
    BY <1>1, <1>3, <1>4, <1>5 DEF IInv, CountInv, Commit, NoPanic
  <1>8. WroteInv' /\ SpaceInv'
    BY <1>1, <1>3, <1>4, <1>5 DEF IInv, WroteInv, SpaceInv, Room, Active
  <1>9. HeadInv' /\ RecoverInv' /\ UnpinnedIsClean'
    BY <1>1, <1>2, <1>3 DEF IInv, HeadInv, RecoverInv, UnpinnedIsClean, Range
  <1>10. CommitInv'
    BY <1>3, <1>4 DEF CommitInv, Commit
  <1> QED
    BY <1>6, <1>7, <1>8, <1>9, <1>10 DEF IInv

-----------------------------------------------------------------------------
(* Nobody is in an operation after a crash. *)
LEMMA NobodyActive ==
  ASSUME \A p \in Procs : pc'[p] \notin {"in", "log"}
  PROVE  Active' = {} /\ Spare' = {} /\ Cardinality(Active') = 0 /\ Cardinality(Spare') = 0
  <1>1. Active' = {}
    BY DEF Active
  <1>2. Spare' = {}
    BY <1>1 DEF Spare
  <1> QED
    BY <1>1, <1>2, FS_EmptySet

(* The machine stops between any two steps, and boots into read_head(). *)
LEMMA CrashIInv ==
  ASSUME IInv, Crash
  PROVE  IInv'
  <1>1. /\ mode' = "recover" /\ outstanding' = 0 /\ committing' = FALSE
        /\ lh' = head /\ cache' = disk /\ dirty' = {} /\ tail' = 0
        /\ pc' = [p \in Procs |-> "off"] /\ arg' = [p \in Procs |-> NoBlock]
        /\ wrote' = [p \in Procs |-> {}]
        /\ disk' = disk /\ head' = head /\ logblock' = logblock
    BY DEF Crash, disks
  <1>2. Active' = {} /\ Spare' = {} /\ Cardinality(Active') = 0 /\ Cardinality(Spare') = 0
    BY <1>1, NobodyActive
  <1>3. TypeOK'
    <2>1. outstanding' \in 0..Cardinality(Procs) /\ tail' \in 0..LOGSIZE
      BY <1>1, Sizes, SizeAssumption, FS_CardinalityType
    <2>2. pc' \in [Procs -> PC]
      BY <1>1, SizeAssumption DEF PC
    <2> QED
      BY <1>1, <2>1, <2>2 DEF IInv, TypeOK
  <1>4. CountInv' /\ NoPanic'
    BY <1>1, <1>2 DEF CountInv, Commit, NoPanic
  <1>5. WroteInv'
    BY <1>1, <1>2, FS_EmptySet, Sizes DEF WroteInv
  <1>6. SpaceInv'
    <2>1. Len(lh') \in Nat /\ Len(lh') <= Len(lh) /\ Len(lh) \in Nat /\ Len(lh) <= Room
      <3>1. head = <<>> \/ head = lh
        BY DEF IInv, HeadInv
      <3> QED
        BY <1>1, <3>1, LogHasRoom, InitSeq DEF IInv
    <2> QED
      BY <1>2, <2>1, Sizes DEF SpaceInv, Room
  <1>7. HeadInv' /\ CommitInv' /\ UnpinnedIsClean'
    BY <1>1 DEF HeadInv, CommitInv, UnpinnedIsClean
  <1>8. RecoverInv'
    <2>1. tail' <= Len(lh')
      BY <1>1, LogSeqs DEF IInv
    <2> QED
      BY <1>1, <2>1 DEF RecoverInv
  <1> QED
    BY <1>3, <1>4, <1>5, <1>6, <1>7, <1>8 DEF IInv

(* During recovery nobody runs. *)
LEMMA AllOff ==
  ASSUME IInv, mode = "recover"
  PROVE  /\ \A p \in Procs : pc[p] = "off" /\ wrote[p] = {}
         /\ outstanding = 0 /\ ~committing /\ head = lh /\ cache = disk /\ dirty = {} /\ tail <= Len(lh)
         /\ \A i \in 1..tail : disk[lh[i]] = logblock[i]
  <1>1. \A p \in Procs : pc[p] = "off"
    BY DEF IInv, CountInv
  <1>2. \A p \in Procs : wrote[p] = {}
    BY <1>1 DEF IInv, WroteInv, Active
  <1> QED
    BY <1>1, <1>2 DEF IInv, RecoverInv

(* install_trans() of recover_from_log(). *)
LEMMA RecoverInstallIInv ==
  ASSUME IInv, RecoverInstall
  PROVE  IInv'
  <1> DEFINE n == tail + 1
  <1> DEFINE b == lh[n]
  <1>1. /\ mode = "recover" /\ tail < Len(lh)
        /\ cache' = [cache EXCEPT ![b] = logblock[n]]
        /\ disk' = [disk EXCEPT ![b] = logblock[n]]
        /\ dirty' = dirty \ {b} /\ tail' = n
        /\ disk \in [Blocks -> Values] /\ cache \in [Blocks -> Values]
        /\ logblock \in [1..NLog-1 -> Values]
        /\ UNCHANGED <<outstanding, committing, lh, pc, arg, wrote, mode, head, logblock>>
    BY DEF RecoverInstall, InstallBlock, IInv, TypeOK
  <1>2. /\ tail \in Nat /\ n \in 1..Len(lh) /\ Len(lh) \in Nat /\ n <= LOGSIZE /\ LOGSIZE \in Nat
        /\ n \in 1..NLog-1 /\ b \in Blocks
        /\ \A i, j \in 1..Len(lh) : lh[i] = lh[j] => i = j
    BY <1>1, LogPlace
  <1>3. /\ \A p \in Procs : pc[p] = "off" /\ wrote[p] = {}
        /\ outstanding = 0 /\ ~committing /\ head = lh /\ cache = disk /\ dirty = {}
        /\ \A i \in 1..tail : disk[lh[i]] = logblock[i]
    BY <1>1, AllOff
  <1>4. Active' = Active /\ Spare' = Spare
    BY <1>1, SameActive
  <1>5. TypeOK'
    <2>1. cache' \in [Blocks -> Values] /\ disk' \in [Blocks -> Values] /\ dirty' \subseteq Blocks
      BY <1>1, <1>2, <1>3
    <2>2. tail' \in 0..LOGSIZE
      BY <1>1, <1>2
    <2> QED
      BY <1>1, <2>1, <2>2 DEF IInv, TypeOK
  <1>6. CountInv' /\ NoPanic' /\ WroteInv' /\ SpaceInv'
    BY <1>1, <1>4 DEF IInv, CountInv, NoPanic, WroteInv, SpaceInv, Room
  <1>7. HeadInv' /\ CommitInv' /\ UnpinnedIsClean'
    BY <1>1, <1>3 DEF HeadInv, CommitInv, UnpinnedIsClean
  <1>8. RecoverInv'
    <2>1. \A i \in 1..n : disk'[lh[i]] = logblock[i]
      <3> SUFFICES ASSUME NEW i \in 1..n PROVE disk'[lh[i]] = logblock[i]
        OBVIOUS
      <3>1. CASE i = n
        BY <1>1, <1>2, <3>1
      <3>2. CASE i # n
        <4>1. i \in 1..tail /\ lh[i] # b
          BY <1>2, <3>2
        <4> QED
          BY <1>1, <1>2, <1>3, <4>1
      <3> QED
        BY <3>1, <3>2
    <2>2. n <= Len(lh) /\ cache' = disk' /\ dirty' = {}
      BY <1>1, <1>2, <1>3
    <2> HIDE DEF n, b
    <2> QED
      BY <1>1, <1>3, <2>1, <2>2 DEF RecoverInv
  <1> QED
    BY <1>5, <1>6, <1>7, <1>8 DEF IInv

(* The end of recovery. *)
LEMMA RecoverDoneIInv ==
  ASSUME IInv, RecoverDone
  PROVE  IInv'
  <1>1. /\ mode = "recover" /\ mode' = "up"
        /\ lh' = <<>> /\ head' = <<>> /\ tail' = 0
        /\ pc' = [p \in Procs |-> "out"]
        /\ UNCHANGED <<outstanding, committing, cache, dirty, arg, wrote, disk, logblock>>
    BY DEF RecoverDone
  <1>2. /\ \A p \in Procs : pc[p] = "off" /\ wrote[p] = {}
        /\ outstanding = 0 /\ ~committing /\ cache = disk /\ dirty = {}
    BY <1>1, AllOff
  <1>3. Active' = {} /\ Spare' = {} /\ Cardinality(Active') = 0 /\ Cardinality(Spare') = 0
    BY <1>1, NobodyActive
  <1>4. TypeOK'
    <2>1. pc' \in [Procs -> PC] /\ tail' \in 0..LOGSIZE
      BY <1>1, Sizes DEF PC
    <2> QED
      BY <1>1, <2>1, InitSeq DEF IInv, TypeOK
  <1>5. CountInv' /\ NoPanic'
    BY <1>1, <1>2, <1>3 DEF CountInv, Commit, NoPanic
  <1>6. WroteInv' /\ SpaceInv'
    <2>1. WroteInv'
      <3>1. Cardinality({}) = 0 /\ 0 <= OpWrites
        BY FS_EmptySet, Sizes
      <3>2. \A p \in Procs : wrote'[p] = {} /\ pc'[p] # "log"
        BY <1>1, <1>2
      <3> QED
        BY <3>1, <3>2 DEF WroteInv
    <2>2. Len(lh') = 0 /\ Room' = Room
      BY <1>1, InitSeq DEF Room
    <2> QED
      BY <1>3, <2>1, <2>2, Sizes DEF SpaceInv
  <1>7. HeadInv' /\ CommitInv' /\ RecoverInv' /\ UnpinnedIsClean'
    BY <1>1, <1>2, InitSeq DEF HeadInv, CommitInv, RecoverInv, UnpinnedIsClean
  <1> QED
    BY <1>4, <1>5, <1>6, <1>7 DEF IInv

-----------------------------------------------------------------------------
(* Every step keeps the inductive invariant. *)
LEMMA NextIInv == IInv /\ [Next]_vars => IInv'
  <1> SUFFICES ASSUME IInv, [Next]_vars PROVE IInv'
    OBVIOUS
  <1>1. CASE UNCHANGED vars
    <2>1. UNCHANGED <<outstanding, committing, lh, cache, dirty, pc, arg, wrote, tail, mode, disk, head, logblock>>
      BY <1>1 DEF vars, memory, disks
    <2>2. Active' = Active /\ Spare' = Spare
      BY <2>1 DEF Active, Spare
    <2>3. TypeOK' /\ NoPanic'
      BY <2>1 DEF IInv, TypeOK, NoPanic
    <2>4. CountInv' /\ WroteInv' /\ SpaceInv'
      BY <2>1, <2>2 DEF IInv, CountInv, WroteInv, SpaceInv, Room
    <2>5. HeadInv' /\ RecoverInv' /\ UnpinnedIsClean'
      BY <2>1 DEF IInv, HeadInv, RecoverInv, UnpinnedIsClean
    <2>6. CommitInv'
      BY <2>1 DEF IInv, CommitInv, Copied
    <2> QED
      BY <2>3, <2>4, <2>5, <2>6 DEF IInv
  <1>2. ASSUME NEW p \in Procs, begin_op(p) PROVE IInv'
    BY <1>2, BeginSleepIInv, BeginOpIInv DEF begin_op
  <1>3. ASSUME NEW p \in Procs, log_write(p) PROVE IInv'
    BY <1>3, LogCheckIInv, LogWriteIInv DEF log_write
  <1>4. ASSUME NEW p \in Procs, end_op(p) PROVE IInv'
    BY <1>4, EndOpIInv, EndLastOpIInv, CommitDoneIInv DEF end_op
  <1>5. ASSUME NEW p \in Procs, commit(p) PROVE IInv'
    BY <1>5, WriteLogIInv, WriteHeadIInv, InstallIInv, ClearHeadIInv DEF commit
  <1>6. CASE Crash \/ RecoverInstall \/ RecoverDone
    BY <1>6, CrashIInv, RecoverInstallIInv, RecoverDoneIInv
  <1> QED
    BY <1>1, <1>2, <1>3, <1>4, <1>5, <1>6 DEF Next

(* What holds of the log in memory, of the header and of the blocks        *)
(* between any two steps, in operation and in recovery.                    *)
THEOREM Inductive == Spec => []IInv
  BY InitIInv, NextIInv, PTL DEF Spec

(* Type correctness of the log, and no modified buffer that the cache may  *)
(* recycle before it is installed.                                         *)
THEOREM LogInvHolds == Spec => []LogInv
  <1>1. IInv => LogInv
    BY DEF IInv, LogInv
  <1> QED
    BY <1>1, Inductive, PTL

(* The space begin_op() reserves is enough: neither "too big a             *)
(* transaction" nor "log_write outside of trans" nor "log.committing".     *)
THEOREM NoPanicHolds == Spec => []NoPanic
  <1>1. IInv => NoPanic
    BY DEF IInv
  <1> QED
    BY <1>1, Inductive, PTL

-----------------------------------------------------------------------------
(* What recovery makes of a header h, log blocks l and home blocks d.      *)
Outcome(h, l, d) ==
    [b \in Blocks |-> IF Contains(h, b) THEN l[CHOOSE i \in DOMAIN h : h[i] = b] ELSE d[b]]

(* It is what a boot would find.                                           *)
LEMMA RecoveredIs ==
  /\ Recovered = Outcome(head, logblock, disk)
  /\ Recovered' = Outcome(head', logblock', disk')
  BY DEF Recovered, Outcome

(* It is c when the log blocks hold what c has for the blocks of the       *)
(* header, and the home blocks what c has for the others.                  *)
LEMMA Recovery ==
  ASSUME NEW h \in Seq(Blocks), IsInjective(h), NEW l, NEW d, NEW c \in [Blocks -> Values],
         \A i \in 1..Len(h) : l[i] = c[h[i]],
         \A b \in Blocks : b \notin Range(h) => d[b] = c[b]
  PROVE  Outcome(h, l, d) = c
  <1>1. DOMAIN h = 1..Len(h)
    BY LenProperties
  <1>2. ASSUME NEW b \in Blocks PROVE Outcome(h, l, d)[b] = c[b]
    <2>1. CASE b \in Range(h)
      <3>1. Contains(h, b)
        BY <2>1, InLog
      <3>2. PICK i \in DOMAIN h : h[i] = b
        BY <2>1 DEF Range
      <3>3. (CHOOSE j \in DOMAIN h : h[j] = b) = i
        BY <3>2 DEF IsInjective
      <3> QED
        BY <1>1, <3>1, <3>2, <3>3 DEF Outcome
    <2>2. CASE b \notin Range(h)
      BY <2>2, InLog DEF Outcome
    <2> QED
      BY <2>1, <2>2
  <1> QED
    BY <1>2 DEF Outcome

(* Before the commit point, recovery would find what is home.              *)
LEMMA NotCommitted ==
  ASSUME TypeOK, head = <<>>
  PROVE  Recovered = disk
  <1>1. \A b : ~Contains(<<>>, b)
    BY InitSeq DEF Contains
  <1> QED
    BY <1>1 DEF Recovered, TypeOK

(* After it, recovery would find what is in the cache.                     *)
LEMMA Committed ==
  ASSUME TypeOK, mode = "up", UnpinnedIsClean, head = lh, Copied(Len(lh)), dirty \subseteq Range(lh)
  PROVE  Recovered = cache
  <1>1. head \in Seq(Blocks) /\ IsInjective(head) /\ cache \in [Blocks -> Values]
    BY LogSeqs DEF TypeOK
  <1>2. \A b \in Blocks : b \notin Range(head) => disk[b] = cache[b]
    BY DEF UnpinnedIsClean
  <1>3. \A i \in 1..Len(head) : logblock[i] = cache[head[i]]
    BY DEF Copied
  <1> QED
    BY <1>1, <1>2, <1>3, Recovery, RecoveredIs

(* Installing a block of the log changes nothing for a recovery.           *)
LEMMA SameRecovered ==
  ASSUME head \in Seq(Blocks), UNCHANGED <<head, logblock>>,
         \A b \in Blocks : b \notin Range(head) => disk'[b] = disk[b]
  PROVE  Recovered' = Recovered
  BY InLog DEF Recovered

(* The same two for the next state.                                        *)
LEMMA NotCommittedNext ==
  ASSUME TypeOK', head' = <<>>
  PROVE  Recovered' = disk'
  <1>1. \A b : ~Contains(<<>>, b)
    BY InitSeq DEF Contains
  <1> QED
    BY <1>1 DEF Recovered, TypeOK

(* While the blocks of a commit are installed, a boot would find what the  *)
(* cache has.                                                              *)
LEMMA InstallingNext ==
  ASSUME IInv', NEW p \in Procs, pc'[p] = "install", mode' = "up"
  PROVE  Recovered' = cache'
  <1>1. head' = lh' /\ dirty' = {lh'[i] : i \in tail'+1..Len(lh')} /\ \A i \in 1..Len(lh') : logblock'[i] = cache'[lh'[i]]
    BY DEF IInv, CommitInv, Copied
  <1>2. /\ head' \in BoundedSeq(Blocks, LOGSIZE) /\ IsInjective(head') /\ cache' \in [Blocks -> Values]
        /\ tail' \in Nat /\ LOGSIZE \in Nat
    BY Sizes DEF IInv, TypeOK, Values
  <1>3. head' \in Seq(Blocks) /\ DOMAIN head' = 1..Len(head')
    BY <1>2, BoundedSeqs, LenProperties
  <1>4. dirty' \subseteq Range(head')
    <2>1. tail'+1..Len(head') \subseteq DOMAIN head'
      BY <1>2, <1>3, LenProperties
    <2> QED
      BY <1>1, <2>1 DEF Range
  <1>5. \A b \in Blocks : b \notin Range(head') => disk'[b] = cache'[b]
    BY <1>4 DEF IInv, UnpinnedIsClean
  <1> QED
    BY <1>1, <1>2, <1>3, <1>5, Recovery, RecoveredIs

(* When nothing runs, all that was written is on disk. *)
LEMMA QuietDurable ==
  ASSUME IInv
  PROVE  QuietIsDurable
  <1> SUFFICES ASSUME mode = "up", outstanding = 0, ~committing
               PROVE  Recovered = cache
    BY DEF QuietIsDurable
  <1>1. head = <<>> /\ lh = <<>> /\ dirty = {}
    BY InitSeq DEF IInv, HeadInv
  <1>2. Copied(Len(lh))
    BY <1>1, InitSeq DEF Copied
  <1> QED
    BY <1>1, <1>2, Committed DEF IInv

(* When the last end_op() has come back, a crash loses nothing.            *)
THEOREM QuietIsDurableHolds == Spec => []QuietIsDurable
  BY Inductive, QuietDurable, PTL

Current == IF mode = "up" THEN cache ELSE Recovered

(* Each step of the log is a step of the durable disk: write_head() makes  *)
(* all of a transaction durable, a crash goes back to what is durable, and *)
(* copying, installing and recovering change nothing.                      *)
LEMMA StepRefines ==
  ASSUME IInv, IInv', Next
  PROVE  \/ Abstract!DNext
         \/ UNCHANGED <<Current, Recovered, Active>>
  <1>0. /\ TypeOK /\ TypeOK' /\ pc \in [Procs -> PC] /\ cache \in [Blocks -> Values]
        /\ head \in Seq(Blocks) /\ lh \in Seq(Blocks)
    BY LogSeqs DEF IInv, TypeOK
  <1>1. ASSUME UNCHANGED <<disk, head, logblock>> PROVE Recovered' = Recovered
    BY <1>1 DEF Recovered
  <1>2. ASSUME NEW p \in Procs, BeginSleep(p) PROVE UNCHANGED <<Current, Recovered, Active>>
    <2>1. Active' = Active
      BY <1>0, <1>2 DEF BeginSleep, At, Active
    <2> QED
      BY <1>1, <1>2, <2>1 DEF BeginSleep, memory, disks, Current
  <1>3. ASSUME NEW p \in Procs, BeginOp(p) PROVE Abstract!DNext
    <2>1. p \notin Active /\ Active' = Active \cup {p}
      BY <1>0, <1>3 DEF BeginOp, At, Active
    <2>2. UNCHANGED <<Current, Recovered>>
      BY <1>1, <1>3 DEF BeginOp, disks, Current
    <2> QED
      BY <2>1, <2>2 DEF Abstract!DNext, Abstract!Begin, Current, Active
  <1>4. ASSUME NEW p \in Procs, NEW b \in Blocks, LogCheck(p, b) PROVE UNCHANGED <<Current, Recovered, Active>>
    <2>1. pc[p] = "in" /\ pc' \in [Procs -> {"panic", "log"} \cup PC]
      BY <1>0, <1>4 DEF LogCheck, At
    <2>2. pc'[p] = "log" /\ \A q \in Procs : q # p => pc'[q] = pc[q]
      <3>1. pc'[p] # "panic"
        BY DEF IInv, NoPanic
      <3> QED
        BY <1>0, <1>4, <3>1 DEF LogCheck, At
    <2>3. Active' = Active
      BY <2>1, <2>2 DEF Active
    <2> QED
      BY <1>1, <1>4, <2>3 DEF LogCheck, disks, Current
  <1>5. ASSUME NEW p \in Procs, LogWrite(p) PROVE Abstract!DNext
    <2>1. pc[p] = "log" /\ p \in Active /\ Active' = Active /\ mode = "up" /\ mode' = mode
      BY <1>0, <1>5, ActiveAlone DEF LogWrite, At, Active
    <2>2. arg[p] \in Blocks /\ 1 - cache[arg[p]] \in Values
      <3>1. arg[p] \in Blocks
        BY <2>1 DEF IInv, WroteInv
      <3>2. cache[arg[p]] \in {0, 1}
        BY <1>0, <3>1 DEF Values
      <3> QED
        BY <3>1, <3>2 DEF Values
    <2>3. Recovered' = Recovered
      BY <1>1, <1>5 DEF LogWrite, disks
    <2>4. Current' = [Current EXCEPT ![arg[p]] = 1 - cache[arg[p]]]
      BY <1>5, <2>1 DEF LogWrite, Current
    <2>5. Abstract!Write(arg[p], 1 - cache[arg[p]])
      BY <2>1, <2>3, <2>4 DEF Abstract!Write, Current, Active
    <2> QED
      BY <2>2, <2>5 DEF Abstract!DNext
  <1>6. ASSUME NEW p \in Procs, EndOp(p) \/ EndLastOp(p) PROVE Abstract!DNext
    <2>1. pc[p] = "in" /\ ~committing
      BY <1>6, ActiveAlone DEF EndOp, EndLastOp
    <2>2. p \in Active /\ Active' = Active \ {p}
      <3>1. CASE EndOp(p)
        BY <1>0, <2>1, <3>1, Waking DEF EndOp, PC, Active
      <3>2. CASE EndLastOp(p)
        BY <1>0, <2>1, <3>2 DEF EndLastOp, At, Active
      <3> QED
        BY <1>6, <3>1, <3>2
    <2>3. UNCHANGED <<Current, Recovered>>
      BY <1>1, <1>6 DEF EndOp, EndLastOp, disks, Current
    <2> QED
      BY <2>2, <2>3 DEF Abstract!DNext, Abstract!End, Current, Active
  <1>7. ASSUME NEW p \in Procs, WriteLog(p) PROVE UNCHANGED <<Current, Recovered, Active>>
    <2>1. head = <<>> /\ pc[p] = "copy" /\ UNCHANGED <<disk, head, cache, mode>> /\ mode = "up"
      BY <1>7, CommitAlone DEF WriteLog, IInv, CommitInv, Commit
    <2>2. Recovered = disk /\ Recovered' = disk'
      <3>1. head' = <<>>
        BY <2>1
      <3> QED
        BY <1>0, <2>1, <3>1, NotCommitted, NotCommittedNext
    <2>3. Active' = Active
      BY <1>0, <1>7 DEF WriteLog, At, Active
    <2> QED
      BY <2>1, <2>2, <2>3 DEF Current
  <1>8. ASSUME NEW p \in Procs, WriteHead(p) PROVE Abstract!DNext
    <2>1. /\ pc[p] = "head" /\ pc' = [pc EXCEPT ![p] = "install"] /\ UNCHANGED <<cache, mode>>
          /\ mode = "up" /\ Active = {}
      BY <1>8, CommitAlone DEF WriteHead, At, memory, Commit
    <2>2. Active' = Active
      BY <1>0, <2>1 DEF Active
    <2>5. pc'[p] = "install" /\ mode' = "up"
      BY <1>0, <2>1
    <2>3. Recovered' = cache'
      BY <2>5, InstallingNext
    <2>4. Recovered' = Current /\ UNCHANGED Current
      BY <2>1, <2>3 DEF Current
    <2> QED
      BY <2>1, <2>2, <2>4 DEF Abstract!DNext, Abstract!MakeDurable, Current, Active
  <1>9. ASSUME NEW p \in Procs, Install(p) PROVE UNCHANGED <<Current, Recovered, Active>>
    <2>1. /\ pc[p] = "install" /\ mode = "up" /\ mode' = mode
          /\ head = lh /\ tail < Len(lh) /\ Copied(Len(lh))
      BY <1>9, CommitAlone DEF Install, IInv, CommitInv, Commit
    <2>2. tail + 1 \in 1..Len(lh) /\ lh[tail + 1] \in Range(lh)
      BY <2>1, LogPlace, LogSeqs DEF IInv, Range
    <2>3. Recovered' = Recovered
      <3>1. \A b \in Blocks : b \notin Range(head) => disk'[b] = disk[b]
        BY <1>9, <2>1, <2>2 DEF Install, InstallBlock, IInv, TypeOK
      <3>2. UNCHANGED <<head, logblock>>
        BY <1>9 DEF Install
      <3> QED
        BY <1>0, <3>1, <3>2, SameRecovered
    <2>4. cache' = cache
      BY <1>0, <1>9, <2>1, <2>2 DEF Install, InstallBlock, Copied
    <2>5. Active' = Active
      BY <1>0, <1>9 DEF Install, At, Active
    <2> QED
      BY <2>1, <2>3, <2>4, <2>5 DEF Current
  <1>10. ASSUME NEW p \in Procs, ClearHead(p) PROVE UNCHANGED <<Current, Recovered, Active>>
    <2>1. /\ pc[p] = "clear" /\ mode = "up" /\ head = lh /\ Copied(Len(lh)) /\ dirty = {}
          /\ head' = <<>> /\ UNCHANGED <<disk, cache, mode>>
      BY <1>10, CommitAlone DEF ClearHead, IInv, CommitInv, Commit
    <2>2. Recovered = cache
      BY <2>1, Committed DEF IInv
    <2>3. Recovered' = disk'
      BY <1>0, <2>1, NotCommittedNext
    <2>4. cache = disk
      BY <1>0, <2>1 DEF IInv, UnpinnedIsClean, TypeOK
    <2>5. Active' = Active
      BY <1>0, <1>10 DEF ClearHead, At, Active
    <2> QED
      BY <2>1, <2>2, <2>3, <2>4, <2>5 DEF Current
  <1>11. ASSUME NEW p \in Procs, CommitDone(p) PROVE UNCHANGED <<Current, Recovered, Active>>
    <2>1. Active' = Active
      BY <1>0, <1>11, Waking DEF CommitDone, PC, Active
    <2> QED
      BY <1>1, <1>11, <2>1 DEF CommitDone, disks, Current
  <1>12. ASSUME Crash PROVE Abstract!DNext
    <2>1. Active' = {} /\ mode' = "recover" /\ Recovered' = Recovered
      BY <1>1, <1>12 DEF Crash, disks, Active
    <2>2. Current' = Recovered
      BY <2>1 DEF Current
    <2> QED
      BY <2>1, <2>2 DEF Abstract!DNext, Abstract!CrashBack, Current, Active
  <1>13. ASSUME RecoverInstall PROVE UNCHANGED <<Current, Recovered, Active>>
    <2>1. /\ mode = "recover" /\ tail < Len(lh) /\ head = lh /\ UNCHANGED <<mode, pc, head, logblock>>
      BY <1>13, AllOff DEF RecoverInstall
    <2>2. lh[tail + 1] \in Range(lh)
      BY <2>1, LogPlace, LogSeqs DEF IInv, Range
    <2>3. \A b \in Blocks : b \notin Range(head) => disk'[b] = disk[b]
      BY <1>13, <2>1, <2>2 DEF RecoverInstall, InstallBlock, IInv, TypeOK
    <2>4. Recovered' = Recovered
      BY <1>0, <2>1, <2>3, SameRecovered
    <2> QED
      BY <2>1, <2>4 DEF Current, Active
  <1>14. ASSUME RecoverDone PROVE UNCHANGED <<Current, Recovered, Active>>
    <2>1. /\ mode = "recover" /\ mode' = "up" /\ head' = <<>> /\ UNCHANGED <<disk, cache>>
          /\ pc' = [q \in Procs |-> "out"] /\ tail = Len(lh)
      BY <1>14 DEF RecoverDone
    <2>2. /\ \A q \in Procs : pc[q] = "off"
          /\ head = lh /\ cache = disk
          /\ \A i \in 1..tail : disk[lh[i]] = logblock[i]
      BY <2>1, AllOff
    <2>3. Recovered = disk
      <3>1. IsInjective(head) /\ disk \in [Blocks -> Values] /\ \A i \in 1..Len(head) : logblock[i] = disk[head[i]]
        BY <1>0, <2>1, <2>2 DEF TypeOK
      <3> QED
        BY <1>0, <3>1, Recovery, RecoveredIs
    <2>4. Recovered' = disk'
      BY <1>0, <2>1, NotCommittedNext
    <2>5. Active' = Active
      BY <2>1, <2>2 DEF Active
    <2> QED
      BY <2>1, <2>2, <2>3, <2>4, <2>5 DEF Current
  <1> QED
    BY <1>2, <1>3, <1>4, <1>5, <1>6, <1>7, <1>8, <1>9, <1>10, <1>11, <1>12, <1>13, <1>14
       DEF Next, begin_op, log_write, end_op, commit

(* A crash between any two block writes, also one during recovery, leaves  *)
(* every operation on disk completely or not at all: log.c implements a    *)
(* disk on which operations become durable all at once.                    *)
THEOREM Refinement == Spec => ImplementsDurableDisk
  <1>1. Init => Abstract!DInit
    <2> SUFFICES ASSUME Init PROVE Abstract!DInit
      OBVIOUS
    <2>1. TypeOK /\ mode = "up" /\ head = <<>> /\ cache = disk
      BY InitIInv DEF IInv, Init
    <2>2. Recovered = disk
      BY <2>1, NotCommitted
    <2> QED
      BY <2>1, <2>2 DEF Abstract!DInit, Init, TypeOK
  <1>2. IInv /\ IInv' /\ [Next]_vars => [Abstract!DNext]_<<Current, Recovered, Active>>
    <2>1. UNCHANGED vars => UNCHANGED <<Current, Recovered, Active>>
      BY DEF vars, memory, disks, Current, Recovered, Active
    <2> QED
      BY <2>1, StepRefines
  <1> QED
    BY <1>1, <1>2, Inductive, PTL DEF Spec, ImplementsDurableDisk, Abstract!DSpec, Abstract!dvars, Current, Active
=============================================================================
