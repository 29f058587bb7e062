--------------------------- MODULE ConsoleProofs ---------------------------
(***************************************************************************)
(* No reader sleeps over input, no sleep() ends early, and the ring is a   *)
(* queue of lines, for any number of processes, any size of the buffer,    *)
(* and wherever the indices and the ticks wrap.                            *)
(***************************************************************************)
EXTENDS Console, SequenceTheorems, WellFoundedInduction, TLAPS

(* The least of some numbers. *)
LEMMA LeastOf ==
  ASSUME NEW S \in SUBSET Nat, NEW R, \A x \in Nat, y \in Nat : y < x => <<y, x>> \in R,
         \E x \in S : \A y \in S : ~(<<y, x>> \in R)
  PROVE  Min(S) \in S /\ \A x \in S : Min(S) <= x
  <1>1. PICK x \in S : \A y \in S : ~(<<y, x>> \in R)
    OBVIOUS
  <1>2. ASSUME NEW y \in S PROVE x <= y
    <2>1. ~(y < x)
      BY <1>1, Zenon
    <2> QED
      BY <2>1
  <1> QED
    BY <1>2 DEF Min

(* Some numbers have a least one: they are well founded.                    *)
LEMMA MinExists ==
  ASSUME NEW S \in SUBSET Nat, S # {}
  PROVE  Min(S) \in S /\ \A x \in S : Min(S) <= x
  <1>1. \E x \in S : \A y \in S : ~(<<y, x>> \in OpToRel(<, Nat))
    BY WFMin, NatLessThanWellFounded, Zenon
  <1>2. ASSUME NEW x \in Nat, NEW y \in Nat, y < x PROVE <<y, x>> \in OpToRel(<, Nat)
    <2>1. <<y, x>> \in Nat \X Nat /\ <<y, x>>[1] < <<y, x>>[2]
      BY <1>2
    <2> QED
      BY <2>1, Zenon DEF OpToRel
  <1> QED
    BY <1>1, <1>2, LeastOf, Zenon

(* A remainder is an index. *)
LEMMA ModRange ==
  ASSUME NEW M \in Nat \ {0}, NEW a \in Int PROVE a % M \in 0..M-1
  OBVIOUS

(* The distance of two indices grows when the first one moves on by k.     *)
LEMMA ModPlus ==
  ASSUME NEW M \in Nat, NEW a \in 0..M-1, NEW b \in 0..M-1, NEW k \in Nat,
         ((a - b) % M) + k < M
  PROVE  (((a + k) % M) - b) % M = ((a - b) % M) + k
  OBVIOUS

(* It shrinks when the second one follows, or the first one goes back.      *)
LEMMA ModMinus ==
  ASSUME NEW M \in Nat, NEW a \in 0..M-1, NEW b \in 0..M-1, NEW k \in Nat,
         k <= (a - b) % M
  PROVE  /\ (a - ((b + k) % M)) % M = ((a - b) % M) - k
         /\ (((a - k) % M) - b) % M = ((a - b) % M) - k
  OBVIOUS

(* Division with remainder. *)
LEMMA Quotient ==
  ASSUME NEW M \in Nat \ {0}, NEW a \in Int
  PROVE  \E k \in Int : a = k * M + (a % M)
  <1>1. a \div M \in Int /\ a = (a \div M) * M + (a % M)
    OBVIOUS
  <1> QED
    BY <1>1

(* Numbers that differ by a multiple of M. *)
LEMMA Congruent ==
  ASSUME NEW M \in Nat \ {0}, NEW a \in Int, NEW b \in Int,
         \E k \in Int : b = k * M + a
  PROVE  b % M = a % M
  <1>0. PICK k \in Int : b = k * M + a
    OBVIOUS
  <1> DEFINE c == a % M
  <1>1. PICK j \in Int : a = j * M + c
    BY Quotient
  <1>2. c \in 0..M-1
    OBVIOUS
  <1>3. ASSUME NEW q \in Int, NEW x \in 0..M-1 PROVE (q * M + x) % M = x
    OBVIOUS
  <1> HIDE DEF c
  <1>4. b = (k + j) * M + c /\ k + j \in Int
    BY <1>0, <1>1, <1>2
  <1>5. b % M = c
    BY <1>2, <1>3, <1>4
  <1> QED
    BY <1>5 DEF c

(* A counter that wraps at a multiple of M is at the same place of a ring  *)
(* of size M.                                                              *)
LEMMA ModMod ==
  ASSUME NEW M \in Nat \ {0}, NEW U \in Nat \ {0}, U % M = 0, NEW a \in Int
  PROVE  (a % U) % M = a % M
  <1> DEFINE c == a % U
  <1>1. PICK k \in Int : a = k * U + (a % U)
    BY Quotient
  <1>2. PICK m \in Int : U = m * M
    BY Quotient
  <1>3. c \in Int
    OBVIOUS
  <1>4. \E q \in Int : a = q * M + c
    <2>1. a = (k * m) * M + c /\ k * m \in Int
      BY <1>1, <1>2, <1>3
    <2> QED
      BY <2>1
  <1> HIDE DEF c
  <1>5. a % M = c % M
    BY <1>3, <1>4, Congruent
  <1> QED
    BY <1>5 DEF c

(* The distance of two places of a ring is that of the counters.            *)
LEMMA ModDistance ==
  ASSUME NEW M \in Nat \ {0}, NEW U \in Nat \ {0}, U % M = 0, NEW a \in Int, NEW b \in Int
  PROVE  ((a % M) + U - (b % M)) % M = (a - b) % M
  <1> DEFINE c == (a % M) + U - (b % M)
  <1>1. PICK k \in Int : a = k * M + (a % M)
    BY Quotient
  <1>2. PICK j \in Int : b = j * M + (b % M)
    BY Quotient
  <1>3. PICK m \in Int : U = m * M
    BY Quotient
  <1>4. c \in Int /\ a - b \in Int
    OBVIOUS
  <1>5. \E q \in Int : c = q * M + (a - b)
    <2>1. c = (m - k + j) * M + (a - b) /\ m - k + j \in Int
      BY <1>1, <1>2, <1>3, <1>4
    <2> QED
      BY <2>1
  <1> HIDE DEF c
  <1>6. c % M = (a - b) % M
    BY <1>4, <1>5, Congruent
  <1> QED
    BY <1>6 DEF c

-----------------------------------------------------------------------------

(* The unread and the edited bytes fit into the buffer. *)
RingInv == Diff(w, r) + Diff(e, w) <= INPUT_BUF

(* The bytes a read has been given, and a sleep that has begun: it owes    *)
(* the ticks that have not gone by, which is nothing once n have gone by,  *)
(* even when ticks has wrapped past ticks0 since.                          *)
CallInv ==
    \A p \in Procs :
        /\ use[p] = "read" => n[p] <= target[p]
        /\ use[p] = "sleep" => n[p] < TickMod
        /\ use[p] = "sleep" /\ pc[p] = "user" => owed[p] = 0
        /\ use[p] = "sleep" /\ pc[p] = "begin" => owed[p] = n[p]
        /\ use[p] = "sleep" /\ pc[p] \in {"run", "doze", "asleep"} =>
              owed[p] = 0 \/ owed[p] + ((ticks - ticks0[p]) % TickMod) = n[p]

(* Where a process can be in its call. *)
PlaceInv ==
    \A p \in Procs :
        /\ use[p] = "write" => pc[p] \notin {"doze", "asleep"}
        /\ use[p] = "sleep" => pc[p] \notin {"ilock", "relock", "end"}

IInv == TypeOK /\ ReaderSleepsOnEmpty /\ RingInv /\ CallInv /\ PlaceInv

-----------------------------------------------------------------------------
(* The constants, and arithmetic of the indices. *)
LEMMA Sizes ==
    /\ INPUT_BUF \in Nat \ {0} /\ UintMod \in Nat \ {0} /\ TickMod \in Nat \ {0}
    /\ UintMod > INPUT_BUF
  BY RangeAssumption

LEMMA Ranges ==
  ASSUME NEW a \in Int, NEW b \in Int
  PROVE  Add(a, b) \in 0..UintMod-1 /\ Diff(a, b) \in 0..UintMod-1
  BY Sizes DEF Add, Diff

LEMMA DiffZero ==
  ASSUME NEW a \in 0..UintMod-1, NEW b \in 0..UintMod-1
  PROVE  Diff(a, b) = 0 <=> a = b
  BY Sizes DEF Diff

LEMMA DiffAdd ==
  ASSUME NEW a \in 0..UintMod-1, NEW b \in 0..UintMod-1, NEW k \in Nat, Diff(a, b) + k < UintMod
  PROVE  Diff(Add(a, k), b) = Diff(a, b) + k
  <1>1. ((a - b) % UintMod) + k < UintMod
    BY DEF Diff
  <1>2. (((a + k) % UintMod) - b) % UintMod = ((a - b) % UintMod) + k
    <2>1. UintMod \in Nat
      BY Sizes
    <2> QED
      BY <1>1, <2>1, ModPlus
  <1>3. Diff(Add(a, k), b) = (((a + k) % UintMod) - b) % UintMod /\ Diff(a, b) = (a - b) % UintMod
    BY DEF Add, Diff
  <1> QED
    BY <1>2, <1>3

LEMMA DiffSub ==
  ASSUME NEW a \in 0..UintMod-1, NEW b \in 0..UintMod-1, NEW k \in Nat, k <= Diff(a, b)
  PROVE  /\ Diff(a, Add(b, k)) = Diff(a, b) - k
         /\ Diff(Diff(a, k), b) = Diff(a, b) - k
  <1>1. k <= (a - b) % UintMod
    BY DEF Diff
  <1>2. /\ (a - ((b + k) % UintMod)) % UintMod = ((a - b) % UintMod) - k
        /\ (((a - k) % UintMod) - b) % UintMod = ((a - b) % UintMod) - k
    <2>1. UintMod \in Nat
      BY Sizes
    <2> QED
      BY <1>1, <2>1, ModMinus
  <1>3. /\ Diff(a, Add(b, k)) = (a - ((b + k) % UintMod)) % UintMod
        /\ Diff(Diff(a, k), b) = (((a - k) % UintMod) - b) % UintMod
        /\ Diff(a, b) = (a - b) % UintMod
    BY DEF Add, Diff
  <1> QED
    BY <1>2, <1>3

LEMMA Updated ==
  ASSUME NEW S, NEW f \in [Procs -> S], NEW p \in Procs, NEW v \in S
  PROVE  [f EXCEPT ![p] = v] \in [Procs -> S]
  OBVIOUS

(* What consoleread() looks at: up to the first byte that ends the call.   *)
LEMMA SeenRange ==
  ASSUME TypeOK, NEW p \in Procs
  PROVE  /\ Seen(p) \in Nat /\ Seen(p) <= n[p] /\ Seen(p) <= Diff(w, r)
         /\ \A i \in 1..Seen(p)-1 : ~Ends(i)
         /\ Seen(p) = n[p] \/ Seen(p) = Diff(w, r) \/ (Seen(p) > 0 /\ Ends(Seen(p)))
         /\ PutBack(p) \in {0, 1} /\ PutBack(p) <= Seen(p)
  <1> DEFINE S == {n[p], Diff(w, r)} \cup {i \in 1..Diff(w, r) : Ends(i)}
  <1>1. n[p] \in Nat /\ Diff(w, r) \in Nat
    BY Ranges, Sizes DEF TypeOK
  <1>2. S \in SUBSET Nat /\ S # {}
    BY <1>1
  <1>3. Seen(p) = Min(S)
    BY DEF Seen
  <1>4. Seen(p) \in S /\ \A x \in S : Seen(p) <= x
    BY <1>2, <1>3, MinExists
  <1>5. PutBack(p) \in {0, 1} /\ PutBack(p) <= Seen(p)
    BY <1>1, <1>4 DEF PutBack
  <1>6. ASSUME NEW i \in 1..Seen(p)-1 PROVE ~Ends(i)
    BY <1>1, <1>4
  <1> QED
    BY <1>1, <1>4, <1>5, <1>6

-----------------------------------------------------------------------------
(* consoleinit() and an empty clock. *)
LEMMA InitIInv == Init => IInv
  <1> SUFFICES ASSUME Init PROVE IInv
    OBVIOUS
  <1>1. TypeOK
    BY Sizes, CallAssumption DEF Init, TypeOK, Bytes, PC
  <1>2. Diff(0, 0) = 0
    BY Sizes, DiffZero
  <1>3. RingInv
    BY <1>2, Sizes DEF Init, RingInv
  <1>4. ReaderSleepsOnEmpty /\ CallInv /\ PlaceInv
    BY Sizes DEF Init, ReaderSleepsOnEmpty, CallInv, PlaceInv
  <1> QED
    BY <1>1, <1>3, <1>4 DEF IInv

(* The bytes from r to e. *)
LEMMA RingDiff ==
  ASSUME TypeOK, RingInv
  PROVE  /\ r \in 0..UintMod-1 /\ w \in 0..UintMod-1 /\ e \in 0..UintMod-1
         /\ Diff(w, r) \in Nat /\ Diff(e, w) \in Nat /\ Diff(e, r) \in Nat
         /\ Diff(e, r) = Diff(w, r) + Diff(e, w)
  <1>1. /\ r \in 0..UintMod-1 /\ w \in 0..UintMod-1 /\ e \in 0..UintMod-1
        /\ Diff(w, r) \in Nat /\ Diff(e, w) \in Nat /\ Diff(e, r) \in Nat
    BY Ranges, Sizes DEF TypeOK
  <1>2. Diff(e, r) = (e - r) % UintMod /\ Diff(w, r) = (w - r) % UintMod /\ Diff(e, w) = (e - w) % UintMod
    BY DEF Diff
  <1>3. ((w - r) % UintMod) + ((e - w) % UintMod) < UintMod
    BY <1>1, <1>2, Sizes DEF RingInv
  <1>4. (e - r) % UintMod = ((w - r) % UintMod) + ((e - w) % UintMod)
    BY <1>1, <1>3, Sizes
  <1> QED
    BY <1>1, <1>2, <1>4

(* A byte that fits is behind the others; the line it finishes is ready.   *)
LEMMA TypedRing ==
  ASSUME IInv, NEW c \in Bytes, Typed(c)
  PROVE  /\ buf' \in [0..INPUT_BUF-1 -> Bytes] /\ e' = Add(e, 1) /\ {r', w', e'} \subseteq 0..UintMod-1
         /\ w' \in {w, e'} /\ RingInv'
  <1> DEFINE done == c \in {Newline, EOF} \/ e' = Add(r, INPUT_BUF)
  <1>1. /\ r \in 0..UintMod-1 /\ w \in 0..UintMod-1 /\ e \in 0..UintMod-1
        /\ Diff(w, r) \in Nat /\ Diff(e, w) \in Nat /\ Diff(e, r) \in Nat
        /\ Diff(e, r) = Diff(w, r) + Diff(e, w)
    BY RingDiff DEF IInv
  <1>2. /\ r' = r /\ e' = Add(e, 1) /\ Diff(e, r) < INPUT_BUF
        /\ w' = IF done THEN e' ELSE w
    BY DEF Typed
  <1>3. e' \in 0..UintMod-1
    BY <1>1, <1>2, Ranges
  <1>4. buf' \in [0..INPUT_BUF-1 -> Bytes]
    BY DEF Typed, IInv, TypeOK
  <1>5. Diff(e', r) = Diff(e, r) + 1 /\ Diff(e', w) = Diff(e, w) + 1
    BY <1>1, <1>2, Sizes, DiffAdd
  <1>6. Diff(e', e') = 0
    BY <1>3, DiffZero
  <1>7. RingInv' <=> Diff(w', r') + Diff(e', w') <= INPUT_BUF
    BY DEF RingInv, Diff
  <1> HIDE DEF done
  <1>8. RingInv'
    <2>1. CASE done
      BY <1>1, <1>2, <1>5, <1>6, <1>7, <2>1, Sizes
    <2>2. CASE ~done
      BY <1>1, <1>2, <1>5, <1>7, <2>2, Sizes
    <2> QED
      BY <2>1, <2>2
  <1> QED
    BY <1>1, <1>2, <1>3, <1>4, <1>8

LEMMA ErasedRing ==
  ASSUME IInv, NEW k \in Nat, Erased(k)
  PROVE  /\ UNCHANGED <<buf, r, w, pc>> /\ e' \in 0..UintMod-1 /\ RingInv'
  <1>1. /\ r \in 0..UintMod-1 /\ w \in 0..UintMod-1 /\ e \in 0..UintMod-1
        /\ Diff(w, r) \in Nat /\ Diff(e, w) \in Nat
    BY RingDiff DEF IInv
  <1>2. UNCHANGED <<buf, r, w, pc>> /\ e' = Diff(e, k) /\ k <= Diff(e, w)
    BY DEF Erased
  <1>3. e' \in 0..UintMod-1 /\ Diff(e', w) = Diff(e, w) - k
    BY <1>1, <1>2, Ranges, DiffSub
  <1>4. RingInv' <=> Diff(w', r') + Diff(e', w') <= INPUT_BUF
    BY DEF RingInv, Diff
  <1> QED
    BY <1>1, <1>2, <1>3, <1>4, Sizes DEF IInv, RingInv

(* The keyboard interrupt: finished input wakes all that sleep for it. *)
LEMMA KeyIInv ==
  ASSUME IInv, NEW c \in Bytes \cup {CR, Backspace, KillLine}, consoleintr(c)
  PROVE  IInv'
  <1>1. /\ ~Held("read")
        /\ \/ \E b \in Bytes : Typed(b)
           \/ \E k \in Nat : Erased(k)
    <2>1. Diff(e, w) \in Nat
      BY RingDiff DEF IInv
    <2> QED
      BY <2>1 DEF consoleintr, Bytes
  <1>2. UNCHANGED <<ilocked, ticks, use, locals, killed>>
    BY DEF consoleintr
  <1>3. CASE \E b \in Bytes : Typed(b)
    <2>1. PICK b \in Bytes : Typed(b)
      BY <1>3
    <2>2. pc' \in {pc, Woken("read")}
      BY <2>1 DEF Typed
    <2>3. w' # w => pc' = Woken("read")
      BY <2>1 DEF Typed
    <2>4. TypeOK' /\ RingInv'
      BY <1>2, <2>1, <2>2, TypedRing DEF IInv, TypeOK, Woken, PC, locals
    <2>5. ReaderSleepsOnEmpty'
      BY <1>1, <1>2, <2>1, <2>2, <2>3 DEF Typed, ReaderSleepsOnEmpty, Held, Woken, IInv, TypeOK
    <2>6. CallInv' /\ PlaceInv'
      BY <1>2, <2>2 DEF locals, IInv, TypeOK, CallInv, PlaceInv, Woken, PC
    <2> QED
      BY <2>4, <2>5, <2>6 DEF IInv
  <1>4. CASE \E k \in Nat : Erased(k)
    <2>1. UNCHANGED <<buf, r, w, pc>> /\ e' \in 0..UintMod-1 /\ RingInv'
      BY <1>4, ErasedRing
    <2>2. TypeOK' /\ ReaderSleepsOnEmpty' /\ CallInv' /\ PlaceInv'
      BY <1>2, <2>1 DEF locals, IInv, TypeOK, ReaderSleepsOnEmpty, CallInv, PlaceInv
    <2> QED
      BY <2>1, <2>2 DEF IInv
  <1> QED
    BY <1>1, <1>3, <1>4

LEMMA SameRing ==
  ASSUME UNCHANGED ring PROVE RingInv' <=> RingInv
  BY DEF ring, RingInv, Diff

(* A tick: as long as a sleep owes something fewer than n, and so fewer    *)
(* than TickMod, ticks have gone by.                                       *)
LEMMA TimerIInv ==
  ASSUME IInv, Timer
  PROVE  IInv'
  <1> USE DEF Timer, Woken, ring
  <1>1. ticks' \in 0..TickMod-1
    BY Sizes, ModRange DEF IInv, TypeOK
  <1>2. owed' \in [Procs -> Nat]
    <2>1. \A p \in Procs : owed[p] \in Nat
      BY DEF IInv, TypeOK
    <2> QED
      BY <2>1 DEF Ticked
  <1>3. TypeOK' /\ RingInv' /\ ReaderSleepsOnEmpty' /\ PlaceInv'
    BY <1>1, <1>2, SameRing DEF IInv, TypeOK, PC, ReaderSleepsOnEmpty, PlaceInv
  <1>4. ASSUME NEW p \in Procs, use[p] = "sleep", pc[p] \in {"run", "doze", "asleep"}, owed[p] > 0
        PROVE  owed'[p] + ((ticks' - ticks0'[p]) % TickMod) = n'[p]
    <2> DEFINE gone == (ticks - ticks0[p]) % TickMod
    <2>1. /\ ticks \in 0..TickMod-1 /\ ticks0[p] \in 0..TickMod-1 /\ TickMod \in Nat
          /\ owed[p] \in Nat /\ n[p] \in Nat
      BY Sizes DEF IInv, TypeOK
    <2>2. owed[p] + gone = n[p] /\ n[p] < TickMod
      BY <1>4 DEF IInv, CallInv
    <2>3. gone \in Nat /\ gone + 1 < TickMod
      BY <1>4, <2>1, <2>2, Sizes
    <2>4. (((ticks + 1) % TickMod) - ticks0[p]) % TickMod = gone + 1
      BY <2>1, <2>3, ModPlus
    <2>5. owed'[p] = owed[p] - 1 /\ ticks' = (ticks + 1) % TickMod /\ n' = n /\ ticks0' = ticks0
      BY <1>4 DEF Ticked
    <2> HIDE DEF gone
    <2> QED
      BY <2>1, <2>2, <2>3, <2>4, <2>5
  <1>5. ASSUME NEW p \in Procs PROVE owed[p] = 0 => owed'[p] = 0
    BY DEF Ticked
  <1>6. CallInv'
    <2> SUFFICES ASSUME NEW p \in Procs, use[p] = "sleep"
        PROVE /\ pc'[p] = "user" => owed'[p] = 0
              /\ pc'[p] = "begin" => owed'[p] = n[p]
              /\ pc'[p] \in {"run", "doze", "asleep"} =>
                   owed'[p] = 0 \/ owed'[p] + ((ticks' - ticks0'[p]) % TickMod) = n'[p]
      BY DEF IInv, CallInv
    <2>1. pc'[p] = IF pc[p] = "asleep" THEN "run" ELSE pc[p]
      BY DEF IInv, TypeOK
    <2>2. owed[p] = 0 \/ owed[p] > 0
      BY DEF IInv, TypeOK
    <2>3. pc[p] = "begin" => owed'[p] = owed[p]
      BY DEF Ticked
    <2> QED
      BY <1>4, <1>5, <2>1, <2>2, <2>3 DEF IInv, CallInv
  <1> QED
    BY <1>3, <1>6 DEF IInv

(* A call begins. *)
LEMMA CallIInv ==
  ASSUME IInv, NEW p \in Procs, Call(p)
  PROVE  IInv'
  <1> DEFINE sleeps == use[p] = "sleep"
  <1>1. PICK m \in Nat :
          /\ n' = [n EXCEPT ![p] = m]
          /\ sleeps => m < TickMod /\ owed' = [owed EXCEPT ![p] = m] /\ target' = target
          /\ ~sleeps => owed' = owed /\ target' = [target EXCEPT ![p] = m]
    <2>1. CASE sleeps
      <3>1. PICK m \in Sleeps : n' = [n EXCEPT ![p] = m] /\ owed' = [owed EXCEPT ![p] = m] /\ target' = target
        BY <2>1 DEF Call
      <3>2. m \in Nat /\ m < TickMod
        BY CallAssumption, Sizes
      <3> QED
        BY <2>1, <3>1, <3>2
    <2>2. CASE ~sleeps
      <3>1. PICK m \in Reads \cup {0} : n' = [n EXCEPT ![p] = m] /\ target' = [target EXCEPT ![p] = m] /\ owed' = owed
        BY <2>2 DEF Call
      <3>2. m \in Nat
        BY CallAssumption
      <3> QED
        BY <2>2, <3>1, <3>2
    <2> QED
      BY <2>1, <2>2
  <1>2. /\ UNCHANGED <<ring, ilocked, ticks, use, ticks0, killed>>
        /\ pc' = [pc EXCEPT ![p] = IF sleeps THEN "begin" ELSE "ilock"] /\ pc[p] = "user"
    BY DEF Call, Goto
  <1> USE DEF IInv, TypeOK, PC, ring
  <1>3. n' \in [Procs -> Nat] /\ target' \in [Procs -> Nat] /\ owed' \in [Procs -> Nat] /\ pc' \in [Procs -> PC]
    BY <1>1, <1>2
  <1>4. TypeOK'
    BY <1>2, <1>3
  <1>5. RingInv' /\ ReaderSleepsOnEmpty' /\ PlaceInv'
    BY <1>2, SameRing DEF ReaderSleepsOnEmpty, PlaceInv
  <1>6. CallInv'
    BY <1>1, <1>2, SMTT(40) DEF CallInv
  <1> QED
    BY <1>4, <1>5, <1>6

(* Locking and unlocking the inode, going to sleep, writing; dying.        *)
LEMMA StepIInv ==
  ASSUME IInv, NEW p \in Procs,
         Exit(p) \/ Ilock(p) \/ Iunlock(p) \/ consolewrite(p) \/ Doze(p) \/ Kill(p)
  PROVE  IInv'
  <1> USE DEF Exit, Ilock, Iunlock, consolewrite, Returned, Doze, Kill, Goto, ring, locals
  <1>1. TypeOK'
    <2>1. n' \in [Procs -> Nat] /\ target' \in [Procs -> Nat] /\ killed' \in [Procs -> BOOLEAN]
      <3>1. n \in [Procs -> Nat] /\ target \in [Procs -> Nat] /\ killed \in [Procs -> BOOLEAN]
        BY DEF IInv, TypeOK
      <3>2. n' = n \/ n' = [n EXCEPT ![p] = 0]
        OBVIOUS
      <3>3. target' = target \/ target' = [target EXCEPT ![p] = 0]
        OBVIOUS
      <3>4. killed' = killed \/ killed' = [killed EXCEPT ![p] = TRUE] \/ killed' = [killed EXCEPT ![p] = FALSE]
        OBVIOUS
      <3> HIDE DEF Exit, Ilock, Iunlock, consolewrite, Doze, Kill
      <3>5. n' \in [Procs -> Nat] /\ target' \in [Procs -> Nat]
        BY <3>1, <3>2, <3>3, Updated
      <3>6. killed' \in [Procs -> BOOLEAN]
        BY <3>1, <3>4, Zenon
      <3> QED
        BY <3>5, <3>6
    <2>2. pc' \in [Procs -> PC] /\ ilocked' \in Procs \cup {None}
      BY DEF IInv, TypeOK, PC
    <2>3. UNCHANGED <<buf, r, w, e, ticks, use, ticks0, owed>>
      OBVIOUS
    <2> QED
      BY <2>1, <2>2, <2>3 DEF IInv, TypeOK
  <1>2. RingInv' /\ ReaderSleepsOnEmpty' /\ PlaceInv'
    BY SameRing DEF IInv, TypeOK, ReaderSleepsOnEmpty, PlaceInv
  <1>3. CallInv'
    BY SMTT(40) DEF IInv, TypeOK, CallInv, PlaceInv
  <1> QED
    BY <1>1, <1>2, <1>3 DEF IInv

(* consoleread() goes to sleep only when it has taken all there was, and   *)
(* finds nobody else asleep when there is something.                       *)
LEMMA ReadIInv ==
  ASSUME IInv, NEW p \in Procs, consoleread(p)
  PROVE  IInv'
  <1> DEFINE k == Seen(p) - PutBack(p)
  <1>1. /\ r \in 0..UintMod-1 /\ w \in 0..UintMod-1 /\ e \in 0..UintMod-1
        /\ Diff(w, r) \in Nat /\ Diff(e, w) \in Nat
    BY RingDiff DEF IInv
  <1>2. /\ Seen(p) \in Nat /\ Seen(p) <= n[p] /\ Seen(p) <= Diff(w, r)
        /\ Seen(p) = n[p] \/ Seen(p) = Diff(w, r) \/ (Seen(p) > 0 /\ Ends(Seen(p)))
        /\ PutBack(p) \in {0, 1} /\ PutBack(p) <= Seen(p)
    BY SeenRange DEF IInv
  <1>3. k \in Nat /\ k <= Diff(w, r)
    BY <1>1, <1>2
  <1>4. r' = Add(r, k) /\ UNCHANGED <<buf, w, e, ilocked, ticks, use, ticks0, owed, killed>> /\ use[p] = "read"
    BY DEF consoleread
  <1>5. r' \in 0..UintMod-1 /\ Diff(w, r') = Diff(w, r) - k
    BY <1>1, <1>3, <1>4, Ranges, DiffSub
  <1>6. RingInv'
    <2>1. RingInv' <=> Diff(w, r') + Diff(e, w) <= INPUT_BUF
      BY <1>4 DEF RingInv, Diff
    <2> QED
      BY <1>1, <1>3, <1>5, <2>1, Sizes DEF IInv, RingInv
  <1> HIDE DEF k
  <1>7. \/ n' = [n EXCEPT ![p] = 0] /\ target' = [target EXCEPT ![p] = 0] /\ pc' = [pc EXCEPT ![p] = "relock"]
        \/ /\ Seen(p) < n[p] /\ ~(Seen(p) > 0 /\ Ends(Seen(p)))
           /\ n' = [n EXCEPT ![p] = @ - Seen(p)] /\ UNCHANGED target /\ pc' = [pc EXCEPT ![p] = "doze"]
    BY DEF consoleread, Returned, Goto
  <1>8. TypeOK'
    <2>1. n[p] - Seen(p) \in Nat /\ n \in [Procs -> Nat]
      BY <1>2 DEF IInv, TypeOK
    <2>2. n' \in [Procs -> Nat] /\ target' \in [Procs -> Nat] /\ pc' \in [Procs -> PC]
      <3>1. target \in [Procs -> Nat] /\ pc \in [Procs -> PC] /\ "relock" \in PC /\ "doze" \in PC
        BY DEF IInv, TypeOK, PC
      <3>2. n' = [n EXCEPT ![p] = 0] \/ n' = [n EXCEPT ![p] = n[p] - Seen(p)]
        BY <1>7
      <3> QED
        BY <1>7, <2>1, <3>1, <3>2, Updated
    <2> QED
      BY <1>4, <1>5, <2>2 DEF IInv, TypeOK
  <1>9. CallInv' /\ PlaceInv'
    <2>1. n'[p] <= target'[p]
      <3>1. n[p] \in Nat /\ target[p] \in Nat /\ n[p] <= target[p] /\ n \in [Procs -> Nat] /\ target \in [Procs -> Nat]
        BY <1>4 DEF IInv, TypeOK, CallInv
      <3> QED
        BY <1>2, <1>7, <3>1
    <2>2. \A q \in Procs \ {p} : n'[q] = n[q] /\ target'[q] = target[q] /\ pc'[q] = pc[q]
      BY <1>7 DEF IInv, TypeOK
    <2>3. pc'[p] \in {"relock", "doze"}
      BY <1>7 DEF IInv, TypeOK
    <2> QED
      BY <1>4, <2>1, <2>2, <2>3 DEF IInv, CallInv, PlaceInv
  <1>10. ReaderSleepsOnEmpty'
    <2>1. r = w => r' = w
      <3>1. r = w => k = 0
        BY <1>1, <1>3, DiffZero
      <3> QED
        BY <1>1, <1>4, <3>1, Sizes DEF Add
    <2>2. pc'[p] = "doze" => r' = w
      <3>1. pc'[p] = "doze" => Seen(p) = Diff(w, r) /\ ~(Seen(p) > 0 /\ Ends(Seen(p)))
        BY <1>2, <1>7 DEF IInv, TypeOK
      <3>2. ~(Seen(p) > 0 /\ Ends(Seen(p))) => PutBack(p) = 0
        BY DEF PutBack, Ends
      <3>3. pc'[p] = "doze" => Diff(w, r') = 0
        BY <1>1, <1>5, <3>1, <3>2 DEF k
      <3> QED
        BY <1>1, <1>5, <3>3, DiffZero
    <2> QED
      BY <1>4, <1>7, <2>1, <2>2 DEF IInv, TypeOK, ReaderSleepsOnEmpty
  <1> QED
    BY <1>6, <1>8, <1>9, <1>10 DEF IInv

(* sys_sleep(): a sleep that goes on has not owed more than it asked for. *)
LEMMA SleepIInv ==
  ASSUME IInv, NEW p \in Procs, sys_sleep(p)
  PROVE  IInv'
  <1> DEFINE start == IF pc[p] = "begin" THEN ticks ELSE ticks0[p]
  <1>1. /\ UNCHANGED <<ring, ilocked, ticks, use, target, killed>>
        /\ use[p] = "sleep" /\ pc[p] \in {"begin", "run"}
        /\ \/ /\ n' = [n EXCEPT ![p] = 0] /\ ticks0' = [ticks0 EXCEPT ![p] = 0]
              /\ owed' = [owed EXCEPT ![p] = 0] /\ pc' = [pc EXCEPT ![p] = "user"]
           \/ /\ ticks0' = [ticks0 EXCEPT ![p] = start] /\ pc' = [pc EXCEPT ![p] = "doze"]
              /\ UNCHANGED <<n, owed>>
    BY DEF sys_sleep, Goto
  <1>2. start \in 0..TickMod-1 /\ 0 \in 0..TickMod-1
    BY Sizes DEF IInv, TypeOK
  <1>3. /\ n' \in [Procs -> Nat] /\ owed' \in [Procs -> Nat] /\ pc' \in [Procs -> PC]
        /\ ticks0' \in [Procs -> 0..TickMod-1]
    <2>1. /\ n \in [Procs -> Nat] /\ owed \in [Procs -> Nat] /\ pc \in [Procs -> PC]
          /\ ticks0 \in [Procs -> 0..TickMod-1] /\ "user" \in PC /\ "doze" \in PC
      BY DEF IInv, TypeOK, PC
    <2> HIDE DEF start
    <2> QED
      BY <1>1, <1>2, <2>1, Updated
  <1>4. TypeOK'
    BY <1>1, <1>3 DEF IInv, TypeOK, ring
  <1>5. RingInv' /\ ReaderSleepsOnEmpty' /\ PlaceInv'
    BY <1>1, SameRing DEF IInv, TypeOK, ReaderSleepsOnEmpty, PlaceInv, ring
  <1>6. CallInv'
    <2>1. \A q \in Procs \ {p} :
            n'[q] = n[q] /\ owed'[q] = owed[q] /\ ticks0'[q] = ticks0[q] /\ pc'[q] = pc[q]
      BY <1>1 DEF IInv, TypeOK
    <2>2. CASE pc'[p] = "user"
      <3>1. n'[p] = 0 /\ owed'[p] = 0
        BY <1>1, <2>2 DEF IInv, TypeOK
      <3> QED
        BY <1>1, <2>1, <2>2, <3>1, Sizes DEF IInv, CallInv
    <2>3. CASE pc'[p] = "doze"
      <3>1. n'[p] = n[p] /\ owed'[p] = owed[p] /\ ticks0'[p] = start
        BY <1>1, <2>3 DEF IInv, TypeOK
      <3>2. (ticks - ticks) % TickMod = 0 /\ owed[p] \in Nat
        BY Sizes DEF IInv, TypeOK
      <3>3. owed[p] = 0 \/ owed[p] + ((ticks - start) % TickMod) = n[p]
        BY <1>1, <3>2 DEF IInv, CallInv
      <3> HIDE DEF start
      <3> QED
        BY <1>1, <2>1, <2>3, <3>1, <3>3 DEF IInv, CallInv
    <2> QED
      BY <1>1, <2>2, <2>3 DEF IInv, TypeOK
  <1> QED
    BY <1>4, <1>5, <1>6 DEF IInv

-----------------------------------------------------------------------------
LEMMA NextIInv == IInv /\ [Next]_vars => IInv'
  <1> SUFFICES ASSUME IInv, [Next]_vars PROVE IInv'
    OBVIOUS
  <1>1. CASE UNCHANGED vars
    <2>1. RingInv'
      BY <1>1, SameRing DEF vars, ring, IInv
    <2> QED
      BY <1>1, <2>1 DEF vars, locals, ring, IInv, TypeOK, ReaderSleepsOnEmpty, CallInv, PlaceInv
  <1> QED
    BY <1>1, KeyIInv, TimerIInv, CallIInv, StepIInv, ReadIInv, SleepIInv DEF Next, Run

(* Input, clock and calls fit together. *)
THEOREM Inductive == Spec => []IInv
  BY InitIInv, NextIInv, PTL DEF Spec

(* consoleread() sleeps only when r = w, and consoleintr() wakes it with   *)
(* every line: nobody sleeps over input, not even over the rest of a line  *)
(* that another reader left or put back.                                   *)
THEOREM ConsoleInvHolds == Spec => []ConsoleInv
  <1>1. IInv => ConsoleInv
    BY DEF IInv, ConsoleInv
  <1> QED
    BY <1>1, Inductive, PTL

(* The unsigned difference in sys_sleep() is the time that has gone by as  *)
(* long as it matters, so that sleep(n) takes n ticks or more.             *)
THEOREM NeverEarlyHolds == Spec => NeverEarly
  <1>1. IInv /\ [Next]_vars =>
          [\A p \in Procs : use[p] = "sleep" /\ pc'[p] = "user" /\ ~killed[p] => owed[p] = 0]_vars
    <2> SUFFICES ASSUME IInv, Next, NEW p \in Procs, use[p] = "sleep", pc'[p] = "user", ~killed[p]
                 PROVE  owed[p] = 0
      BY DEF NeverEarly
    <2>1. CASE pc[p] = "user"
      BY <2>1 DEF IInv, CallInv
    <2>2. CASE pc[p] # "user"
      <3>0. TypeOK /\ PlaceInv
        BY DEF IInv
      <3>1. sys_sleep(p)
        <4>1. ASSUME NEW c \in Bytes \cup {CR, Backspace, KillLine}, consoleintr(c) PROVE FALSE
          BY <2>2, <3>0, <4>1 DEF consoleintr, Typed, Erased, Woken, TypeOK
        <4>2. ASSUME Timer PROVE FALSE
          BY <2>2, <3>0, <4>2 DEF Timer, Woken, TypeOK
        <4>3. ASSUME NEW q \in Procs, Call(q) \/ Exit(q) \/ Ilock(q) \/ Kill(q) PROVE FALSE
          BY <2>2, <3>0, <4>3 DEF Call, Exit, Ilock, Kill, Goto, TypeOK
        <4>4. ASSUME NEW q \in Procs, Iunlock(q) \/ consolewrite(q) \/ consoleread(q) \/ Doze(q) PROVE FALSE
          BY <2>2, <3>0, <4>4 DEF Iunlock, consolewrite, consoleread, Returned, Doze, Goto, TypeOK
        <4>5. ASSUME NEW q \in Procs, sys_sleep(q) PROVE q = p
          BY <2>2, <3>0, <4>5 DEF sys_sleep, Goto, TypeOK
        <4> QED
          BY <4>1, <4>2, <4>3, <4>4, <4>5 DEF Next, Run
      <3>2. CASE pc[p] = "begin"
        <4>1. n[p] \in Nat /\ owed[p] = n[p] /\ (ticks - ticks) % TickMod = 0
          BY <3>2, Sizes DEF IInv, TypeOK, CallInv
        <4> QED
          BY <3>1, <3>2, <4>1 DEF sys_sleep, Elapsed, Goto, IInv, TypeOK
      <3>3. CASE pc[p] = "run"
        <4>1. /\ n[p] \in Nat /\ owed[p] \in Nat
              /\ owed[p] = 0 \/ owed[p] + ((ticks - ticks0[p]) % TickMod) = n[p]
          BY <3>3 DEF IInv, TypeOK, CallInv
        <4>2. (ticks - ticks0[p]) % TickMod \in Nat /\ (ticks - ticks0[p]) % TickMod >= n[p]
          BY <3>1, <3>3, Sizes DEF sys_sleep, Elapsed, Goto, IInv, TypeOK
        <4> QED
          BY <4>1, <4>2
      <3> QED
        BY <3>1, <3>2, <3>3 DEF sys_sleep
    <2> QED
      BY <2>1, <2>2
  <1> QED
    BY <1>1, Inductive, PTL DEF Spec, NeverEarly
-----------------------------------------------------------------------------
(* The i-th byte from r on, and what the two queues of LineQueue are.      *)
Item(i) == At(Add(r, i - 1))
Ready == [i \in 1..Diff(w, r) |-> At(Add(r, i - 1))]
Edit == [i \in 1..Diff(e, w) |-> At(Add(w, i - 1))]
Some == [p \in Procs |-> use[p] = "read" /\ n[p] < target[p]]

LEMMA AddDiff ==
  ASSUME NEW a \in 0..UintMod-1, NEW b \in 0..UintMod-1
  PROVE  a = Add(b, Diff(a, b))
  BY Sizes DEF Add, Diff

LEMMA AddAdd ==
  ASSUME NEW a \in 0..UintMod-1, NEW j \in 0..UintMod-1, NEW k \in 0..UintMod-1
  PROVE  Add(Add(a, j), k) = Add(a, j + k)
  BY Sizes DEF Add

(* Bytes that are less than INPUT_BUF apart are at different places.       *)
LEMMA Places ==
  ASSUME NEW a \in 0..UintMod-1, NEW i \in 0..INPUT_BUF-1, NEW j \in 0..INPUT_BUF-1,
         Add(a, i) % INPUT_BUF = Add(a, j) % INPUT_BUF
  PROVE  i = j
  <1>1. a + i \in Int /\ a + j \in Int /\ INPUT_BUF % INPUT_BUF = 0
    BY Sizes
  <1>2. Add(a, i) % INPUT_BUF = (a + i) % INPUT_BUF /\ Add(a, j) % INPUT_BUF = (a + j) % INPUT_BUF
    <2>1. \A x \in Int : (x % UintMod) % INPUT_BUF = x % INPUT_BUF
      BY Sizes, RangeAssumption, ModMod
    <2> QED
      BY <1>1, <2>1 DEF Add
  <1>3. (((a + i) % INPUT_BUF) + INPUT_BUF - ((a + j) % INPUT_BUF)) % INPUT_BUF = ((a + i) - (a + j)) % INPUT_BUF
    <2>1. \A x \in Int, y \in Int : ((x % INPUT_BUF) + INPUT_BUF - (y % INPUT_BUF)) % INPUT_BUF = (x - y) % INPUT_BUF
      BY <1>1, Sizes, ModDistance
    <2> QED
      BY <1>1, <2>1
  <1>4. (a + i) % INPUT_BUF \in 0..INPUT_BUF-1
    BY <1>1, Sizes, ModRange
  <1>5. ((a + i) - (a + j)) % INPUT_BUF = 0
    BY <1>1, <1>2, <1>3, <1>4, Sizes
  <1>6. (a + i) - (a + j) = i - j
    OBVIOUS
  <1>7. (i - j) % INPUT_BUF = 0
    BY <1>5, <1>6
  <1> QED
    BY <1>7, Sizes

LEMMA Queues ==
  ASSUME IInv
  PROVE  /\ Ready \in Seq(Bytes) /\ Len(Ready) = Diff(w, r)
         /\ Edit \in Seq(Bytes) /\ Len(Edit) = Diff(e, w)
         /\ \A i \in 1..Diff(w, r) : Ready[i] = Item(i)
         /\ \A i \in 1..Diff(e, w) : Edit[i] = Item(Diff(w, r) + i)
  <1>1. /\ r \in 0..UintMod-1 /\ w \in 0..UintMod-1 /\ e \in 0..UintMod-1
        /\ Diff(w, r) \in Nat /\ Diff(e, w) \in Nat /\ Diff(e, r) \in Nat
        /\ Diff(e, r) = Diff(w, r) + Diff(e, w) /\ Diff(e, r) <= INPUT_BUF
    BY RingDiff DEF IInv, RingInv
  <1>2. ASSUME NEW a \in 0..UintMod-1, NEW k \in Int PROVE At(Add(a, k)) \in Bytes
    <2>1. Add(a, k) \in Int
      BY Ranges
    <2>2. Add(a, k) % INPUT_BUF \in 0..INPUT_BUF-1
      BY <2>1, Sizes, ModRange
    <2> QED
      BY <2>2 DEF At, IInv, TypeOK
  <1>3. Ready \in Seq(Bytes) /\ Len(Ready) = Diff(w, r)
    <2>1. \A i \in 1..Diff(w, r) : At(Add(r, i - 1)) \in Bytes
      BY <1>1, <1>2
    <2> QED
      BY <1>1, <2>1 DEF Ready
  <1>4. Edit \in Seq(Bytes) /\ Len(Edit) = Diff(e, w)
    <2>1. \A i \in 1..Diff(e, w) : At(Add(w, i - 1)) \in Bytes
      BY <1>1, <1>2
    <2> QED
      BY <1>1, <2>1 DEF Edit
  <1>5. ASSUME NEW i \in 1..Diff(e, w) PROVE Edit[i] = Item(Diff(w, r) + i)
    <2>1. w = Add(r, Diff(w, r))
      BY <1>1, AddDiff
    <2>2. Add(Add(r, Diff(w, r)), i - 1) = Add(r, Diff(w, r) + (i - 1))
      <3>1. i - 1 \in 0..UintMod-1 /\ Diff(w, r) \in 0..UintMod-1
        BY <1>1, Sizes
      <3> QED
        BY <1>1, <3>1, AddAdd
    <2>3. Diff(w, r) + (i - 1) = (Diff(w, r) + i) - 1
      BY <1>1
    <2>4. Add(w, i - 1) = Add(r, (Diff(w, r) + i) - 1)
      BY <2>1, <2>2, <2>3
    <2>5. Edit[i] = At(Add(w, i - 1))
      BY DEF Edit
    <2>6. Item(Diff(w, r) + i) = At(Add(r, (Diff(w, r) + i) - 1))
      BY DEF Item
    <2> QED
      BY <2>4, <2>5, <2>6
  <1>6. \A i \in 1..Diff(w, r) : Ready[i] = Item(i)
    BY DEF Ready, Item
  <1> QED
    BY <1>3, <1>4, <1>5, <1>6

(* The byte that is typed is behind the others. *)
LEMMA TypedItem ==
  ASSUME IInv, NEW c \in Bytes, Typed(c)
  PROVE  \A i \in 1..Diff(e, r) + 1 : Item(i)' = IF i = Diff(e, r) + 1 THEN c ELSE Item(i)
  <1>1. /\ r \in 0..UintMod-1 /\ e \in 0..UintMod-1
        /\ Diff(e, r) \in Nat /\ Diff(e, r) < INPUT_BUF
    BY RingDiff DEF IInv, Typed
  <1>2. buf' = [buf EXCEPT ![e % INPUT_BUF] = c] /\ r' = r /\ buf \in [0..INPUT_BUF-1 -> Bytes]
    BY DEF Typed, IInv, TypeOK
  <1>3. e = Add(r, Diff(e, r))
    BY <1>1, AddDiff
  <1> SUFFICES ASSUME NEW i \in 1..Diff(e, r) + 1
                PROVE  Item(i)' = IF i = Diff(e, r) + 1 THEN c ELSE Item(i)
    OBVIOUS
  <1>4. Item(i)' = IF i = Diff(e, r) + 1 THEN c ELSE Item(i)
    <2>1. Add(r, i - 1) % INPUT_BUF \in 0..INPUT_BUF-1
      <3>1. Add(r, i - 1) \in Int
        BY <1>1, Ranges
      <3> QED
        BY <3>1, Sizes, ModRange
    <2>2. Add(r, i - 1) % INPUT_BUF = e % INPUT_BUF => i = Diff(e, r) + 1
      <3>1. i - 1 \in 0..INPUT_BUF-1 /\ Diff(e, r) \in 0..INPUT_BUF-1
        BY <1>1, Sizes
      <3>2. Add(r, i - 1) % INPUT_BUF = Add(r, Diff(e, r)) % INPUT_BUF => i - 1 = Diff(e, r)
        BY <1>1, <3>1, Places
      <3> QED
        BY <1>1, <1>3, <3>2
    <2>3. i = Diff(e, r) + 1 => Add(r, i - 1) = e
      BY <1>1, <1>3
    <2>4. Item(i)' = buf'[Add(r, i - 1) % INPUT_BUF] /\ Item(i) = buf[Add(r, i - 1) % INPUT_BUF]
      BY <1>2 DEF Item, At, Add
    <2> QED
      BY <1>2, <2>1, <2>2, <2>3, <2>4
  <1> QED
    BY <1>4
-----------------------------------------------------------------------------
(* consoleintr() with a byte is Key. *)
LEMMA KeyStep ==
  ASSUME IInv, IInv', NEW c \in Bytes, Typed(c), UNCHANGED <<use, locals>>
  PROVE  Queue!Key(c)
  <1> DEFINE done == c \in {Newline, EOF} \/ e' = Add(r, INPUT_BUF)
  <1>1. /\ r \in 0..UintMod-1 /\ w \in 0..UintMod-1 /\ e \in 0..UintMod-1
        /\ Diff(w, r) \in Nat /\ Diff(e, w) \in Nat /\ Diff(e, r) \in Nat
        /\ Diff(e, r) = Diff(w, r) + Diff(e, w)
    BY RingDiff DEF IInv
  <1>2. /\ r' = r /\ e' = Add(e, 1) /\ Diff(e, r) < INPUT_BUF
        /\ w' = IF done THEN e' ELSE w
    BY DEF Typed
  <1>3. e' \in 0..UintMod-1
    BY <1>1, <1>2, Ranges
  <1>4. Diff(e', r) = Diff(e, r) + 1 /\ Diff(e', w) = Diff(e, w) + 1
    BY <1>1, <1>2, Sizes, DiffAdd
  <1>5. Diff(e', e') = 0
    BY <1>3, DiffZero
  <1>6. e' = Add(r, INPUT_BUF) <=> Diff(w, r) + Diff(e, w) + 1 = INPUT_BUF
    <2>1. Diff(r, r) = 0
      BY <1>1, DiffZero
    <2>2. Diff(Add(r, INPUT_BUF), r) = INPUT_BUF
      BY <1>1, <2>1, Sizes, DiffAdd
    <2>3. e' = Add(r, Diff(e', r))
      BY <1>1, <1>3, AddDiff
    <2> QED
      BY <1>1, <1>4, <2>2, <2>3
  <1>7. /\ Ready \in Seq(Bytes) /\ Len(Ready) = Diff(w, r)
        /\ Edit \in Seq(Bytes) /\ Len(Edit) = Diff(e, w)
        /\ \A i \in 1..Diff(w, r) : Ready[i] = Item(i)
        /\ \A i \in 1..Diff(e, w) : Edit[i] = Item(Diff(w, r) + i)
    BY Queues
  <1>8. (/\ Ready \in Seq(Bytes) /\ Len(Ready) = Diff(w, r)
         /\ Edit \in Seq(Bytes) /\ Len(Edit) = Diff(e, w)
         /\ \A i \in 1..Diff(w, r) : Ready[i] = Item(i)
         /\ \A i \in 1..Diff(e, w) : Edit[i] = Item(Diff(w, r) + i))'
    BY Queues, PTL
  <1>9. \A i \in 1..Diff(e, r) + 1 : Item(i)' = IF i = Diff(e, r) + 1 THEN c ELSE Item(i)
    BY TypedItem
  <1> DEFINE line == Append(Edit, c)
  <1>10. /\ line \in Seq(Bytes) /\ Len(line) = Diff(e, w) + 1
         /\ \A i \in 1..Diff(e, w) + 1 : line[i] = IF i = Diff(e, w) + 1 THEN c ELSE Edit[i]
    BY <1>1, <1>7, AppendProperties
  <1> HIDE DEF line
  <1>11. /\ Ready \o line \in Seq(Bytes) /\ Len(Ready \o line) = Diff(e, r) + 1
         /\ \A i \in 1..Diff(e, r) + 1 :
               (Ready \o line)[i] = IF i <= Diff(w, r) THEN Ready[i] ELSE line[i - Diff(w, r)]
    <2>1. /\ Ready \o line \in Seq(Bytes) /\ Len(Ready \o line) = Len(Ready) + Len(line)
          /\ \A i \in 1..Len(Ready) + Len(line) :
               (Ready \o line)[i] = IF i <= Len(Ready) THEN Ready[i] ELSE line[i - Len(Ready)]
      BY <1>7, <1>10, ConcatProperties
    <2>2. Len(Ready) = Diff(w, r) /\ Len(Ready) + Len(line) = Diff(e, r) + 1
      BY <1>1, <1>7, <1>10
    <2> QED
      BY <2>1, <2>2
  <1>12. \A i \in 1..Diff(e, r) + 1 : (Ready \o line)[i] = Item(i)'
    <2> SUFFICES ASSUME NEW i \in 1..Diff(e, r) + 1 PROVE (Ready \o line)[i] = Item(i)'
      OBVIOUS
    <2>1. CASE i <= Diff(w, r)
      BY <1>1, <1>7, <1>9, <1>11, <2>1
    <2>2. CASE i > Diff(w, r) /\ i < Diff(e, r) + 1
      <3>1. PICK j \in 1..Diff(e, w) : i = Diff(w, r) + j
        <4>1. i - Diff(w, r) \in 1..Diff(e, w) /\ i = Diff(w, r) + (i - Diff(w, r))
          BY <1>1, <2>2
        <4> QED
          BY <4>1
      <3>2. ~(i <= Diff(w, r)) /\ i - Diff(w, r) = j
        BY <1>1, <3>1
      <3>3. (Ready \o line)[i] = line[j]
        BY <1>11, <3>2
      <3>4. j \in 1..Diff(e, w) + 1 /\ j # Diff(e, w) + 1
        BY <1>1
      <3>5. line[j] = Edit[j]
        BY <1>10, <3>4
      <3>6. Edit[j] = Item(i)
        BY <1>7, <3>1
      <3>7. i # Diff(e, r) + 1
        BY <1>1, <2>2
      <3>8. Item(i)' = Item(i)
        BY <1>9, <3>7
      <3> QED
        BY <3>3, <3>5, <3>6, <3>8
    <2>3. CASE i = Diff(e, r) + 1
      <3>1. /\ ~(i <= Diff(w, r)) /\ i - Diff(w, r) = Diff(e, w) + 1
            /\ Diff(e, w) + 1 \in 1..Diff(e, w) + 1
        BY <1>1, <2>3
      <3>2. (Ready \o line)[i] = line[Diff(e, w) + 1]
        BY <1>11, <3>1
      <3>3. line[Diff(e, w) + 1] = c
        BY <1>10, <3>1
      <3>4. Item(i)' = c
        BY <1>9, <2>3
      <3> QED
        BY <3>2, <3>3, <3>4
    <2>4. i <= Diff(w, r) \/ (i > Diff(w, r) /\ i < Diff(e, r) + 1) \/ i = Diff(e, r) + 1
      BY <1>1
    <2> QED
      BY <2>1, <2>2, <2>3, <2>4
  <1>13. Some' = Some
    BY DEF Some, locals
  <1>14. CASE done
    <2>1. Diff(w, r)' = Diff(e, r) + 1 /\ Diff(e, w)' = 0
      BY <1>2, <1>4, <1>5, <1>14 DEF Diff
    <2>2. Ready' = Ready \o line
      <3>1. \A i \in 1..Diff(e, r) + 1 : Ready'[i] = (Ready \o line)[i]
        BY <1>8, <1>12, <2>1
      <3>2. Ready' \in Seq(Bytes) /\ Len(Ready') = Diff(e, r) + 1
        BY <1>8, <2>1
      <3> QED
        BY <1>11, <3>1, <3>2, SeqEqual
    <2>3. Edit' = <<>>
      BY <1>8, <2>1
    <2>4. c \in {Newline, EOF} \/ Len(Ready) + Len(line) = INPUT_BUF
      BY <1>1, <1>6, <1>7, <1>10, <1>14
    <2>5. Len(Ready) + Len(Edit) < INPUT_BUF
      BY <1>1, <1>2, <1>7
    <2> QED
      BY <1>13, <2>2, <2>3, <2>4, <2>5 DEF Queue!Key, line, Ready, Edit, Some
  <1>15. CASE ~done
    <2>1. Diff(w, r)' = Diff(w, r) /\ Diff(e, w)' = Diff(e, w) + 1
      BY <1>2, <1>4, <1>15 DEF Diff
    <2>2. Ready' = Ready
      <3>1. ASSUME NEW i \in 1..Diff(w, r) PROVE Ready'[i] = Ready[i]
        <4>1. Ready'[i] = Item(i)' /\ Ready[i] = Item(i)
          BY <1>7, <1>8, <2>1
        <4> QED
          BY <1>1, <1>9, <4>1
      <3>2. Ready' \in Seq(Bytes) /\ Len(Ready') = Diff(w, r)
        BY <1>8, <2>1
      <3> QED
        BY <1>7, <3>1, <3>2, SeqEqual
    <2>3. Edit' = line
      <3>1. ASSUME NEW i \in 1..Diff(e, w) + 1 PROVE Edit'[i] = line[i]
        <4>1. Diff(w, r) + i \in 1..Diff(e, r) + 1
          BY <1>1
        <4>2. Edit'[i] = Item(Diff(w, r) + i)'
          BY <1>8, <2>1
        <4>3. \A j : j = Diff(w, r) + i => Item(j)' = Item(Diff(w, r) + i)'
          BY <2>1 DEF Item
        <4>4. Edit'[i] = IF Diff(w, r) + i = Diff(e, r) + 1 THEN c ELSE Item(Diff(w, r) + i)
          BY <1>9, <4>1, <4>2, <4>3
        <4>5. CASE i = Diff(e, w) + 1
          BY <1>1, <1>10, <4>4, <4>5
        <4>6. CASE i # Diff(e, w) + 1
          <5>1. i \in 1..Diff(e, w) /\ Diff(w, r) + i # Diff(e, r) + 1
            BY <1>1, <4>6
          <5>2. line[i] = Edit[i] /\ Edit[i] = Item(Diff(w, r) + i)
            BY <1>7, <1>10, <4>6, <5>1
          <5> QED
            BY <4>4, <5>1, <5>2
        <4> QED
          BY <4>5, <4>6
      <3> QED
        BY <1>1, <1>8, <1>10, <2>1, <3>1, SeqEqual
    <2>4. ~(c \in {Newline, EOF} \/ Len(Ready) + Len(line) = INPUT_BUF)
      BY <1>1, <1>6, <1>7, <1>10, <1>15
    <2>5. Len(Ready) + Len(Edit) < INPUT_BUF
      BY <1>1, <1>2, <1>7
    <2> QED
      BY <1>13, <2>2, <2>3, <2>4, <2>5 DEF Queue!Key, line, Ready, Edit, Some
  <1> QED
    BY <1>14, <1>15
(* A backspace or ^U shortens the line that is edited. *)
LEMMA EraseStep ==
  ASSUME IInv, IInv', NEW k \in Nat, Erased(k), UNCHANGED <<use, locals>>
  PROVE  Queue!Erase
  <1>1. /\ r \in 0..UintMod-1 /\ w \in 0..UintMod-1 /\ e \in 0..UintMod-1
        /\ Diff(w, r) \in Nat /\ Diff(e, w) \in Nat
    BY RingDiff DEF IInv
  <1>2. UNCHANGED <<buf, r, w>> /\ e' = Diff(e, k) /\ k <= Diff(e, w)
    BY DEF Erased
  <1>3. Diff(e', w) = Diff(e, w) - k
    BY <1>1, <1>2, DiffSub
  <1>4. Diff(e, w)' = Diff(e, w) - k
    BY <1>2, <1>3 DEF Diff
  <1>5. Ready' = Ready /\ Some' = Some
    BY <1>2 DEF Ready, Some, Diff, Add, At, locals
  <1>6. Edit \in Seq(Bytes) /\ Len(Edit) = Diff(e, w)
    BY Queues
  <1>7. (Edit \in Seq(Bytes) /\ Len(Edit) = Diff(e, w))'
    BY Queues, PTL
  <1>8. ASSUME NEW i \in 1..(Diff(e, w) - k) PROVE Edit'[i] = Edit[i]
    <2>1. i \in 1..Diff(e, w)
      BY <1>1, <1>2
    <2>2. Edit[i] = At(Add(w, i - 1))
      BY <2>1 DEF Edit
    <2>3. Edit'[i] = At(Add(w, i - 1))'
      BY <1>4 DEF Edit
    <2>4. At(Add(w, i - 1))' = At(Add(w, i - 1))
      BY <1>2 DEF At, Add
    <2> QED
      BY <2>2, <2>3, <2>4
  <1>9. Edit' = SubSeq(Edit, 1, Diff(e, w) - k)
    <2>1. /\ SubSeq(Edit, 1, Diff(e, w) - k) \in Seq(Bytes)
          /\ Len(SubSeq(Edit, 1, Diff(e, w) - k)) = Diff(e, w) - k
          /\ \A i \in 1..(Diff(e, w) - k) : SubSeq(Edit, 1, Diff(e, w) - k)[i] = Edit[i]
      BY <1>1, <1>2, <1>6
    <2>2. Edit' \in Seq(Bytes) /\ Len(Edit') = Diff(e, w) - k
      BY <1>4, <1>7
    <2> QED
      BY <1>8, <2>1, <2>2, SeqEqual
  <1>10. Diff(e, w) - k \in 0..Len(Edit)
    BY <1>1, <1>2, <1>6
  <1> QED
    BY <1>5, <1>9, <1>10 DEF Queue!Erase, Ready, Edit, Some

(* What consoleread() takes is the first k bytes that are ready.           *)
LEMMA Taken ==
  ASSUME IInv, IInv', NEW k \in Nat, k <= Diff(w, r), r' = Add(r, k), UNCHANGED <<buf, w, e>>
  PROVE  /\ Ready' = SubSeq(Ready, k + 1, Len(Ready))
         /\ Edit' = Edit
  <1>1. r \in 0..UintMod-1 /\ w \in 0..UintMod-1 /\ Diff(w, r) \in Nat /\ Diff(w, r) < UintMod
    BY RingDiff, Ranges, Sizes DEF IInv
  <1>2. Diff(w, r)' = Diff(w, r) - k
    <2>1. Diff(w, Add(r, k)) = Diff(w, r) - k
      BY <1>1, DiffSub
    <2> QED
      BY <2>1 DEF Diff
  <1>3. Ready \in Seq(Bytes) /\ Len(Ready) = Diff(w, r)
    BY Queues
  <1>4. (Ready \in Seq(Bytes) /\ Len(Ready) = Diff(w, r))'
    BY Queues, PTL
  <1>5. ASSUME NEW i \in 1..(Diff(w, r) - k) PROVE Ready'[i] = Ready[k + i]
    <2>1. k + i \in 1..Diff(w, r)
      BY <1>1
    <2>2. Ready[k + i] = At(Add(r, (k + i) - 1))
      BY <2>1 DEF Ready
    <2>3. Ready'[i] = At(Add(r, i - 1))'
      BY <1>2 DEF Ready
    <2>4. Add(Add(r, k), i - 1) = Add(r, k + (i - 1))
      <3>1. k \in 0..UintMod-1 /\ i - 1 \in 0..UintMod-1
        BY <1>1, Sizes
      <3> QED
        BY <1>1, <3>1, AddAdd
    <2>5. k + (i - 1) = (k + i) - 1
      BY <1>1
    <2>6. At(Add(r, i - 1))' = At(Add(Add(r, k), i - 1))
      BY DEF At, Add
    <2> QED
      BY <2>2, <2>3, <2>4, <2>5, <2>6
  <1>6. Ready' = SubSeq(Ready, k + 1, Len(Ready))
    <2>1. /\ SubSeq(Ready, k + 1, Diff(w, r)) \in Seq(Bytes)
          /\ Len(SubSeq(Ready, k + 1, Diff(w, r))) = Diff(w, r) - k
          /\ \A i \in 1..(Diff(w, r) - k) : SubSeq(Ready, k + 1, Diff(w, r))[i] = Ready[k + i]
      BY <1>1, <1>3, SMTT(40)
    <2>2. Ready' \in Seq(Bytes) /\ Len(Ready') = Diff(w, r) - k
      BY <1>2, <1>4
    <2> QED
      BY <1>3, <1>5, <2>1, <2>2, SeqEqual
  <1> QED
    BY <1>6 DEF Edit, Diff, Add, At
(* Which calls have been given bytes, after a step of p that ends its call *)
(* or begins one.                                                          *)
LEMMA NoneGiven ==
  ASSUME NEW p \in Procs, use' = use, use[p] = "read" => ~(n'[p] < target'[p]),
         \A q \in Procs \ {p} : n'[q] = n[q] /\ target'[q] = target[q]
  PROVE  Some' = [Some EXCEPT ![p] = FALSE]
  <1>1. Some'[p] = FALSE
    BY DEF Some
  <1>2. \A q \in Procs \ {p} : Some'[q] = Some[q]
    BY DEF Some
  <1>3. Some = [q \in Procs |-> Some[q]] /\ Some' = [q \in Procs |-> Some'[q]]
    BY DEF Some
  <1>4. [Some EXCEPT ![p] = FALSE] = [q \in Procs |-> IF q = p THEN FALSE ELSE Some[q]]
    BY <1>3
  <1>5. Some' = [q \in Procs |-> IF q = p THEN FALSE ELSE Some[q]]
    BY <1>1, <1>2, <1>3
  <1> QED
    BY <1>4, <1>5

(* consoleread() is Take, or Return when it takes nothing.                 *)
LEMMA TakeStep ==
  ASSUME IInv, IInv', NEW p \in Procs, consoleread(p)
  PROVE  Queue!Take(p) \/ Queue!Return(p) \/ UNCHANGED <<Ready, Edit, Some>>
  <1> DEFINE k == Seen(p) - PutBack(p)
  <1>1. /\ Seen(p) \in Nat /\ Seen(p) <= n[p] /\ Seen(p) <= Diff(w, r)
        /\ \A i \in 1..Seen(p)-1 : ~Ends(i)
        /\ PutBack(p) \in {0, 1} /\ PutBack(p) <= Seen(p)
    BY SeenRange DEF IInv
  <1>2. /\ Diff(w, r) \in Nat
        /\ n \in [Procs -> Nat] /\ target \in [Procs -> Nat] /\ n[p] <= target[p] /\ use[p] = "read"
    BY RingDiff DEF IInv, TypeOK, CallInv, consoleread
  <1>3. k \in Nat /\ k <= Diff(w, r) /\ k <= Seen(p) /\ (PutBack(p) = 0 => k = Seen(p)) /\ (PutBack(p) = 1 => k < Seen(p))
    BY <1>1, <1>2
  <1>4. r' = Add(r, k) /\ UNCHANGED <<buf, w, e, use>>
    BY DEF consoleread
  <1> HIDE DEF k
  <1>5. Ready' = SubSeq(Ready, k + 1, Len(Ready)) /\ Edit' = Edit
    BY <1>3, <1>4, Taken
  <1>6. \/ n' = [n EXCEPT ![p] = 0] /\ target' = [target EXCEPT ![p] = 0]
        \/ /\ ~(Seen(p) > 0 /\ Ends(Seen(p)))
           /\ n' = [n EXCEPT ![p] = n[p] - Seen(p)] /\ UNCHANGED target
    BY DEF consoleread, Returned
  <1>7. /\ Ready \in Seq(Bytes) /\ Len(Ready) = Diff(w, r)
        /\ \A i \in 1..Diff(w, r) : Ready[i] = Item(i)
    BY Queues
  <1>8. \A i \in 1..Diff(w, r) : Ends(i) <=> Ready[i] \in {Newline, EOF}
    BY <1>7 DEF Ends, Item
  <1>9. Some' \in {Some, [Some EXCEPT ![p] = ~@]}
    <2>1. \A q \in Procs \ {p} : n'[q] = n[q] /\ target'[q] = target[q]
      BY <1>2, <1>6
    <2>2. \A q \in Procs \ {p} : Some'[q] = Some[q]
      BY <1>4, <2>1 DEF Some
    <2>3. Some[p] \in BOOLEAN /\ Some'[p] \in BOOLEAN /\ Some = [q \in Procs |-> Some[q]] /\ Some' = [q \in Procs |-> Some'[q]]
      BY DEF Some
    <2>4. CASE Some'[p] = Some[p]
      <3>1. \A q \in Procs : Some'[q] = Some[q]
        BY <2>2, <2>4
      <3> QED
        BY <2>3, <3>1, Zenon
    <2>5. CASE Some'[p] = ~Some[p]
      <3>1. [Some EXCEPT ![p] = ~Some[p]] = [q \in Procs |-> IF q = p THEN ~Some[p] ELSE Some[q]]
        BY <2>3
      <3>2. Some' = [q \in Procs |-> IF q = p THEN ~Some[p] ELSE Some[q]]
        BY <2>2, <2>3, <2>5
      <3> QED
        BY <3>1, <3>2
    <2> QED
      BY <2>3, <2>4, <2>5
  <1>10. CASE k = 0
    <2>1. Ready' = Ready
      BY <1>5, <1>7, <1>10
    <2>2. CASE n' = [n EXCEPT ![p] = 0] /\ target' = [target EXCEPT ![p] = 0]
      <3>0. /\ ~(n'[p] < target'[p])
            /\ \A q \in Procs \ {p} : n'[q] = n[q] /\ target'[q] = target[q]
        BY <1>2, <2>2
      <3>1. Some' = [Some EXCEPT ![p] = FALSE]
        BY <1>4, <3>0, NoneGiven
      <3> QED
        BY <1>5, <2>1, <3>1 DEF Queue!Return, Ready, Edit, Some
    <2>3. CASE /\ ~(Seen(p) > 0 /\ Ends(Seen(p)))
               /\ n' = [n EXCEPT ![p] = n[p] - Seen(p)] /\ UNCHANGED target
      <3>1. PutBack(p) = 0
        BY <2>3 DEF PutBack, Ends
      <3>2. Seen(p) = 0
        BY <1>3, <1>10, <3>1
      <3>3. n' = n
        BY <1>2, <2>3, <3>2
      <3> QED
        BY <1>4, <1>5, <2>1, <2>3, <3>3 DEF Some
    <2> QED
      BY <1>6, <2>2, <2>3
  <1>11. CASE k > 0
    <2>1. k \in 1..Len(Ready)
      BY <1>3, <1>7, <1>11
    <2>2. \A i \in 1..k-1 : Ready[i] \notin {Newline, EOF}
      <3>1. ASSUME NEW i \in 1..k-1 PROVE Ready[i] \notin {Newline, EOF}
        <4>1. i \in 1..Seen(p)-1 /\ i \in 1..Diff(w, r)
          BY <1>1, <1>2, <1>3
        <4> QED
          BY <1>1, <1>8, <4>1
      <3> QED
        BY <3>1
    <2>3. Ready[k] \in {Newline, EOF} => k = Seen(p) /\ Ends(Seen(p)) /\ PutBack(p) = 0
      <3>1. Ready[k] \in {Newline, EOF} <=> Ends(k)
        BY <1>7, <1>8, <2>1
      <3>2. PutBack(p) = 1 => k \in 1..Seen(p)-1
        BY <1>1, <1>3, <1>11
      <3> QED
        BY <1>1, <1>3, <3>1, <3>2
    <2>4. Ready[k] = EOF => k = 1 /\ ~Some[p]
      <3> SUFFICES ASSUME Ready[k] = EOF PROVE k = 1 /\ ~Some[p]
        OBVIOUS
      <3>1. k = Seen(p) /\ PutBack(p) = 0
        BY <2>3
      <3>2. At(Add(r, Seen(p) - 1)) = EOF
        BY <1>7, <2>1, <3>1 DEF Item
      <3>3. n[p] - (Seen(p) - 1) >= target[p]
        BY <1>1, <1>2, <1>11, <3>1, <3>2 DEF PutBack
      <3>4. Seen(p) = 1 /\ ~(n[p] < target[p])
        BY <1>1, <1>2, <1>11, <3>1, <3>3
      <3> QED
        BY <3>1, <3>4 DEF Some
    <2>5. Ready[k] \in {Newline, EOF} => ~Some'[p]
      <3> SUFFICES ASSUME Ready[k] \in {Newline, EOF} PROVE ~Some'[p]
        OBVIOUS
      <3>1. n' = [n EXCEPT ![p] = 0] /\ target' = [target EXCEPT ![p] = 0]
        BY <1>3, <1>6, <1>11, <2>3
      <3>2. n'[p] = 0 /\ target'[p] = 0
        BY <1>2, <3>1
      <3>3. ~(n'[p] < target'[p])
        BY <3>2
      <3> QED
        BY <3>3, Zenon DEF Some
    <2> QED
      BY <1>5, <1>9, <2>1, <2>2, <2>4, <2>5 DEF Queue!Take, Ready, Edit, Some
  <1> QED
    BY <1>3, <1>10, <1>11

(* Calls begin and end without bytes. *)
LEMMA ReturnStep ==
  ASSUME TypeOK, NEW p \in Procs, UNCHANGED <<ring, use>>,
         use[p] = "read" => n'[p] >= target'[p],
         \A q \in Procs \ {p} : n'[q] = n[q] /\ target'[q] = target[q],
         n' \in [Procs -> Nat], target' \in [Procs -> Nat]
  PROVE  Queue!Return(p)
  <1>1. Some' = [Some EXCEPT ![p] = FALSE]
    <2>1. use[p] = "read" => ~(n'[p] < target'[p])
      OBVIOUS
    <2> QED
      BY <2>1, NoneGiven
  <1>2. Ready' = Ready /\ Edit' = Edit
    BY DEF ring, Ready, Edit, Diff, Add, At
  <1> QED
    BY <1>1, <1>2 DEF Queue!Return, Ready, Edit, Some

LEMMA SameQueues ==
  ASSUME UNCHANGED <<ring, use, n, target>> PROVE UNCHANGED <<Ready, Edit, Some>>
  BY DEF ring, Ready, Edit, Some, Diff, Add, At

(* The ring of input implements the line discipline LineQueue: finished    *)
(* bytes are delivered once and in order, at most a line per call, only    *)
(* unfinished ones are erased, and an end of file has a call of its own,   *)
(* for every size of the ring and wherever its indices wrap.               *)
THEOREM Refinement == Spec => ImplementsLineQueue
  <1>1. Init => Queue!QInit
    <2> SUFFICES ASSUME Init PROVE Queue!QInit
      OBVIOUS
    <2>1. Diff(0, 0) = 0
      BY Sizes, DiffZero
    <2>2. Ready = <<>> /\ Edit = <<>>
      BY <2>1 DEF Init, Ready, Edit
    <2>3. Some = [p \in Procs |-> FALSE]
      <3>1. \A p \in Procs : ~(n[p] < target[p])
        BY DEF Init
      <3> QED
        BY <3>1, Zenon DEF Some
    <2> QED
      BY <2>2, <2>3 DEF Queue!QInit, Ready, Edit, Some
  <1>2. IInv /\ IInv' /\ [Next]_vars => [Queue!QNext]_<<Ready, Edit, Some>>
    <2> SUFFICES ASSUME IInv, IInv', [Next]_vars PROVE [Queue!QNext]_<<Ready, Edit, Some>>
      OBVIOUS
    <2>1. CASE UNCHANGED <<ring, use, n, target>>
      BY <2>1, SameQueues
    <2>2. ASSUME NEW c \in Bytes \cup {CR, Backspace, KillLine}, consoleintr(c) PROVE Queue!QNext
      <3>1. /\ UNCHANGED <<use, locals>>
            /\ \/ \E b \in Bytes : Typed(b)
               \/ \E k \in Nat : Erased(k)
        <4>1. Diff(e, w) \in Nat
          BY RingDiff DEF IInv
        <4> QED
          BY <2>2, <4>1 DEF consoleintr, Bytes
      <3> QED
        BY <3>1, KeyStep, EraseStep DEF Queue!QNext
    <2>3. ASSUME NEW p \in Procs, Call(p) \/ consolewrite(p) \/ sys_sleep(p) PROVE Queue!QNext
      <3>1. UNCHANGED <<ring, use>>
        BY <2>3 DEF Call, consolewrite, sys_sleep
      <3>2. use[p] = "read" => n'[p] >= target'[p]
        BY <2>3 DEF Call, consolewrite, sys_sleep, IInv, TypeOK
      <3>3. \A q \in Procs \ {p} : n'[q] = n[q] /\ target'[q] = target[q]
        BY <2>3 DEF Call, consolewrite, Returned, sys_sleep, IInv, TypeOK
      <3>4. n' \in [Procs -> Nat] /\ target' \in [Procs -> Nat]
        BY DEF IInv, TypeOK
      <3>5. Queue!Return(p)
        BY <3>1, <3>2, <3>3, <3>4, ReturnStep DEF IInv
      <3> QED
        BY <3>5 DEF Queue!QNext
    <2>4. ASSUME NEW p \in Procs, consoleread(p) PROVE [Queue!QNext]_<<Ready, Edit, Some>>
      BY <2>4, TakeStep DEF Queue!QNext
    <2>5. Timer \/ UNCHANGED vars => UNCHANGED <<ring, use, n, target>>
      BY DEF Timer, vars, ring, locals
    <2>6. \A p \in Procs :
            Exit(p) \/ Ilock(p) \/ Iunlock(p) \/ Doze(p) \/ Kill(p) => UNCHANGED <<ring, use, n, target>>
      BY DEF Exit, Ilock, Iunlock, Doze, Kill, locals
    <2> QED
      BY <2>1, <2>2, <2>3, <2>4, <2>5, <2>6 DEF Next, Run
  <1> QED
    BY <1>1, <1>2, Inductive, PTL DEF Spec, ImplementsLineQueue, Queue!QSpec, Ready, Edit, Some
=============================================================================
