----------------------------- MODULE FilesProofs -----------------------------
(***************************************************************************)
(* The counts of the file system, for any number of processes, inodes,     *)
(* names, files and descriptors: every reference to an inode and to an     *)
(* open file is counted, the links on disk cover every name, and no name   *)
(* leads to an inode that was freed.  So what programs see is the store    *)
(* that FileStore describes.                                               *)
(***************************************************************************)
EXTENDS Files, FiniteSetTheorems, WellFoundedInduction, TLAPS

Putting == {"put", "free", "deref"}

(* Where a process is, or will be when iput() returns. *)
Where(p) == IF pc[p] \in Putting THEN ret[p] ELSE pc[p]

(* Where dp and ip are locked, and where they are inodes. *)
HoldsDp == {"new", "victim", "linkbad", "full"}
HoldsIp == {"made", "drop"}
HasDp == {"walk", "parent"} \cup HoldsDp
HasIp == {"new", "exists", "target", "old", "victim", "bad", "linkbad", "linked"} \cup HoldsIp
Back == {"idle", "none", "exists", "target", "old", "bad", "linked", "made", "drop",
         "linkbad", "full", "exit"}

(* sys_link() has counted a link that it has not made. *)
Linking(p) == call[p] = "link2" /\ Where(p) \in {"walk", "parent"}

(* The locals fit the place. *)
PlaceOf(p) ==
    /\ put[p] # None <=> pc[p] \in Putting
    /\ pc[p] \in Putting => ret[p] \in Back
    /\ dp[p] # None <=> Where(p) \in HasDp
    /\ ip[p] # None <=> Where(p) \in HasIp \/ Linking(p)
    /\ Where(p) \in HasDp => name[p] \in Names
    /\ Where(p) = "new" => call[p] \in {"creat", "mkdir"}
    /\ Where(p) \in {"linkbad", "bad"} => call[p] = "link2"
    /\ cwd[p] = None <=> Where(p) = "none"
    /\ Where(p) = "none" => \A fd \in FDs : ofile[p][fd] = None

PlaceInv == \A p \in Procs : PlaceOf(p)

(* Who has an inode's lock. *)
Holds(p, i) ==
    \/ i = dp[p] /\ Where(p) \in HoldsDp
    \/ i = ip[p] /\ Where(p) \in HoldsIp
    \/ i = put[p] /\ pc[p] = "free"

LockOf(p) ==
    /\ \A i \in Inums : ic[i].lock = p <=> Holds(p, i)
    /\ pc[p] = "free" /\ Where(p) \in HoldsDp => dp[p] # put[p]
    /\ pc[p] = "free" /\ Where(p) \in HoldsIp => ip[p] # put[p]

LockInv == \A p \in Procs : LockOf(p)

(* What is referred to exists. *)
Live(i) == dinode[i].type # "free"
IsDir(i) == dinode[i].type = "DIR"

LiveOf(p) ==
    /\ cwd[p] # None => IsDir(cwd[p])
    /\ dp[p] # None => IsDir(dp[p])
    /\ ip[p] # None => Live(ip[p])
    /\ Linking(p) => ~IsDir(ip[p])
    /\ pc[p] \in {"put", "free"} => Live(put[p])

OpenLive ==
    \A f \in Handles : file[f].type = "INODE" => file[f].ip \in Inums /\ Live(file[f].ip)

LiveInv == IsDir(root) /\ (\A p \in Procs : LiveOf(p)) /\ OpenLive

(* The copy in memory of an inode is true, and that of a locked one is     *)
(* there.                                                                  *)
CacheOf(i) ==
    /\ ic[i].ref > 0 /\ ic[i].valid =>
          Live(i) /\ ic[i].type = dinode[i].type /\ ic[i].nlink = dinode[i].nlink
    /\ ic[i].lock # NoProc => ic[i].valid

CacheInv == \A i \in Inums : CacheOf(i)

(* The disk: only directories have entries, and a free inode no links.     *)
DiskInv ==
    \A i \in Inums :
        /\ dinode[i].type # "DIR" => entry[i] = NoEntries
        /\ dinode[i].type = "free" => dinode[i].nlink = 0

(* nlink covers also the links that sys_link() is about to make, and those *)
(* that sys_unlink() has not yet counted down.                             *)
Entries(i) == {e \in Inums \X Names : entry[e[1]][e[2]] = i}
ChildDirs(i) == {n \in Names : entry[i][n] # None /\ IsDir(entry[i][n])}
Pending(i) ==
    {p \in Procs : ip[p] = i /\ (Linking(p) \/ Where(p) \in {"linkbad", "bad", "drop"})}

LinksInv ==
    \A i \in Inums :
        dinode[i].nlink >= Cardinality(Entries(i)) + Cardinality(ChildDirs(i)) + Cardinality(Pending(i))

(* No open file, no process works in it or looks a name up in it. *)
Unused(i) ==
    /\ i # root
    /\ \A p \in Procs : cwd[p] # i /\ dp[p] # i
    /\ \A f \in Handles : file[f].type = "INODE" => file[f].ip # i

(* The inode that create() has allocated is nobody else's, and the name it *)
(* will have is still free; the entry that sys_unlink() has found stays.   *)
NewOf(p) ==
    /\ pc[p] = "new" =>
          /\ Unused(ip[p])
          /\ \A q \in Procs : /\ q # p => ip[q] # ip[p]
                              /\ put[q] = ip[p] => pc[q] = "deref"
          /\ dinode[ip[p]] = [type |-> IF call[p] = "creat" THEN "FILE" ELSE "DIR", nlink |-> 0]
          /\ entry[ip[p]] = NoEntries
          /\ entry[dp[p]][name[p]] = None
    /\ pc[p] = "victim" => entry[dp[p]][name[p]] = ip[p]

NewInv == \A p \in Procs : NewOf(p)

(* iput() frees only what nobody else refers to. *)
FreeOf(p) ==
    pc[p] = "free" =>
        /\ dinode[put[p]].nlink = 0
        /\ Unused(put[p])
        /\ \A q \in Procs : ip[q] # put[p] /\ (q # p => put[q] # put[p])

FreeingInv == \A p \in Procs : FreeOf(p)

(* Open files: those of sys_pipe() are its own until they have             *)
(* descriptors, and each end of the pipe is one file or one pipeclose().   *)
IsPipe(f) == file[f].type = "PIPE"
Pipes == {"pipe1", "piped", "undo", "undo1", "rclose", "wclose"}
Closing == {"rclose", "wclose"}

(* Where a process is in pipe(), or will be when pipeclose() returns. *)
Stage(p) == IF pc[p] \in Closing THEN ret[p] ELSE pc[p]

Staged(p) ==
    /\ pc[p] \in Closing => ret[p] \in {"idle", "exit", "undo1"}
    /\ rf[p] # None <=> Stage(p) \in {"pipe1", "piped", "undo"}
    /\ wf[p] # None => Stage(p) \in {"piped", "undo", "undo1"}
    /\ Stage(p) \in {"piped", "undo1"} => wf[p] # None

PipeOf(p) ==
    /\ Staged(p)
    /\ rf[p] # None => file[rf[p]].type # "INODE"
    /\ wf[p] # None => file[wf[p]].type # "INODE"
    /\ pc[p] = "pipe1" => file[rf[p]].type = "NONE"
    /\ pc[p] = "piped" => IsPipe(rf[p]) /\ IsPipe(wf[p])

Apart ==
    \A p, q \in Procs :
        /\ rf[p] # None => rf[p] # wf[q] /\ (q # p => rf[p] # rf[q])
        /\ wf[p] # None /\ q # p => wf[p] # wf[q]

EndsOne ==
    /\ \A f, g \in Handles : IsPipe(f) /\ IsPipe(g) /\ file[f].writable = file[g].writable => f = g
    /\ \A p, q \in Procs : pc[p] \in Closing /\ pc[q] = pc[p] => q = p
    /\ \A p \in Procs, f \in Handles :
          pc[p] \in Closing /\ IsPipe(f) => file[f].writable # (pc[p] = "wclose")

HasType(f) == file[f].type # "NONE"

TableInv ==
    /\ \A f \in Handles : file[f].ref = 0 => ~HasType(f)
    /\ \A p \in Procs, fd \in FDs : ofile[p][fd] # None => HasType(ofile[p][fd])
    /\ (\A p \in Procs : PipeOf(p)) /\ Apart /\ EndsOne

IInv ==
    /\ FilesInv /\ NoPanic /\ PlaceInv /\ LockInv /\ LiveInv /\ CacheInv /\ DiskInv
    /\ LinksInv /\ NewInv /\ FreeingInv /\ TableInv

-----------------------------------------------------------------------------
(* The constants. *)
LEMMA Constants ==
    /\ Inums \subseteq Nat \ {0} /\ root \in Inums /\ sub \in Inums /\ root # sub /\ None \notin Inums
    /\ None \notin Handles /\ Handles \subseteq Nat /\ FDs \subseteq Nat
    /\ IsFiniteSet(Procs) /\ IsFiniteSet(Inums) /\ IsFiniteSet(Names)
    /\ IsFiniteSet(Handles) /\ IsFiniteSet(FDs) /\ NoProc \notin Procs
    /\ Putting \cap {"none", "idle"} = {}
  <1>1. IsFiniteSet(1..NFILE) /\ IsFiniteSet(1..NOFILE)
    BY FilesAssumption, FS_Interval
  <1> QED
    BY <1>1, FilesAssumption DEF root, sub, None, Handles, FDs, Putting

(* The least of some numbers. *)
LEMMA LeastOf ==
  ASSUME NEW S \in SUBSET Nat, NEW R, \A x \in Nat, y \in Nat : y < x => <<y, x>> \in R,
         \E x \in S : \A y \in S : ~(<<y, x>> \in R)
  PROVE  Min(S) \in S
  <1>1. PICK x \in S : \A y \in S : ~(<<y, x>> \in R)
    OBVIOUS
  <1>2. ASSUME NEW y \in S PROVE x <= y
    <2>1. ~(y < x)
      BY <1>1, Zenon
    <2> QED
      BY <2>1
  <1> QED
    BY <1>2 DEF Min

(* Min() returns one of the numbers. *)
LEMMA MinIn ==
  ASSUME NEW S \in SUBSET Nat, S # {}
  PROVE  Min(S) \in S
  <1>1. \E x \in S : \A y \in S : ~(<<y, x>> \in OpToRel(<, Nat))
    BY WFMin, NatLessThanWellFounded, Zenon
  <1>2. ASSUME NEW x \in Nat, NEW y \in Nat, y < x PROVE <<y, x>> \in OpToRel(<, Nat)
    <2>1. <<y, x>> \in Nat \X Nat /\ <<y, x>>[1] < <<y, x>>[2]
      BY <1>2
    <2> QED
      BY <2>1, Zenon DEF OpToRel
  <1> QED
    BY <1>1, <1>2, LeastOf, Zenon

-----------------------------------------------------------------------------
(* Counting.                                                               *)
Is(x, y) == IF x = y THEN 1 ELSE 0
Has(S, x) == IF x \in S THEN 1 ELSE 0

(* Two sets that differ at most in x. *)
LEMMA CardMove ==
  ASSUME NEW A, NEW B, NEW x, IsFiniteSet(A), A \ {x} = B \ {x}
  PROVE  /\ IsFiniteSet(B) /\ Cardinality(A) \in Nat /\ Cardinality(B) \in Nat
         /\ Cardinality(B) + Has(A, x) = Cardinality(A) + Has(B, x)
  <1> DEFINE C == A \ {x}
  <1>1. IsFiniteSet(C) /\ Cardinality(C) \in Nat
    BY FS_Subset, FS_CardinalityType
  <1>2. ASSUME NEW S, S \ {x} = C PROVE IsFiniteSet(S) /\ Cardinality(S) = Cardinality(C) + Has(S, x)
    <2>1. CASE x \in S
      <3>1. S = C \cup {x} /\ x \notin C
        BY <1>2, <2>1
      <3> QED
        BY <1>1, <2>1, <3>1, FS_AddElement DEF Is, Has
    <2>2. CASE x \notin S
      <3>1. S = C
        BY <1>2, <2>2
      <3> QED
        BY <1>1, <2>2, <3>1 DEF Is, Has
    <2> QED
      BY <2>1, <2>2
  <1>3. Cardinality(A) = Cardinality(C) + Has(A, x)
    BY <1>2
  <1>4. IsFiniteSet(B) /\ Cardinality(B) = Cardinality(C) + Has(B, x)
    BY <1>2
  <1> HIDE DEF C
  <1> QED
    BY <1>1, <1>3, <1>4 DEF Is, Has

(* A set with an element in it, and with two. *)
LEMMA CardSome ==
  ASSUME NEW A, IsFiniteSet(A), NEW x \in A
  PROVE  /\ Cardinality(A) \in Nat /\ Cardinality(A) >= 1
         /\ \A y \in A : y # x => Cardinality(A) >= 2
  <1>1. Cardinality(A) \in Nat /\ IsFiniteSet(A \ {x}) /\ Cardinality(A \ {x}) \in Nat
        /\ Cardinality(A) = Cardinality(A \ {x}) + 1
    BY FS_RemoveElement, FS_CardinalityType, FS_Subset
  <1>2. ASSUME NEW y \in A, y # x PROVE Cardinality(A) >= 2
    <2>1. y \in A \ {x}
      BY <1>2
    <2>2. Cardinality(A \ {x}) # 0
      BY <1>1, <2>1, FS_EmptySet
    <2> QED
      BY <1>1, <2>2
  <1> QED
    BY <1>1, <1>2

(* How many processes have i in a local variable. *)
Count(v, i) == Cardinality({p \in Procs : v[p] = i})

(* It is a number, and not less than those who are known to hold i. *)
LEMMA CountNat ==
  ASSUME NEW v, NEW i
  PROVE  /\ Count(v, i) \in Nat /\ IsFiniteSet({p \in Procs : v[p] = i})
         /\ \A p \in Procs : v[p] = i => Count(v, i) >= 1
         /\ \A p \in Procs, q \in Procs : v[p] = i /\ v[q] = i /\ p # q => Count(v, i) >= 2
  <1> DEFINE S == {p \in Procs : v[p] = i}
  <1>1. IsFiniteSet(S) /\ Cardinality(S) \in Nat
    BY Constants, FS_Subset, FS_CardinalityType
  <1>2. ASSUME NEW p \in Procs, v[p] = i
        PROVE  Cardinality(S) >= 1 /\ \A q \in Procs : v[q] = i /\ p # q => Cardinality(S) >= 2
    <2>1. p \in S /\ \A q \in Procs : v[q] = i => q \in S
      BY <1>2
    <2> HIDE DEF S
    <2> QED
      BY <1>1, <2>1, CardSome
  <1> QED
    BY <1>1, <1>2 DEF Count

(* A value that changes for one process only. *)
OnlyFor(v, w, p) == \A q \in Procs : q # p => w[q] = v[q]

LEMMA CountMove ==
  ASSUME NEW v, NEW w, NEW p \in Procs, NEW i, OnlyFor(v, w, p)
  PROVE  /\ Count(v, i) \in Nat /\ Count(w, i) \in Nat
         /\ Count(w, i) + Is(v[p], i) = Count(v, i) + Is(w[p], i)
  <1> DEFINE A == {q \in Procs : v[q] = i}
             B == {q \in Procs : w[q] = i}
  <1>1. IsFiniteSet(A) /\ A \ {p} = B \ {p} /\ (p \in A <=> v[p] = i) /\ (p \in B <=> w[p] = i)
    BY CountNat DEF OnlyFor
  <1>2. Count(v, i) = Cardinality(A) /\ Count(w, i) = Cardinality(B)
    BY DEF Count
  <1> HIDE DEF A, B
  <1>3. /\ Cardinality(A) \in Nat /\ Cardinality(B) \in Nat
        /\ Cardinality(B) + Has(A, p) = Cardinality(A) + Has(B, p)
    BY <1>1, CardMove
  <1>4. Has(A, p) = Is(v[p], i) /\ Has(B, p) = Is(w[p], i)
    BY <1>1 DEF Is, Has
  <1> QED
    BY <1>2, <1>3, <1>4

(* What RefsCounted counts. *)
Held(i) ==
    Users(i) + Count(dp, i) + Count(ip, i) + Count(put, i)

(* RefsCounted in these terms. *)
LEMMA HeldIs == RefsCounted <=> \A i \in Inums : ic[i].ref = Held(i)
  BY DEF RefsCounted, Held, Count

(* The open files of an inode can be counted. *)
LEMMA OpenFinite ==
  ASSUME NEW i
  PROVE  IsFiniteSet(OpenOn(i)) /\ Cardinality(OpenOn(i)) \in Nat
  BY Constants, FS_Subset, FS_CardinalityType DEF OpenOn

(* Users() in these terms. *)
LEMMA UsersIs ==
  ASSUME NEW i
  PROVE  /\ Users(i) = Cardinality(OpenOn(i)) + Count(cwd, i) + Is(i, root)
         /\ Users(i) \in Nat /\ Cardinality(OpenOn(i)) \in Nat /\ Count(cwd, i) \in Nat
  <1>1. Cardinality(OpenOn(i)) \in Nat /\ Count(cwd, i) \in Nat
    BY OpenFinite, CountNat
  <1>2. Cardinality(In(i)) = Count(cwd, i)
    BY DEF In, Count
  <1> QED
    BY <1>1, <1>2 DEF Users, Is

-----------------------------------------------------------------------------
(* Steps of p: the other processes' locals are as they were. *)
OnlyBy(p) ==
    \A q \in Procs : q # p =>
        /\ pc'[q] = pc[q] /\ ret'[q] = ret[q] /\ call'[q] = call[q] /\ name'[q] = name[q]
        /\ dp'[q] = dp[q] /\ ip'[q] = ip[q] /\ put'[q] = put[q] /\ cwd'[q] = cwd[q]

(* The references that p holds. *)
Own(p, i) == Is(dp[p], i) + Is(ip[p], i) + Is(put[p], i) + Is(cwd[p], i)

(* They are a number. *)
LEMMA OwnNat ==
  ASSUME NEW p, NEW i PROVE Own(p, i) \in Nat /\ Own(p, i)' \in Nat
  BY DEF Own, Is

(* The counts of each local variable move with p. *)
LEMMA OwnMove ==
  ASSUME NEW p \in Procs, OnlyBy(p), NEW i
  PROVE  /\ Count(dp', i) + Is(dp[p], i) = Count(dp, i) + Is(dp'[p], i)
         /\ Count(ip', i) + Is(ip[p], i) = Count(ip, i) + Is(ip'[p], i)
         /\ Count(put', i) + Is(put[p], i) = Count(put, i) + Is(put'[p], i)
         /\ Count(cwd', i) + Is(cwd[p], i) = Count(cwd, i) + Is(cwd'[p], i)
  <1>1. Count(dp', i) + Is(dp[p], i) = Count(dp, i) + Is(dp'[p], i)
    <2>1. OnlyFor(dp, dp', p)
      BY DEF OnlyBy, OnlyFor
    <2> QED
      BY <2>1, CountMove
  <1>2. Count(ip', i) + Is(ip[p], i) = Count(ip, i) + Is(ip'[p], i)
    <2>1. OnlyFor(ip, ip', p)
      BY DEF OnlyBy, OnlyFor
    <2> QED
      BY <2>1, CountMove
  <1>3. Count(put', i) + Is(put[p], i) = Count(put, i) + Is(put'[p], i)
    <2>1. OnlyFor(put, put', p)
      BY DEF OnlyBy, OnlyFor
    <2> QED
      BY <2>1, CountMove
  <1>4. Count(cwd', i) + Is(cwd[p], i) = Count(cwd, i) + Is(cwd'[p], i)
    <2>1. OnlyFor(cwd, cwd', p)
      BY DEF OnlyBy, OnlyFor
    <2> QED
      BY <2>1, CountMove
  <1> QED
    BY <1>1, <1>2, <1>3, <1>4

(* When p moves its references, the count of all moves with them. *)
LEMMA HeldFile ==
  ASSUME NEW p \in Procs, OnlyBy(p), NEW h,
         \A f \in Handles : f # h => file'[f] = file[f], NEW i
  PROVE  /\ Held(i) \in Nat /\ Held(i)' \in Nat
         /\ Held(i)' + Own(p, i) + Has(OpenOn(i), h) = Held(i) + Own(p, i)' + Has(OpenOn(i)', h)
  <1> DEFINE F == Cardinality(OpenOn(i))
             G == Cardinality(OpenOn(i)')
  <1>1. /\ F \in Nat /\ G \in Nat
        /\ G + Has(OpenOn(i), h) = F + Has(OpenOn(i)', h)
    <2>1. OpenOn(i) \ {h} = OpenOn(i)' \ {h}
      BY DEF OpenOn
    <2> QED
      BY <2>1, OpenFinite, CardMove
  <1>2. /\ Count(dp, i) \in Nat /\ Count(dp', i) \in Nat
        /\ Count(dp', i) + Is(dp[p], i) = Count(dp, i) + Is(dp'[p], i)
    BY CountNat, OwnMove
  <1>3. /\ Count(ip, i) \in Nat /\ Count(ip', i) \in Nat
        /\ Count(ip', i) + Is(ip[p], i) = Count(ip, i) + Is(ip'[p], i)
    BY CountNat, OwnMove
  <1>4. /\ Count(put, i) \in Nat /\ Count(put', i) \in Nat
        /\ Count(put', i) + Is(put[p], i) = Count(put, i) + Is(put'[p], i)
    BY CountNat, OwnMove
  <1>5. /\ Count(cwd, i) \in Nat /\ Count(cwd', i) \in Nat
        /\ Count(cwd', i) + Is(cwd[p], i) = Count(cwd, i) + Is(cwd'[p], i)
    BY CountNat, OwnMove
  <1>6. Held(i) = F + Count(cwd, i) + Is(i, root) + Count(dp, i) + Count(ip, i) + Count(put, i)
    BY UsersIs DEF Held
  <1>7. Held(i)' = G + Count(cwd', i) + Is(i, root) + Count(dp', i) + Count(ip', i) + Count(put', i)
    <2>1. Users(i)' = G + Count(cwd', i) + Is(i, root)
      <3>1. Cardinality(In(i)') = Count(cwd', i)
        BY DEF In, Count
      <3>2. Users(i)' = G + Cardinality(In(i)') + Is(i, root)
        BY <1>1, <1>5, <3>1 DEF Users, Is
      <3> QED
        BY <3>1, <3>2
    <2>2. Held(i)' = Users(i)' + Count(dp', i) + Count(ip', i) + Count(put', i)
      BY DEF Held, Count
    <2> QED
      BY <2>1, <2>2
  <1>8. Is(i, root) \in Nat /\ Has(OpenOn(i), h) \in Nat /\ Has(OpenOn(i)', h) \in Nat
        
    BY DEF Is, Has
  <1> DEFINE a1 == Is(dp[p], i)   a2 == Is(dp'[p], i)
             b1 == Is(ip[p], i)   b2 == Is(ip'[p], i)
             c1 == Is(put[p], i)  c2 == Is(put'[p], i)
             d1 == Is(cwd[p], i)  d2 == Is(cwd'[p], i)
  <1>9. Own(p, i) = a1 + b1 + c1 + d1 /\ Own(p, i)' = a2 + b2 + c2 + d2
    BY DEF Own, Is
  <1>10. /\ a1 \in Nat /\ a2 \in Nat /\ b1 \in Nat /\ b2 \in Nat
         /\ c1 \in Nat /\ c2 \in Nat /\ d1 \in Nat /\ d2 \in Nat
    BY DEF Is, Has
  <1> HIDE DEF F, G, a1, a2, b1, b2, c1, c2, d1, d2
  <1>11. /\ Count(dp', i) + a1 = Count(dp, i) + a2 /\ Count(ip', i) + b1 = Count(ip, i) + b2
         /\ Count(put', i) + c1 = Count(put, i) + c2 /\ Count(cwd', i) + d1 = Count(cwd, i) + d2
    BY <1>2, <1>3, <1>4, <1>5 DEF a1, a2, b1, b2, c1, c2, d1, d2
  <1>12. Held(i) \in Nat /\ Held(i)' \in Nat
    BY <1>1, <1>2, <1>3, <1>4, <1>5, <1>6, <1>7, <1>8
  <1> QED
    BY <1>1, <1>2, <1>3, <1>4, <1>5, <1>6, <1>7, <1>8, <1>9, <1>10, <1>11, <1>12

(* The same for a step that leaves the table of open files alone. *)
LEMMA HeldStep ==
  ASSUME NEW p \in Procs, OnlyBy(p), UNCHANGED file, NEW i
  PROVE  /\ Held(i) \in Nat /\ Held(i)' \in Nat /\ Own(p, i) \in Nat /\ Own(p, i)' \in Nat
         /\ Held(i)' + Own(p, i) = Held(i) + Own(p, i)'
  <1>1. OpenOn(i)' = OpenOn(i)
    BY DEF OpenOn
  <1>2. /\ Held(i) \in Nat /\ Held(i)' \in Nat
        /\ Held(i)' + Own(p, i) + Has(OpenOn(i), 0) = Held(i) + Own(p, i)' + Has(OpenOn(i)', 0)
    BY HeldFile
  <1>3. Has(OpenOn(i), 0) \in Nat /\ Has(OpenOn(i)', 0) = Has(OpenOn(i), 0)
    BY <1>1 DEF Is, Has
  <1> QED
    BY <1>2, <1>3, OwnNat

(* Whoever refers to an inode is counted, and two are counted twice. *)
LEMMA Referred ==
  ASSUME RefsCounted, NEW i \in Inums
  PROVE  /\ ic[i].ref = Held(i) /\ Held(i) \in Nat
         /\ Held(i) = Cardinality(OpenOn(i)) + Count(cwd, i) + Is(i, root)
                      + Count(dp, i) + Count(ip, i) + Count(put, i)
         /\ i = root => ic[i].ref >= 1
         /\ \A p \in Procs : dp[p] = i \/ ip[p] = i \/ put[p] = i \/ cwd[p] = i => ic[i].ref >= 1
         /\ \A f \in Handles : file[f].type = "INODE" /\ file[f].ip = i => ic[i].ref >= 1
  <1>1. ic[i].ref = Held(i)
    BY HeldIs
  <1>2. /\ Cardinality(OpenOn(i)) \in Nat /\ Count(cwd, i) \in Nat /\ Count(dp, i) \in Nat
        /\ Count(ip, i) \in Nat /\ Count(put, i) \in Nat
    BY OpenFinite, CountNat
  <1>3. Held(i) = Cardinality(OpenOn(i)) + Count(cwd, i) + Is(i, root)
                  + Count(dp, i) + Count(ip, i) + Count(put, i)
    BY UsersIs DEF Held
  <1>4. ASSUME NEW f \in Handles, file[f].type = "INODE" /\ file[f].ip = i PROVE Cardinality(OpenOn(i)) >= 1
    <2>1. f \in OpenOn(i)
      BY <1>4 DEF OpenOn
    <2> QED
      BY <2>1, OpenFinite, CardSome
  <1>5. ASSUME NEW p \in Procs, dp[p] = i \/ ip[p] = i \/ put[p] = i \/ cwd[p] = i
        PROVE  Count(dp, i) >= 1 \/ Count(ip, i) >= 1 \/ Count(put, i) >= 1 \/ Count(cwd, i) >= 1
    BY <1>5, CountNat
  <1>6. Is(i, root) \in Nat /\ (i = root => Is(i, root) = 1)
    BY DEF Is, Has
  <1> QED
    BY <1>1, <1>2, <1>3, <1>4, <1>5, <1>6
-----------------------------------------------------------------------------
(* What a step of p must keep, conjunct by conjunct.                       *)

(* What p can find. *)
Sees(p, i) ==
    \/ i = root
    \/ \E q \in Procs : cwd[q] = i \/ dp[q] = i
    \/ ip[p] = i
    \/ put[p] = i /\ pc[p] \in {"put", "free"}
    \/ \E f \in Handles : file[f].type = "INODE" /\ file[f].ip = i
    \/ dinode[i].nlink > 0

(* It exists, and is neither another's new inode nor one being freed. *)
LEMMA Seen ==
  ASSUME IInv, NEW p \in Procs, NEW i \in Inums, Sees(p, i)
  PROVE  /\ Live(i)
         /\ \A q \in Procs : q # p => /\ pc[q] = "new" => ip[q] # i
                                      /\ pc[q] = "free" => put[q] # i
  <1>1. Live(i)
    <2>1. CASE dinode[i].nlink > 0
      <3>1. dinode[i].nlink # 0
        BY <2>1
      <3> QED
        BY <3>1 DEF IInv, DiskInv, Live
    <2>2. CASE i = root
      BY <2>2 DEF IInv, LiveInv, Live, IsDir
    <2>3. ASSUME NEW q \in Procs, cwd[q] = i \/ dp[q] = i PROVE Live(i)
      BY <2>3, Constants DEF IInv, LiveInv, LiveOf, Live, IsDir
    <2>4. CASE ip[p] = i \/ (put[p] = i /\ pc[p] \in {"put", "free"})
      BY <2>4, Constants DEF IInv, LiveInv, LiveOf
    <2>5. ASSUME NEW f \in Handles, file[f].type = "INODE", file[f].ip = i PROVE Live(i)
      BY <2>5 DEF IInv, LiveInv, OpenLive
    <2> QED
      BY <2>1, <2>2, <2>3, <2>4, <2>5 DEF Sees
  <1>2. ASSUME NEW q \in Procs, q # p, pc[q] = "new" PROVE ip[q] # i
    <2>1. NewOf(q)
      BY DEF IInv, NewInv
    <2>2. /\ dinode[ip[q]].nlink = 0 /\ Unused(ip[q]) /\ ip[p] # ip[q]
          /\ put[p] = ip[q] => pc[p] = "deref"
      BY <1>2, <2>1 DEF NewOf
    <2> QED
      BY <2>2 DEF Sees, Unused
  <1>3. ASSUME NEW q \in Procs, q # p, pc[q] = "free" PROVE put[q] # i
    <2>1. dinode[put[q]].nlink = 0 /\ Unused(put[q]) /\ ip[p] # put[q] /\ put[p] # put[q]
      BY <1>3 DEF IInv, FreeingInv, FreeOf
    <2> QED
      BY <2>1 DEF Sees, Unused
  <1> QED
    BY <1>1, <1>2, <1>3

(* The references that p has, or that are in the table, after the step. *)
Refers(p, i) ==
    \/ cwd[p] = i \/ dp[p] = i \/ ip[p] = i \/ put[p] = i
    \/ \E f \in Handles : file[f].type = "INODE" /\ file[f].ip = i

Meets(p) == \A i \in Inums : Refers(p, i)' => Sees(p, i) \/ ~Live(i)

(* An inode keeps its type until p frees it. *)
KeepsTypes(p) ==
    \A i \in Inums : Live(i) => dinode'[i].type = dinode[i].type \/ (pc[p] = "free" /\ put[p] = i)

(* What others are about to fill, to clear or to free. *)
Leaves(p) ==
    \A q \in Procs : q # p =>
        /\ pc[q] = "new" => /\ dinode'[ip[q]] = dinode[ip[q]] /\ entry'[ip[q]] = entry[ip[q]]
                            /\ entry'[dp[q]][name[q]] = entry[dp[q]][name[q]]
        /\ pc[q] = "victim" => entry'[dp[q]][name[q]] = entry[dp[q]][name[q]]
        /\ pc[q] = "free" => dinode'[put[q]] = dinode[put[q]]

(* Where an inode number is in a variable of another process. *)
LEMMA Numbers ==
  ASSUME TypeOK, NEW q \in Procs
  PROVE  /\ cwd[q] # None => cwd[q] \in Inums
         /\ dp[q] # None => dp[q] \in Inums
         /\ ip[q] # None => ip[q] \in Inums
         /\ put[q] # None => put[q] \in Inums
  BY DEF TypeOK

(* What p refers to after its step exists: so does what all refer to. *)
LEMMA LiveStep ==
  ASSUME IInv, NEW p \in Procs, OnlyBy(p), KeepsTypes(p), LiveOf(p)', OpenLive'
  PROVE  LiveInv'
  <1>1. ASSUME NEW i \in Inums, Live(i), pc[p] = "free" => put[p] # i
        PROVE  dinode'[i].type = dinode[i].type
    BY <1>1 DEF KeepsTypes
  <1>2. pc[p] = "free" =>
           /\ put[p] # root
           /\ \A q \in Procs : /\ cwd[q] # put[p] /\ dp[q] # put[p] /\ ip[q] # put[p]
                               /\ q # p => put[q] # put[p]
    BY DEF IInv, FreeingInv, FreeOf, Unused
  <1>3. IsDir(root)'
    <2>1. IsDir(root) /\ Live(root)
      BY DEF IInv, LiveInv, Live, IsDir
    <2> QED
      BY <1>1, <1>2, <2>1, Constants DEF IsDir, root
  <1>4. ASSUME NEW q \in Procs, q # p PROVE LiveOf(q)'
    <2>1. LiveOf(q)
      BY DEF IInv, LiveInv
    <2>2. /\ pc'[q] = pc[q] /\ ret'[q] = ret[q] /\ call'[q] = call[q] /\ name'[q] = name[q]
          /\ dp'[q] = dp[q] /\ ip'[q] = ip[q] /\ put'[q] = put[q] /\ cwd'[q] = cwd[q]
      BY <1>4 DEF OnlyBy
    <2>3. /\ cwd[q] # None => cwd[q] \in Inums
          /\ dp[q] # None => dp[q] \in Inums
          /\ ip[q] # None => ip[q] \in Inums
          /\ put[q] # None => put[q] \in Inums
      BY Numbers DEF IInv, FilesInv
    <2>4. /\ cwd[q] # None => dinode'[cwd[q]].type = "DIR"
          /\ dp[q] # None => dinode'[dp[q]].type = "DIR"
      BY <1>1, <1>2, <2>1, <2>3 DEF LiveOf, IsDir, Live
    <2>5. ip[q] # None => dinode'[ip[q]].type = dinode[ip[q]].type /\ dinode[ip[q]].type # "free"
      BY <1>1, <1>2, <2>1, <2>3 DEF LiveOf, Live
    <2>6. pc[q] \in {"put", "free"} => dinode'[put[q]].type # "free"
      <3>1. pc[q] \in {"put", "free"} => put[q] # None
        BY DEF IInv, PlaceInv, PlaceOf, Putting
      <3> QED
        BY <1>1, <1>2, <1>4, <2>1, <2>3, <3>1 DEF LiveOf, Live
    <2>7. Linking(q)' <=> Linking(q)
      BY <2>2 DEF Linking, Where
    <2>8. Linking(q) => dinode'[ip[q]].type # "DIR"
      <3>1. Linking(q) => ip[q] # None
        BY DEF IInv, PlaceInv, PlaceOf
      <3> QED
        BY <2>1, <2>5, <3>1 DEF LiveOf, IsDir
    <2> QED
      BY <2>2, <2>4, <2>5, <2>6, <2>7, <2>8 DEF LiveOf, IsDir, Live
  <1> QED
    BY <1>3, <1>4 DEF LiveInv

(* The new inodes of the others are not touched by p. *)
LEMMA NewStep ==
  ASSUME IInv, TypeOK', NEW p \in Procs, OnlyBy(p), Meets(p), Leaves(p), NewOf(p)'
  PROVE  NewInv'
  <1>1. ASSUME NEW q \in Procs, q # p, pc[q] = "new" PROVE NewOf(q)'
    <2>1. /\ pc'[q] = pc[q] /\ call'[q] = call[q] /\ name'[q] = name[q]
          /\ dp'[q] = dp[q] /\ ip'[q] = ip[q] /\ put'[q] = put[q] /\ cwd'[q] = cwd[q]
      BY <1>1 DEF OnlyBy
    <2>2. NewOf(q)
      BY DEF IInv, NewInv
    <2>0. PICK i : i = ip[q]
      OBVIOUS
    <2>3. i \in Inums /\ Live(i)
      <3>1. i # None
        BY <2>0, <1>1 DEF IInv, PlaceInv, PlaceOf, Where, Putting, HasIp
      <3>2. i \in Inums
        BY <2>0, <3>1, Numbers DEF IInv, FilesInv
      <3> QED
        BY <2>0, <1>1, <2>2, <3>2 DEF NewOf, Live
    <2>4. ~Sees(p, i)
      BY <2>0, <1>1, <2>3, Seen
    <2>5. ~Refers(p, i)'
      BY <2>3, <2>4 DEF Meets
    <2>6. /\ cwd'[p] # i /\ dp'[p] # i /\ ip'[p] # i /\ put'[p] # i
          /\ \A f \in Handles : file'[f].type = "INODE" => file'[f].ip # i
      BY <2>5 DEF Refers
    <2>7. ASSUME NEW r \in Procs
          PROVE  /\ cwd'[r] # i /\ dp'[r] # i /\ (r # q => ip'[r] # i)
                 /\ put'[r] = i => pc'[r] = "deref"
      <3>1. CASE r = p
        BY <2>6, <3>1
      <3>2. CASE r # p
        <4>1. /\ pc'[r] = pc[r] /\ dp'[r] = dp[r] /\ ip'[r] = ip[r]
              /\ put'[r] = put[r] /\ cwd'[r] = cwd[r]
          BY <3>2 DEF OnlyBy
        <4>2. /\ Unused(i)
              /\ r # q => ip[r] # i
              /\ put[r] = i => pc[r] = "deref"
          BY <2>0, <1>1, <2>2 DEF NewOf
        <4> QED
          BY <4>1, <4>2 DEF Unused
      <3> QED
        BY <3>1, <3>2
    <2>8. /\ dinode'[i] = [type |-> IF call[q] = "creat" THEN "FILE" ELSE "DIR", nlink |-> 0]
          /\ entry'[i] = NoEntries
          /\ entry'[dp[q]][name[q]] = None
      BY <2>0, <1>1, <2>2 DEF NewOf, Leaves
    <2>9. i # root
      BY <2>0, <1>1, <2>2 DEF NewOf, Unused
    <2> QED
      BY <2>0, <1>1, <2>1, <2>6, <2>7, <2>8, <2>9 DEF NewOf, Unused, root
  <1>2. ASSUME NEW q \in Procs, q # p, pc[q] # "new" PROVE NewOf(q)'
    <2>1. /\ pc'[q] = pc[q] /\ dp'[q] = dp[q] /\ ip'[q] = ip[q] /\ name'[q] = name[q]
      BY <1>2 DEF OnlyBy
    <2>2. NewOf(q) /\ (pc[q] = "victim" => entry'[dp[q]][name[q]] = entry[dp[q]][name[q]])
      BY <1>2 DEF IInv, NewInv, Leaves
    <2> QED
      BY <1>2, <2>1, <2>2 DEF NewOf
  <1> QED
    BY <1>1, <1>2 DEF NewInv

(* Nor are the inodes that the others free. *)
LEMMA FreeStep ==
  ASSUME IInv, NEW p \in Procs, OnlyBy(p), Meets(p), Leaves(p), FreeOf(p)'
  PROVE  FreeingInv'
  <1>1. ASSUME NEW q \in Procs, q # p, pc[q] = "free" PROVE FreeOf(q)'
    <2>1. pc'[q] = pc[q] /\ put'[q] = put[q]
      BY <1>1 DEF OnlyBy
    <2>0. PICK i : i = put[q]
      OBVIOUS
    <2>2. i \in Inums /\ Live(i)
      <3>1. i # None
        BY <2>0, <1>1 DEF IInv, PlaceInv, PlaceOf, Putting
      <3>2. i \in Inums
        BY <2>0, <3>1, Numbers DEF IInv, FilesInv
      <3> QED
        BY <2>0, <1>1, <3>2 DEF IInv, LiveInv, LiveOf
    <2>3. ~Sees(p, i)
      BY <2>0, <1>1, <2>2, Seen
    <2>4. ~Refers(p, i)'
      BY <2>2, <2>3 DEF Meets
    <2>5. /\ cwd'[p] # i /\ dp'[p] # i /\ ip'[p] # i /\ put'[p] # i
          /\ \A f \in Handles : file'[f].type = "INODE" => file'[f].ip # i
      BY <2>4 DEF Refers
    <2>6. ASSUME NEW r \in Procs
          PROVE  cwd'[r] # i /\ dp'[r] # i /\ ip'[r] # i /\ (r # q => put'[r] # i)
      <3>1. CASE r = p
        BY <2>5, <3>1
      <3>2. CASE r # p
        <4>1. dp'[r] = dp[r] /\ ip'[r] = ip[r] /\ put'[r] = put[r] /\ cwd'[r] = cwd[r]
          BY <3>2 DEF OnlyBy
        <4>2. Unused(i) /\ ip[r] # i /\ (r # q => put[r] # i)
          BY <2>0, <1>1 DEF IInv, FreeingInv, FreeOf
        <4> QED
          BY <4>1, <4>2 DEF Unused
      <3> QED
        BY <3>1, <3>2
    <2>7. dinode'[i].nlink = 0 /\ i # root
      BY <2>0, <1>1 DEF IInv, FreeingInv, FreeOf, Unused, Leaves
    <2> QED
      BY <2>0, <1>1, <2>1, <2>5, <2>6, <2>7 DEF FreeOf, Unused, root
  <1>2. ASSUME NEW q \in Procs, q # p, pc[q] # "free" PROVE FreeOf(q)'
    <2>1. pc'[q] = pc[q]
      BY <1>2 DEF OnlyBy
    <2> QED
      BY <1>2, <2>1 DEF FreeOf
  <1> QED
    BY <1>1, <1>2 DEF FreeingInv

(* Locks: p takes and gives back only its own. *)
Locks(p) ==
    \A i \in Inums : ic'[i].lock = ic[i].lock \/ {ic[i].lock, ic'[i].lock} \subseteq {NoProc, p}

(* p takes and gives back only its own locks. *)
LEMMA LockStep ==
  ASSUME IInv, NEW p \in Procs, OnlyBy(p), Locks(p), LockOf(p)'
  PROVE  LockInv'
  <1>1. ASSUME NEW q \in Procs, q # p PROVE LockOf(q)'
    <2>1. /\ pc'[q] = pc[q] /\ ret'[q] = ret[q]
          /\ dp'[q] = dp[q] /\ ip'[q] = ip[q] /\ put'[q] = put[q]
      BY <1>1 DEF OnlyBy
    <2>2. Where(q)' = Where(q)
      BY <2>1 DEF Where
    <2>3. LockOf(q)
      BY DEF IInv, LockInv
    <2>4. ASSUME NEW i \in Inums PROVE ic'[i].lock = q <=> Holds(q, i)'
      <3>1. ic'[i].lock = q <=> ic[i].lock = q
        BY <1>1, Constants DEF Locks
      <3>2. Holds(q, i)' <=> Holds(q, i)
        BY <2>1, <2>2 DEF Holds
      <3> QED
        BY <2>3, <3>1, <3>2 DEF LockOf
    <2> QED
      BY <2>1, <2>2, <2>3, <2>4 DEF LockOf
  <1> QED
    BY <1>1 DEF LockInv

(* The others are where they were. *)
LEMMA PlaceStep ==
  ASSUME IInv, NEW p \in Procs, OnlyBy(p), PlaceOf(p)',
         \A q \in Procs : q # p => ofile'[q] = ofile[q]
  PROVE  PlaceInv'
  <1>1. ASSUME NEW q \in Procs, q # p PROVE PlaceOf(q)'
    <2>1. /\ pc'[q] = pc[q] /\ ret'[q] = ret[q] /\ call'[q] = call[q] /\ name'[q] = name[q]
          /\ dp'[q] = dp[q] /\ ip'[q] = ip[q] /\ put'[q] = put[q] /\ cwd'[q] = cwd[q]
          /\ ofile'[q] = ofile[q]
      BY <1>1 DEF OnlyBy
    <2>2. Where(q)' = Where(q) /\ (Linking(q)' <=> Linking(q))
      BY <2>1 DEF Where, Linking
    <2>3. PlaceOf(q)
      BY DEF IInv, PlaceInv
    <2> QED
      BY <2>1, <2>2, <2>3 DEF PlaceOf
  <1> QED
    BY <1>1 DEF PlaceInv

(* The reference counts move with the references of p. *)
LEMMA RefsStep ==
  ASSUME IInv, NEW p \in Procs, OnlyBy(p), UNCHANGED file,
         \A i \in Inums : ic'[i].ref \in Nat /\ ic'[i].ref + Own(p, i) = ic[i].ref + Own(p, i)'
  PROVE  RefsCounted'
  <1>1. ASSUME NEW i \in Inums PROVE ic'[i].ref = Held(i)'
    <2>1. ic[i].ref = Held(i) /\ Held(i) \in Nat
      BY Referred DEF IInv, FilesInv
    <2>2. /\ Held(i)' \in Nat /\ Own(p, i) \in Nat /\ Own(p, i)' \in Nat
          /\ Held(i)' + Own(p, i) = Held(i) + Own(p, i)'
      BY HeldStep
    <2> QED
      BY <2>1, <2>2
  <1>2. (\A i \in Inums : ic[i].ref = Held(i))' => RefsCounted'
    BY HeldIs, PTL
  <1> QED
    BY <1>1, <1>2

(* Every open file and every end of the pipe is as it was. *)
LEMMA TableStep ==
  ASSUME IInv, NEW p \in Procs, OnlyBy(p), UNCHANGED ftable,
         {pc[p], pc'[p]} \cap Pipes = {}
  PROVE  FilesCounted' /\ TableInv'
  <1>1. \A q \in Procs : pc'[q] \in Pipes \/ pc[q] \in Pipes => pc'[q] = pc[q] /\ ret'[q] = ret[q]
    BY DEF OnlyBy
  <1>2. file' = file /\ pipe' = pipe /\ ofile' = ofile /\ rf' = rf /\ wf' = wf
    BY DEF ftable
  <1>3. FilesCounted'
    <2>1. /\ (\E q \in Procs : pc'[q] = "rclose") <=> (\E q \in Procs : pc[q] = "rclose")
          /\ (\E q \in Procs : pc'[q] = "wclose") <=> (\E q \in Procs : pc[q] = "wclose")
      BY <1>1 DEF Pipes
    <2> QED
      BY <1>2, <2>1 DEF IInv, FilesInv, FilesCounted
  <1>4. ASSUME NEW q \in Procs PROVE PipeOf(q)'
    <2>1. PipeOf(q)
      BY DEF IInv, TableInv
    <2>2. CASE pc[q] \in Pipes \/ pc'[q] \in Pipes
      <3>1. pc'[q] = pc[q] /\ ret'[q] = ret[q]
        BY <1>1, <2>2
      <3>2. Stage(q)' = Stage(q)
        BY <3>1 DEF Stage
      <3> QED
        BY <1>2, <2>1, <3>1, <3>2 DEF PipeOf, Staged, IsPipe
    <2>3. CASE pc[q] \notin Pipes /\ pc'[q] \notin Pipes
      <3>1. Stage(q) = pc[q] /\ Stage(q)' = pc'[q] /\ pc'[q] \notin Closing
        BY <2>3 DEF Stage, Pipes, Closing
      <3> QED
        BY <1>2, <2>1, <2>3, <3>1 DEF PipeOf, Staged, IsPipe, Pipes
    <2> QED
      BY <2>2, <2>3
  <1>5. EndsOne'
    BY <1>1, <1>2 DEF IInv, TableInv, EndsOne, IsPipe, Pipes, Closing
  <1>6. TableInv'
    BY <1>2, <1>4, <1>5 DEF IInv, TableInv, Apart, HasType
  <1> QED
    BY <1>3, <1>6

(* No new link is about to be made. *)
LEMMA LinksStep ==
  ASSUME IInv, NEW p \in Procs, OnlyBy(p), UNCHANGED disks,
         \A i \in Inums : (p \in Pending(i))' => p \in Pending(i)
  PROVE  LinksInv'
  <1>1. dinode' = dinode /\ entry' = entry
    BY DEF disks
  <1>2. ASSUME NEW i \in Inums
        PROVE  dinode'[i].nlink >= Cardinality(Entries(i)') + Cardinality(ChildDirs(i)') + Cardinality(Pending(i)')
    <2>1. Entries(i)' = Entries(i) /\ ChildDirs(i)' = ChildDirs(i)
      BY <1>1 DEF Entries, ChildDirs, IsDir
    <2>2. Pending(i)' \subseteq Pending(i)
      <3>1. ASSUME NEW q \in Pending(i)', q # p PROVE q \in Pending(i)
        BY <3>1 DEF Pending, OnlyBy, Linking, Where
      <3> QED
        BY <3>1
    <2>3. IsFiniteSet(Pending(i))
      BY Constants, FS_Subset DEF Pending
    <2>4. Cardinality(Pending(i)') <= Cardinality(Pending(i))
      BY <2>2, <2>3, FS_Subset
    <2>5. Cardinality(Pending(i)) \in Nat /\ Cardinality(Pending(i)') \in Nat
      BY <2>2, <2>3, FS_Subset, FS_CardinalityType
    <2>6. /\ IsFiniteSet(Entries(i)) /\ IsFiniteSet(ChildDirs(i))
      BY Constants, FS_Subset, FS_Product DEF Entries, ChildDirs
    <2>7. Cardinality(Entries(i)) \in Nat /\ Cardinality(ChildDirs(i)) \in Nat
      BY <2>6, FS_CardinalityType
    <2>8. dinode[i].nlink >= Cardinality(Entries(i)) + Cardinality(ChildDirs(i)) + Cardinality(Pending(i))
      BY DEF IInv, LinksInv
    <2>9. dinode[i].nlink \in Nat
      BY DEF IInv, FilesInv, TypeOK
    <2> QED
      BY <1>1, <2>1, <2>4, <2>5, <2>7, <2>8, <2>9
  <1> QED
    BY <1>2 DEF LinksInv

(* All together: a step that leaves the disk alone. *)
Finds(p) ==
    /\ \A i \in Inums : Refers(p, i)' => Sees(p, i)
    /\ cwd'[p] # None => IsDir(cwd'[p])
    /\ dp'[p] # None => IsDir(dp'[p])
    /\ Linking(p)' => ~IsDir(ip'[p])
    /\ \A f \in Handles : file'[f].type = "INODE" => file'[f].ip \in Inums
    /\ \A i \in Inums : (p \in Pending(i))' => p \in Pending(i)

(* The invariant after a step that leaves the disk alone. *)
LEMMA Quiet ==
  ASSUME IInv, TypeOK', NEW p \in Procs, OnlyBy(p), UNCHANGED disks, Finds(p),
         \A q \in Procs : q # p => ofile'[q] = ofile[q],
         PlaceOf(p)', pc'[p] # "panic", Locks(p), LockOf(p)', CacheInv', NewOf(p)', FreeOf(p)',
         RefsCounted', FilesCounted', TableInv'
  PROVE  IInv'
  <1>1. dinode' = dinode /\ entry' = entry
    BY DEF disks
  <1>2. Meets(p)
    BY DEF Finds, Meets
  <1>3. Leaves(p) /\ KeepsTypes(p)
    BY <1>1 DEF Leaves, KeepsTypes
  <1>4. \A i \in Inums : Sees(p, i) => Live(i)
    BY Seen
  <1>5. OpenLive'
    <2>1. ASSUME NEW f \in Handles, file'[f].type = "INODE"
          PROVE  file'[f].ip \in Inums /\ dinode'[file'[f].ip].type # "free"
      <3>1. PICK i \in Inums : i = file'[f].ip
        BY <2>1 DEF Finds
      <3>2. Sees(p, i)
        BY <2>1, <3>1 DEF Finds, Refers
      <3> QED
        BY <1>1, <1>4, <3>1, <3>2 DEF Live
    <2> QED
      BY <2>1 DEF OpenLive, Live
  <1>6. LiveOf(p)'
    <2>1. ip'[p] # None => dinode'[ip'[p]].type # "free"
      <3>1. SUFFICES ASSUME ip'[p] # None PROVE dinode'[ip'[p]].type # "free"
        OBVIOUS
      <3>2. PICK i \in Inums : i = ip'[p]
        BY <3>1 DEF TypeOK
      <3>3. Sees(p, i)
        BY <3>2 DEF Finds, Refers
      <3> QED
        BY <1>1, <1>4, <3>2, <3>3 DEF Live
    <2>2. pc'[p] \in {"put", "free"} => dinode'[put'[p]].type # "free"
      <3>1. SUFFICES ASSUME pc'[p] \in {"put", "free"} PROVE dinode'[put'[p]].type # "free"
        OBVIOUS
      <3>2. PICK i \in Inums : i = put'[p]
        BY <3>1 DEF TypeOK, PlaceOf, Putting
      <3>3. Sees(p, i)
        BY <3>2 DEF Finds, Refers
      <3> QED
        BY <1>1, <1>4, <3>2, <3>3 DEF Live
    <2>3. /\ cwd'[p] # None => dinode'[cwd'[p]].type = "DIR"
          /\ dp'[p] # None => dinode'[dp'[p]].type = "DIR"
          /\ Linking(p)' => dinode'[ip'[p]].type # "DIR"
      BY <1>1 DEF Finds, IsDir
    <2> QED
      BY <2>1, <2>2, <2>3 DEF LiveOf, Live, IsDir
  <1>7. LiveInv'
    BY <1>3, <1>5, <1>6, LiveStep
  <1>8. NewInv' /\ FreeingInv'
    BY <1>2, <1>3, NewStep, FreeStep
  <1>9. LinksInv'
    BY LinksStep DEF Finds
  <1>10. LockInv' /\ PlaceInv'
    BY LockStep, PlaceStep
  <1>11. NoPanic'
    BY DEF IInv, NoPanic, OnlyBy
  <1>12. DiskInv'
    BY <1>1 DEF IInv, DiskInv
  <1>13. FilesInv'
    BY DEF FilesInv
  <1> QED
    BY <1>7, <1>8, <1>9, <1>10, <1>11, <1>12, <1>13 DEF IInv

-----------------------------------------------------------------------------
(* The operators on the inode cache, for a cache c that is a true copy of  *)
(* the inodes d.                                                           *)
Caches == [Inums -> [ref : Nat, valid : BOOLEAN, type : Types, nlink : Nat, lock : Procs \cup {NoProc}]]
Disks == [Inums -> [type : Types, nlink : Nat]]

Good(c, d, i) ==
    /\ c[i].ref > 0 /\ c[i].valid =>
          d[i].type # "free" /\ c[i].type = d[i].type /\ c[i].nlink = d[i].nlink
    /\ c[i].lock # NoProc => c[i].valid /\ c[i].ref > 0

Copies(c, d) == c \in Caches /\ d \in Disks /\ \A i \in Inums : Good(c, d, i)

(* A lock is held by who has a reference. *)
LEMMA LockedHeld ==
  ASSUME IInv, NEW i \in Inums, ic[i].lock # NoProc
  PROVE  ic[i].ref > 0
  <1>1. PICK p \in Procs : ic[i].lock = p
    BY DEF IInv, FilesInv, TypeOK
  <1>2. Holds(p, i)
    BY <1>1 DEF IInv, LockInv, LockOf
  <1>3. dp[p] = i \/ ip[p] = i \/ put[p] = i
    BY <1>2 DEF Holds
  <1>4. ic[i].ref >= 1 /\ ic[i].ref \in Nat
    BY <1>3, Referred DEF IInv, FilesInv, TypeOK
  <1> QED
    BY <1>4

(* The inode cache is such a copy of the disk. *)
LEMMA IsCopy ==
  ASSUME IInv
  PROVE  Copies(ic, dinode)
  <1>1. ic \in Caches /\ dinode \in Disks
    BY DEF IInv, FilesInv, TypeOK, Caches, Disks
  <1>2. ASSUME NEW i \in Inums PROVE Good(ic, dinode, i)
    BY LockedHeld DEF IInv, CacheInv, CacheOf, Good, Live
  <1> QED
    BY <1>1, <1>2 DEF Copies

(* Such a copy satisfies CacheInv. *)
LEMMA CopyIs ==
  ASSUME Copies(ic', dinode')
  PROVE  CacheInv'
  BY DEF Copies, Good, CacheInv, CacheOf, Live

(* iget() counts one reference more, and an entry it takes is not yet      *)
(* read.                                                                   *)
LEMMA IGetCopy ==
  ASSUME NEW c, NEW d, Copies(c, d), NEW i \in Inums
  PROVE  /\ Copies(IGet(c, i), d)
         /\ \A j \in Inums : /\ IGet(c, i)[j].ref = c[j].ref + Is(i, j)
                             /\ IGet(c, i)[j].lock = c[j].lock
                             /\ j # i \/ c[i].ref > 0 =>
                                   /\ IGet(c, i)[j].valid = c[j].valid
                                   /\ IGet(c, i)[j].type = c[j].type
                                   /\ IGet(c, i)[j].nlink = c[j].nlink
  <1> DEFINE b == IGet(c, i)
             e == IF c[i].ref > 0 THEN [c[i] EXCEPT !.ref = @ + 1] ELSE [c[i] EXCEPT !.ref = 1, !.valid = FALSE]
  <1>1. /\ e \in [ref : Nat, valid : BOOLEAN, type : Types, nlink : Nat, lock : Procs \cup {NoProc}]
        /\ e.ref = c[i].ref + 1 /\ e.lock = c[i].lock
        /\ c[i].ref > 0 => e.valid = c[i].valid /\ e.type = c[i].type /\ e.nlink = c[i].nlink
        /\ ~(c[i].ref > 0) => ~e.valid
    <2>1. PICK x \in [ref : Nat, valid : BOOLEAN, type : Types, nlink : Nat, lock : Procs \cup {NoProc}] :
              x = c[i]
      BY DEF Copies, Caches
    <2>2. CASE x.ref > 0
      <3>1. e = [x EXCEPT !.ref = @ + 1]
        BY <2>1, <2>2
      <3> HIDE DEF e
      <3> QED
        BY <2>1, <2>2, <3>1
    <2>3. CASE ~(x.ref > 0)
      <3>1. e = [x EXCEPT !.ref = 1, !.valid = FALSE] /\ x.ref = 0
        BY <2>1, <2>3
      <3> HIDE DEF e
      <3>2. e \in [ref : Nat, valid : BOOLEAN, type : Types, nlink : Nat, lock : Procs \cup {NoProc}]
        BY <2>1, <3>1
      <3>3. e.ref = 1 /\ e.lock = x.lock
        BY <2>1, <3>1
      <3>4. e.valid = FALSE
        BY <2>1, <3>1
      <3> QED
        BY <2>1, <2>3, <3>1, <3>2, <3>3, <3>4
    <2> QED
      BY <2>2, <2>3
  <1>2. b = [c EXCEPT ![i] = e]
    BY DEF IGet
  <1> HIDE DEF b, e
  <1>3. b \in Caches
    BY <1>1, <1>2 DEF Copies, Caches
  <1>4. b[i] = e /\ \A j \in Inums : j # i => b[j] = c[j]
    BY <1>2 DEF Copies, Caches
  <1>5. ASSUME NEW j \in Inums
        PROVE  /\ b[j].ref = c[j].ref + Is(i, j) /\ b[j].lock = c[j].lock
               /\ j # i \/ c[i].ref > 0 =>
                     b[j].valid = c[j].valid /\ b[j].type = c[j].type /\ b[j].nlink = c[j].nlink
               /\ ~(c[i].ref > 0) /\ j = i => ~b[j].valid
    <2>1. c[j].ref \in Nat
      BY DEF Copies, Caches
    <2>2. CASE j = i
      BY <1>1, <1>4, <2>2 DEF Is
    <2>3. CASE j # i
      BY <1>4, <2>1, <2>3 DEF Is
    <2> QED
      BY <2>2, <2>3
  <1>6. ASSUME NEW j \in Inums PROVE Good(b, d, j)
    <2>1. Good(c, d, j) /\ c[j].ref \in Nat /\ Is(i, j) \in Nat
      BY DEF Copies, Caches, Is
    <2>2. CASE j # i \/ c[i].ref > 0
      <3>1. b[j].valid = c[j].valid /\ b[j].type = c[j].type /\ b[j].nlink = c[j].nlink
            /\ b[j].ref = c[j].ref + Is(i, j) /\ b[j].lock = c[j].lock
        BY <1>5, <2>2
      <3>2. c[j].ref > 0 <=> b[j].ref > 0
        BY <2>1, <2>2, <3>1 DEF Is
      <3> QED
        BY <2>1, <3>1, <3>2 DEF Good
    <2>3. CASE ~(j # i \/ c[i].ref > 0)
      <3>1. ~b[j].valid /\ b[j].lock = c[j].lock /\ ~(c[j].ref > 0)
        BY <1>5, <2>3
      <3> QED
        BY <2>1, <3>1 DEF Good
    <2> QED
      BY <2>2, <2>3
  <1>7. Copies(b, d)
    BY <1>3, <1>6 DEF Copies
  <1> QED
    BY <1>5, <1>7 DEF b

(* Replacing the entry of one inode. *)
LEMMA SetCopy ==
  ASSUME NEW c, NEW d, Copies(c, d), NEW i \in Inums, NEW e, NEW k,
         e \in [ref : Nat, valid : BOOLEAN, type : Types, nlink : Nat, lock : Procs \cup {NoProc}],
         k \in [type : Types, nlink : Nat],
         e.ref > 0 /\ e.valid => k.type # "free" /\ e.type = k.type /\ e.nlink = k.nlink,
         e.lock # NoProc => e.valid /\ e.ref > 0
  PROVE  Copies([c EXCEPT ![i] = e], [d EXCEPT ![i] = k])
  <1> DEFINE b == [c EXCEPT ![i] = e]
             a == [d EXCEPT ![i] = k]
  <1>1. b \in Caches /\ a \in Disks
    BY DEF Copies, Caches, Disks
  <1>2. b[i] = e /\ a[i] = k /\ \A j \in Inums : j # i => b[j] = c[j] /\ a[j] = d[j]
    BY DEF Copies, Caches, Disks
  <1> HIDE DEF a, b
  <1>3. ASSUME NEW j \in Inums PROVE Good(b, a, j)
    BY <1>2 DEF Good, Copies
  <1> QED
    BY <1>1, <1>3 DEF Copies, a, b

(* A section between ilock() and iunlock() reads the inode. *)
LEMMA SectionCopy ==
  ASSUME NEW c, Copies(c, dinode), NEW i \in Inums, Live(i)
  PROVE  /\ Copies(Section(c, i), dinode)
         /\ \A j \in Inums : /\ Section(c, i)[j].ref = c[j].ref
                             /\ Section(c, i)[j].lock = c[j].lock
                             /\ j # i => Section(c, i)[j] = c[j]
         /\ Section(c, i)[i].valid
         /\ c[i].ref > 0 => /\ Section(c, i)[i].type = dinode[i].type
                            /\ Section(c, i)[i].nlink = dinode[i].nlink
  <1> DEFINE e == Loaded(c, i)
  <1>1. /\ e \in [ref : Nat, valid : BOOLEAN, type : Types, nlink : Nat, lock : Procs \cup {NoProc}]
        /\ e.ref = c[i].ref /\ e.lock = c[i].lock /\ e.valid
        /\ ~c[i].valid => e.type = dinode[i].type /\ e.nlink = dinode[i].nlink
        /\ c[i].valid => e.type = c[i].type /\ e.nlink = c[i].nlink
    BY DEF Copies, Caches, Disks, Loaded
  <1>2. Good(c, dinode, i)
    BY DEF Copies
  <1>3. Section(c, i) = [c EXCEPT ![i] = e]
    BY DEF Section
  <1>4. dinode = [dinode EXCEPT ![i] = dinode[i]] /\ dinode[i] \in [type : Types, nlink : Nat]
    BY DEF Copies, Disks
  <1> HIDE DEF e
  <1>5. /\ e.ref > 0 /\ e.valid =>
              dinode[i].type # "free" /\ e.type = dinode[i].type /\ e.nlink = dinode[i].nlink
        /\ e.lock # NoProc => e.valid /\ e.ref > 0
    BY <1>1, <1>2 DEF Good, Live
  <1>6. Copies([c EXCEPT ![i] = e], [dinode EXCEPT ![i] = dinode[i]])
    BY <1>1, <1>4, <1>5, SetCopy
  <1>7. [c EXCEPT ![i] = e][i] = e /\ \A j \in Inums : j # i => [c EXCEPT ![i] = e][j] = c[j]
    BY DEF Copies, Caches
  <1>8. c[i].ref > 0 => e.type = dinode[i].type /\ e.nlink = dinode[i].nlink
    BY <1>1, <1>5
  <1>9. Copies(Section(c, i), dinode)
    BY <1>3, <1>4, <1>6
  <1>10. \A j \in Inums : /\ Section(c, i)[j].ref = c[j].ref
                          /\ Section(c, i)[j].lock = c[j].lock
                          /\ j # i => Section(c, i)[j] = c[j]
    BY <1>1, <1>3, <1>7
  <1> QED
    BY <1>1, <1>3, <1>7, <1>8, <1>9, <1>10

(* ilock() reads the inode and locks it. *)
LEMMA ILockCopy ==
  ASSUME NEW c, Copies(c, dinode), NEW i \in Inums, Live(i), c[i].ref > 0, NEW p \in Procs
  PROVE  /\ Copies(ILock(c, i, p), dinode)
         /\ \A j \in Inums : /\ ILock(c, i, p)[j].ref = c[j].ref
                             /\ j # i => ILock(c, i, p)[j] = c[j]
         /\ ILock(c, i, p)[i].lock = p
         /\ ILock(c, i, p)[i].valid
         /\ ILock(c, i, p)[i].type = dinode[i].type
         /\ ILock(c, i, p)[i].nlink = dinode[i].nlink
  <1> DEFINE e == [Loaded(c, i) EXCEPT !.lock = p]
  <1>1. /\ e \in [ref : Nat, valid : BOOLEAN, type : Types, nlink : Nat, lock : Procs \cup {NoProc}]
        /\ e.ref = c[i].ref /\ e.lock = p /\ e.valid
        /\ ~c[i].valid => e.type = dinode[i].type /\ e.nlink = dinode[i].nlink
        /\ c[i].valid => e.type = c[i].type /\ e.nlink = c[i].nlink
    BY DEF Copies, Caches, Disks, Loaded
  <1>2. Good(c, dinode, i)
    BY DEF Copies
  <1>3. ILock(c, i, p) = [c EXCEPT ![i] = e]
    BY DEF ILock
  <1>4. dinode = [dinode EXCEPT ![i] = dinode[i]] /\ dinode[i] \in [type : Types, nlink : Nat]
    BY DEF Copies, Disks
  <1> HIDE DEF e
  <1>5. dinode[i].type # "free" /\ e.type = dinode[i].type /\ e.nlink = dinode[i].nlink
    BY <1>1, <1>2 DEF Good, Live
  <1>6. Copies([c EXCEPT ![i] = e], [dinode EXCEPT ![i] = dinode[i]])
    BY <1>1, <1>4, <1>5, SetCopy
  <1>7. [c EXCEPT ![i] = e][i] = e /\ \A j \in Inums : j # i => [c EXCEPT ![i] = e][j] = c[j]
    BY DEF Copies, Caches
  <1>8. Copies(ILock(c, i, p), dinode)
    BY <1>3, <1>4, <1>6
  <1>9. \A j \in Inums : ILock(c, i, p)[j].ref = c[j].ref /\ (j # i => ILock(c, i, p)[j] = c[j])
    BY <1>1, <1>3, <1>7
  <1> QED
    BY <1>1, <1>3, <1>5, <1>7, <1>8, <1>9

(* iunlock() changes the lock only. *)
LEMMA IUnlockCopy ==
  ASSUME NEW c, NEW d, Copies(c, d), NEW i \in Inums
  PROVE  /\ Copies(IUnlock(c, i), d)
         /\ \A j \in Inums : /\ IUnlock(c, i)[j].ref = c[j].ref
                             /\ IUnlock(c, i)[j].valid = c[j].valid
                             /\ IUnlock(c, i)[j].type = c[j].type
                             /\ IUnlock(c, i)[j].nlink = c[j].nlink
                             /\ j # i => IUnlock(c, i)[j] = c[j]
         /\ IUnlock(c, i)[i].lock = NoProc
  <1> DEFINE b == IUnlock(c, i)
  <1>1. b \in Caches
    BY DEF Copies, Caches, IUnlock
  <1>2. /\ \A j \in Inums : /\ b[j].ref = c[j].ref /\ b[j].valid = c[j].valid
                            /\ b[j].type = c[j].type /\ b[j].nlink = c[j].nlink
                            /\ j # i => b[j] = c[j]
        /\ b[i].lock = NoProc
    BY DEF Copies, Caches, IUnlock
  <1> HIDE DEF b
  <1>3. ASSUME NEW j \in Inums PROVE Good(b, d, j)
    BY <1>2 DEF Good, Copies
  <1>4. Copies(b, d)
    BY <1>1, <1>3 DEF Copies
  <1> QED
    BY <1>2, <1>4 DEF b

(* ip->nlink and iupdate(). *)
LEMMA NLinkCopy ==
  ASSUME NEW c, NEW d, Copies(c, d), NEW i \in Inums, NEW k \in Int,
         c[i].nlink + k \in Nat, d[i].nlink + k \in Nat
  PROVE  /\ Copies(NLink(c, i, k), DLink(d, i, k))
         /\ \A j \in Inums : /\ NLink(c, i, k)[j].ref = c[j].ref
                             /\ NLink(c, i, k)[j].lock = c[j].lock
                             /\ NLink(c, i, k)[j].valid = c[j].valid
                             /\ NLink(c, i, k)[j].type = c[j].type
                             /\ j # i => NLink(c, i, k)[j] = c[j]
         /\ \A j \in Inums : /\ DLink(d, i, k)[j].type = d[j].type
                             /\ j # i => DLink(d, i, k)[j] = d[j]
         /\ NLink(c, i, k)[i].nlink = c[i].nlink + k
         /\ DLink(d, i, k)[i].nlink = d[i].nlink + k
  <1> DEFINE b == NLink(c, i, k)
             a == DLink(d, i, k)
  <1>1. b \in Caches /\ a \in Disks
    BY DEF Copies, Caches, Disks, NLink, DLink
  <1>2. /\ \A j \in Inums : /\ b[j].ref = c[j].ref /\ b[j].lock = c[j].lock /\ b[j].valid = c[j].valid
                            /\ b[j].type = c[j].type /\ (j # i => b[j] = c[j])
        /\ b[i].nlink = c[i].nlink + k
    BY DEF Copies, Caches, NLink
  <1>3. /\ \A j \in Inums : a[j].type = d[j].type /\ (j # i => a[j] = d[j])
        /\ a[i].nlink = d[i].nlink + k
    BY DEF Copies, Disks, DLink
  <1> HIDE DEF a, b
  <1>4. ASSUME NEW j \in Inums PROVE Good(b, a, j)
    BY <1>2, <1>3 DEF Good, Copies
  <1>5. Copies(b, a)
    BY <1>1, <1>4 DEF Copies
  <1> QED
    BY <1>2, <1>3, <1>5 DEF a, b

-----------------------------------------------------------------------------
(* The steps that leave the disk and the open files alone.                 *)
LEMMA QuietStep ==
  ASSUME IInv, TypeOK', NEW p \in Procs, OnlyBy(p), UNCHANGED disks, UNCHANGED ftable, Finds(p),
         {pc[p], pc'[p]} \cap Pipes = {}, pc'[p] # "panic",
         PlaceOf(p)', Locks(p), LockOf(p)', CacheInv', NewOf(p)', FreeOf(p)',
         \A i \in Inums : ic'[i].ref + Own(p, i) = ic[i].ref + Own(p, i)'
  PROVE  IInv'
  <1>1. UNCHANGED file /\ UNCHANGED ofile
    BY DEF ftable
  <1>2. \A i \in Inums : ic'[i].ref \in Nat
    BY DEF TypeOK
  <1>3. RefsCounted'
    BY <1>1, <1>2, RefsStep
  <1>4. FilesCounted' /\ TableInv'
    BY TableStep
  <1> QED
    BY <1>1, <1>3, <1>4, Quiet

(* What is known of p. *)
LEMMA Mine ==
  ASSUME IInv, NEW p \in Procs
  PROVE  /\ TypeOK /\ PlaceOf(p) /\ LockOf(p) /\ LiveOf(p) /\ NewOf(p) /\ FreeOf(p)
         /\ cwd[p] \in Inums \cup {None} /\ dp[p] \in Inums \cup {None}
         /\ ip[p] \in Inums \cup {None} /\ put[p] \in Inums \cup {None}
         /\ pc[p] \in PC /\ ret[p] \in PC /\ pc[p] # "panic"
         /\ \A f \in Handles : file[f].type = "INODE" => file[f].ip \in Inums
  BY DEF IInv, FilesInv, TypeOK, PlaceInv, LockInv, LiveInv, OpenLive, NewInv, FreeingInv, NoPanic

(* The last reference to an inode is that of the iput(). *)
LEMMA Alone ==
  ASSUME RefsCounted, NEW p \in Procs, NEW i \in Inums, put[p] = i, ic[i].ref = 1
  PROVE  Unused(i) /\ \A q \in Procs : ip[q] # i /\ (q # p => put[q] # i)
  <1>1. /\ Cardinality(OpenOn(i)) + Count(cwd, i) + Is(i, root)
           + Count(dp, i) + Count(ip, i) + Count(put, i) = 1
        /\ \A f \in Handles : file[f].type = "INODE" /\ file[f].ip = i => f \in OpenOn(i)
    BY Referred DEF OpenOn
  <1>2. /\ Cardinality(OpenOn(i)) \in Nat /\ Count(cwd, i) \in Nat /\ Is(i, root) \in Nat
        /\ Count(dp, i) \in Nat /\ Count(ip, i) \in Nat /\ Count(put, i) \in Nat
    BY OpenFinite, CountNat DEF Is
  <1>3. Count(put, i) >= 1
    BY CountNat
  <1>4. /\ Cardinality(OpenOn(i)) = 0 /\ Count(cwd, i) = 0 /\ Is(i, root) = 0
        /\ Count(dp, i) = 0 /\ Count(ip, i) = 0 /\ Count(put, i) = 1
    BY <1>1, <1>2, <1>3
  <1>5. OpenOn(i) = {}
    BY <1>4, OpenFinite, FS_EmptySet
  <1>6. \A q \in Procs : cwd[q] # i /\ dp[q] # i /\ ip[q] # i
    <2>1. /\ \A q \in Procs : cwd[q] = i => Count(cwd, i) >= 1
          /\ \A q \in Procs : dp[q] = i => Count(dp, i) >= 1
          /\ \A q \in Procs : ip[q] = i => Count(ip, i) >= 1
      BY CountNat
    <2> QED
      BY <1>4, <2>1
  <1>7. \A q \in Procs : q # p => put[q] # i
    <2>1. \A q \in Procs, r \in Procs : put[q] = i /\ put[r] = i /\ q # r => Count(put, i) >= 2
      BY CountNat
    <2> QED
      BY <1>4, <2>1
  <1> QED
    BY <1>1, <1>4, <1>5, <1>6, <1>7 DEF Unused, Is

(* iput() up to the test of ref. *)
LEMMA IPutStep ==
  ASSUME IInv, NEW p \in Procs, IPut(p)
  PROVE  IInv'
  <1>1. /\ TypeOK /\ PlaceOf(p) /\ LockOf(p) /\ LiveOf(p)
        /\ put[p] \in Inums \cup {None} /\ pc[p] \in PC
    BY Mine
  <1>2. pc[p] = "put" /\ put[p] \in Inums /\ Live(put[p]) /\ ic[put[p]].lock = NoProc
    BY <1>1 DEF IPut, PlaceOf, Putting, Unlocked, LiveOf
  <1>3. Copies(ic, dinode)
    BY IsCopy
  <1> DEFINE i == put[p]
  <1>4. \/ /\ ic[i].valid /\ ic[i].nlink = 0 /\ ic[i].ref = 1
           /\ pc' = [pc EXCEPT ![p] = "free"] /\ ic' = ILock(ic, i, p)
        \/ pc' = [pc EXCEPT ![p] = "deref"] /\ ic' = ic
    BY DEF IPut, Goto, ILock, Loaded
  <1>5. /\ UNCHANGED <<disks, dinode, entry, ftable, file, pipe, ofile, rf, wf>>
        /\ UNCHANGED <<cwd, call, name, dp, ip, put, ret, budget>>
    BY DEF IPut, disks, ftable, locals
  <1>6. Copies(ic', dinode') /\ \A j \in Inums : ic'[j].ref = ic[j].ref
    BY <1>2, <1>3, <1>4, <1>5, ILockCopy
  <1>7. TypeOK'
    BY <1>1, <1>4, <1>5, <1>6 DEF TypeOK, Copies, Caches, Disks, PC
  <1>8. OnlyBy(p)
    BY <1>1, <1>4, <1>5 DEF OnlyBy, TypeOK
  <1>9. pc'[p] \in {"free", "deref"} /\ Where(p)' = Where(p)
    BY <1>1, <1>2, <1>4, <1>5 DEF TypeOK, Where, Putting
  <1>10. PlaceOf(p)'
    BY <1>1, <1>2, <1>5, <1>9 DEF PlaceOf, Linking, Putting
  <1>11. Finds(p)
    BY <1>1, <1>2, <1>5, <1>9, Mine DEF Finds, Refers, Sees, LiveOf, Linking, Pending
  <1>12. Locks(p) /\ LockOf(p)'
    <2>1. CASE ic[i].ref = 1 /\ pc' = [pc EXCEPT ![p] = "free"] /\ ic' = ILock(ic, i, p)
      <3>1. pc'[p] = "free"
        BY <1>1, <2>1 DEF TypeOK
      <3>2. ic'[i].lock = p /\ \A j \in Inums : j # i => ic'[j].lock = ic[j].lock
        BY <1>2, <1>3, <2>1, ILockCopy
      <3>3. /\ Where(p) \in HoldsDp => dp[p] # i
            /\ Where(p) \in HoldsIp => ip[p] # i
        BY <1>1, <1>2, Constants DEF LockOf, Holds
      <3> QED
        BY <1>1, <1>2, <1>5, <1>9, <3>1, <3>2, <3>3 DEF Locks, LockOf, Holds
    <2>2. CASE pc' = [pc EXCEPT ![p] = "deref"] /\ ic' = ic
      <3>1. pc'[p] = "deref"
        BY <1>1, <2>2 DEF TypeOK
      <3> QED
        BY <1>1, <1>2, <1>5, <1>9, <2>2, <3>1 DEF Locks, LockOf, Holds
    <2> QED
      BY <1>4, <2>1, <2>2
  <1>13. NewOf(p)'
    BY <1>9 DEF NewOf
  <1>14. FreeOf(p)'
    <2>1. SUFFICES ASSUME pc'[p] = "free" PROVE FreeOf(p)'
      BY DEF FreeOf
    <2>2. ic[i].valid /\ ic[i].nlink = 0 /\ ic[i].ref = 1
      BY <1>1, <1>4, <2>1 DEF TypeOK
    <2>3. dinode[i].nlink = 0
      BY <1>2, <1>3, <2>2 DEF Copies, Good
    <2>4. Unused(i) /\ \A q \in Procs : ip[q] # i /\ (q # p => put[q] # i)
      BY <1>2, <2>2, Alone DEF IInv, FilesInv
    <2> QED
      BY <1>5, <2>3, <2>4 DEF FreeOf, Unused
  <1>15. \A j \in Inums : ic'[j].ref + Own(p, j) = ic[j].ref + Own(p, j)'
    BY <1>5, <1>6 DEF Own
  <1>16. CacheInv'
    BY <1>6, CopyIs
  <1> HIDE DEF i
  <1> QED
    <2>1. UNCHANGED disks /\ UNCHANGED ftable
      BY <1>5
    <2>2. {pc[p], pc'[p]} \cap Pipes = {} /\ pc'[p] # "panic"
      <3>1. pc'[p] \in {"free", "deref"}
        BY <1>1, <1>4 DEF TypeOK
      <3> QED
        BY <1>2, <3>1 DEF Pipes
    <2> QED
      BY <1>7, <1>8, <1>9, <1>10, <1>11, <1>12, <1>13, <1>14, <1>15, <1>16, <2>1, <2>2, QuietStep

(* The end of iput(): the reference is given back. *)
LEMMA DerefStep ==
  ASSUME IInv, NEW p \in Procs, Deref(p)
  PROVE  IInv'
  <1>1. /\ TypeOK /\ PlaceOf(p) /\ LockOf(p) /\ LiveOf(p)
        /\ put[p] \in Inums \cup {None} /\ pc[p] \in PC /\ RefsCounted
    BY Mine DEF IInv, FilesInv
  <1>2. pc[p] = "deref" /\ put[p] \in Inums /\ ret[p] \in Back
    BY <1>1 DEF Deref, PlaceOf, Putting
  <1>3. PICK i \in Inums : i = put[p]
    BY <1>2
  <1>4. /\ ic' = [ic EXCEPT ![i].ref = @ - 1] /\ pc' = [pc EXCEPT ![p] = ret[p]]
        /\ put' = [put EXCEPT ![p] = None] /\ ret' = [ret EXCEPT ![p] = "idle"]
        /\ \/ ret[p] \in {"idle", "none"} /\ call' = [call EXCEPT ![p] = "other"] /\ name' = [name EXCEPT ![p] = None]
           \/ ret[p] \notin {"idle", "none"} /\ call' = call /\ name' = name
        /\ UNCHANGED <<disks, dinode, entry, ftable, file, pipe, ofile, rf, wf, cwd, dp, ip, budget>>
    BY <1>3 DEF Deref, Goto, Drops, disks, ftable
  <1>5. ic[i].ref >= 1 /\ ic[i].ref \in Nat
    BY <1>1, <1>3, Referred DEF TypeOK
  <1>6. /\ ic'[i].ref = ic[i].ref - 1 /\ ic'[i].ref \in Nat
        /\ \A j \in Inums : j # i => ic'[j] = ic[j]
        /\ \A j \in Inums : ic'[j].lock = ic[j].lock /\ ic'[j].valid = ic[j].valid
                            /\ ic'[j].type = ic[j].type /\ ic'[j].nlink = ic[j].nlink
    BY <1>1, <1>4, <1>5 DEF TypeOK
  <1>7. TypeOK'
    <2>1. ic' \in Caches
      <3>1. PICK x \in [ref : Nat, valid : BOOLEAN, type : Types, nlink : Nat, lock : Procs \cup {NoProc}] :
                x = ic[i]
        BY <1>1 DEF TypeOK
      <3>2. x.ref - 1 \in Nat
        BY <1>5, <3>1
      <3>3. [x EXCEPT !.ref = x.ref - 1]
              \in [ref : Nat, valid : BOOLEAN, type : Types, nlink : Nat, lock : Procs \cup {NoProc}]
        BY <3>2
      <3>4. ic' = [ic EXCEPT ![i] = [x EXCEPT !.ref = x.ref - 1]]
        BY <1>4, <3>1
      <3> QED
        BY <1>1, <3>3, <3>4 DEF TypeOK, Caches
    <2>2. call' \in [Procs -> Calls] /\ name' \in [Procs -> Names \cup {None}]
      BY <1>1, <1>4 DEF TypeOK, Calls
    <2>3. /\ pc' \in [Procs -> PC] /\ ret' \in [Procs -> PC]
          /\ put' \in [Procs -> Inums \cup {None}]
      BY <1>1, <1>4 DEF TypeOK, PC
    <2> QED
      BY <1>1, <1>4, <2>1, <2>2, <2>3 DEF TypeOK, Caches
  <1>8. OnlyBy(p)
    BY <1>1, <1>4 DEF OnlyBy, TypeOK
  <1>9. /\ pc'[p] = ret[p] /\ put'[p] = None /\ Where(p) = ret[p] /\ Where(p)' = ret[p]
        /\ ret[p] \notin Putting
    BY <1>1, <1>2, <1>4 DEF TypeOK, Where, Putting, Back
  <1>10. /\ call'[p] = call[p] \/ ret[p] \in {"idle", "none"}
         /\ name'[p] = name[p] \/ ret[p] \in {"idle", "none"}
         /\ cwd'[p] = cwd[p] /\ dp'[p] = dp[p] /\ ip'[p] = ip[p]
    BY <1>4
  <1>11. ~Linking(p) /\ ~Linking(p)'
    BY <1>2, <1>9 DEF Linking, Back
  <1>12. PlaceOf(p)'
    BY <1>1, <1>2, <1>4, <1>9, <1>10, <1>11 DEF PlaceOf, Back, HasDp, HasIp, HoldsDp, HoldsIp
  <1>13. Finds(p)
    <2>1. \A j \in Inums : Refers(p, j)' => Sees(p, j)
      BY <1>4, <1>9, <1>10, Constants, Zenon DEF Refers, Sees
    <2>2. \A j \in Inums : (p \in Pending(j))' => p \in Pending(j)
      BY <1>9, <1>10, <1>11 DEF Pending
    <2> QED
      BY <1>1, <1>4, <1>10, <1>11, <2>1, <2>2, Mine DEF Finds, LiveOf
  <1>14. Locks(p) /\ LockOf(p)'
    BY <1>1, <1>2, <1>6, <1>9, <1>10 DEF Locks, LockOf, Holds, Putting, Back
  <1>15. NewOf(p)' /\ FreeOf(p)'
    BY <1>2, <1>9 DEF NewOf, FreeOf, Back
  <1>16. \A j \in Inums : ic'[j].ref + Own(p, j) = ic[j].ref + Own(p, j)'
    <2>1. ASSUME NEW j \in Inums PROVE ic'[j].ref + Own(p, j) = ic[j].ref + Own(p, j)'
      <3>1. ic[j].ref \in Nat
        BY <1>1 DEF TypeOK
      <3>2. CASE j = i
        BY <1>3, <1>6, <1>9, <1>10, <3>1, <3>2, Constants DEF Own, Is
      <3>3. CASE j # i
        BY <1>3, <1>6, <1>9, <1>10, <3>1, <3>3, Constants DEF Own, Is
      <3> QED
        BY <3>2, <3>3
    <2> QED
      BY <2>1
  <1>17. CacheInv'
    <2>1. ASSUME NEW j \in Inums PROVE ic'[j].ref > 0 => ic[j].ref > 0
      BY <1>5, <1>6
    <2> QED
      BY <1>4, <1>6, <2>1 DEF IInv, CacheInv, CacheOf, Live
  <1>18. {pc[p], pc'[p]} \cap Pipes = {} /\ pc'[p] # "panic"
    BY <1>2, <1>9 DEF Back, Pipes
  <1> QED
    BY <1>4, <1>7, <1>8, <1>12, <1>13, <1>14, <1>15, <1>16, <1>17, <1>18, QuietStep

(* A name leads to an inode that exists. *)
LEMMA Leads ==
  ASSUME IInv, NEW d \in Inums, NEW n \in Names, entry[d][n] # None
  PROVE  /\ entry[d][n] \in Inums /\ dinode[entry[d][n]].nlink >= 1
         /\ dinode[entry[d][n]].nlink \in Nat /\ Live(entry[d][n]) /\ IsDir(d)
  <1>1. PICK i \in Inums : i = entry[d][n]
    BY DEF IInv, FilesInv, TypeOK
  <1>2. /\ IsFiniteSet(Entries(i)) /\ IsFiniteSet(ChildDirs(i)) /\ IsFiniteSet(Pending(i))
    BY Constants, FS_Subset, FS_Product DEF Entries, ChildDirs, Pending
  <1>3. Cardinality(Entries(i)) >= 1
    <2>1. <<d, n>> \in Entries(i)
      BY <1>1 DEF Entries
    <2> QED
      BY <1>2, <2>1, CardSome
  <1>4. /\ Cardinality(ChildDirs(i)) \in Nat /\ Cardinality(Pending(i)) \in Nat
        /\ Cardinality(Entries(i)) \in Nat
    BY <1>2, FS_CardinalityType
  <1>5. dinode[i].nlink >= Cardinality(Entries(i)) + Cardinality(ChildDirs(i)) + Cardinality(Pending(i))
    BY DEF IInv, LinksInv
  <1>6. dinode[i].nlink \in Nat
    BY DEF IInv, FilesInv, TypeOK
  <1>7. dinode[i].nlink >= 1
    BY <1>3, <1>4, <1>5, <1>6
  <1>8. Live(i)
    BY <1>7 DEF IInv, DiskInv, Live
  <1>9. IsDir(d)
    <2>1. entry[d] # NoEntries
      BY DEF NoEntries
    <2> QED
      BY <2>1 DEF IInv, DiskInv, IsDir
  <1> QED
    BY <1>1, <1>6, <1>7, <1>8, <1>9

(* ilock() finds an inode with a type. *)
LEMMA Typed ==
  ASSUME NEW i, Live(i), NEW p, NEW label, LockedGoto(p, i, label)
  PROVE  pc' = [pc EXCEPT ![p] = label]
  BY DEF LockedGoto, NoType, Goto, Live

-----------------------------------------------------------------------------
(* namex(): the first directory. *)
LEMMA BeginStep ==
  ASSUME IInv, NEW p \in Procs, NEW c \in Calls, NEW n \in Names, NEW d \in {root, cwd[p]}, Begin(p, c, n, d)
  PROVE  IInv'
  <1>1. /\ TypeOK /\ PlaceOf(p) /\ LockOf(p) /\ LiveOf(p) /\ Copies(ic, dinode)
    BY Mine, IsCopy
  <1>2. pc[p] = "idle" /\ Where(p) = "idle" /\ c \in Calls \ {"link2", "exit", "other"} /\ budget > 0
    BY DEF Begin, Where, Putting, Calls
  <1>3. d \in Inums /\ IsDir(d)
    <2>1. cwd[p] # None
      BY <1>1, <1>2 DEF PlaceOf
    <2> QED
      BY <1>1, <2>1, Constants DEF IInv, LiveInv, LiveOf, TypeOK
  <1>4. /\ pc' = [pc EXCEPT ![p] = "walk"] /\ call' = [call EXCEPT ![p] = c] /\ name' = [name EXCEPT ![p] = n]
        /\ dp' = [dp EXCEPT ![p] = d] /\ ic' = IGet(ic, d) /\ budget' = budget - 1
        /\ UNCHANGED <<disks, dinode, entry, ftable, file, pipe, ofile, rf, wf, cwd, ip, put, ret>>
    BY DEF Begin, Goto, disks, ftable
  <1>5. /\ pc'[p] = "walk" /\ call'[p] = c /\ name'[p] = n /\ dp'[p] = d /\ dp[p] = None
        /\ cwd'[p] = cwd[p] /\ ip'[p] = ip[p] /\ put'[p] = put[p] /\ Where(p)' = "walk"
        /\ ip[p] = None /\ put[p] = None
    BY <1>1, <1>2, <1>4 DEF TypeOK, Where, Putting, PlaceOf, HasDp, HoldsDp, HasIp, HoldsIp, Linking
  <1>6. /\ Copies(ic', dinode')
        /\ \A j \in Inums : ic'[j].ref = ic[j].ref + Is(d, j) /\ ic'[j].lock = ic[j].lock
    BY <1>1, <1>3, <1>4, IGetCopy
  <1>7. TypeOK'
    BY <1>1, <1>2, <1>3, <1>4, <1>6, FilesAssumption DEF TypeOK, Copies, Caches, Disks, PC, Calls
  <1>8. OnlyBy(p)
    BY <1>1, <1>4 DEF OnlyBy, TypeOK
  <1>9. ~Linking(p)'
    BY <1>2, <1>5 DEF Linking
  <1>10. PlaceOf(p)'
    BY <1>1, <1>2, <1>3, <1>4, <1>5, <1>9, Constants DEF PlaceOf, HasDp, HasIp, HoldsDp, HoldsIp, Putting
  <1>11. Finds(p)
    <2>1. \A j \in Inums : Refers(p, j)' => Sees(p, j)
      BY <1>4, <1>5, Constants DEF Refers, Sees
    <2>2. \A j \in Inums : (p \in Pending(j))' => p \in Pending(j)
      BY <1>5, <1>9 DEF Pending
    <2> QED
      BY <1>1, <1>3, <1>4, <1>5, <1>9, <2>1, <2>2, Mine DEF Finds, LiveOf
  <1>12. Locks(p) /\ LockOf(p)'
    BY <1>1, <1>2, <1>5, <1>6 DEF Locks, LockOf, Holds, HoldsDp, HoldsIp
  <1>13. \A j \in Inums : ic'[j].ref + Own(p, j) = ic[j].ref + Own(p, j)'
    <2>1. ASSUME NEW j \in Inums PROVE ic'[j].ref + Own(p, j) = ic[j].ref + Own(p, j)'
      <3>1. ic[j].ref \in Nat /\ None # j
        BY <1>1, Constants DEF TypeOK
      <3> QED
        BY <1>5, <1>6, <3>1 DEF Own, Is
    <2> QED
      BY <2>1
  <1>14. NewOf(p)' /\ FreeOf(p)'
    BY <1>5 DEF NewOf, FreeOf
  <1>15. {pc[p], pc'[p]} \cap Pipes = {} /\ pc'[p] # "panic" /\ CacheInv'
    BY <1>2, <1>5, <1>6, CopyIs DEF Pipes
  <1> QED
    BY <1>4, <1>7, <1>8, <1>10, <1>11, <1>12, <1>13, <1>14, <1>15, QuietStep

(* nameiparent() reads the directory it stops at. *)
LEMMA WalkParentStep ==
  ASSUME IInv, NEW p \in Procs, WalkParent(p)
  PROVE  IInv'
  <1>1. /\ TypeOK /\ PlaceOf(p) /\ LockOf(p) /\ LiveOf(p) /\ Copies(ic, dinode)
    BY Mine, IsCopy
  <1>2. pc[p] = "walk" /\ Where(p) = "walk" /\ call[p] \in {"creat", "mkdir", "unlink", "link2"}
    BY DEF WalkParent, Where, Putting
  <1>3. dp[p] # None /\ dp[p] \in Inums /\ IsDir(dp[p]) /\ Live(dp[p])
    BY <1>1, <1>2, Mine DEF PlaceOf, HasDp, LiveOf, IsDir, Live
  <1>4. /\ pc' = [pc EXCEPT ![p] = "parent"] /\ ic' = Section(ic, dp[p])
        /\ UNCHANGED <<disks, dinode, entry, ftable, file, pipe, ofile, rf, wf, cwd, call, name, dp, ip, put, ret, budget>>
    BY <1>3, Typed DEF WalkParent, disks, ftable, locals
  <1>5. /\ pc'[p] = "parent" /\ Where(p)' = "parent"
        /\ cwd'[p] = cwd[p] /\ dp'[p] = dp[p] /\ ip'[p] = ip[p] /\ put'[p] = put[p]
        /\ call'[p] = call[p] /\ name'[p] = name[p]
    BY <1>1, <1>4 DEF TypeOK, Where, Putting
  <1>6. /\ Copies(ic', dinode')
        /\ \A j \in Inums : ic'[j].ref = ic[j].ref /\ ic'[j].lock = ic[j].lock
    BY <1>1, <1>3, <1>4, SectionCopy
  <1>7. TypeOK'
    BY <1>1, <1>4, <1>6 DEF TypeOK, Copies, Caches, Disks, PC
  <1>8. OnlyBy(p)
    BY <1>1, <1>4 DEF OnlyBy, TypeOK
  <1>9. Linking(p)' <=> Linking(p)
    BY <1>2, <1>5 DEF Linking
  <1>10. PlaceOf(p)'
    BY <1>1, <1>2, <1>4, <1>5, <1>9 DEF PlaceOf, HasDp, HasIp, HoldsDp, HoldsIp, Putting
  <1>11. Finds(p)
    <2>1. \A j \in Inums : Refers(p, j)' => Sees(p, j)
      BY <1>2, <1>4, <1>5, <1>1, Constants DEF Refers, Sees, PlaceOf, Putting
    <2>2. \A j \in Inums : (p \in Pending(j))' => p \in Pending(j)
      BY <1>5, <1>9 DEF Pending
    <2> QED
      BY <1>1, <1>3, <1>4, <1>5, <1>9, <2>1, <2>2, Mine DEF Finds, LiveOf
  <1>12. Locks(p) /\ LockOf(p)'
    BY <1>1, <1>2, <1>5, <1>6 DEF Locks, LockOf, Holds, HoldsDp, HoldsIp
  <1>13. \A j \in Inums : ic'[j].ref + Own(p, j) = ic[j].ref + Own(p, j)'
    BY <1>5, <1>6 DEF Own
  <1>14. NewOf(p)' /\ FreeOf(p)'
    BY <1>5 DEF NewOf, FreeOf
  <1>15. {pc[p], pc'[p]} \cap Pipes = {} /\ pc'[p] # "panic" /\ CacheInv'
    BY <1>2, <1>5, <1>6, CopyIs DEF Pipes
  <1> QED
    BY <1>4, <1>7, <1>8, <1>10, <1>11, <1>12, <1>13, <1>14, <1>15, QuietStep

(* namei() looks the name up and puts the directory. *)
LEMMA WalkStep ==
  ASSUME IInv, NEW p \in Procs, Walk(p)
  PROVE  IInv'
  <1>1. /\ TypeOK /\ PlaceOf(p) /\ LockOf(p) /\ LiveOf(p) /\ Copies(ic, dinode)
    BY Mine, IsCopy
  <1>2. pc[p] = "walk" /\ Where(p) = "walk" /\ call[p] \in {"open", "link", "chdir"}
    BY DEF Walk, Where, Putting
  <1>3. /\ dp[p] # None /\ dp[p] \in Inums /\ IsDir(dp[p]) /\ Live(dp[p]) /\ name[p] \in Names
        /\ ip[p] = None /\ put[p] = None
    BY <1>1, <1>2, Mine DEF PlaceOf, HasDp, HasIp, HoldsIp, Linking, Putting, LiveOf, IsDir, Live
  <1>4. PICK d \in Inums, e \in Inums \cup {None}, next \in {"idle", "old", "target"} :
          /\ d = dp[p] /\ e = entry[d][name[p]] /\ (next = "idle" <=> e = None)
          /\ next = IF e = None THEN "idle" ELSE IF call[p] = "link" THEN "old" ELSE "target"
    <2>1. dp[p] \in Inums /\ entry[dp[p]][name[p]] \in Inums \cup {None}
      BY <1>1, <1>3 DEF TypeOK
    <2>2. PICK next : next = IF entry[dp[p]][name[p]] = None THEN "idle" ELSE IF call[p] = "link" THEN "old" ELSE "target"
      OBVIOUS
    <2> QED
      BY <2>1, <2>2
  <1>5. /\ pc' = [pc EXCEPT ![p] = "put"] /\ ip' = [ip EXCEPT ![p] = e]
        /\ put' = [put EXCEPT ![p] = d] /\ ret' = [ret EXCEPT ![p] = next]
        /\ dp' = [dp EXCEPT ![p] = None]
        /\ ic' = IF e = None THEN Section(ic, d) ELSE IGet(Section(ic, d), e)
        /\ UNCHANGED <<disks, dinode, entry, ftable, file, pipe, ofile, rf, wf, cwd, call, name, budget>>
    <2>1. LockedGoto(p, dp[p], "put")
      BY DEF Walk
    <2>2. pc' = [pc EXCEPT ![p] = "put"]
      BY <1>3, <2>1, Typed
    <2>3. /\ ip' = [ip EXCEPT ![p] = e] /\ put' = [put EXCEPT ![p] = d]
          /\ ret' = [ret EXCEPT ![p] = next]
      BY <1>4 DEF Walk, Put
    <2>4. ic' = IF e = None THEN Section(ic, d) ELSE IGet(Section(ic, d), e)
      BY <1>4 DEF Walk
    <2> QED
      BY <2>2, <2>3, <2>4 DEF Walk, Drops, disks, ftable
  <1>6. /\ pc'[p] = "put" /\ ret'[p] = next /\ Where(p)' = next
        /\ cwd'[p] = cwd[p] /\ dp'[p] = None /\ ip'[p] = e /\ put'[p] = d
        /\ call'[p] = call[p] /\ name'[p] = name[p]
    BY <1>1, <1>5 DEF TypeOK, Where, Putting
  <1>7. /\ Copies(ic', dinode')
        /\ \A j \in Inums : ic'[j].ref = ic[j].ref + Is(e, j) /\ ic'[j].lock = ic[j].lock
    <2>1. /\ Copies(Section(ic, d), dinode)
          /\ \A j \in Inums : Section(ic, d)[j].ref = ic[j].ref /\ Section(ic, d)[j].lock = ic[j].lock
      BY <1>1, <1>3, <1>4, SectionCopy
    <2>2. CASE e = None
      BY <1>1, <1>5, <2>1, <2>2, Constants DEF Is, TypeOK
    <2>3. CASE e # None
      <3>1. e \in Inums
        BY <1>4, <2>3
      <3>2. PICK c : c = Section(ic, d)
        OBVIOUS
      <3>3. /\ Copies(IGet(c, e), dinode)
            /\ \A j \in Inums : IGet(c, e)[j].ref = c[j].ref + Is(e, j) /\ IGet(c, e)[j].lock = c[j].lock
        BY <2>1, <3>1, <3>2, IGetCopy
      <3> QED
        BY <1>5, <2>1, <2>3, <3>2, <3>3
    <2> QED
      BY <2>2, <2>3
  <1>8. TypeOK'
    BY <1>1, <1>4, <1>5, <1>7 DEF TypeOK, Copies, Caches, Disks, PC
  <1>9. OnlyBy(p)
    BY <1>1, <1>5 DEF OnlyBy, TypeOK
  <1>10. ~Linking(p)'
    BY <1>2, <1>6 DEF Linking
  <1>11. PlaceOf(p)'
    BY <1>1, <1>2, <1>4, <1>5, <1>6, <1>10, Constants DEF PlaceOf, HasDp, HasIp, HoldsDp, HoldsIp, Putting, Back
  <1>12. Finds(p)
    <2>1. \A j \in Inums : Refers(p, j)' => Sees(p, j)
      <3>1. e # None => Sees(p, e)
        <4>1. e # None => dinode[e].nlink >= 1 /\ dinode[e].nlink \in Nat
          BY <1>3, <1>4, Leads
        <4> QED
          BY <4>1 DEF Sees
      <3> QED
        BY <1>3, <1>4, <1>5, <1>6, <3>1, Constants DEF Refers, Sees
    <2>2. \A j \in Inums : (p \in Pending(j))' => p \in Pending(j)
      BY <1>4, <1>6, <1>10 DEF Pending
    <2> QED
      BY <1>1, <1>5, <1>6, <1>10, <2>1, <2>2, Mine DEF Finds, LiveOf
  <1>13. Locks(p) /\ LockOf(p)'
    BY <1>1, <1>2, <1>6, <1>7 DEF Locks, LockOf, Holds, HoldsDp, HoldsIp
  <1>14. \A j \in Inums : ic'[j].ref + Own(p, j) = ic[j].ref + Own(p, j)'
    <2>1. ASSUME NEW j \in Inums PROVE ic'[j].ref + Own(p, j) = ic[j].ref + Own(p, j)'
      <3>1. ic[j].ref \in Nat /\ None # j
        BY <1>1, Constants DEF TypeOK
      <3> QED
        BY <1>3, <1>4, <1>6, <1>7, <3>1 DEF Own, Is
    <2> QED
      BY <2>1
  <1>15. NewOf(p)' /\ FreeOf(p)'
    BY <1>6 DEF NewOf, FreeOf
  <1>16. {pc[p], pc'[p]} \cap Pipes = {} /\ pc'[p] # "panic" /\ CacheInv'
    BY <1>2, <1>6, <1>7, CopyIs DEF Pipes
  <1> QED
    BY <1>5, <1>8, <1>9, <1>11, <1>12, <1>13, <1>14, <1>15, <1>16, QuietStep

(* What dirlookup() in the parent finds. *)
LEMMA InParent ==
  ASSUME IInv, NEW p \in Procs, pc[p] = "parent", Unlocked(dp[p])
  PROVE  /\ dp[p] \in Inums /\ dp[p] # None /\ IsDir(dp[p]) /\ Live(dp[p]) /\ name[p] \in Names
         /\ put[p] = None /\ Where(p) = "parent" /\ ic[dp[p]].lock = NoProc /\ ic[dp[p]].ref > 0
         /\ entry[dp[p]][name[p]] \in Inums \cup {None}
         /\ entry[dp[p]][name[p]] # None =>
               /\ entry[dp[p]][name[p]] \in Inums /\ Sees(p, entry[dp[p]][name[p]])
               /\ Live(entry[dp[p]][name[p]])
         /\ call[p] # "link2" => ip[p] = None /\ ~Linking(p)
         /\ call[p] = "link2" => ip[p] \in Inums /\ ip[p] # None /\ Linking(p)
         /\ \A j \in Inums : ic[j].lock # p
         /\ cwd[p] # None /\ cwd[p] \in Inums
  <1>1. /\ TypeOK /\ PlaceOf(p) /\ LockOf(p) /\ LiveOf(p)
    BY Mine
  <1>2. Where(p) = "parent"
    BY DEF Where, Putting
  <1>3. /\ dp[p] \in Inums /\ dp[p] # None /\ IsDir(dp[p]) /\ Live(dp[p]) /\ name[p] \in Names
        /\ put[p] = None /\ cwd[p] # None /\ cwd[p] \in Inums
    BY <1>1, <1>2, Mine DEF PlaceOf, HasDp, Putting, LiveOf, IsDir, Live
  <1>4. entry[dp[p]][name[p]] \in Inums \cup {None}
    BY <1>1, <1>3 DEF TypeOK
  <1>5. entry[dp[p]][name[p]] # None => dinode[entry[dp[p]][name[p]]].nlink >= 1 /\ Live(entry[dp[p]][name[p]])
                                        /\ dinode[entry[dp[p]][name[p]]].nlink \in Nat
    BY <1>3, Leads
  <1>6. entry[dp[p]][name[p]] # None => Sees(p, entry[dp[p]][name[p]])
    BY <1>5 DEF Sees
  <1>7. /\ call[p] # "link2" => ip[p] = None /\ ~Linking(p)
        /\ call[p] = "link2" => ip[p] \in Inums /\ ip[p] # None /\ Linking(p)
    BY <1>1, <1>2, Mine DEF PlaceOf, HasIp, HoldsIp, Linking
  <1>8. \A j \in Inums : ic[j].lock # p
    BY <1>1, <1>2 DEF LockOf, Holds, HoldsDp, HoldsIp
  <1>9. ic[dp[p]].ref > 0
    <2>1. ic[dp[p]].ref >= 1 /\ ic[dp[p]].ref \in Nat
      BY <1>1, <1>3, Referred DEF IInv, FilesInv, TypeOK
    <2> QED
      BY <2>1
  <1> QED
    BY <1>2, <1>3, <1>4, <1>5, <1>6, <1>7, <1>8, <1>9 DEF Unlocked

(* dirlookup() in d, after ilock(d). *)
LEMMA LookedUp ==
  ASSUME Copies(ic, dinode), NEW d \in Inums, Live(d), NEW e \in Inums
  PROVE  /\ Copies(IGet(Section(ic, d), e), dinode)
         /\ \A j \in Inums : /\ IGet(Section(ic, d), e)[j].ref = ic[j].ref + Is(e, j)
                             /\ IGet(Section(ic, d), e)[j].lock = ic[j].lock
  <1>1. PICK c : c = Section(ic, d)
    OBVIOUS
  <1>2. Copies(c, dinode) /\ \A j \in Inums : c[j].ref = ic[j].ref /\ c[j].lock = ic[j].lock
    BY <1>1, SectionCopy
  <1>3. /\ Copies(IGet(c, e), dinode)
        /\ \A j \in Inums : IGet(c, e)[j].ref = c[j].ref + Is(e, j) /\ IGet(c, e)[j].lock = c[j].lock
    BY <1>2, IGetCopy
  <1> QED
    BY <1>1, <1>2, <1>3

(* The same when d stays locked. *)
LEMMA LookedUpLocked ==
  ASSUME Copies(ic, dinode), NEW d \in Inums, Live(d), ic[d].ref > 0, NEW p \in Procs, NEW e \in Inums
  PROVE  /\ Copies(IGet(ILock(ic, d, p), e), dinode)
         /\ \A j \in Inums : /\ IGet(ILock(ic, d, p), e)[j].ref = ic[j].ref + Is(e, j)
                             /\ IGet(ILock(ic, d, p), e)[j].lock = IF j = d THEN p ELSE ic[j].lock
  <1>1. PICK c : c = ILock(ic, d, p)
    OBVIOUS
  <1>2. /\ Copies(c, dinode) /\ c[d].lock = p
        /\ \A j \in Inums : c[j].ref = ic[j].ref /\ (j # d => c[j].lock = ic[j].lock)
    BY <1>1, ILockCopy
  <1>3. /\ Copies(IGet(c, e), dinode)
        /\ \A j \in Inums : IGet(c, e)[j].ref = c[j].ref + Is(e, j) /\ IGet(c, e)[j].lock = c[j].lock
    BY <1>2, IGetCopy
  <1> QED
    BY <1>1, <1>2, <1>3

(* create() of a name that exists. *)
LEMMA CreateOldStep ==
  ASSUME IInv, NEW p \in Procs, CreateOld(p)
  PROVE  IInv'
  <1>1. /\ TypeOK /\ PlaceOf(p) /\ LockOf(p) /\ LiveOf(p) /\ Copies(ic, dinode)
    BY Mine, IsCopy
  <1>2. pc[p] = "parent" /\ call[p] \in {"creat", "mkdir"} /\ Unlocked(dp[p]) /\ Where(p) = "parent"
    BY DEF CreateOld, Where, Putting
  <1>3. PICK d \in Inums, e \in Inums : d = dp[p] /\ e = entry[d][name[p]] /\ e # None
    BY <1>2, InParent DEF CreateOld
  <1>4. /\ IsDir(d) /\ Live(d) /\ name[p] \in Names /\ put[p] = None /\ ip[p] = None
        /\ Sees(p, e) /\ Live(e) /\ dp[p] # None
    BY <1>2, <1>3, InParent
  <1>5. /\ pc' = [pc EXCEPT ![p] = "put"] /\ ip' = [ip EXCEPT ![p] = e]
        /\ put' = [put EXCEPT ![p] = d] /\ ret' = [ret EXCEPT ![p] = "exists"]
        /\ dp' = [dp EXCEPT ![p] = None] /\ ic' = IGet(Section(ic, d), e)
        /\ UNCHANGED <<disks, dinode, entry, ftable, file, pipe, ofile, rf, wf, cwd, call, name, budget>>
    <2>1. LockedGoto(p, d, "put")
      BY <1>3 DEF CreateOld
    <2>2. pc' = [pc EXCEPT ![p] = "put"]
      BY <1>4, <2>1, Typed
    <2> QED
      BY <1>3, <2>2 DEF CreateOld, Put, Drops, disks, ftable
  <1>6. /\ pc'[p] = "put" /\ ret'[p] = "exists" /\ Where(p)' = "exists"
        /\ cwd'[p] = cwd[p] /\ dp'[p] = None /\ ip'[p] = e /\ put'[p] = d
        /\ call'[p] = call[p] /\ name'[p] = name[p]
    BY <1>1, <1>5 DEF TypeOK, Where, Putting
  <1>7. /\ Copies(ic', dinode')
        /\ \A j \in Inums : ic'[j].ref = ic[j].ref + Is(e, j) /\ ic'[j].lock = ic[j].lock
    BY <1>1, <1>4, <1>5, LookedUp
  <1>8. TypeOK'
    BY <1>1, <1>5, <1>7 DEF TypeOK, Copies, Caches, Disks, PC
  <1>9. OnlyBy(p)
    BY <1>1, <1>5 DEF OnlyBy, TypeOK
  <1>10. ~Linking(p)'
    BY <1>6 DEF Linking
  <1>11. PlaceOf(p)'
    BY <1>1, <1>2, <1>5, <1>6, <1>10, Constants DEF PlaceOf, HasDp, HasIp, HoldsDp, HoldsIp, Putting, Back
  <1>12. Finds(p)
    <2>1. \A j \in Inums : Refers(p, j)' => Sees(p, j)
      BY <1>3, <1>4, <1>5, <1>6, Constants DEF Refers, Sees
    <2>2. \A j \in Inums : (p \in Pending(j))' => p \in Pending(j)
      BY <1>6, <1>10 DEF Pending
    <2> QED
      BY <1>1, <1>5, <1>6, <1>10, <2>1, <2>2, Mine DEF Finds, LiveOf
  <1>13. Locks(p) /\ LockOf(p)'
    BY <1>1, <1>2, <1>6, <1>7 DEF Locks, LockOf, Holds, HoldsDp, HoldsIp
  <1>14. \A j \in Inums : ic'[j].ref + Own(p, j) = ic[j].ref + Own(p, j)'
    <2>1. ASSUME NEW j \in Inums PROVE ic'[j].ref + Own(p, j) = ic[j].ref + Own(p, j)'
      <3>1. ic[j].ref \in Nat /\ None # j
        BY <1>1, Constants DEF TypeOK
      <3> QED
        BY <1>3, <1>4, <1>6, <1>7, <3>1 DEF Own, Is
    <2> QED
      BY <2>1
  <1>15. NewOf(p)' /\ FreeOf(p)'
    BY <1>6 DEF NewOf, FreeOf
  <1>16. {pc[p], pc'[p]} \cap Pipes = {} /\ pc'[p] # "panic" /\ CacheInv'
    BY <1>2, <1>6, <1>7, CopyIs DEF Pipes
  <1> QED
    BY <1>5, <1>8, <1>9, <1>11, <1>12, <1>13, <1>14, <1>15, <1>16, QuietStep

(* sys_unlink(): the name is looked up. *)
LEMMA UnlinkLookupStep ==
  ASSUME IInv, NEW p \in Procs, UnlinkLookup(p)
  PROVE  IInv'
  <1>1. /\ TypeOK /\ PlaceOf(p) /\ LockOf(p) /\ LiveOf(p) /\ Copies(ic, dinode)
    BY Mine, IsCopy
  <1>2. pc[p] = "parent" /\ call[p] = "unlink" /\ Unlocked(dp[p]) /\ Where(p) = "parent"
    BY DEF UnlinkLookup, Where, Putting
  <1>3. PICK d \in Inums, e \in Inums \cup {None} : d = dp[p] /\ e = entry[d][name[p]]
    BY <1>2, InParent
  <1>4. /\ IsDir(d) /\ Live(d) /\ name[p] \in Names /\ put[p] = None /\ ip[p] = None
        /\ e # None => Sees(p, e) /\ e \in Inums
        /\ ic[d].lock = NoProc /\ ic[d].ref > 0 /\ dp[p] # None /\ \A j \in Inums : ic[j].lock # p
    BY <1>2, <1>3, InParent
  <1>5. UNCHANGED <<disks, dinode, entry, ftable, file, pipe, ofile, rf, wf, cwd, call, name, budget>>
    BY DEF UnlinkLookup, disks, ftable
  <1>6. CASE e = None
    <2>1. /\ pc' = [pc EXCEPT ![p] = "put"] /\ put' = [put EXCEPT ![p] = d]
          /\ ret' = [ret EXCEPT ![p] = "idle"] /\ dp' = [dp EXCEPT ![p] = None] /\ ip' = ip
          /\ ic' = Section(ic, d)
      <3>1. LockedGoto(p, d, "put")
        BY <1>3, <1>6 DEF UnlinkLookup
      <3>2. pc' = [pc EXCEPT ![p] = "put"]
        BY <1>4, <3>1, Typed
      <3> QED
        BY <1>3, <1>6, <3>2 DEF UnlinkLookup, Put, Drops
    <2>2. /\ pc'[p] = "put" /\ ret'[p] = "idle" /\ Where(p)' = "idle"
          /\ cwd'[p] = cwd[p] /\ dp'[p] = None /\ ip'[p] = None /\ put'[p] = d
          /\ call'[p] = call[p] /\ name'[p] = name[p]
      BY <1>1, <1>4, <1>5, <2>1 DEF TypeOK, Where, Putting
    <2>3. Copies(ic', dinode') /\ \A j \in Inums : ic'[j].ref = ic[j].ref /\ ic'[j].lock = ic[j].lock
      BY <1>1, <1>4, <1>5, <2>1, SectionCopy
    <2>4. TypeOK'
      BY <1>1, <1>5, <2>1, <2>3 DEF TypeOK, Copies, Caches, Disks, PC
    <2>5. OnlyBy(p)
      BY <1>1, <1>5, <2>1 DEF OnlyBy, TypeOK
    <2>6. ~Linking(p)'
      BY <2>2 DEF Linking
    <2>7. PlaceOf(p)'
      BY <1>1, <1>2, <1>5, <2>2, <2>6, Constants DEF PlaceOf, HasDp, HasIp, HoldsDp, HoldsIp, Putting, Back
    <2>8. Finds(p)
      <3>1. \A j \in Inums : Refers(p, j)' => Sees(p, j)
        BY <1>3, <1>4, <1>5, <2>2, Constants DEF Refers, Sees
      <3>2. \A j \in Inums : (p \in Pending(j))' => p \in Pending(j)
        BY <2>2, <2>6 DEF Pending
      <3> QED
        BY <1>1, <1>5, <2>2, <2>6, <3>1, <3>2, Mine DEF Finds, LiveOf
    <2>9. Locks(p) /\ LockOf(p)'
      BY <1>1, <1>2, <2>2, <2>3 DEF Locks, LockOf, Holds, HoldsDp, HoldsIp
    <2>10. \A j \in Inums : ic'[j].ref + Own(p, j) = ic[j].ref + Own(p, j)'
      <3>1. ASSUME NEW j \in Inums PROVE ic'[j].ref + Own(p, j) = ic[j].ref + Own(p, j)'
        <4>1. ic[j].ref \in Nat /\ None # j
          BY <1>1, Constants DEF TypeOK
        <4> QED
          BY <1>3, <1>4, <2>2, <2>3, <4>1 DEF Own, Is
      <3> QED
        BY <3>1
    <2>11. NewOf(p)' /\ FreeOf(p)'
      BY <2>2 DEF NewOf, FreeOf
    <2>12. {pc[p], pc'[p]} \cap Pipes = {} /\ pc'[p] # "panic" /\ CacheInv'
      BY <1>2, <2>2, <2>3, CopyIs DEF Pipes
    <2> QED
      BY <1>5, <2>4, <2>5, <2>7, <2>8, <2>9, <2>10, <2>11, <2>12, QuietStep
  <1>7. CASE e # None
    <2>1. /\ pc' = [pc EXCEPT ![p] = "victim"] /\ ip' = [ip EXCEPT ![p] = e]
          /\ put' = put /\ ret' = ret /\ dp' = dp /\ ic' = IGet(ILock(ic, d, p), e)
      <3>1. LockedGoto(p, d, "victim")
        BY <1>3, <1>7 DEF UnlinkLookup
      <3>2. pc' = [pc EXCEPT ![p] = "victim"]
        BY <1>4, <3>1, Typed
      <3> QED
        BY <1>3, <1>7, <3>2 DEF UnlinkLookup
    <2>2. /\ pc'[p] = "victim" /\ Where(p)' = "victim"
          /\ cwd'[p] = cwd[p] /\ dp'[p] = d /\ ip'[p] = e /\ put'[p] = None
          /\ call'[p] = call[p] /\ name'[p] = name[p]
      BY <1>1, <1>3, <1>4, <1>5, <2>1 DEF TypeOK, Where, Putting
    <2>3. /\ Copies(ic', dinode')
          /\ \A j \in Inums : /\ ic'[j].ref = ic[j].ref + Is(e, j)
                              /\ ic'[j].lock = IF j = d THEN p ELSE ic[j].lock
      BY <1>1, <1>4, <1>5, <1>7, <2>1, LookedUpLocked
    <2>4. TypeOK'
      BY <1>1, <1>5, <2>1, <2>3 DEF TypeOK, Copies, Caches, Disks, PC
    <2>5. OnlyBy(p)
      BY <1>1, <1>5, <2>1 DEF OnlyBy, TypeOK
    <2>6. ~Linking(p)'
      BY <2>2 DEF Linking
    <2>7. PlaceOf(p)'
      BY <1>1, <1>2, <1>4, <1>5, <1>7, <2>2, <2>6, Constants DEF PlaceOf, HasDp, HasIp, HoldsDp, HoldsIp, Putting, Back
    <2>8. Finds(p)
      <3>1. \A j \in Inums : Refers(p, j)' => Sees(p, j)
        BY <1>3, <1>4, <1>5, <1>7, <2>2, Constants DEF Refers, Sees
      <3>2. \A j \in Inums : (p \in Pending(j))' => p \in Pending(j)
        BY <2>2, <2>6 DEF Pending
      <3> QED
        BY <1>1, <1>4, <1>5, <2>2, <2>6, <3>1, <3>2, Mine DEF Finds, LiveOf
    <2>9. Locks(p) /\ LockOf(p)'
      BY <1>4, <2>2, <2>3 DEF Locks, LockOf, Holds, HoldsDp, HoldsIp
    <2>10. \A j \in Inums : ic'[j].ref + Own(p, j) = ic[j].ref + Own(p, j)'
      <3>1. ASSUME NEW j \in Inums PROVE ic'[j].ref + Own(p, j) = ic[j].ref + Own(p, j)'
        <4>1. ic[j].ref \in Nat /\ None # j
          BY <1>1, Constants DEF TypeOK
        <4> QED
          BY <1>3, <1>4, <2>2, <2>3, <4>1 DEF Own, Is
      <3> QED
        BY <3>1
    <2>11. NewOf(p)' /\ FreeOf(p)'
      BY <1>3, <1>5, <2>2 DEF NewOf, FreeOf
    <2>12. {pc[p], pc'[p]} \cap Pipes = {} /\ pc'[p] # "panic" /\ CacheInv'
      BY <1>2, <2>2, <2>3, CopyIs DEF Pipes
    <2> QED
      BY <1>5, <2>4, <2>5, <2>7, <2>8, <2>9, <2>10, <2>11, <2>12, QuietStep
  <1> QED
    BY <1>6, <1>7

-----------------------------------------------------------------------------
(* The ends of the calls that have an inode and no directory.              *)
AtEnd == {"exists", "target", "old", "made"}

(* What is known at the end of a call, about to lock ip or with its lock. *)
LEMMA InTarget ==
  ASSUME IInv, NEW p \in Procs, pc[p] \in AtEnd \cup {"bad"}, pc[p] = "made" \/ Unlocked(ip[p])
  PROVE  /\ ip[p] \in Inums /\ ip[p] # None /\ Live(ip[p]) /\ dp[p] = None /\ put[p] = None
         /\ cwd[p] \in Inums /\ cwd[p] # None /\ Where(p) = pc[p] /\ ~Linking(p)
         /\ ic[ip[p]].lock = IF pc[p] = "made" THEN p ELSE NoProc
         /\ ic[ip[p]].ref > 0
         /\ \A j \in Inums : ic[j].lock = p => j = ip[p]
         /\ pc[p] = "made" => ic[ip[p]].valid
  <1>1. /\ TypeOK /\ PlaceOf(p) /\ LockOf(p) /\ LiveOf(p)
    BY Mine
  <1>2. Where(p) = pc[p] /\ ~Linking(p)
    BY DEF Where, Putting, Linking, AtEnd
  <1>3. /\ ip[p] \in Inums /\ ip[p] # None /\ Live(ip[p]) /\ dp[p] = None /\ put[p] = None
        /\ cwd[p] # None /\ cwd[p] \in Inums
    BY <1>1, <1>2, Mine DEF PlaceOf, HasDp, HoldsDp, HasIp, HoldsIp, Putting, LiveOf, AtEnd
  <1>4. \A j \in Inums : ic[j].lock = p <=> j = ip[p] /\ pc[p] = "made"
    BY <1>1, <1>2 DEF LockOf, Holds, HoldsDp, HoldsIp, AtEnd
  <1>5. ic[ip[p]].ref > 0
    <2>1. ic[ip[p]].ref >= 1 /\ ic[ip[p]].ref \in Nat
      BY <1>1, <1>3, Referred DEF IInv, FilesInv, TypeOK
    <2> QED
      BY <2>1
  <1>6. pc[p] = "made" => ic[ip[p]].valid
    BY <1>3, <1>4, Constants DEF IInv, CacheInv, CacheOf
  <1> QED
    BY <1>2, <1>3, <1>4, <1>5, <1>6 DEF Unlocked

(* iunlockput(ip), from a cache c in which p has at most ip's lock. *)
LEMMA EndCall ==
  ASSUME IInv, NEW p \in Procs, pc[p] \in AtEnd, pc[p] = "made" \/ Unlocked(ip[p]),
         NEW c, Copies(c, dinode), \A j \in Inums : c[j].ref = ic[j].ref /\ c[j].lock = ic[j].lock,
         UnlockPut(p, c), pc' = [pc EXCEPT ![p] = "put"],
         UNCHANGED disks, UNCHANGED ftable, UNCHANGED cwd, UNCHANGED dp, UNCHANGED budget
  PROVE  IInv'
  <1>1. /\ TypeOK /\ PlaceOf(p) /\ LockOf(p) /\ LiveOf(p)
    BY Mine
  <1>2. PICK i \in Inums : i = ip[p]
    BY InTarget
  <1>3. /\ i # None /\ Live(i) /\ dp[p] = None /\ put[p] = None
        /\ cwd[p] \in Inums /\ cwd[p] # None /\ Where(p) = pc[p]
        /\ ic[i].lock \in {NoProc, p} /\ \A j \in Inums : ic[j].lock = p => j = i
    BY <1>2, InTarget
  <1>4. /\ put' = [put EXCEPT ![p] = i] /\ ret' = [ret EXCEPT ![p] = "idle"]
        /\ ip' = [ip EXCEPT ![p] = None] /\ ic' = IUnlock(c, i)
        /\ UNCHANGED <<dinode, entry, file, pipe, ofile, rf, wf, cwd, dp, call, name, budget>>
    BY <1>2 DEF UnlockPut, Put, Drops, disks, ftable
  <1>5. /\ pc'[p] = "put" /\ ret'[p] = "idle" /\ Where(p)' = "idle"
        /\ cwd'[p] = cwd[p] /\ dp'[p] = None /\ ip'[p] = None /\ put'[p] = i
        /\ call'[p] = call[p] /\ name'[p] = name[p]
    BY <1>1, <1>3, <1>4 DEF TypeOK, Where, Putting
  <1>6. /\ Copies(ic', dinode')
        /\ \A j \in Inums : ic'[j].ref = ic[j].ref /\ (j # i => ic'[j].lock = ic[j].lock)
        /\ ic'[i].lock = NoProc
    BY <1>4, IUnlockCopy
  <1>7. TypeOK'
    BY <1>1, <1>4, <1>6 DEF TypeOK, Copies, Caches, Disks, PC
  <1>8. OnlyBy(p)
    BY <1>1, <1>4 DEF OnlyBy, TypeOK
  <1>9. ~Linking(p)'
    BY <1>5 DEF Linking
  <1>10. PlaceOf(p)'
    BY <1>1, <1>3, <1>4, <1>5, <1>9, Constants DEF PlaceOf, HasDp, HasIp, HoldsDp, HoldsIp, Putting, Back
  <1>11. Finds(p)
    <2>1. \A j \in Inums : Refers(p, j)' => Sees(p, j)
      BY <1>2, <1>3, <1>4, <1>5, Constants DEF Refers, Sees
    <2>2. \A j \in Inums : (p \in Pending(j))' => p \in Pending(j)
      BY <1>5, <1>9 DEF Pending
    <2> QED
      BY <1>1, <1>4, <1>5, <1>9, <2>1, <2>2, Mine DEF Finds, LiveOf
  <1>12. Locks(p) /\ LockOf(p)'
    BY <1>3, <1>5, <1>6, Constants DEF Locks, LockOf, Holds, HoldsDp, HoldsIp
  <1>13. \A j \in Inums : ic'[j].ref + Own(p, j) = ic[j].ref + Own(p, j)'
    <2>1. ASSUME NEW j \in Inums PROVE ic'[j].ref + Own(p, j) = ic[j].ref + Own(p, j)'
      <3>1. ic[j].ref \in Nat /\ None # j
        BY <1>1, Constants DEF TypeOK
      <3> QED
        BY <1>2, <1>3, <1>5, <1>6, <3>1 DEF Own, Is
    <2> QED
      BY <2>1
  <1>14. NewOf(p)' /\ FreeOf(p)'
    BY <1>5 DEF NewOf, FreeOf
  <1>15. {pc[p], pc'[p]} \cap Pipes = {} /\ pc'[p] # "panic" /\ CacheInv'
    BY <1>5, <1>6, CopyIs DEF AtEnd, Pipes
  <1> QED
    BY <1>4, <1>7, <1>8, <1>10, <1>11, <1>12, <1>13, <1>14, <1>15, QuietStep

(* The cache after ilock(ip). *)
LEMMA TargetRead ==
  ASSUME IInv, NEW p \in Procs, pc[p] \in AtEnd \cup {"bad"}, pc[p] # "made", Unlocked(ip[p])
  PROVE  /\ Copies(Section(ic, ip[p]), dinode)
         /\ \A j \in Inums : /\ Section(ic, ip[p])[j].ref = ic[j].ref
                             /\ Section(ic, ip[p])[j].lock = ic[j].lock
         /\ Section(ic, ip[p])[ip[p]].type = dinode[ip[p]].type
         /\ Section(ic, ip[p])[ip[p]].nlink = dinode[ip[p]].nlink
  BY IsCopy, InTarget, SectionCopy

(* sys_link() refuses a directory. *)
LEMMA LinkDirStep ==
  ASSUME IInv, NEW p \in Procs, LinkDir(p)
  PROVE  IInv'
  <1>1. pc[p] = "old" /\ Unlocked(ip[p]) /\ pc[p] \in AtEnd
    BY DEF LinkDir, AtEnd
  <1>2. /\ Copies(Section(ic, ip[p]), dinode)
        /\ \A j \in Inums : /\ Section(ic, ip[p])[j].ref = ic[j].ref
                            /\ Section(ic, ip[p])[j].lock = ic[j].lock
    BY <1>1, TargetRead
  <1>3. LockedGoto(p, ip[p], "put") /\ Live(ip[p])
    BY <1>1, InTarget DEF LinkDir
  <1>4. pc' = [pc EXCEPT ![p] = "put"]
    BY <1>3, Typed
  <1> QED
    BY <1>1, <1>2, <1>4, EndCall DEF LinkDir

(* chdir() *)
LEMMA ChdirStep ==
  ASSUME IInv, NEW p \in Procs, Chdir(p)
  PROVE  IInv'
  <1>1. pc[p] = "target" /\ Unlocked(ip[p]) /\ pc[p] \in AtEnd /\ call[p] = "chdir"
    BY DEF Chdir, AtEnd
  <1>2. PICK c : c = Section(ic, ip[p])
    OBVIOUS
  <1>3. /\ Copies(c, dinode) /\ c[ip[p]].type = dinode[ip[p]].type
        /\ \A j \in Inums : c[j].ref = ic[j].ref /\ c[j].lock = ic[j].lock
    BY <1>1, <1>2, TargetRead
  <1>4. LockedGoto(p, ip[p], "put") /\ Live(ip[p])
    BY <1>1, InTarget DEF Chdir
  <1>5. pc' = [pc EXCEPT ![p] = "put"]
    BY <1>4, Typed
  <1>6. CASE c[ip[p]].type # "DIR"
    <2>1. UnlockPut(p, c) /\ UNCHANGED <<disks, ftable, dp, budget, cwd>>
      BY <1>2, <1>6 DEF Chdir
    <2> QED
      BY <1>1, <1>3, <1>5, <2>1, EndCall
  <1>7. CASE c[ip[p]].type = "DIR"
    <2>1. /\ TypeOK /\ PlaceOf(p) /\ LockOf(p) /\ LiveOf(p)
      BY Mine
    <2>2. PICK i \in Inums, d \in Inums : i = ip[p] /\ d = cwd[p]
      BY <1>1, InTarget
    <2>3. /\ i # None /\ IsDir(i) /\ dp[p] = None /\ put[p] = None /\ d # None
          /\ Where(p) = "target" /\ \A j \in Inums : ic[j].lock # p
      <3>1. /\ i # None /\ dp[p] = None /\ put[p] = None /\ d # None /\ Where(p) = "target"
            /\ ic[i].lock = NoProc /\ \A j \in Inums : ic[j].lock = p => j = i
        BY <1>1, <2>2, InTarget
      <3>2. IsDir(i)
        BY <1>3, <1>7, <2>2 DEF IsDir
      <3> QED
        BY <3>1, <3>2, Constants
    <2>4. /\ put' = [put EXCEPT ![p] = d] /\ ret' = [ret EXCEPT ![p] = "idle"]
          /\ ip' = [ip EXCEPT ![p] = None] /\ cwd' = [cwd EXCEPT ![p] = i] /\ ic' = c
          /\ UNCHANGED <<disks, dinode, entry, ftable, file, pipe, ofile, rf, wf, dp, call, name, budget>>
      BY <1>2, <1>7, <2>2 DEF Chdir, Put, Drops, disks, ftable
    <2>5. /\ pc'[p] = "put" /\ ret'[p] = "idle" /\ Where(p)' = "idle"
          /\ cwd'[p] = i /\ dp'[p] = None /\ ip'[p] = None /\ put'[p] = d
          /\ call'[p] = call[p] /\ name'[p] = name[p]
      BY <1>5, <2>1, <2>3, <2>4 DEF TypeOK, Where, Putting
    <2>6. TypeOK'
      BY <1>3, <1>5, <2>1, <2>4 DEF TypeOK, Copies, Caches, Disks, PC
    <2>7. OnlyBy(p)
      BY <1>5, <2>1, <2>4 DEF OnlyBy, TypeOK
    <2>8. ~Linking(p)'
      BY <2>5 DEF Linking
    <2>9. PlaceOf(p)'
      BY <2>3, <2>5, <2>8, Constants DEF PlaceOf, HasDp, HasIp, HoldsDp, HoldsIp, Putting, Back
    <2>10. Finds(p)
      <3>1. \A j \in Inums : Refers(p, j)' => Sees(p, j)
        BY <2>2, <2>3, <2>4, <2>5, Constants DEF Refers, Sees
      <3>2. \A j \in Inums : (p \in Pending(j))' => p \in Pending(j)
        BY <2>5, <2>8 DEF Pending
      <3> QED
        BY <2>3, <2>4, <2>5, <2>8, <3>1, <3>2, Mine DEF Finds
    <2>11. Locks(p) /\ LockOf(p)'
      BY <1>3, <2>3, <2>4, <2>5 DEF Locks, LockOf, Holds, HoldsDp, HoldsIp
    <2>12. \A j \in Inums : ic'[j].ref + Own(p, j) = ic[j].ref + Own(p, j)'
      <3>1. ASSUME NEW j \in Inums PROVE ic'[j].ref + Own(p, j) = ic[j].ref + Own(p, j)'
        <4>1. ic[j].ref \in Nat /\ None # j
          BY <2>1, Constants DEF TypeOK
        <4> QED
          BY <1>3, <2>2, <2>3, <2>4, <2>5, <4>1 DEF Own, Is
      <3> QED
        BY <3>1
    <2>13. NewOf(p)' /\ FreeOf(p)'
      BY <2>5 DEF NewOf, FreeOf
    <2>14. {pc[p], pc'[p]} \cap Pipes = {} /\ pc'[p] # "panic" /\ CacheInv'
      BY <1>1, <1>3, <2>4, <2>5, CopyIs DEF Pipes
    <2> QED
      BY <2>4, <2>6, <2>7, <2>9, <2>10, <2>11, <2>12, <2>13, <2>14, QuietStep
  <1> QED
    BY <1>6, <1>7

-----------------------------------------------------------------------------
(* The table of open files.                                                *)
FdsOf(o, f) == {x \in Procs \X FDs : o[x[1]][x[2]] = f}
Fds(f) == {x \in Procs \X FDs : ofile[x[1]][x[2]] = f}

(* What FilesCounted counts. *)
Refs(f) == Cardinality(Fds(f)) + Count(rf, f) + Count(wf, f)

EndsCounted ==
    /\ pipe.readopen = \/ \E f \in Handles : IsPipe(f) /\ ~file[f].writable
                       \/ \E p \in Procs : pc[p] = "rclose"
    /\ pipe.writeopen = \/ \E f \in Handles : IsPipe(f) /\ file[f].writable
                        \/ \E p \in Procs : pc[p] = "wclose"

(* FilesCounted in these terms. *)
LEMMA FilesAre ==
  FilesCounted <=> (\A f \in Handles : file[f].ref = Refs(f)) /\ EndsCounted
  BY DEF FilesCounted, Refs, Fds, Count, EndsCounted, IsPipe

(* The counts are numbers, and none of those who hold f is left out. *)
LEMMA RefsNat ==
  ASSUME NEW f
  PROVE  /\ Cardinality(Fds(f)) \in Nat /\ Count(rf, f) \in Nat /\ Count(wf, f) \in Nat /\ Refs(f) \in Nat
         /\ \A p \in Procs, fd \in FDs : ofile[p][fd] = f => Refs(f) >= 1
         /\ \A p \in Procs : rf[p] = f \/ wf[p] = f => Refs(f) >= 1
  <1>1. IsFiniteSet(Fds(f))
    BY Constants, FS_Subset, FS_Product DEF Fds
  <1>2. Cardinality(Fds(f)) \in Nat
    BY <1>1, FS_CardinalityType
  <1>3. ASSUME NEW p \in Procs, NEW fd \in FDs, ofile[p][fd] = f PROVE Cardinality(Fds(f)) >= 1
    <2>1. <<p, fd>> \in Fds(f)
      BY <1>3 DEF Fds
    <2> QED
      BY <1>1, <2>1, CardSome
  <1>4. Count(rf, f) \in Nat /\ \A p \in Procs : rf[p] = f => Count(rf, f) >= 1
    BY CountNat
  <1>5. Count(wf, f) \in Nat /\ \A p \in Procs : wf[p] = f => Count(wf, f) >= 1
    BY CountNat
  <1> QED
    BY <1>2, <1>3, <1>4, <1>5 DEF Refs

(* A file without a reference is nobody's. *)
Nobody(f) ==
    /\ \A p \in Procs, fd \in FDs : ofile[p][fd] # f
    /\ \A p \in Procs : rf[p] # f /\ wf[p] # f

(* Also after a step. *)
LEMMA Nobodys ==
  ASSUME NEW f
  PROVE  (Refs(f) = 0 => Nobody(f)) /\ (Refs(f)' = 0 => Nobody(f)') /\ Refs(f)' \in Nat
  <1>1. Refs(f) = 0 => Nobody(f)
    BY RefsNat DEF Nobody
  <1>2. \A g : (Refs(g) = 0 => Nobody(g)) /\ Refs(g) \in Nat
    <2>1. ASSUME NEW g PROVE (Refs(g) = 0 => Nobody(g)) /\ Refs(g) \in Nat
      BY RefsNat DEF Nobody
    <2> QED
      BY <2>1
  <1>3. (\A g : (Refs(g) = 0 => Nobody(g)) /\ Refs(g) \in Nat)'
    BY <1>2, PTL
  <1> QED
    BY <1>1, <1>3

(* A descriptor of p gets another value. *)
OnlyFd(o, u, p, fd) == \A q \in Procs, e \in FDs : q # p \/ e # fd => u[q][e] = o[q][e]

LEMMA FdsChange ==
  ASSUME NEW o, NEW u, NEW p \in Procs, NEW fd \in FDs, NEW f, OnlyFd(o, u, p, fd)
  PROVE  /\ Cardinality(FdsOf(o, f)) \in Nat /\ Cardinality(FdsOf(u, f)) \in Nat
         /\ Cardinality(FdsOf(u, f)) + Is(o[p][fd], f) = Cardinality(FdsOf(o, f)) + Is(u[p][fd], f)
  <1> DEFINE A == FdsOf(o, f)
             B == FdsOf(u, f)
  <1>1. IsFiniteSet(A)
    BY Constants, FS_Subset, FS_Product DEF FdsOf
  <1>2. A \ {<<p, fd>>} = B \ {<<p, fd>>}
    <2>1. ASSUME NEW x \in Procs \X FDs, x # <<p, fd>> PROVE u[x[1]][x[2]] = o[x[1]][x[2]]
      <3>1. PICK q \in Procs, e \in FDs : x = <<q, e>>
        OBVIOUS
      <3>2. q # p \/ e # fd
        BY <2>1, <3>1
      <3> QED
        BY <3>1, <3>2 DEF OnlyFd
    <2> QED
      BY <2>1 DEF FdsOf
  <1>3. (<<p, fd>> \in A <=> o[p][fd] = f) /\ (<<p, fd>> \in B <=> u[p][fd] = f)
    BY DEF FdsOf
  <1> HIDE DEF A, B
  <1>4. /\ Cardinality(A) \in Nat /\ Cardinality(B) \in Nat
        /\ Cardinality(B) + Has(A, <<p, fd>>) = Cardinality(A) + Has(B, <<p, fd>>)
    BY <1>1, <1>2, CardMove
  <1>5. Has(A, <<p, fd>>) = Is(o[p][fd], f) /\ Has(B, <<p, fd>>) = Is(u[p][fd], f)
    BY <1>3 DEF Has, Is
  <1> QED
    BY <1>4, <1>5 DEF A, B

(* The same for a step. *)
LEMMA FdsMove ==
  ASSUME NEW p \in Procs, NEW fd \in FDs, NEW f \in Handles,
         \A q \in Procs, e \in FDs : q # p \/ e # fd => ofile'[q][e] = ofile[q][e]
  PROVE  /\ Cardinality(Fds(f)) \in Nat /\ Cardinality(Fds(f)') \in Nat
         /\ Cardinality(Fds(f)') + Is(ofile[p][fd], f) = Cardinality(Fds(f)) + Is(ofile'[p][fd], f)
  <1>1. Fds(f) = FdsOf(ofile, f) /\ Fds(f)' = FdsOf(ofile', f)
    BY DEF Fds, FdsOf
  <1>2. /\ Cardinality(FdsOf(ofile, f)) \in Nat /\ Cardinality(FdsOf(ofile', f)) \in Nat
        /\ Cardinality(FdsOf(ofile', f)) + Is(ofile[p][fd], f) = Cardinality(FdsOf(ofile, f)) + Is(ofile'[p][fd], f)
    <2>1. OnlyFd(ofile, ofile', p, fd)
      BY DEF OnlyFd
    <2>2. PICK c, d : c = ofile[p][fd] /\ d = ofile'[p][fd]
      OBVIOUS
    <2>3. /\ Cardinality(FdsOf(ofile, f)) \in Nat /\ Cardinality(FdsOf(ofile', f)) \in Nat
          /\ Cardinality(FdsOf(ofile', f)) + Is(c, f) = Cardinality(FdsOf(ofile, f)) + Is(d, f)
      BY <2>1, <2>2, FdsChange
    <2> QED
      BY <2>2, <2>3
  <1> QED
    BY <1>1, <1>2

(* The references move with p: a files fewer and b more in descriptors. *)
LEMMA RefsMove ==
  ASSUME NEW p \in Procs,
         \A q \in Procs : q # p => rf'[q] = rf[q], \A q \in Procs : q # p => wf'[q] = wf[q],
         NEW f \in Handles, NEW a \in Nat, NEW b \in Nat,
         Cardinality(Fds(f)') \in Nat, Cardinality(Fds(f)') + a = Cardinality(Fds(f)) + b
  PROVE  /\ Refs(f) \in Nat /\ Refs(f)' \in Nat
         /\ Refs(f)' + a + Is(rf[p], f) + Is(wf[p], f) = Refs(f) + b + Is(rf'[p], f) + Is(wf'[p], f)
  <1>1. /\ Count(rf, f) \in Nat /\ Count(rf', f) \in Nat
        /\ Count(rf', f) + Is(rf[p], f) = Count(rf, f) + Is(rf'[p], f)
    <2>1. OnlyFor(rf, rf', p)
      BY DEF OnlyFor
    <2>2. Count(rf', f) + Is(rf[p], f) = Count(rf, f) + Is(rf'[p], f)
      BY <2>1, CountMove
    <2> QED
      BY <2>2, CountNat
  <1>2. /\ Count(wf, f) \in Nat /\ Count(wf', f) \in Nat
        /\ Count(wf', f) + Is(wf[p], f) = Count(wf, f) + Is(wf'[p], f)
    <2>1. OnlyFor(wf, wf', p)
      BY DEF OnlyFor
    <2>2. Count(wf', f) + Is(wf[p], f) = Count(wf, f) + Is(wf'[p], f)
      BY <2>1, CountMove
    <2> QED
      BY <2>2, CountNat
  <1>3. Cardinality(Fds(f)) \in Nat
    BY RefsNat
  <1>4. /\ Refs(f) = Cardinality(Fds(f)) + Count(rf, f) + Count(wf, f)
        /\ Refs(f)' = Cardinality(Fds(f)') + Count(rf', f) + Count(wf', f)
    BY DEF Refs, Count
  <1>5. Is(rf[p], f) \in Nat /\ Is(wf[p], f) \in Nat /\ Is(rf'[p], f) \in Nat /\ Is(wf'[p], f) \in Nat
    BY DEF Is
  <1>6. PICK c, d : c = Cardinality(Fds(f)) /\ d = Cardinality(Fds(f)')
    OBVIOUS
  <1>7. PICK r, u : r = Count(rf, f) /\ u = Count(rf', f)
    OBVIOUS
  <1>8. PICK w, x : w = Count(wf, f) /\ x = Count(wf', f)
    OBVIOUS
  <1>9. PICK i, j, k, l : i = Is(rf[p], f) /\ j = Is(rf'[p], f) /\ k = Is(wf[p], f) /\ l = Is(wf'[p], f)
    OBVIOUS
  <1>10. /\ {c, d, r, u, w, x, i, j, k, l} \subseteq Nat
         /\ d + a = c + b /\ u + i = r + j /\ x + k = w + l
    BY <1>1, <1>2, <1>3, <1>5, <1>6, <1>7, <1>8, <1>9
  <1>11. Refs(f) = c + r + w /\ Refs(f)' = d + u + x
    BY <1>4, <1>6, <1>7, <1>8
  <1>12. /\ c + r + w \in Nat /\ d + u + x \in Nat
         /\ d + u + x + a + i + k = c + r + w + b + j + l
    BY <1>10
  <1> QED
    BY <1>9, <1>11, <1>12

(* The counts after a step. *)
LEMMA RefsThen ==
  ASSUME \A i \in Inums : ic'[i].ref = Held(i)'
  PROVE  RefsCounted'
  <1>1. (\A i \in Inums : ic[i].ref = Held(i))' => RefsCounted'
    BY HeldIs, PTL
  <1> QED
    BY <1>1

(* The same for the table of open files. *)
LEMMA FilesThen ==
  ASSUME \A f \in Handles : file'[f].ref = Refs(f)', EndsCounted'
  PROVE  FilesCounted'
  <1>1. ((\A f \in Handles : file[f].ref = Refs(f)) /\ EndsCounted)' => FilesCounted'
    BY FilesAre, PTL
  <1> QED
    BY <1>1

(* The ends of the pipe, when no file of it changes and nobody begins or   *)
(* ends pipeclose().                                                       *)
LEMMA EndsStep ==
  ASSUME EndsCounted, EndsOne, UNCHANGED pipe,
         \A f \in Handles : (IsPipe(f)' <=> IsPipe(f)) /\ (IsPipe(f) => file'[f].writable = file[f].writable),
         \A q \in Procs : pc'[q] \in Closing \/ pc[q] \in Closing => pc'[q] = pc[q]
  PROVE  EndsCounted' /\ EndsOne'
  <1>1. /\ (\E f \in Handles : IsPipe(f) /\ ~file[f].writable)' = (\E f \in Handles : IsPipe(f) /\ ~file[f].writable)
        /\ (\E f \in Handles : IsPipe(f) /\ file[f].writable)' = (\E f \in Handles : IsPipe(f) /\ file[f].writable)
    OBVIOUS
  <1>2. /\ (\E q \in Procs : pc'[q] = "rclose") = (\E q \in Procs : pc[q] = "rclose")
        /\ (\E q \in Procs : pc'[q] = "wclose") = (\E q \in Procs : pc[q] = "wclose")
    BY DEF Closing
  <1>3. EndsCounted'
    BY <1>1, <1>2 DEF EndsCounted
  <1>4. \A f, g \in Handles : IsPipe(f)' /\ IsPipe(g)' /\ file'[f].writable = file'[g].writable => f = g
    BY DEF EndsOne
  <1>5. \A q, s \in Procs : pc'[q] \in Closing /\ pc'[s] = pc'[q] => s = q
    BY DEF EndsOne
  <1>6. \A q \in Procs, f \in Handles : pc'[q] \in Closing /\ IsPipe(f)' => file'[f].writable # (pc'[q] = "wclose")
    BY DEF EndsOne
  <1> QED
    BY <1>3, <1>4, <1>5, <1>6 DEF EndsOne

(* What other processes hold keeps its type, and so does what they know. *)
LEMMA OthersFiles ==
  ASSUME IInv, NEW p \in Procs, OnlyBy(p),
         \A q \in Procs : q # p => ofile'[q] = ofile[q] /\ rf'[q] = rf[q] /\ wf'[q] = wf[q],
         \A f \in Handles :
            \/ file'[f].type = file[f].type
            \/ \A q \in Procs : q # p => /\ rf[q] # f /\ wf[q] # f
                                         /\ \A fd \in FDs : ofile[q][fd] # f
  PROVE  /\ \A q \in Procs : q # p => PipeOf(q)'
         /\ \A q \in Procs, fd \in FDs : q # p /\ ofile'[q][fd] # None => HasType(ofile[q][fd])'
  <1>1. ASSUME NEW q \in Procs, q # p PROVE PipeOf(q)'
    <2>1. PipeOf(q) /\ rf[q] \in Handles \cup {None} /\ wf[q] \in Handles \cup {None}
      BY DEF IInv, TableInv, FilesInv, TypeOK
    <2>2. pc'[q] = pc[q] /\ ret'[q] = ret[q] /\ rf'[q] = rf[q] /\ wf'[q] = wf[q]
      BY <1>1 DEF OnlyBy
    <2>3. Stage(q)' = Stage(q)
      BY <2>2 DEF Stage
    <2>4. /\ rf[q] # None => file'[rf[q]].type = file[rf[q]].type
          /\ wf[q] # None => file'[wf[q]].type = file[wf[q]].type
      BY <1>1, <2>1
    <2>5. pc[q] \in {"pipe1", "piped"} => rf[q] # None
      BY <2>1 DEF PipeOf, Staged, Stage, Closing
    <2>6. pc[q] = "piped" => wf[q] # None
      BY <2>1 DEF PipeOf, Staged, Stage, Closing
    <2> QED
      BY <2>1, <2>2, <2>3, <2>4, <2>5, <2>6 DEF PipeOf, Staged, IsPipe
  <1>2. ASSUME NEW q \in Procs, NEW fd \in FDs, q # p, ofile'[q][fd] # None PROVE HasType(ofile[q][fd])'
    <2>1. ofile'[q][fd] = ofile[q][fd] /\ HasType(ofile[q][fd])
      BY <1>2 DEF IInv, TableInv
    <2>2. PICK g \in Handles : g = ofile[q][fd]
      BY <1>2, <2>1 DEF IInv, FilesInv, TypeOK
    <2>3. file'[g].type = file[g].type
      BY <1>2, <2>2
    <2> QED
      BY <2>1, <2>2, <2>3 DEF HasType
  <1> QED
    BY <1>1, <1>2

(* filealloc() and fdalloc() find what is free. *)
LEMMA FreeFound ==
  ASSUME TypeOK, NEW p \in Procs
  PROVE  /\ FreeHandles # {} => Min(FreeHandles) \in Handles /\ file[Min(FreeHandles)].ref = 0
         /\ FreeFDs(p) # {} => Min(FreeFDs(p)) \in FDs /\ ofile[p][Min(FreeFDs(p))] = None
         /\ OpenFDs(p) # {} => Min(OpenFDs(p)) \in FDs /\ ofile[p][Min(OpenFDs(p))] # None
  <1>1. FreeHandles \in SUBSET Nat /\ FreeFDs(p) \in SUBSET Nat /\ OpenFDs(p) \in SUBSET Nat
    BY Constants DEF FreeHandles, FreeFDs, OpenFDs
  <1>2. /\ FreeHandles # {} => Min(FreeHandles) \in FreeHandles
        /\ FreeFDs(p) # {} => Min(FreeFDs(p)) \in FreeFDs(p)
        /\ OpenFDs(p) # {} => Min(OpenFDs(p)) \in OpenFDs(p)
    BY <1>1, MinIn
  <1> QED
    BY <1>2 DEF FreeHandles, FreeFDs, OpenFDs

(* sys_open() with a file and a descriptor, from the cache c. *)
Opens(p, c) ==
    /\ file' = [file EXCEPT ![Min(FreeHandles)] =
                   [ref |-> 1, type |-> "INODE", ip |-> ip[p], writable |-> FALSE]]
    /\ ofile' = [ofile EXCEPT ![p][Min(FreeFDs(p))] = Min(FreeHandles)]
    /\ ic' = IUnlock(c, ip[p]) /\ pc' = [pc EXCEPT ![p] = "idle"]
    /\ call' = [call EXCEPT ![p] = "other"] /\ name' = [name EXCEPT ![p] = None]
    /\ ip' = [ip EXCEPT ![p] = None] /\ UNCHANGED <<put, ret>>

(* The invariant after sys_open() has a file and a descriptor. *)
LEMMA OpenStep ==
  ASSUME IInv, NEW p \in Procs, pc[p] \in {"exists", "target", "made"}, pc[p] = "made" \/ Unlocked(ip[p]),
         NEW c, Copies(c, dinode), \A j \in Inums : c[j].ref = ic[j].ref /\ c[j].lock = ic[j].lock,
         FreeHandles # {}, FreeFDs(p) # {}, Opens(p, c),
         UNCHANGED disks, UNCHANGED ends, UNCHANGED cwd, UNCHANGED dp, UNCHANGED budget
  PROVE  IInv'
  <1>1. /\ TypeOK /\ PlaceOf(p) /\ LockOf(p) /\ LiveOf(p) /\ TableInv /\ FilesCounted
    BY Mine DEF IInv, FilesInv
  <1>2. pc[p] \in AtEnd
    BY DEF AtEnd
  <1>3. PICK i \in Inums : i = ip[p]
    BY <1>2, InTarget
  <1>4. /\ i # None /\ Live(i) /\ dp[p] = None /\ put[p] = None
        /\ cwd[p] \in Inums /\ cwd[p] # None /\ Where(p) = pc[p]
        /\ ic[i].lock \in {NoProc, p} /\ \A j \in Inums : ic[j].lock = p => j = i
    BY <1>2, <1>3, InTarget
  <1>5. PICK f \in Handles, fd \in FDs :
          /\ f = Min(FreeHandles) /\ fd = Min(FreeFDs(p))
          /\ file[f].ref = 0 /\ ofile[p][fd] = None
    BY <1>1, FreeFound
  <1>6. /\ file' = [file EXCEPT ![f] = [ref |-> 1, type |-> "INODE", ip |-> i, writable |-> FALSE]]
        /\ ofile' = [ofile EXCEPT ![p][fd] = f] /\ ic' = IUnlock(c, i)
        /\ pc' = [pc EXCEPT ![p] = "idle"] /\ call' = [call EXCEPT ![p] = "other"]
        /\ name' = [name EXCEPT ![p] = None] /\ ip' = [ip EXCEPT ![p] = None]
        /\ UNCHANGED <<dinode, entry, pipe, rf, wf, cwd, dp, put, ret, budget>>
    BY <1>3, <1>5 DEF Opens, disks, ends
  <1>7. /\ pc'[p] = "idle" /\ Where(p)' = "idle" /\ cwd'[p] = cwd[p] /\ dp'[p] = None
        /\ ip'[p] = None /\ put'[p] = None /\ call'[p] = "other" /\ name'[p] = None
    BY <1>1, <1>4, <1>6 DEF TypeOK, Where, Putting
  <1>8. /\ Copies(ic', dinode')
        /\ \A j \in Inums : ic'[j].ref = ic[j].ref /\ (j # i => ic'[j].lock = ic[j].lock)
        /\ ic'[i].lock = NoProc
    BY <1>6, IUnlockCopy DEF disks
  <1>9. TypeOK'
    <2>1. /\ file' \in [Handles -> [ref : Nat, type : {"NONE", "INODE", "PIPE"},
                                    ip : Inums \cup {None}, writable : BOOLEAN]]
          /\ ofile' \in [Procs -> [FDs -> Handles \cup {None}]]
      BY <1>1, <1>6 DEF TypeOK
    <2>2. /\ call' \in [Procs -> Calls] /\ name' \in [Procs -> Names \cup {None}]
          /\ pc' \in [Procs -> PC] /\ ip' \in [Procs -> Inums \cup {None}]
      BY <1>1, <1>6 DEF TypeOK, PC, Calls
    <2> QED
      BY <1>1, <1>6, <1>8, <2>1, <2>2 DEF TypeOK, Copies, Caches, Disks
  <1>10. OnlyBy(p)
    BY <1>1, <1>6 DEF OnlyBy, TypeOK
  <1>11. ~Linking(p)'
    BY <1>7 DEF Linking
  <1>12. PlaceOf(p)'
    BY <1>1, <1>4, <1>6, <1>7, <1>11, Constants DEF PlaceOf, HasDp, HasIp, HoldsDp, HoldsIp, Putting, Back
  <1>13. /\ file'[f] = [ref |-> 1, type |-> "INODE", ip |-> i, writable |-> FALSE]
         /\ \A g \in Handles : g # f => file'[g] = file[g]
         /\ file[f].type = "NONE"
    BY <1>1, <1>5, <1>6 DEF TypeOK, TableInv, HasType
  <1>14. Finds(p)
    <2>1. \A j \in Inums : Refers(p, j)' => Sees(p, j)
      <3>1. ASSUME NEW j \in Inums, Refers(p, j)' PROVE Sees(p, j)
        <4>1. CASE \E g \in Handles : file'[g].type = "INODE" /\ file'[g].ip = j
          BY <1>3, <1>13, <4>1 DEF Sees
        <4>2. CASE cwd'[p] = j \/ dp'[p] = j \/ ip'[p] = j \/ put'[p] = j
          BY <1>4, <1>7, <4>2, Constants DEF Sees
        <4> QED
          BY <3>1, <4>1, <4>2 DEF Refers
      <3> QED
        BY <3>1
    <2>2. \A j \in Inums : (p \in Pending(j))' => p \in Pending(j)
      BY <1>7, <1>11 DEF Pending
    <2>3. \A g \in Handles : file'[g].type = "INODE" => file'[g].ip \in Inums
      BY <1>13, Mine
    <2> QED
      BY <1>1, <1>6, <1>7, <1>11, <2>1, <2>2, <2>3 DEF Finds, LiveOf
  <1>15. Locks(p) /\ LockOf(p)'
    BY <1>4, <1>7, <1>8, Constants DEF Locks, LockOf, Holds, HoldsDp, HoldsIp
  <1>16. RefsCounted'
    <2>1. ASSUME NEW j \in Inums PROVE ic'[j].ref = Held(j)'
      <3>1. /\ Held(j) \in Nat /\ Held(j)' \in Nat
            /\ Held(j)' + Own(p, j) + Has(OpenOn(j), f) = Held(j) + Own(p, j)' + Has(OpenOn(j)', f)
        BY <1>10, <1>13, HeldFile
      <3>2. Has(OpenOn(j), f) = 0 /\ Has(OpenOn(j)', f) = Is(i, j)
        BY <1>13 DEF Has, Is, OpenOn
      <3>3. ic[j].ref = Held(j)
        BY Referred DEF IInv, FilesInv
      <3>4. Own(p, j) = Own(p, j)' + Is(i, j) /\ Own(p, j)' \in Nat /\ Is(i, j) \in Nat
        BY <1>3, <1>4, <1>7, Constants DEF Own, Is
      <3>5. ic'[j].ref = ic[j].ref
        BY <1>8
      <3> QED
        BY <3>1, <3>2, <3>3, <3>4, <3>5
    <2> QED
      BY <2>1, RefsThen
  <1>17. /\ ofile'[p][fd] = f /\ rf' = rf /\ wf' = wf
         /\ \A q \in Procs, e \in FDs : q # p \/ e # fd => ofile'[q][e] = ofile[q][e]
         /\ \A q \in Procs : q # p => ofile'[q] = ofile[q]
    BY <1>1, <1>6 DEF TypeOK
  <1>18. \A g \in Handles : (IsPipe(g)' <=> IsPipe(g)) /\ (IsPipe(g) => file'[g].writable = file[g].writable)
    BY <1>13 DEF IsPipe
  <1>19. \A g \in Handles : file[g].ref = Refs(g) /\ Refs(g) \in Nat
    BY <1>1, FilesAre, RefsNat
  <1>20. FilesCounted' /\ EndsOne'
    <2>1. ASSUME NEW g \in Handles PROVE file'[g].ref = Refs(g)'
      <3>1. /\ Cardinality(Fds(g)') \in Nat
            /\ Cardinality(Fds(g)') + Is(None, g) = Cardinality(Fds(g)) + Is(f, g)
        BY <1>5, <1>17, FdsMove
      <3>2. Is(None, g) \in Nat /\ Is(f, g) \in Nat /\ Is(None, g) = 0
        BY Constants DEF Is
      <3>3. /\ Refs(g)' \in Nat
            /\ Refs(g)' + 0 + Is(rf[p], g) + Is(wf[p], g) = Refs(g) + Is(f, g) + Is(rf'[p], g) + Is(wf'[p], g)
        BY <1>17, <3>1, <3>2, RefsMove
      <3>4. Is(rf[p], g) \in Nat /\ Is(wf[p], g) \in Nat
        BY DEF Is
      <3>5. Refs(g)' = Refs(g) + Is(f, g)
        BY <1>17, <1>19, <3>2, <3>3, <3>4
      <3> QED
        BY <1>5, <1>13, <1>19, <3>5 DEF Is
    <2>2. EndsCounted' /\ EndsOne'
      <3>1. EndsCounted /\ EndsOne /\ UNCHANGED pipe
        BY <1>1, <1>6, FilesAre DEF TableInv
      <3>2. \A q \in Procs : pc'[q] \in Closing \/ pc[q] \in Closing => pc'[q] = pc[q]
        BY <1>7, <1>10 DEF OnlyBy, Closing
      <3> QED
        BY <1>18, <3>1, <3>2, EndsStep
    <2> QED
      BY <2>1, <2>2, FilesThen
  <1>21. TableInv'
    <2>1. Nobody(f)
      BY <1>5, <1>19, Nobodys
    <2>2. /\ \A q \in Procs : q # p => PipeOf(q)'
          /\ \A q \in Procs, e \in FDs : q # p /\ ofile'[q][e] # None => HasType(ofile[q][e])'
      <3>1. \A g \in Handles :
              \/ file'[g].type = file[g].type
              \/ \A q \in Procs : q # p => /\ rf[q] # g /\ wf[q] # g
                                           /\ \A e \in FDs : ofile[q][e] # g
        BY <1>13, <2>1 DEF Nobody
      <3>2. \A q \in Procs : q # p => ofile'[q] = ofile[q] /\ rf'[q] = rf[q] /\ wf'[q] = wf[q]
        BY <1>17
      <3> QED
        BY <1>10, <3>1, <3>2, OthersFiles
    <2>3. PipeOf(p)'
      <3>1. Stage(p) = pc[p] /\ Stage(p)' = "idle"
        BY <1>7 DEF Stage, Closing
      <3>2. rf[p] = None /\ wf[p] = None
        BY <1>1, <1>7, <3>1 DEF TableInv, PipeOf, Staged
      <3> QED
        BY <1>7, <1>17, <3>1, <3>2 DEF PipeOf, Staged, Closing
    <2>4. ASSUME NEW e \in FDs, ofile'[p][e] # None PROVE HasType(ofile[p][e])'
      <3>1. CASE e = fd
        BY <1>13, <1>17, <3>1 DEF HasType
      <3>2. CASE e # fd
        <4>1. ofile'[p][e] = ofile[p][e] /\ HasType(ofile[p][e]) /\ ofile[p][e] \in Handles
          BY <1>1, <1>17, <2>4, <3>2 DEF TableInv, TypeOK
        <4> QED
          BY <1>13, <4>1 DEF HasType
      <3> QED
        BY <3>1, <3>2
    <2>5. \A g \in Handles : file'[g].ref = 0 => ~HasType(g)'
      BY <1>1, <1>13 DEF TableInv, HasType
    <2>6. Apart'
      BY <1>1, <1>17 DEF TableInv, Apart
    <2>7. \A q \in Procs, e \in FDs : ofile'[q][e] # None => HasType(ofile[q][e])'
      BY <2>2, <2>4
    <2>8. \A q \in Procs : PipeOf(q)'
      BY <2>2, <2>3
    <2> QED
      BY <1>20, <2>5, <2>6, <2>7, <2>8 DEF TableInv
  <1>22. NewOf(p)' /\ FreeOf(p)' /\ pc'[p] # "panic" /\ CacheInv'
    BY <1>7, <1>8, CopyIs DEF NewOf, FreeOf
  <1> QED
    BY <1>9, <1>10, <1>12, <1>14, <1>15, <1>16, <1>17, <1>20, <1>21, <1>22, Quiet

(* OpenFile() with and without a free file and descriptor. *)
LEMMA OpenFileStep ==
  ASSUME IInv, NEW p \in Procs, pc[p] \in {"exists", "target", "made"},
         \/ pc[p] = "made" /\ OpenFile(p, ic)
         \/ pc[p] # "made" /\ Unlocked(ip[p]) /\ OpenFile(p, Section(ic, ip[p])),
         UNCHANGED disks, UNCHANGED ends, UNCHANGED cwd, UNCHANGED dp, UNCHANGED budget
  PROVE  IInv'
  <1>1. pc[p] \in AtEnd /\ (pc[p] = "made" \/ Unlocked(ip[p]))
    BY DEF AtEnd
  <1>2. Live(ip[p])
    BY <1>1, InTarget
  <1>3. PICK c : c = IF pc[p] = "made" THEN ic ELSE Section(ic, ip[p])
    OBVIOUS
  <1>4. Copies(c, dinode) /\ \A j \in Inums : c[j].ref = ic[j].ref /\ c[j].lock = ic[j].lock
    BY <1>1, <1>3, IsCopy, TargetRead
  <1>5. CASE FreeHandles # {} /\ FreeFDs(p) # {}
    <2>1. /\ file' = [file EXCEPT ![Min(FreeHandles)] =
                         [ref |-> 1, type |-> "INODE", ip |-> ip[p], writable |-> FALSE]]
          /\ ofile' = [ofile EXCEPT ![p][Min(FreeFDs(p))] = Min(FreeHandles)]
          /\ ic' = IUnlock(c, ip[p]) /\ LockedGoto(p, ip[p], "idle")
          /\ call' = [call EXCEPT ![p] = "other"] /\ name' = [name EXCEPT ![p] = None]
          /\ ip' = [ip EXCEPT ![p] = None] /\ UNCHANGED <<put, ret>>
      BY <1>3, <1>5 DEF OpenFile, Drops
    <2>2. pc' = [pc EXCEPT ![p] = "idle"]
      BY <1>2, <2>1, Typed
    <2>3. Opens(p, c)
      BY <2>1, <2>2 DEF Opens
    <2> QED
      BY <1>1, <1>4, <1>5, <2>3, OpenStep
  <1>6. CASE ~(FreeHandles # {} /\ FreeFDs(p) # {})
    <2>1. UnlockPut(p, c) /\ LockedGoto(p, ip[p], "put") /\ UNCHANGED ftable
      BY <1>3, <1>6 DEF OpenFile, UnlockPut, ftable, ends
    <2>2. pc' = [pc EXCEPT ![p] = "put"]
      BY <1>2, <2>1, Typed
    <2> QED
      BY <1>1, <1>4, <2>1, <2>2, EndCall
  <1> QED
    BY <1>5, <1>6

(* open() without O_CREATE *)
LEMMA OpensStep ==
  ASSUME IInv, NEW p \in Procs, Open(p)
  PROVE  IInv'
  <1>1. /\ pc[p] \in {"exists", "target", "made"} /\ pc[p] # "made" /\ Unlocked(ip[p])
        /\ UNCHANGED <<disks, ends, cwd, dp, budget>>
    BY DEF Open
  <1>2. CASE OpenFile(p, Section(ic, ip[p]))
    BY <1>1, <1>2, OpenFileStep
  <1>3. CASE ~OpenFile(p, Section(ic, ip[p]))
    <2>1. PICK c : c = Section(ic, ip[p])
      OBVIOUS
    <2>2. UnlockPut(p, c) /\ LockedGoto(p, ip[p], "put") /\ UNCHANGED ftable
      BY <1>3, <2>1 DEF Open, ftable, ends
    <2>3. pc[p] \in AtEnd
      BY <1>1 DEF AtEnd
    <2>4. Live(ip[p])
      BY <1>1, <2>3, InTarget
    <2>5. pc' = [pc EXCEPT ![p] = "put"]
      BY <2>2, <2>4, Typed
    <2>6. Copies(c, dinode) /\ \A j \in Inums : c[j].ref = ic[j].ref /\ c[j].lock = ic[j].lock
      BY <1>1, <2>1, <2>3, TargetRead
    <2> QED
      BY <1>1, <2>2, <2>3, <2>5, <2>6, EndCall
  <1> QED
    BY <1>2, <1>3

(* create() of a name that exists *)
LEMMA ExistsStep ==
  ASSUME IInv, NEW p \in Procs, Exists(p)
  PROVE  IInv'
  <1>1. pc[p] = "exists" /\ Unlocked(ip[p])
    BY DEF Exists
  <1>2. PICK c : c = Section(ic, ip[p])
    OBVIOUS
  <1>3. Copies(c, dinode) /\ \A j \in Inums : c[j].ref = ic[j].ref /\ c[j].lock = ic[j].lock
    BY <1>1, <1>2, TargetRead DEF AtEnd
  <1>4. CASE call[p] = "creat" /\ c[ip[p]].type = "FILE"
    <2>1. OpenFile(p, Section(ic, ip[p])) /\ UNCHANGED <<disks, ends, cwd, dp, budget>>
      BY <1>2, <1>4 DEF Exists
    <2> QED
      BY <1>1, <2>1, OpenFileStep
  <1>5. CASE ~(call[p] = "creat" /\ c[ip[p]].type = "FILE")
    <2>1. UnlockPut(p, c) /\ LockedGoto(p, ip[p], "put") /\ UNCHANGED <<disks, ftable, cwd, dp, budget>>
      BY <1>2, <1>5 DEF Exists, ftable, ends
    <2>2. pc[p] \in AtEnd
      BY <1>1 DEF AtEnd
    <2>3. Live(ip[p])
      BY <1>1, <2>2, InTarget
    <2>4. pc' = [pc EXCEPT ![p] = "put"]
      BY <2>1, <2>3, Typed
    <2> QED
      BY <1>1, <1>3, <2>1, <2>2, <2>4, EndCall
  <1> QED
    BY <1>4, <1>5

(* sys_open() and sys_mkdir() after create() *)
LEMMA MadeStep ==
  ASSUME IInv, NEW p \in Procs, Made(p)
  PROVE  IInv'
  <1>1. pc[p] = "made"
    BY DEF Made
  <1>2. Copies(ic, dinode)
    BY IsCopy
  <1>3. CASE call[p] = "creat"
    <2>1. OpenFile(p, ic) /\ UNCHANGED <<disks, ends, cwd, dp, budget>>
      BY <1>3 DEF Made
    <2> QED
      BY <1>1, <2>1, OpenFileStep
  <1>4. CASE call[p] # "creat"
    <2>1. UnlockPut(p, ic) /\ Goto(p, "put") /\ UNCHANGED <<disks, ftable, cwd, dp, budget>>
      BY <1>4 DEF Made, ftable, ends
    <2>2. pc[p] \in AtEnd /\ pc' = [pc EXCEPT ![p] = "put"]
      BY <1>1, <2>1 DEF AtEnd, Goto
    <2> QED
      BY <1>1, <1>2, <2>1, <2>2, EndCall
  <1> QED
    BY <1>3, <1>4

(* iunlockput(dp) of a call that goes on with ip, or ends. *)
LEMMA UnlockParentStep ==
  ASSUME IInv, NEW p \in Procs, LinkBad(p) \/ Full(p)
  PROVE  IInv'
  <1>1. /\ TypeOK /\ PlaceOf(p) /\ LockOf(p) /\ LiveOf(p) /\ Copies(ic, dinode)
    BY Mine, IsCopy
  <1>2. PICK at \in {"linkbad", "full"}, label \in {"bad", "idle"} :
          /\ at = "linkbad" <=> label = "bad"
          /\ UnlockParent(p, at, label)
    BY DEF LinkBad, Full
  <1>3. pc[p] = at /\ Where(p) = at
    BY <1>2 DEF UnlockParent, Where, Putting
  <1>4. /\ dp[p] # None /\ dp[p] \in Inums /\ put[p] = None /\ (at = "full" => ip[p] = None)
    BY <1>1, <1>2, <1>3 DEF PlaceOf, HasDp, HoldsDp, HasIp, HoldsIp, Linking, Putting, TypeOK
  <1>5. PICK d \in Inums : d = dp[p]
    BY <1>4
  <1>6. /\ pc' = [pc EXCEPT ![p] = "put"] /\ put' = [put EXCEPT ![p] = d] /\ ret' = [ret EXCEPT ![p] = label]
        /\ dp' = [dp EXCEPT ![p] = None] /\ ic' = IUnlock(ic, d)
        /\ UNCHANGED <<disks, dinode, entry, ftable, file, pipe, ofile, rf, wf, cwd, call, name, ip, budget>>
    BY <1>2, <1>5 DEF UnlockParent, Goto, Put, Drops, disks, ftable
  <1>7. /\ pc'[p] = "put" /\ ret'[p] = label /\ Where(p)' = label
        /\ cwd'[p] = cwd[p] /\ dp'[p] = None /\ ip'[p] = ip[p] /\ put'[p] = d
        /\ call'[p] = call[p] /\ name'[p] = name[p]
    BY <1>1, <1>6 DEF TypeOK, Where, Putting
  <1>8. /\ Copies(ic', dinode')
        /\ \A j \in Inums : ic'[j].ref = ic[j].ref /\ (j # d => ic'[j].lock = ic[j].lock)
        /\ ic'[d].lock = NoProc
    BY <1>1, <1>6, IUnlockCopy
  <1>9. TypeOK'
    BY <1>1, <1>6, <1>8 DEF TypeOK, Copies, Caches, Disks, PC
  <1>10. OnlyBy(p)
    BY <1>1, <1>6 DEF OnlyBy, TypeOK
  <1>11. ~Linking(p)' /\ ~Linking(p)
    BY <1>3, <1>7 DEF Linking
  <1>12. PlaceOf(p)'
    BY <1>1, <1>2, <1>3, <1>4, <1>6, <1>7, <1>11, Constants DEF PlaceOf, HasDp, HasIp, HoldsDp, HoldsIp, Putting, Back
  <1>13. Finds(p)
    <2>1. \A j \in Inums : Refers(p, j)' => Sees(p, j)
      BY <1>5, <1>6, <1>7, Constants DEF Refers, Sees
    <2>2. \A j \in Inums : (p \in Pending(j))' => p \in Pending(j)
      BY <1>2, <1>3, <1>7, <1>11 DEF Pending
    <2> QED
      BY <1>1, <1>6, <1>7, <1>11, <2>1, <2>2, Mine DEF Finds, LiveOf
  <1>14. Locks(p) /\ LockOf(p)'
    <2>1. \A j \in Inums : ic[j].lock = p <=> j = d
      BY <1>1, <1>3, <1>5 DEF LockOf, Holds, HoldsDp, HoldsIp
    <2> QED
      BY <1>7, <1>8, <2>1, Constants DEF Locks, LockOf, Holds, HoldsDp, HoldsIp
  <1>15. \A j \in Inums : ic'[j].ref + Own(p, j) = ic[j].ref + Own(p, j)'
    <2>1. ASSUME NEW j \in Inums PROVE ic'[j].ref + Own(p, j) = ic[j].ref + Own(p, j)'
      <3>1. ic[j].ref \in Nat /\ None # j
        BY <1>1, Constants DEF TypeOK
      <3> QED
        BY <1>4, <1>5, <1>7, <1>8, <3>1 DEF Own, Is
    <2> QED
      BY <2>1
  <1>16. NewOf(p)' /\ FreeOf(p)'
    BY <1>7 DEF NewOf, FreeOf
  <1>17. {pc[p], pc'[p]} \cap Pipes = {} /\ pc'[p] # "panic" /\ CacheInv'
    BY <1>3, <1>7, <1>8, CopyIs DEF Pipes
  <1> QED
    BY <1>6, <1>9, <1>10, <1>12, <1>13, <1>14, <1>15, <1>16, <1>17, QuietStep

(* sys_link() is done. *)
LEMMA LinkedStep ==
  ASSUME IInv, NEW p \in Procs, Linked(p)
  PROVE  IInv'
  <1>1. /\ TypeOK /\ PlaceOf(p) /\ LockOf(p) /\ LiveOf(p)
    BY Mine
  <1>2. pc[p] = "linked" /\ Where(p) = "linked"
    BY DEF Linked, Where, Putting
  <1>3. ip[p] # None /\ put[p] = None /\ dp[p] = None
    BY <1>1, <1>2 DEF PlaceOf, HasIp, HasDp, HoldsDp, Putting
  <1>4. PICK i \in Inums : i = ip[p]
    BY <1>1, <1>3 DEF TypeOK
  <1>5. /\ pc' = [pc EXCEPT ![p] = "put"] /\ put' = [put EXCEPT ![p] = i] /\ ret' = [ret EXCEPT ![p] = "idle"]
        /\ ip' = [ip EXCEPT ![p] = None] /\ ic' = ic
        /\ UNCHANGED <<disks, dinode, entry, ftable, file, pipe, ofile, rf, wf, cwd, call, name, dp, budget>>
    BY <1>4 DEF Linked, Goto, Put, Drops, disks, ftable
  <1>6. /\ pc'[p] = "put" /\ ret'[p] = "idle" /\ Where(p)' = "idle"
        /\ cwd'[p] = cwd[p] /\ dp'[p] = None /\ ip'[p] = None /\ put'[p] = i
        /\ call'[p] = call[p] /\ name'[p] = name[p]
    BY <1>1, <1>3, <1>5 DEF TypeOK, Where, Putting
  <1>7. TypeOK'
    BY <1>1, <1>5 DEF TypeOK, PC
  <1>8. OnlyBy(p)
    BY <1>1, <1>5 DEF OnlyBy, TypeOK
  <1>9. ~Linking(p)'
    BY <1>6 DEF Linking
  <1>10. PlaceOf(p)'
    BY <1>1, <1>2, <1>5, <1>6, <1>9, Constants DEF PlaceOf, HasDp, HasIp, HoldsDp, HoldsIp, Putting, Back
  <1>11. Finds(p)
    <2>1. \A j \in Inums : Refers(p, j)' => Sees(p, j)
      BY <1>4, <1>5, <1>6, Constants DEF Refers, Sees
    <2>2. \A j \in Inums : (p \in Pending(j))' => p \in Pending(j)
      BY <1>6, <1>9 DEF Pending
    <2> QED
      BY <1>1, <1>5, <1>6, <1>9, <2>1, <2>2, Mine DEF Finds, LiveOf
  <1>12. Locks(p) /\ LockOf(p)'
    BY <1>1, <1>2, <1>5, <1>6 DEF Locks, LockOf, Holds, HoldsDp, HoldsIp
  <1>13. \A j \in Inums : ic'[j].ref + Own(p, j) = ic[j].ref + Own(p, j)'
    BY <1>3, <1>4, <1>5, <1>6, Constants DEF Own, Is
  <1>14. NewOf(p)' /\ FreeOf(p)' /\ CacheInv'
    BY <1>5, <1>6 DEF NewOf, FreeOf, IInv, CacheInv, CacheOf, Live
  <1>15. {pc[p], pc'[p]} \cap Pipes = {} /\ pc'[p] # "panic"
    BY <1>2, <1>6 DEF Pipes
  <1> QED
    BY <1>5, <1>7, <1>8, <1>10, <1>11, <1>12, <1>13, <1>14, <1>15, QuietStep

(* sys_unlink() of a directory that is not empty: iunlockput(ip). *)
LEMMA UnlinkFullStep ==
  ASSUME IInv, NEW p \in Procs, UnlinkFull(p)
  PROVE  IInv'
  <1>1. /\ TypeOK /\ PlaceOf(p) /\ LockOf(p) /\ LiveOf(p) /\ Copies(ic, dinode)
    BY Mine, IsCopy
  <1>2. pc[p] = "victim" /\ Unlocked(ip[p]) /\ Where(p) = "victim"
    BY DEF UnlinkFull, Where, Putting
  <1>3. /\ dp[p] # None /\ dp[p] \in Inums /\ ip[p] # None /\ ip[p] \in Inums /\ Live(ip[p]) /\ put[p] = None
    BY <1>1, <1>2 DEF PlaceOf, HasDp, HoldsDp, HasIp, HoldsIp, Putting, TypeOK, LiveOf
  <1>4. PICK d \in Inums, i \in Inums : d = dp[p] /\ i = ip[p]
    BY <1>3
  <1>5. \A j \in Inums : ic[j].lock = p <=> j = d
    BY <1>1, <1>2, <1>4 DEF LockOf, Holds, HoldsDp, HoldsIp
  <1>6. /\ pc' = [pc EXCEPT ![p] = "put"] /\ put' = [put EXCEPT ![p] = i] /\ ret' = [ret EXCEPT ![p] = "full"]
        /\ ip' = [ip EXCEPT ![p] = None] /\ ic' = Section(ic, i)
        /\ UNCHANGED <<disks, dinode, entry, ftable, file, pipe, ofile, rf, wf, cwd, call, name, dp, budget>>
    <2>1. LockedGoto(p, ip[p], "put")
      BY DEF UnlinkFull
    <2>2. pc' = [pc EXCEPT ![p] = "put"]
      BY <1>3, <2>1, Typed
    <2> QED
      BY <1>4, <2>2 DEF UnlinkFull, Put, Drops, disks, ftable
  <1>7. /\ pc'[p] = "put" /\ ret'[p] = "full" /\ Where(p)' = "full"
        /\ cwd'[p] = cwd[p] /\ dp'[p] = d /\ ip'[p] = None /\ put'[p] = i
        /\ call'[p] = call[p] /\ name'[p] = name[p]
    BY <1>1, <1>4, <1>6 DEF TypeOK, Where, Putting
  <1>8. Copies(ic', dinode') /\ \A j \in Inums : ic'[j].ref = ic[j].ref /\ ic'[j].lock = ic[j].lock
    BY <1>1, <1>3, <1>4, <1>6, SectionCopy
  <1>9. TypeOK'
    BY <1>1, <1>6, <1>8 DEF TypeOK, Copies, Caches, Disks, PC
  <1>10. OnlyBy(p)
    BY <1>1, <1>6 DEF OnlyBy, TypeOK
  <1>11. ~Linking(p)' /\ ~Linking(p)
    BY <1>2, <1>7 DEF Linking
  <1>12. PlaceOf(p)'
    BY <1>1, <1>2, <1>4, <1>6, <1>7, <1>11, Constants DEF PlaceOf, HasDp, HasIp, HoldsDp, HoldsIp, Putting, Back
  <1>13. Finds(p)
    <2>1. \A j \in Inums : Refers(p, j)' => Sees(p, j)
      BY <1>4, <1>6, <1>7, Constants DEF Refers, Sees
    <2>2. \A j \in Inums : (p \in Pending(j))' => p \in Pending(j)
      BY <1>7, <1>11 DEF Pending
    <2> QED
      BY <1>1, <1>4, <1>6, <1>7, <1>11, <2>1, <2>2, Mine DEF Finds, LiveOf
  <1>14. Locks(p) /\ LockOf(p)'
    BY <1>5, <1>7, <1>8 DEF Locks, LockOf, Holds, HoldsDp, HoldsIp
  <1>15. \A j \in Inums : ic'[j].ref + Own(p, j) = ic[j].ref + Own(p, j)'
    <2>1. ASSUME NEW j \in Inums PROVE ic'[j].ref + Own(p, j) = ic[j].ref + Own(p, j)'
      <3>1. ic[j].ref \in Nat /\ None # j
        BY <1>1, Constants DEF TypeOK
      <3> QED
        BY <1>3, <1>4, <1>7, <1>8, <3>1 DEF Own, Is
    <2> QED
      BY <2>1
  <1>16. NewOf(p)' /\ FreeOf(p)'
    BY <1>7 DEF NewOf, FreeOf
  <1>17. {pc[p], pc'[p]} \cap Pipes = {} /\ pc'[p] # "panic" /\ CacheInv'
    BY <1>2, <1>7, <1>8, CopyIs DEF Pipes
  <1> QED
    BY <1>6, <1>9, <1>10, <1>12, <1>13, <1>14, <1>15, <1>16, <1>17, QuietStep

(* dirlink() of a name that exists: iput() under dp's lock. *)
LEMMA LinkOldStep ==
  ASSUME IInv, NEW p \in Procs, LinkEntry(p), entry[dp[p]][name[p]] # None
  PROVE  IInv'
  <1>1. /\ TypeOK /\ PlaceOf(p) /\ LockOf(p) /\ LiveOf(p) /\ Copies(ic, dinode)
    BY Mine, IsCopy
  <1>2. pc[p] = "parent" /\ call[p] = "link2" /\ Unlocked(dp[p]) /\ Where(p) = "parent"
    BY DEF LinkEntry, Where, Putting
  <1>3. PICK d \in Inums, e \in Inums : d = dp[p] /\ e = entry[d][name[p]]
    BY <1>2, InParent
  <1>4. /\ IsDir(d) /\ Live(d) /\ name[p] \in Names /\ put[p] = None /\ ip[p] # None /\ Linking(p)
        /\ Sees(p, e) /\ Live(e) /\ dp[p] # None /\ cwd[p] # None
        /\ ic[d].lock = NoProc /\ ic[d].ref > 0 /\ \A j \in Inums : ic[j].lock # p
    BY <1>2, <1>3, InParent
  <1>5. /\ pc' = [pc EXCEPT ![p] = "put"] /\ put' = [put EXCEPT ![p] = e] /\ ret' = [ret EXCEPT ![p] = "linkbad"]
        /\ ic' = IGet(ILock(ic, d, p), e)
        /\ UNCHANGED <<disks, dinode, entry, ftable, file, pipe, ofile, rf, wf, cwd, call, name, dp, ip, budget>>
    <2>1. LockedGoto(p, d, "put")
      BY <1>3 DEF LinkEntry
    <2>2. pc' = [pc EXCEPT ![p] = "put"]
      BY <1>4, <2>1, Typed
    <2> QED
      BY <1>3, <2>2 DEF LinkEntry, Put, disks, ftable
  <1>6. /\ pc'[p] = "put" /\ ret'[p] = "linkbad" /\ Where(p)' = "linkbad"
        /\ cwd'[p] = cwd[p] /\ dp'[p] = d /\ ip'[p] = ip[p] /\ put'[p] = e
        /\ call'[p] = call[p] /\ name'[p] = name[p]
    BY <1>1, <1>3, <1>5 DEF TypeOK, Where, Putting
  <1>7. /\ Copies(ic', dinode')
        /\ \A j \in Inums : /\ ic'[j].ref = ic[j].ref + Is(e, j)
                            /\ ic'[j].lock = IF j = d THEN p ELSE ic[j].lock
    BY <1>1, <1>4, <1>5, LookedUpLocked
  <1>8. TypeOK'
    BY <1>1, <1>5, <1>7 DEF TypeOK, Copies, Caches, Disks, PC
  <1>9. OnlyBy(p)
    BY <1>1, <1>5 DEF OnlyBy, TypeOK
  <1>10. ~Linking(p)'
    BY <1>6 DEF Linking
  <1>11. PlaceOf(p)'
    BY <1>1, <1>2, <1>4, <1>5, <1>6, <1>10, Constants DEF PlaceOf, HasDp, HasIp, HoldsDp, HoldsIp, Putting, Back
  <1>12. Finds(p)
    <2>1. \A j \in Inums : Refers(p, j)' => Sees(p, j)
      BY <1>3, <1>4, <1>5, <1>6, Constants DEF Refers, Sees
    <2>2. \A j \in Inums : (p \in Pending(j))' => p \in Pending(j)
      BY <1>4, <1>6, <1>10 DEF Pending
    <2> QED
      BY <1>1, <1>4, <1>5, <1>6, <1>10, <2>1, <2>2, Mine DEF Finds, LiveOf
  <1>13. Locks(p) /\ LockOf(p)'
    BY <1>4, <1>6, <1>7 DEF Locks, LockOf, Holds, HoldsDp, HoldsIp
  <1>14. \A j \in Inums : ic'[j].ref + Own(p, j) = ic[j].ref + Own(p, j)'
    <2>1. ASSUME NEW j \in Inums PROVE ic'[j].ref + Own(p, j) = ic[j].ref + Own(p, j)'
      <3>1. ic[j].ref \in Nat /\ None # j
        BY <1>1, Constants DEF TypeOK
      <3> QED
        BY <1>3, <1>4, <1>6, <1>7, <3>1 DEF Own, Is
    <2> QED
      BY <2>1
  <1>15. NewOf(p)' /\ FreeOf(p)'
    BY <1>6 DEF NewOf, FreeOf
  <1>16. {pc[p], pc'[p]} \cap Pipes = {} /\ pc'[p] # "panic" /\ CacheInv'
    BY <1>2, <1>6, <1>7, CopyIs DEF Pipes
  <1> QED
    BY <1>5, <1>8, <1>9, <1>11, <1>12, <1>13, <1>14, <1>15, <1>16, QuietStep

(* exit() *)
LEMMA ExitStep ==
  ASSUME IInv, NEW p \in Procs, Exit(p)
  PROVE  IInv'
  <1>1. /\ TypeOK /\ PlaceOf(p) /\ LockOf(p) /\ LiveOf(p)
    BY Mine
  <1>2. pc[p] = "idle" /\ Where(p) = "idle" /\ budget > 0
    BY DEF Exit, Where, Putting
  <1>3. /\ pc' = [pc EXCEPT ![p] = "exit"] /\ call' = [call EXCEPT ![p] = "exit"] /\ budget' = budget - 1
        /\ UNCHANGED <<disks, dinode, entry, ic, ftable, file, pipe, ofile, rf, wf, cwd, name, dp, ip, put, ret>>
    BY DEF Exit, Goto, disks, ftable
  <1>4. /\ pc'[p] = "exit" /\ Where(p)' = "exit" /\ call'[p] = "exit"
        /\ cwd'[p] = cwd[p] /\ dp'[p] = dp[p] /\ ip'[p] = ip[p] /\ put'[p] = put[p] /\ name'[p] = name[p]
    BY <1>1, <1>3 DEF TypeOK, Where, Putting
  <1>5. TypeOK'
    BY <1>1, <1>2, <1>3, FilesAssumption DEF TypeOK, PC, Calls
  <1>6. OnlyBy(p)
    BY <1>1, <1>3 DEF OnlyBy, TypeOK
  <1>7. ~Linking(p)' /\ ~Linking(p)
    BY <1>2, <1>4 DEF Linking
  <1>8. PlaceOf(p)'
    BY <1>1, <1>2, <1>3, <1>4, <1>7 DEF PlaceOf, HasDp, HasIp, HoldsDp, HoldsIp, Putting, Back
  <1>9. Finds(p)
    <2>1. \A j \in Inums : Refers(p, j)' => Sees(p, j)
      BY <1>1, <1>2, <1>3, <1>4, Constants DEF Refers, Sees, PlaceOf, Putting
    <2>2. \A j \in Inums : (p \in Pending(j))' => p \in Pending(j)
      BY <1>4, <1>7 DEF Pending
    <2> QED
      BY <1>1, <1>3, <1>4, <1>7, <2>1, <2>2, Mine DEF Finds, LiveOf
  <1>10. Locks(p) /\ LockOf(p)'
    BY <1>1, <1>2, <1>3, <1>4 DEF Locks, LockOf, Holds, HoldsDp, HoldsIp
  <1>11. \A j \in Inums : ic'[j].ref + Own(p, j) = ic[j].ref + Own(p, j)'
    BY <1>3, <1>4 DEF Own
  <1>12. NewOf(p)' /\ FreeOf(p)' /\ CacheInv'
    BY <1>3, <1>4 DEF NewOf, FreeOf, IInv, CacheInv, CacheOf, Live
  <1>13. {pc[p], pc'[p]} \cap Pipes = {} /\ pc'[p] # "panic"
    BY <1>2, <1>4 DEF Pipes
  <1> QED
    BY <1>3, <1>5, <1>6, <1>8, <1>9, <1>10, <1>11, <1>12, <1>13, QuietStep

(* The last of exit(): the working directory. *)
LEMMA ExitPutStep ==
  ASSUME IInv, NEW p \in Procs, ExitPut(p)
  PROVE  IInv'
  <1>1. /\ TypeOK /\ PlaceOf(p) /\ LockOf(p) /\ LiveOf(p)
    BY Mine
  <1>2. pc[p] = "exit" /\ Where(p) = "exit" /\ OpenFDs(p) = {}
    BY DEF ExitPut, Where, Putting
  <1>3. cwd[p] # None /\ put[p] = None /\ dp[p] = None /\ ip[p] = None
    BY <1>1, <1>2 DEF PlaceOf, HasIp, HoldsIp, HasDp, HoldsDp, Putting, Linking
  <1>4. PICK d \in Inums : d = cwd[p]
    BY <1>1, <1>3 DEF TypeOK
  <1>5. /\ pc' = [pc EXCEPT ![p] = "put"] /\ put' = [put EXCEPT ![p] = d] /\ ret' = [ret EXCEPT ![p] = "none"]
        /\ cwd' = [cwd EXCEPT ![p] = None] /\ ic' = ic
        /\ UNCHANGED <<disks, dinode, entry, ftable, file, pipe, ofile, rf, wf, ip, call, name, dp, budget>>
    BY <1>4 DEF ExitPut, Goto, Put, Drops, disks, ftable
  <1>6. /\ pc'[p] = "put" /\ ret'[p] = "none" /\ Where(p)' = "none"
        /\ cwd'[p] = None /\ dp'[p] = None /\ ip'[p] = None /\ put'[p] = d
        /\ call'[p] = call[p] /\ name'[p] = name[p]
    BY <1>1, <1>3, <1>5 DEF TypeOK, Where, Putting
  <1>7. TypeOK'
    BY <1>1, <1>5 DEF TypeOK, PC
  <1>8. OnlyBy(p)
    BY <1>1, <1>5 DEF OnlyBy, TypeOK
  <1>9. ~Linking(p)'
    BY <1>6 DEF Linking
  <1>10. PlaceOf(p)'
    <2>1. \A fd \in FDs : ofile'[p][fd] = None
      BY <1>2, <1>5 DEF OpenFDs, FreeFDs
    <2> QED
      BY <1>2, <1>6, <1>9, <2>1, Constants DEF PlaceOf, HasDp, HasIp, HoldsDp, HoldsIp, Putting, Back
  <1>11. Finds(p)
    <2>1. \A j \in Inums : Refers(p, j)' => Sees(p, j)
      BY <1>4, <1>5, <1>6, Constants DEF Refers, Sees
    <2>2. \A j \in Inums : (p \in Pending(j))' => p \in Pending(j)
      BY <1>6, <1>9 DEF Pending
    <2> QED
      BY <1>1, <1>5, <1>6, <1>9, <2>1, <2>2, Mine DEF Finds, LiveOf
  <1>12. Locks(p) /\ LockOf(p)'
    BY <1>1, <1>2, <1>5, <1>6 DEF Locks, LockOf, Holds, HoldsDp, HoldsIp
  <1>13. \A j \in Inums : ic'[j].ref + Own(p, j) = ic[j].ref + Own(p, j)'
    BY <1>3, <1>4, <1>5, <1>6, Constants DEF Own, Is
  <1>14. NewOf(p)' /\ FreeOf(p)' /\ CacheInv'
    BY <1>5, <1>6 DEF NewOf, FreeOf, IInv, CacheInv, CacheOf, Live
  <1>15. {pc[p], pc'[p]} \cap Pipes = {} /\ pc'[p] # "panic"
    BY <1>2, <1>6 DEF Pipes
  <1> QED
    BY <1>5, <1>7, <1>8, <1>10, <1>11, <1>12, <1>13, <1>14, <1>15, QuietStep


-----------------------------------------------------------------------------
(* The steps that change the disk, and not the open files.                 *)
LEMMA DiskStep ==
  ASSUME IInv, TypeOK', NEW p \in Procs, OnlyBy(p), UNCHANGED ftable,
         Meets(p), KeepsTypes(p), Leaves(p), LiveOf(p)', DiskInv', LinksInv',
         {pc[p], pc'[p]} \cap Pipes = {}, pc'[p] # "panic",
         PlaceOf(p)', Locks(p), LockOf(p)', CacheInv', NewOf(p)', FreeOf(p)',
         \A i \in Inums : ic'[i].ref + Own(p, i) = ic[i].ref + Own(p, i)'
  PROVE  IInv'
  <1>1. UNCHANGED file /\ UNCHANGED ofile
    BY DEF ftable
  <1>2. \A i \in Inums : ic'[i].ref \in Nat
    BY DEF TypeOK
  <1>3. RefsCounted'
    BY <1>1, <1>2, RefsStep
  <1>4. FilesCounted' /\ TableInv'
    BY TableStep
  <1>5. OpenLive'
    <2>1. ASSUME NEW f \in Handles, file[f].type = "INODE"
          PROVE  file[f].ip \in Inums /\ dinode'[file[f].ip].type # "free"
      <3>1. PICK i \in Inums : i = file[f].ip
        BY <2>1 DEF IInv, LiveInv, OpenLive
      <3>2. Live(i)
        BY <2>1, <3>1 DEF IInv, LiveInv, OpenLive
      <3>3. ~(pc[p] = "free" /\ put[p] = i)
        BY <2>1, <3>1 DEF IInv, FreeingInv, FreeOf, Unused
      <3>4. dinode'[i].type = dinode[i].type
        BY <3>2, <3>3 DEF KeepsTypes
      <3> QED
        BY <3>1, <3>2, <3>4 DEF Live
    <2> QED
      BY <1>1, <2>1 DEF OpenLive, Live
  <1>6. LiveInv'
    BY <1>5, LiveStep
  <1>7. NewInv' /\ FreeingInv'
    BY NewStep, FreeStep
  <1>8. LockInv' /\ PlaceInv'
    BY <1>1, LockStep, PlaceStep
  <1>9. NoPanic'
    BY DEF IInv, NoPanic, OnlyBy
  <1>10. FilesInv'
    BY <1>3, <1>4 DEF FilesInv
  <1> QED
    BY <1>4, <1>6, <1>7, <1>8, <1>9, <1>10 DEF IInv

(* What LinksInv counts is finite. *)
LEMMA LinksNat ==
  ASSUME NEW i
  PROVE  /\ IsFiniteSet(Entries(i)) /\ IsFiniteSet(ChildDirs(i)) /\ IsFiniteSet(Pending(i))
         /\ Cardinality(Entries(i)) \in Nat /\ Cardinality(ChildDirs(i)) \in Nat
         /\ Cardinality(Pending(i)) \in Nat
  <1>1. IsFiniteSet(Entries(i)) /\ IsFiniteSet(ChildDirs(i)) /\ IsFiniteSet(Pending(i))
    BY Constants, FS_Subset, FS_Product DEF Entries, ChildDirs, Pending
  <1> QED
    BY <1>1, FS_CardinalityType

(* An entry, or what it leads to, and a call of p change the counts by one *)
(* each.                                                                   *)
OnlyAt(d, n) ==
    /\ \A j \in Inums, m \in Names : j # d \/ m # n => entry'[j][m] = entry[j][m]
    /\ \A j \in Inums : dinode'[j].type = dinode[j].type

(* The entries that lead to an inode, and the directories in it, when one  *)
(* entry changes.                                                          *)
LEMMA LinksMove ==
  ASSUME TypeOK, NEW p \in Procs, OnlyBy(p), NEW d, NEW n, OnlyAt(d, n), NEW i \in Inums
  PROVE  /\ Cardinality(Entries(i)') \in Nat
         /\ Cardinality(Entries(i)') + Has(Entries(i), <<d, n>>)
               = Cardinality(Entries(i)) + Has(Entries(i)', <<d, n>>)
         /\ Cardinality(ChildDirs(i)') \in Nat
         /\ Cardinality(ChildDirs(i)') + Has(ChildDirs(i), n)
               = Cardinality(ChildDirs(i)) + Has(ChildDirs(i)', n)
         /\ i # d => Cardinality(ChildDirs(i)') = Cardinality(ChildDirs(i))
         /\ Cardinality(Pending(i)') \in Nat
         /\ Cardinality(Pending(i)') + Has(Pending(i), p)
               = Cardinality(Pending(i)) + Has(Pending(i)', p)
  <1>1. IsFiniteSet(Entries(i)) /\ IsFiniteSet(ChildDirs(i)) /\ IsFiniteSet(Pending(i))
    BY LinksNat
  <1>2. Entries(i) \ {<<d, n>>} = Entries(i)' \ {<<d, n>>}
    <2>1. ASSUME NEW e \in Inums \X Names, e # <<d, n>> PROVE entry'[e[1]][e[2]] = entry[e[1]][e[2]]
      <3>1. PICK j \in Inums, m \in Names : e = <<j, m>>
        OBVIOUS
      <3>2. j # d \/ m # n
        BY <2>1, <3>1
      <3> QED
        BY <3>1, <3>2 DEF OnlyAt
    <2> QED
      BY <2>1 DEF Entries
  <1>3. ASSUME NEW m \in Names, i # d \/ m # n PROVE m \in ChildDirs(i) <=> m \in ChildDirs(i)'
    <2>1. entry'[i][m] = entry[i][m]
      BY <1>3 DEF OnlyAt
    <2>2. entry[i][m] \in Inums \cup {None}
      BY DEF TypeOK
    <2> QED
      BY <2>1, <2>2 DEF ChildDirs, IsDir, OnlyAt
  <1>4. ChildDirs(i) \ {n} = ChildDirs(i)' \ {n} /\ (i # d => ChildDirs(i)' = ChildDirs(i))
    <2>1. ChildDirs(i) \subseteq Names /\ ChildDirs(i)' \subseteq Names
      BY DEF ChildDirs
    <2> QED
      BY <1>3, <2>1
  <1>5. Pending(i) \ {p} = Pending(i)' \ {p}
    BY DEF Pending, OnlyBy, Linking, Where
  <1>6. /\ Cardinality(Entries(i)') \in Nat
        /\ Cardinality(Entries(i)') + Has(Entries(i), <<d, n>>)
              = Cardinality(Entries(i)) + Has(Entries(i)', <<d, n>>)
    BY <1>1, <1>2, CardMove
  <1>7. /\ Cardinality(ChildDirs(i)') \in Nat
        /\ Cardinality(ChildDirs(i)') + Has(ChildDirs(i), n)
              = Cardinality(ChildDirs(i)) + Has(ChildDirs(i)', n)
    BY <1>1, <1>4, CardMove
  <1>8. /\ Cardinality(Pending(i)') \in Nat
        /\ Cardinality(Pending(i)') + Has(Pending(i), p)
              = Cardinality(Pending(i)) + Has(Pending(i)', p)
    BY <1>1, <1>5, CardMove
  <1> QED
    BY <1>4, <1>6, <1>7, <1>8

(* A step that counts only p's links. *)
LEMMA LinksCount ==
  ASSUME IInv, NEW p \in Procs, OnlyBy(p), UNCHANGED entry,
         \A j \in Inums : dinode'[j].type = dinode[j].type,
         \A j \in Inums : /\ dinode'[j].nlink \in Nat
                          /\ dinode'[j].nlink + Has(Pending(j), p) >= dinode[j].nlink + Has(Pending(j)', p)
  PROVE  LinksInv'
  <1>1. ASSUME NEW i \in Inums
        PROVE  dinode'[i].nlink >= Cardinality(Entries(i)') + Cardinality(ChildDirs(i)') + Cardinality(Pending(i)')
    <2>1. Entries(i)' = Entries(i) /\ OnlyAt(0, 0)
      BY DEF Entries, OnlyAt
    <2>2. ChildDirs(i)' = ChildDirs(i)
      BY DEF ChildDirs, IsDir, IInv, FilesInv, TypeOK
    <2>3. /\ Cardinality(Pending(i)') \in Nat
          /\ Cardinality(Pending(i)') + Has(Pending(i), p) = Cardinality(Pending(i)) + Has(Pending(i)', p)
      BY <2>1, LinksMove DEF IInv, FilesInv
    <2>4. dinode[i].nlink >= Cardinality(Entries(i)) + Cardinality(ChildDirs(i)) + Cardinality(Pending(i))
      BY DEF IInv, LinksInv
    <2>5. Has(Pending(i), p) \in Nat /\ Has(Pending(i)', p) \in Nat /\ dinode[i].nlink \in Nat
      BY DEF Has, IInv, FilesInv, TypeOK
    <2>6. /\ dinode'[i].nlink \in Nat
          /\ dinode'[i].nlink + Has(Pending(i), p) >= dinode[i].nlink + Has(Pending(i)', p)
      OBVIOUS
    <2> QED
      BY <2>1, <2>2, <2>3, <2>4, <2>5, <2>6, LinksNat
  <1> QED
    BY <1>1 DEF LinksInv

(* p writes inodes that it sees or that are free, and entries of           *)
(* directories that nobody else has locked.                                *)
LEMMA LeavesStep ==
  ASSUME IInv, NEW p \in Procs,
         \A j \in Inums : dinode'[j] = dinode[j] \/ Sees(p, j) \/ ~Live(j),
         \A j \in Inums : entry'[j] = entry[j] \/ (Sees(p, j) /\ ic[j].lock \in {NoProc, p})
  PROVE  Leaves(p)
  <1>1. ASSUME NEW q \in Procs, q # p, pc[q] \in {"new", "victim"}
        PROVE  entry'[dp[q]][name[q]] = entry[dp[q]][name[q]]
    <2>1. TypeOK /\ PlaceOf(q) /\ LockOf(q) /\ Where(q) = pc[q]
      BY <1>1, Mine DEF Where, Putting
    <2>2. PICK d \in Inums : d = dp[q]
      BY <1>1, <2>1 DEF PlaceOf, HasDp, HoldsDp, TypeOK
    <2>3. ic[d].lock = q
      BY <1>1, <2>1, <2>2 DEF LockOf, Holds, HoldsDp
    <2>4. entry'[d] = entry[d]
      BY <1>1, <2>3, Constants
    <2> QED
      BY <2>2, <2>4
  <1>2. ASSUME NEW q \in Procs, q # p, pc[q] = "new"
        PROVE  dinode'[ip[q]] = dinode[ip[q]] /\ entry'[ip[q]] = entry[ip[q]]
    <2>1. TypeOK /\ PlaceOf(q) /\ NewOf(q) /\ Where(q) = pc[q]
      BY <1>2, Mine DEF Where, Putting
    <2>2. PICK i \in Inums : i = ip[q]
      BY <1>2, <2>1 DEF PlaceOf, HasIp, TypeOK
    <2>3. Live(i)
      BY <1>2, <2>1, <2>2 DEF NewOf, Live
    <2>4. ~Sees(p, i)
      BY <1>2, <2>2, Seen
    <2> QED
      BY <2>2, <2>3, <2>4
  <1>3. ASSUME NEW q \in Procs, q # p, pc[q] = "free" PROVE dinode'[put[q]] = dinode[put[q]]
    <2>1. TypeOK /\ PlaceOf(q) /\ LiveOf(q)
      BY Mine
    <2>2. PICK i \in Inums : i = put[q]
      BY <1>3, <2>1 DEF PlaceOf, Putting, TypeOK
    <2>3. Live(i) /\ ~Sees(p, i)
      BY <1>3, <2>1, <2>2, Seen DEF LiveOf
    <2> QED
      BY <2>2, <2>3
  <1> QED
    BY <1>1, <1>2, <1>3 DEF Leaves

(* sys_link() counts the link that it will make. *)
LEMMA LinkCountStep ==
  ASSUME IInv, NEW p \in Procs, NEW n \in Names, NEW d \in {root, cwd[p]}, LinkCount(p, n, d)
  PROVE  IInv'
  <1>1. /\ TypeOK /\ PlaceOf(p) /\ LockOf(p) /\ LiveOf(p)
    BY Mine
  <1>2. pc[p] = "old" /\ Unlocked(ip[p]) /\ pc[p] \in AtEnd /\ Where(p) = "old"
    BY DEF LinkCount, AtEnd, Where, Putting
  <1>3. PICK i \in Inums : i = ip[p]
    BY <1>2, InTarget
  <1>4. /\ i # None /\ Live(i) /\ dp[p] = None /\ put[p] = None /\ ~Linking(p)
        /\ cwd[p] \in Inums /\ cwd[p] # None /\ ic[i].lock = NoProc
        /\ \A j \in Inums : ic[j].lock # p
    BY <1>2, <1>3, InTarget, Constants
  <1>5. PICK c : c = Section(ic, i)
    OBVIOUS
  <1>6. /\ Copies(c, dinode) /\ c[i].type = dinode[i].type /\ c[i].nlink = dinode[i].nlink
        /\ \A j \in Inums : c[j].ref = ic[j].ref /\ c[j].lock = ic[j].lock
    BY <1>2, <1>3, <1>5, TargetRead
  <1>7. d \in Inums /\ IsDir(d) /\ d # None
    BY <1>1, <1>4, Constants DEF IInv, LiveInv, LiveOf
  <1>8. /\ pc' = [pc EXCEPT ![p] = "walk"] /\ call' = [call EXCEPT ![p] = "link2"]
        /\ name' = [name EXCEPT ![p] = n] /\ dp' = [dp EXCEPT ![p] = d]
        /\ dinode' = DLink(dinode, i, 1) /\ ic' = IGet(NLink(c, i, 1), d) /\ ~IsDir(i)
        /\ UNCHANGED <<entry, ftable, file, pipe, ofile, rf, wf, cwd, ip, put, ret, budget>>
    <2>1. LockedGoto(p, ip[p], "walk") /\ c[i].type # "DIR"
      BY <1>3, <1>5 DEF LinkCount
    <2>2. pc' = [pc EXCEPT ![p] = "walk"] /\ ~IsDir(i)
      BY <1>3, <1>4, <1>6, <2>1, Typed DEF IsDir
    <2> QED
      BY <1>3, <1>5, <2>2 DEF LinkCount, ftable
  <1>9. PICK c1 : c1 = NLink(c, i, 1)
    OBVIOUS
  <1>10. /\ Copies(c1, dinode') /\ \A j \in Inums : c1[j].ref = ic[j].ref /\ c1[j].lock = ic[j].lock
         /\ \A j \in Inums : dinode'[j].type = dinode[j].type /\ (j # i => dinode'[j] = dinode[j])
         /\ dinode'[i].nlink = dinode[i].nlink + 1
    <2>1. c[i].nlink + 1 \in Nat /\ dinode[i].nlink + 1 \in Nat
      BY <1>1, <1>6 DEF TypeOK
    <2> QED
      BY <1>6, <1>8, <1>9, <2>1, NLinkCopy
  <1>11. /\ Copies(ic', dinode')
         /\ \A j \in Inums : ic'[j].ref = ic[j].ref + Is(d, j) /\ ic'[j].lock = ic[j].lock
    <2>1. PICK k : k = dinode'
      OBVIOUS
    <2>2. /\ Copies(IGet(c1, d), k)
          /\ \A j \in Inums : IGet(c1, d)[j].ref = c1[j].ref + Is(d, j) /\ IGet(c1, d)[j].lock = c1[j].lock
      BY <1>7, <1>10, <2>1, IGetCopy
    <2>3. ic' = IGet(c1, d)
      BY <1>8, <1>9
    <2> QED
      BY <1>10, <2>1, <2>2, <2>3
  <1>12. /\ pc'[p] = "walk" /\ Where(p)' = "walk" /\ call'[p] = "link2" /\ name'[p] = n /\ dp'[p] = d
         /\ cwd'[p] = cwd[p] /\ ip'[p] = i /\ put'[p] = None
    BY <1>1, <1>3, <1>4, <1>8 DEF TypeOK, Where, Putting
  <1>13. TypeOK'
    BY <1>1, <1>7, <1>8, <1>11 DEF TypeOK, Copies, Caches, Disks, PC, Calls
  <1>14. OnlyBy(p)
    BY <1>1, <1>8 DEF OnlyBy, TypeOK
  <1>15. Linking(p)'
    BY <1>12 DEF Linking
  <1>16. PlaceOf(p)'
    BY <1>1, <1>2, <1>4, <1>7, <1>8, <1>12, <1>15, Constants DEF PlaceOf, HasDp, HasIp, HoldsDp, HoldsIp, Putting
  <1>17. Meets(p)
    BY <1>3, <1>8, <1>12, Constants DEF Meets, Refers, Sees
  <1>18. KeepsTypes(p) /\ Leaves(p)
    <2>1. Sees(p, i)
      BY <1>3 DEF Sees
    <2> QED
      BY <1>8, <1>10, <2>1, LeavesStep DEF KeepsTypes
  <1>19. LiveOf(p)'
    <2>1. dinode'[d].type = "DIR" /\ dinode'[i].type = dinode[i].type /\ dinode'[cwd[p]].type = "DIR"
      BY <1>1, <1>4, <1>7, <1>10 DEF IsDir, LiveOf
    <2> QED
      BY <1>4, <1>8, <1>12, <2>1 DEF LiveOf, IsDir, Live
  <1>20. DiskInv'
    BY <1>4, <1>8, <1>10 DEF IInv, DiskInv, Live
  <1>21. LinksInv'
    <2>1. ASSUME NEW j \in Inums
          PROVE  /\ dinode'[j].nlink \in Nat
                 /\ dinode'[j].nlink + Has(Pending(j), p) >= dinode[j].nlink + Has(Pending(j)', p)
      <3>1. dinode'[j].nlink \in Nat /\ dinode[j].nlink \in Nat
        BY <1>1, <1>13 DEF TypeOK
      <3>2. Has(Pending(j), p) \in Nat /\ Has(Pending(j)', p) = Is(i, j)
        BY <1>12, <1>15 DEF Has, Is, Pending
      <3> QED
        BY <1>10, <3>1, <3>2 DEF Is
    <2> QED
      BY <1>8, <1>10, <1>14, <2>1, LinksCount
  <1>22. Locks(p) /\ LockOf(p)'
    BY <1>4, <1>11, <1>12 DEF Locks, LockOf, Holds, HoldsDp, HoldsIp
  <1>23. \A j \in Inums : ic'[j].ref + Own(p, j) = ic[j].ref + Own(p, j)'
    <2>1. ASSUME NEW j \in Inums PROVE ic'[j].ref + Own(p, j) = ic[j].ref + Own(p, j)'
      <3>1. ic[j].ref \in Nat /\ None # j
        BY <1>1, Constants DEF TypeOK
      <3> QED
        BY <1>3, <1>4, <1>11, <1>12, <3>1 DEF Own, Is
    <2> QED
      BY <2>1
  <1>24. NewOf(p)' /\ FreeOf(p)'
    BY <1>12 DEF NewOf, FreeOf
  <1>25. {pc[p], pc'[p]} \cap Pipes = {} /\ pc'[p] # "panic" /\ CacheInv'
    BY <1>2, <1>11, <1>12, CopyIs DEF Pipes
  <1> QED
    BY <1>8, <1>13, <1>14, <1>16, <1>17, <1>18, <1>19, <1>20, <1>21, <1>22, <1>23, <1>24, <1>25, DiskStep

(* A link that is still to be counted down. *)
LEMMA PendingLink ==
  ASSUME IInv, NEW i \in Inums, NEW p \in Pending(i)
  PROVE  dinode[i].nlink \in Nat /\ dinode[i].nlink >= 1
  <1>1. Cardinality(Pending(i)) >= 1
    BY LinksNat, CardSome
  <1>2. dinode[i].nlink >= Cardinality(Entries(i)) + Cardinality(ChildDirs(i)) + Cardinality(Pending(i))
    BY DEF IInv, LinksInv
  <1>3. dinode[i].nlink \in Nat
    BY DEF IInv, FilesInv, TypeOK
  <1> QED
    BY <1>1, <1>2, <1>3, LinksNat

(* ip->nlink-- and the end of the call, from a cache c with ip loaded. *)
LEMMA CountDown ==
  ASSUME IInv, NEW p \in Procs, pc[p] = "drop" \/ (pc[p] = "bad" /\ Unlocked(ip[p])),
         NEW c, c = IF pc[p] = "drop" THEN ic ELSE Section(ic, ip[p]),
         dinode' = DLink(dinode, ip[p], -1), UnlockPut(p, NLink(c, ip[p], -1)),
         pc' = [pc EXCEPT ![p] = "put"],
         UNCHANGED entry, UNCHANGED ftable, UNCHANGED cwd, UNCHANGED dp, UNCHANGED budget
  PROVE  IInv'
  <1>1. /\ TypeOK /\ PlaceOf(p) /\ LockOf(p) /\ LiveOf(p) /\ Copies(ic, dinode)
    BY Mine, IsCopy
  <1>2. Where(p) = pc[p] /\ pc[p] \in {"bad", "drop"}
    BY DEF Where, Putting
  <1>3. /\ ip[p] # None /\ ip[p] \in Inums /\ Live(ip[p]) /\ dp[p] = None /\ put[p] = None
        /\ cwd[p] \in Inums /\ cwd[p] # None
    BY <1>1, <1>2, Mine DEF PlaceOf, HasDp, HoldsDp, HasIp, HoldsIp, Putting, LiveOf, Linking
  <1>4. PICK i \in Inums : i = ip[p]
    BY <1>3
  <1>5. /\ ic[i].lock \in {NoProc, p} /\ \A j \in Inums : ic[j].lock = p => j = i
        /\ pc[p] = "drop" => ic[i].lock = p
    <2>1. \A j \in Inums : ic[j].lock = p <=> j = i /\ pc[p] = "drop"
      BY <1>1, <1>2, <1>4 DEF LockOf, Holds, HoldsDp, HoldsIp
    <2> QED
      BY <1>2, <1>4, <2>1 DEF Unlocked
  <1>6. p \in Pending(i) /\ ~Linking(p)
    BY <1>2, <1>4 DEF Pending, Linking
  <1>7. dinode[i].nlink \in Nat /\ dinode[i].nlink >= 1
    BY <1>6, PendingLink
  <1>8. ic[i].ref \in Nat /\ ic[i].ref > 0
    <2>1. ic[i].ref \in Nat /\ ic[i].ref >= 1
      BY <1>1, <1>4, Referred DEF IInv, FilesInv, TypeOK
    <2> QED
      BY <2>1
  <1>9. /\ Copies(c, dinode) /\ c[i].nlink = dinode[i].nlink
        /\ \A j \in Inums : c[j].ref = ic[j].ref /\ c[j].lock = ic[j].lock
    <2>1. CASE pc[p] = "drop"
      <3>1. ic[i].valid /\ ic[i].nlink = dinode[i].nlink
        BY <1>1, <1>5, <1>8, <2>1, Constants DEF Copies, Good
      <3> QED
        BY <1>1, <2>1, <3>1
    <2>2. CASE pc[p] = "bad"
      BY <1>1, <1>3, <1>4, <1>8, <2>2, SectionCopy
    <2> QED
      BY <1>2, <2>1, <2>2
  <1>10. /\ put' = [put EXCEPT ![p] = i] /\ ret' = [ret EXCEPT ![p] = "idle"]
         /\ ip' = [ip EXCEPT ![p] = None] /\ ic' = IUnlock(NLink(c, i, -1), i)
         /\ dinode' = DLink(dinode, i, -1)
         /\ UNCHANGED <<entry, file, pipe, ofile, rf, wf, cwd, dp, call, name, budget>>
    BY <1>4 DEF UnlockPut, Put, Drops, ftable
  <1>11. PICK b, k : b = NLink(c, i, -1) /\ k = DLink(dinode, i, -1)
    OBVIOUS
  <1>12. /\ Copies(b, k) /\ \A j \in Inums : b[j].ref = ic[j].ref /\ b[j].lock = ic[j].lock
         /\ \A j \in Inums : k[j].type = dinode[j].type /\ (j # i => k[j] = dinode[j])
         /\ k[i].nlink = dinode[i].nlink - 1
    <2>1. c[i].nlink + (-1) \in Nat /\ dinode[i].nlink + (-1) \in Nat
          /\ dinode[i].nlink + (-1) = dinode[i].nlink - 1
      BY <1>7, <1>9
    <2> QED
      BY <1>9, <1>11, <2>1, NLinkCopy
  <1>13. /\ Copies(IUnlock(b, i), k)
         /\ \A j \in Inums : /\ IUnlock(b, i)[j].ref = ic[j].ref
                             /\ j # i => IUnlock(b, i)[j].lock = ic[j].lock
         /\ IUnlock(b, i)[i].lock = NoProc
    BY <1>12, IUnlockCopy
  <1>14. /\ Copies(ic', dinode')
         /\ \A j \in Inums : ic'[j].ref = ic[j].ref /\ (j # i => ic'[j].lock = ic[j].lock)
         /\ ic'[i].lock = NoProc
         /\ \A j \in Inums : dinode'[j].type = dinode[j].type /\ (j # i => dinode'[j] = dinode[j])
         /\ dinode'[i].nlink = dinode[i].nlink - 1
    BY <1>10, <1>11, <1>12, <1>13
  <1>15. /\ pc'[p] = "put" /\ ret'[p] = "idle" /\ Where(p)' = "idle"
         /\ cwd'[p] = cwd[p] /\ dp'[p] = None /\ ip'[p] = None /\ put'[p] = i
         /\ call'[p] = call[p] /\ name'[p] = name[p]
    BY <1>1, <1>3, <1>10 DEF TypeOK, Where, Putting
  <1>16. TypeOK'
    BY <1>1, <1>10, <1>14 DEF TypeOK, Copies, Caches, Disks, PC
  <1>17. OnlyBy(p)
    BY <1>1, <1>10 DEF OnlyBy, TypeOK
  <1>18. ~Linking(p)'
    BY <1>15 DEF Linking
  <1>19. PlaceOf(p)'
    BY <1>1, <1>2, <1>3, <1>4, <1>10, <1>15, <1>18, Constants DEF PlaceOf, HasDp, HasIp, HoldsDp, HoldsIp, Putting, Back
  <1>20. Meets(p)
    BY <1>4, <1>10, <1>15, Constants DEF Meets, Refers, Sees
  <1>21. KeepsTypes(p) /\ Leaves(p)
    <2>1. Sees(p, i)
      BY <1>4 DEF Sees
    <2> QED
      BY <1>10, <1>14, <2>1, LeavesStep DEF KeepsTypes
  <1>22. LiveOf(p)'
    <2>1. dinode'[i].type # "free" /\ dinode'[cwd[p]].type = "DIR"
      BY <1>1, <1>3, <1>4, <1>14 DEF IsDir, LiveOf, Live
    <2> QED
      BY <1>15, <1>18, <2>1 DEF LiveOf, IsDir, Live
  <1>23. DiskInv'
    BY <1>3, <1>4, <1>10, <1>14 DEF IInv, DiskInv, Live
  <1>24. LinksInv'
    <2>1. ASSUME NEW j \in Inums
          PROVE  /\ dinode'[j].nlink \in Nat
                 /\ dinode'[j].nlink + Has(Pending(j), p) >= dinode[j].nlink + Has(Pending(j)', p)
      <3>1. dinode'[j].nlink \in Nat /\ dinode[j].nlink \in Nat
        BY <1>1, <1>16 DEF TypeOK
      <3>2. Has(Pending(j), p) = Is(i, j)
        BY <1>4, <1>6 DEF Has, Is, Pending
      <3>3. Has(Pending(j)', p) = 0
        BY <1>15, <1>18 DEF Has, Pending
      <3> QED
        BY <1>7, <1>14, <3>1, <3>2, <3>3 DEF Is
    <2> QED
      BY <1>10, <1>14, <1>17, <2>1, LinksCount
  <1>25. Locks(p) /\ LockOf(p)'
    BY <1>5, <1>14, <1>15, Constants DEF Locks, LockOf, Holds, HoldsDp, HoldsIp
  <1>26. \A j \in Inums : ic'[j].ref + Own(p, j) = ic[j].ref + Own(p, j)'
    <2>1. ASSUME NEW j \in Inums PROVE ic'[j].ref + Own(p, j) = ic[j].ref + Own(p, j)'
      <3>1. ic[j].ref \in Nat /\ None # j
        BY <1>1, Constants DEF TypeOK
      <3> QED
        BY <1>3, <1>4, <1>14, <1>15, <3>1 DEF Own, Is
    <2> QED
      BY <2>1
  <1>27. NewOf(p)' /\ FreeOf(p)'
    BY <1>15 DEF NewOf, FreeOf
  <1>28. {pc[p], pc'[p]} \cap Pipes = {} /\ pc'[p] # "panic" /\ CacheInv'
    BY <1>2, <1>14, <1>15, CopyIs DEF Pipes
  <1> QED
    BY <1>16, <1>17, <1>19, <1>20, <1>21, <1>22, <1>23, <1>24, <1>25, <1>26, <1>27, <1>28, DiskStep

(* sys_link() that fails takes its link back. *)
LEMMA LinkUndoStep ==
  ASSUME IInv, NEW p \in Procs, LinkUndo(p)
  PROVE  IInv'
  <1>1. pc[p] = "bad" /\ Unlocked(ip[p]) /\ pc[p] # "drop"
    BY DEF LinkUndo
  <1>2. Live(ip[p]) /\ LockedGoto(p, ip[p], "put")
    BY <1>1, InTarget DEF LinkUndo
  <1>3. pc' = [pc EXCEPT ![p] = "put"]
    BY <1>2, Typed
  <1>4. PICK c : c = Section(ic, ip[p])
    OBVIOUS
  <1>5. /\ dinode' = DLink(dinode, ip[p], -1) /\ UnlockPut(p, NLink(c, ip[p], -1))
        /\ UNCHANGED <<entry, ftable, cwd, dp, budget>>
    BY <1>4 DEF LinkUndo
  <1> QED
    BY <1>1, <1>3, <1>4, <1>5, CountDown

(* The end of sys_unlink(). *)
LEMMA UnlinkDropStep ==
  ASSUME IInv, NEW p \in Procs, UnlinkDrop(p)
  PROVE  IInv'
  <1>1. pc[p] = "drop"
    BY DEF UnlinkDrop
  <1>2. /\ dinode' = DLink(dinode, ip[p], -1) /\ UnlockPut(p, NLink(ic, ip[p], -1))
        /\ pc' = [pc EXCEPT ![p] = "put"]
        /\ UNCHANGED <<entry, ftable, cwd, dp, budget>>
    BY DEF UnlinkDrop, Goto
  <1> QED
    BY <1>1, <1>2, CountDown

(* iput() frees the inode: itrunc(), type = 0, iupdate(). *)
LEMMA IFreeStep ==
  ASSUME IInv, NEW p \in Procs, IFree(p)
  PROVE  IInv'
  <1>1. /\ TypeOK /\ PlaceOf(p) /\ LockOf(p) /\ LiveOf(p) /\ FreeOf(p) /\ Copies(ic, dinode)
    BY Mine, IsCopy
  <1>2. pc[p] = "free" /\ put[p] # None /\ put[p] \in Inums /\ Where(p) = ret[p] /\ ret[p] \in Back
    BY <1>1, Mine DEF IFree, PlaceOf, Putting, Where
  <1>3. PICK i \in Inums : i = put[p]
    BY <1>2
  <1>4. /\ dinode[i].nlink = 0 /\ Unused(i) /\ \A q \in Procs : ip[q] # i /\ (q # p => put[q] # i)
        /\ ic[i].lock = p
    BY <1>1, <1>2, <1>3 DEF FreeOf, LockOf, Holds
  <1>5. /\ entry' = [entry EXCEPT ![i] = NoEntries] /\ dinode' = [dinode EXCEPT ![i].type = "free"]
        /\ ic' = [ic EXCEPT ![i].type = "free", ![i].valid = FALSE, ![i].lock = NoProc]
        /\ pc' = [pc EXCEPT ![p] = "deref"]
        /\ UNCHANGED <<ftable, file, pipe, ofile, rf, wf, cwd, call, name, dp, ip, put, ret, budget>>
    BY <1>3 DEF IFree, Goto, ftable, locals
  <1>6. /\ dinode'[i].type = "free" /\ dinode'[i].nlink = 0 /\ entry'[i] = NoEntries
        /\ \A j \in Inums : j # i => dinode'[j] = dinode[j] /\ entry'[j] = entry[j]
        /\ dinode' \in Disks /\ entry' \in [Inums -> [Names -> Inums \cup {None}]]
    <2>1. PICK y \in [type : Types, nlink : Nat] : y = dinode[i]
      BY <1>1 DEF TypeOK
    <2>2. PICK k \in [type : Types, nlink : Nat] : k = [y EXCEPT !.type = "free"]
      BY DEF Types
    <2>3. dinode' = [dinode EXCEPT ![i] = k] /\ k.type = "free" /\ k.nlink = y.nlink
      BY <1>5, <2>1, <2>2
    <2>4. NoEntries \in [Names -> Inums \cup {None}]
      BY DEF NoEntries
    <2>5. entry' \in [Inums -> [Names -> Inums \cup {None}]] /\ dinode' \in Disks
      <3>1. PICK r \in [Names -> Inums \cup {None}] : r = NoEntries
        BY <2>4
      <3>2. entry' = [entry EXCEPT ![i] = r]
        BY <1>5, <3>1
      <3>3. entry' \in [Inums -> [Names -> Inums \cup {None}]]
        BY <1>1, <3>2 DEF TypeOK
      <3>4. dinode' \in Disks
        BY <1>1, <2>3 DEF TypeOK, Disks
      <3> QED
        BY <3>3, <3>4
    <2> QED
      <3>1. /\ dinode'[i] = k /\ entry'[i] = NoEntries
            /\ \A j \in Inums : j # i => dinode'[j] = dinode[j] /\ entry'[j] = entry[j]
        BY <1>1, <1>5, <2>3 DEF TypeOK
      <3> QED
        BY <1>4, <2>1, <2>3, <2>5, <3>1
  <1>7. /\ Copies(ic', dinode')
        /\ \A j \in Inums : ic'[j].ref = ic[j].ref /\ (j # i => ic'[j].lock = ic[j].lock)
        /\ ic'[i].lock = NoProc
    <2>1. PICK x \in [ref : Nat, valid : BOOLEAN, type : Types, nlink : Nat, lock : Procs \cup {NoProc}] :
              x = ic[i]
      BY <1>1 DEF TypeOK
    <2>2. PICK k \in [type : Types, nlink : Nat] : k = [dinode[i] EXCEPT !.type = "free"] /\ dinode'[i] = k
      BY <1>1, <1>5, <1>6 DEF TypeOK, Disks
    <2>3. PICK e : e = [x EXCEPT !.type = "free", !.valid = FALSE, !.lock = NoProc]
      OBVIOUS
    <2>4. /\ e \in [ref : Nat, valid : BOOLEAN, type : Types, nlink : Nat, lock : Procs \cup {NoProc}]
          /\ ~e.valid /\ e.lock = NoProc /\ e.ref = x.ref
      BY <2>3 DEF Types
    <2>5. ic' = [ic EXCEPT ![i] = e] /\ dinode' = [dinode EXCEPT ![i] = k]
      BY <1>1, <1>5, <2>1, <2>2, <2>3 DEF TypeOK
    <2>6. Copies([ic EXCEPT ![i] = e], [dinode EXCEPT ![i] = k])
      BY <1>1, <2>4, SetCopy
    <2>7. ic'[i] = e /\ \A j \in Inums : j # i => ic'[j] = ic[j]
      BY <1>1, <2>5 DEF TypeOK
    <2> QED
      BY <2>1, <2>4, <2>5, <2>6, <2>7
  <1>8. /\ pc'[p] = "deref" /\ Where(p)' = Where(p)
        /\ cwd'[p] = cwd[p] /\ dp'[p] = dp[p] /\ ip'[p] = ip[p] /\ put'[p] = i
        /\ call'[p] = call[p] /\ name'[p] = name[p] /\ ret'[p] = ret[p]
    BY <1>1, <1>2, <1>3, <1>5 DEF TypeOK, Where, Putting
  <1>9. TypeOK'
    BY <1>1, <1>5, <1>6, <1>7 DEF TypeOK, Copies, Caches, Disks, PC
  <1>10. OnlyBy(p)
    BY <1>1, <1>5 DEF OnlyBy, TypeOK
  <1>11. Linking(p)' <=> Linking(p)
    BY <1>8 DEF Linking
  <1>12. PlaceOf(p)'
    BY <1>1, <1>2, <1>3, <1>5, <1>8, <1>11, Constants DEF PlaceOf, Putting
  <1>13. Meets(p)
    BY <1>2, <1>3, <1>5, <1>8, Constants DEF Meets, Refers, Sees
  <1>14. KeepsTypes(p) /\ Leaves(p)
    <2>1. Sees(p, i)
      BY <1>2, <1>3 DEF Sees
    <2> QED
      BY <1>2, <1>3, <1>4, <1>6, <2>1, LeavesStep DEF KeepsTypes
  <1>15. LiveOf(p)'
    <2>1. cwd[p] # i /\ dp[p] # i /\ ip[p] # i
      BY <1>4 DEF Unused
    <2>2. /\ cwd[p] # None => dinode'[cwd[p]] = dinode[cwd[p]]
          /\ dp[p] # None => dinode'[dp[p]] = dinode[dp[p]]
          /\ ip[p] # None => dinode'[ip[p]] = dinode[ip[p]]
      BY <1>6, <2>1, Mine
    <2>3. Linking(p) => ip[p] # None
      BY <1>1 DEF PlaceOf
    <2> QED
      BY <1>1, <1>8, <1>11, <2>2, <2>3 DEF LiveOf, IsDir, Live
  <1>16. DiskInv'
    BY <1>6 DEF IInv, DiskInv
  <1>17. LinksInv'
    <2>1. ASSUME NEW j \in Inums
          PROVE  dinode'[j].nlink >= Cardinality(Entries(j)') + Cardinality(ChildDirs(j)') + Cardinality(Pending(j)')
      <3>1. Entries(j)' \subseteq Entries(j)
        <4>1. ASSUME NEW d \in Inums, NEW n \in Names, entry'[d][n] = j PROVE entry[d][n] = j
          BY <1>6, <4>1, Constants DEF NoEntries
        <4> QED
          BY <4>1 DEF Entries
      <3>2. ChildDirs(j)' \subseteq ChildDirs(j)
        <4>1. ASSUME NEW n \in Names, entry'[j][n] # None, dinode'[entry'[j][n]].type = "DIR"
              PROVE  entry[j][n] # None /\ dinode[entry[j][n]].type = "DIR"
          <5>1. j # i
            BY <1>6, <4>1 DEF NoEntries
          <5>2. entry'[j][n] = entry[j][n] /\ entry[j][n] \in Inums
            BY <1>1, <1>6, <4>1, <5>1 DEF TypeOK
          <5>3. entry[j][n] # i
            BY <1>6, <4>1, <5>2
          <5> QED
            BY <1>6, <4>1, <5>2, <5>3
        <4> QED
          BY <4>1 DEF ChildDirs, IsDir
      <3>3. Pending(j)' = Pending(j)
        <4>1. \A q \in Procs : ip'[q] = ip[q] /\ (Where(q)' = Where(q)) /\ (Linking(q)' <=> Linking(q))
          BY <1>8, <1>10, <1>11 DEF OnlyBy, Where, Linking
        <4> QED
          BY <4>1 DEF Pending
      <3>4. dinode'[j].nlink = dinode[j].nlink /\ dinode[j].nlink \in Nat
        BY <1>1, <1>4, <1>6 DEF TypeOK
      <3>5. dinode[j].nlink >= Cardinality(Entries(j)) + Cardinality(ChildDirs(j)) + Cardinality(Pending(j))
        BY DEF IInv, LinksInv
      <3>6. /\ Cardinality(Entries(j)') \in Nat /\ Cardinality(Entries(j)') <= Cardinality(Entries(j))
            /\ Cardinality(ChildDirs(j)') \in Nat /\ Cardinality(ChildDirs(j)') <= Cardinality(ChildDirs(j))
        BY <3>1, <3>2, LinksNat, FS_Subset, FS_CardinalityType
      <3> QED
        BY <3>3, <3>4, <3>5, <3>6, LinksNat
    <2> QED
      BY <2>1 DEF LinksInv
  <1>18. Locks(p) /\ LockOf(p)'
    <2>1. Locks(p)
      BY <1>4, <1>7 DEF Locks
    <2>2. ASSUME NEW j \in Inums PROVE ic'[j].lock = p <=> Holds(p, j)'
      <3>1. CASE j = i
        BY <1>1, <1>2, <1>3, <1>7, <1>8, <3>1, Constants DEF LockOf, Holds
      <3>2. CASE j # i
        <4>1. ic'[j].lock = ic[j].lock /\ (ic[j].lock = p <=> Holds(p, j))
          BY <1>1, <1>7, <3>2 DEF LockOf
        <4> QED
          BY <1>3, <1>8, <3>2, <4>1 DEF Holds
      <3> QED
        BY <3>1, <3>2
    <2> QED
      BY <1>8, <2>1, <2>2 DEF LockOf
  <1>19. \A j \in Inums : ic'[j].ref + Own(p, j) = ic[j].ref + Own(p, j)'
    BY <1>3, <1>7, <1>8 DEF Own
  <1>20. NewOf(p)' /\ FreeOf(p)'
    BY <1>8 DEF NewOf, FreeOf
  <1>21. {pc[p], pc'[p]} \cap Pipes = {} /\ pc'[p] # "panic" /\ CacheInv'
    BY <1>2, <1>7, <1>8, CopyIs DEF Pipes
  <1> QED
    BY <1>5, <1>9, <1>10, <1>12, <1>13, <1>14, <1>15, <1>16, <1>17, <1>18, <1>19, <1>20, <1>21, DiskStep

(* ialloc(): the first inode that is free, for a name that is not there. *)
LEMMA CreateNewStep ==
  ASSUME IInv, NEW p \in Procs, CreateNew(p)
  PROVE  IInv'
  <1>1. /\ TypeOK /\ PlaceOf(p) /\ LockOf(p) /\ LiveOf(p) /\ Copies(ic, dinode)
    BY Mine, IsCopy
  <1>2. /\ pc[p] = "parent" /\ call[p] \in {"creat", "mkdir"} /\ Unlocked(dp[p]) /\ Where(p) = "parent"
        /\ entry[dp[p]][name[p]] = None
    BY DEF CreateNew, Where, Putting
  <1>3. PICK d \in Inums : d = dp[p]
    BY <1>2, InParent
  <1>4. /\ IsDir(d) /\ Live(d) /\ name[p] \in Names /\ put[p] = None /\ ip[p] = None /\ ~Linking(p)
        /\ dp[p] # None /\ cwd[p] # None
        /\ ic[d].lock = NoProc /\ ic[d].ref > 0 /\ \A j \in Inums : ic[j].lock # p
    BY <1>2, <1>3, InParent
  <1>5. PICK i \in Inums : i = Min(FreeInodes) /\ ~Live(i)
    <2>1. FreeInodes \in SUBSET Nat /\ FreeInodes # {}
      BY Constants DEF FreeInodes, CreateNew
    <2>2. Min(FreeInodes) \in FreeInodes
      BY <2>1, MinIn
    <2> QED
      BY <2>2 DEF FreeInodes, Live
  <1>6. PICK k \in [type : Types, nlink : Nat] :
          k = [type |-> IF call[p] = "creat" THEN "FILE" ELSE "DIR", nlink |-> 0]
    <2>1. PICK t \in Types : t = IF call[p] = "creat" THEN "FILE" ELSE "DIR"
      BY DEF Types
    <2> QED
      BY <2>1
  <1>7. /\ pc' = [pc EXCEPT ![p] = "new"] /\ ip' = [ip EXCEPT ![p] = i] /\ dinode' = [dinode EXCEPT ![i] = k]
        /\ ic' = IGet(ILock(ic, d, p), i)
        /\ UNCHANGED <<entry, ftable, file, pipe, ofile, rf, wf, cwd, call, name, dp, put, ret, budget>>
    <2>1. LockedGoto(p, d, "new")
      BY <1>3 DEF CreateNew
    <2>2. pc' = [pc EXCEPT ![p] = "new"]
      BY <1>4, <2>1, Typed
    <2> QED
      BY <1>3, <1>5, <1>6, <2>2 DEF CreateNew, ftable
  <1>8. /\ dinode'[i] = k /\ k.nlink = 0 /\ k.type \in {"FILE", "DIR"} /\ (k.type = "FILE" <=> call[p] = "creat")
        /\ \A j \in Inums : j # i => dinode'[j] = dinode[j]
        /\ dinode' \in Disks
    BY <1>1, <1>6, <1>7 DEF TypeOK, Disks
  <1>9. /\ Copies(ic', dinode')
        /\ \A j \in Inums : /\ ic'[j].ref = ic[j].ref + Is(i, j)
                            /\ ic'[j].lock = IF j = d THEN p ELSE ic[j].lock
    <2>1. /\ Copies(ic', dinode)
          /\ \A j \in Inums : /\ ic'[j].ref = ic[j].ref + Is(i, j)
                              /\ ic'[j].lock = IF j = d THEN p ELSE ic[j].lock
      BY <1>1, <1>4, <1>7, LookedUpLocked
    <2>2. ASSUME NEW j \in Inums PROVE Good(ic', dinode', j)
      <3>1. CASE j = i
        BY <1>5, <2>1, <3>1 DEF Copies, Good, Live
      <3>2. CASE j # i
        BY <1>8, <2>1, <3>2 DEF Copies, Good
      <3> QED
        BY <3>1, <3>2
    <2> QED
      BY <1>8, <2>1, <2>2 DEF Copies
  <1>10. /\ pc'[p] = "new" /\ Where(p)' = "new" /\ ip'[p] = i /\ dp'[p] = d /\ put'[p] = None
         /\ cwd'[p] = cwd[p] /\ call'[p] = call[p] /\ name'[p] = name[p]
    BY <1>1, <1>3, <1>4, <1>7 DEF TypeOK, Where, Putting
  <1>11. TypeOK'
    BY <1>1, <1>7, <1>8, <1>9 DEF TypeOK, Copies, Caches, Disks, PC
  <1>12. OnlyBy(p)
    BY <1>1, <1>7 DEF OnlyBy, TypeOK
  <1>13. ~Linking(p)'
    BY <1>10 DEF Linking
  <1>14. PlaceOf(p)'
    BY <1>1, <1>2, <1>4, <1>7, <1>10, <1>13, Constants DEF PlaceOf, HasDp, HasIp, HoldsDp, HoldsIp, Putting
  <1>15. Meets(p)
    BY <1>5, <1>7, <1>10, <1>3, Constants DEF Meets, Refers, Sees
  <1>16. KeepsTypes(p) /\ Leaves(p)
    BY <1>5, <1>7, <1>8, LeavesStep DEF KeepsTypes
  <1>17. i # d /\ i # cwd[p]
    <2>1. IsDir(cwd[p])
      BY <1>1, <1>4 DEF LiveOf
    <2> QED
      BY <1>4, <1>5, <2>1 DEF IsDir, Live
  <1>18. LiveOf(p)'
    <2>1. dinode'[d] = dinode[d] /\ dinode'[cwd[p]] = dinode[cwd[p]]
      BY <1>4, <1>8, <1>17, Mine
    <2> QED
      BY <1>1, <1>4, <1>8, <1>10, <1>13, <2>1 DEF LiveOf, IsDir, Live
  <1>19. entry[i] = NoEntries /\ dinode[i].nlink = 0
    BY <1>5 DEF IInv, DiskInv, Live
  <1>20. DiskInv'
    BY <1>7, <1>8, <1>19 DEF IInv, DiskInv
  <1>21. LinksInv'
    <2>1. ASSUME NEW j \in Inums
          PROVE  dinode'[j].nlink >= Cardinality(Entries(j)') + Cardinality(ChildDirs(j)') + Cardinality(Pending(j)')
      <3>1. Entries(j)' = Entries(j)
        BY <1>7 DEF Entries
      <3>2. ChildDirs(j)' = ChildDirs(j)
        <4>1. ASSUME NEW n \in Names, entry[j][n] # None PROVE dinode'[entry[j][n]] = dinode[entry[j][n]]
          <5>1. PICK e \in Inums : e = entry[j][n]
            BY <1>1, <4>1 DEF TypeOK
          <5>2. Live(e)
            BY <4>1, <5>1, Leads
          <5> QED
            BY <1>5, <1>8, <5>1, <5>2
        <4> QED
          BY <1>7, <4>1 DEF ChildDirs, IsDir
      <3>3. Pending(j)' = Pending(j)
        <4>1. ASSUME NEW q \in Procs PROVE q \in Pending(j)' <=> q \in Pending(j)
          <5>1. CASE q = p
            BY <1>2, <1>4, <1>10, <1>13, <5>1 DEF Pending
          <5>2. CASE q # p
            BY <1>12, <5>2 DEF Pending, OnlyBy, Where, Linking
          <5> QED
            BY <5>1, <5>2
        <4>2. Pending(j)' \subseteq Procs /\ Pending(j) \subseteq Procs
          BY DEF Pending
        <4> QED
          BY <4>1, <4>2
      <3>4. dinode'[j].nlink = dinode[j].nlink
        BY <1>8, <1>19
      <3> QED
        BY <3>1, <3>2, <3>3, <3>4 DEF IInv, LinksInv
    <2> QED
      BY <2>1 DEF LinksInv
  <1>22. NewOf(p)'
    <2>1. \A q \in Procs : cwd[q] # i /\ dp[q] # i /\ ip[q] # i
      <3>1. ASSUME NEW q \in Procs PROVE cwd[q] # i /\ dp[q] # i /\ ip[q] # i
        <4>1. LiveOf(q) /\ i # None
          BY Mine, Constants
        <4> QED
          BY <1>5, <4>1 DEF LiveOf, IsDir, Live
      <3> QED
        BY <3>1
    <2>2. \A q \in Procs : put[q] = i => pc[q] = "deref" /\ q # p
      <3>1. ASSUME NEW q \in Procs, put[q] = i PROVE pc[q] = "deref" /\ q # p
        <4>1. LiveOf(q) /\ PlaceOf(q) /\ i # None
          BY Mine, Constants
        <4> QED
          BY <1>4, <1>5, <3>1, <4>1 DEF LiveOf, PlaceOf, Putting
      <3> QED
        BY <3>1
    <2>3. \A f \in Handles : file[f].type = "INODE" => file[f].ip # i
      BY <1>5 DEF IInv, LiveInv, OpenLive
    <2>4. i # root
      BY <1>5 DEF IInv, LiveInv, IsDir, Live
    <2>5. Unused(i)'
      BY <1>7, <2>1, <2>3, <2>4 DEF Unused, root
    <2>6. \A q \in Procs : /\ q # p => ip'[q] # i
                           /\ put'[q] = i => pc'[q] = "deref"
      BY <1>7, <1>12, <2>1, <2>2 DEF OnlyBy
    <2> QED
      BY <1>2, <1>3, <1>6, <1>7, <1>8, <1>10, <1>19, <2>5, <2>6 DEF NewOf, Unused
  <1>23. Locks(p) /\ LockOf(p)'
    BY <1>4, <1>9, <1>10 DEF Locks, LockOf, Holds, HoldsDp, HoldsIp
  <1>24. \A j \in Inums : ic'[j].ref + Own(p, j) = ic[j].ref + Own(p, j)'
    <2>1. ASSUME NEW j \in Inums PROVE ic'[j].ref + Own(p, j) = ic[j].ref + Own(p, j)'
      <3>1. ic[j].ref \in Nat /\ None # j
        BY <1>1, Constants DEF TypeOK
      <3> QED
        BY <1>3, <1>4, <1>9, <1>10, <3>1 DEF Own, Is
    <2> QED
      BY <2>1
  <1>25. FreeOf(p)'
    BY <1>10 DEF FreeOf
  <1>26. {pc[p], pc'[p]} \cap Pipes = {} /\ pc'[p] # "panic" /\ CacheInv'
    BY <1>2, <1>9, <1>10, CopyIs DEF Pipes
  <1> QED
    BY <1>7, <1>11, <1>12, <1>14, <1>15, <1>16, <1>18, <1>20, <1>21, <1>22, <1>23, <1>24, <1>25, <1>26, DiskStep

(* The rest of create(): the links of the new inode and of its parent, and *)
(* the entry.                                                              *)
LEMMA MakeStep ==
  ASSUME IInv, NEW p \in Procs, Make(p)
  PROVE  IInv'
  <1>1. /\ TypeOK /\ PlaceOf(p) /\ LockOf(p) /\ LiveOf(p) /\ NewOf(p) /\ Copies(ic, dinode)
    BY Mine, IsCopy
  <1>2. pc[p] = "new" /\ Unlocked(ip[p]) /\ Where(p) = "new" /\ ~Linking(p)
    BY DEF Make, Where, Putting, Linking
  <1>3. /\ dp[p] # None /\ dp[p] \in Inums /\ ip[p] # None /\ ip[p] \in Inums /\ put[p] = None
        /\ name[p] \in Names /\ call[p] \in {"creat", "mkdir"} /\ cwd[p] # None /\ cwd[p] \in Inums
    BY <1>1, <1>2, Mine DEF PlaceOf, HasDp, HoldsDp, HasIp, HoldsIp, Putting
  <1>4. PICK d \in Inums, i \in Inums, n \in Names : d = dp[p] /\ i = ip[p] /\ n = name[p]
    BY <1>3
  <1>5. PICK child \in {0, 1} : child = (IF call[p] = "mkdir" THEN 1 ELSE 0) /\ (call[p] = "mkdir" <=> child = 1)
    OBVIOUS
  <1>6. /\ dinode[i].type = (IF child = 1 THEN "DIR" ELSE "FILE") /\ dinode[i].nlink = 0
        /\ entry[i] = NoEntries /\ entry[d][n] = None /\ i # d /\ i # cwd[p]
        /\ Live(i) /\ IsDir(d) /\ Live(d)
    BY <1>1, <1>2, <1>3, <1>4, <1>5 DEF NewOf, Unused, LiveOf, IsDir, Live
  <1>7. \A j \in Inums : ic[j].lock = p <=> j = d
    BY <1>1, <1>2, <1>4 DEF LockOf, Holds, HoldsDp, HoldsIp
  <1>8. ic[i].ref > 0 /\ ic[i].lock = NoProc
    <2>1. ic[i].ref >= 1 /\ ic[i].ref \in Nat
      BY <1>1, <1>4, Referred DEF IInv, FilesInv, TypeOK
    <2> QED
      BY <1>2, <1>4, <2>1 DEF Unlocked
  <1>9. PICK c0, c1, c2 :
          /\ c0 = ILock(ic, i, p) /\ c1 = [c0 EXCEPT ![i].nlink = 1] /\ c2 = NLink(c1, d, child)
    OBVIOUS
  <1>10. PICK d1, d2 : d1 = [dinode EXCEPT ![i].nlink = 1] /\ d2 = DLink(d1, d, child)
    OBVIOUS
  <1>11. /\ pc' = [pc EXCEPT ![p] = "put"] /\ put' = [put EXCEPT ![p] = d] /\ ret' = [ret EXCEPT ![p] = "made"]
         /\ dp' = [dp EXCEPT ![p] = None] /\ entry' = [entry EXCEPT ![d][n] = i]
         /\ dinode' = d2 /\ ic' = IUnlock(c2, d)
         /\ UNCHANGED <<ftable, file, pipe, ofile, rf, wf, cwd, call, name, ip, budget>>
    <2>1. LockedGoto(p, i, "put")
      BY <1>4 DEF Make
    <2>2. pc' = [pc EXCEPT ![p] = "put"]
      BY <1>6, <2>1, Typed
    <2> QED
      BY <1>4, <1>5, <1>9, <1>10, <2>2 DEF Make, Put, Drops, ftable
  <1>12. /\ Copies(c0, dinode) /\ c0[i].lock = p /\ c0[i].valid /\ c0[i].type = dinode[i].type
         /\ \A j \in Inums : c0[j].ref = ic[j].ref /\ (j # i => c0[j] = ic[j])
    BY <1>1, <1>6, <1>8, <1>9, ILockCopy
  <1>13. /\ Copies(c1, d1) /\ c1[i].lock = p
         /\ \A j \in Inums : c1[j].ref = ic[j].ref /\ (j # i => c1[j] = ic[j] /\ d1[j] = dinode[j])
         /\ d1[i].nlink = 1 /\ d1[i].type = dinode[i].type
    <2>1. PICK x \in [ref : Nat, valid : BOOLEAN, type : Types, nlink : Nat, lock : Procs \cup {NoProc}] :
              x = c0[i]
      BY <1>12 DEF Copies, Caches
    <2>2. PICK e : e = [x EXCEPT !.nlink = 1]
      OBVIOUS
    <2>3. /\ e \in [ref : Nat, valid : BOOLEAN, type : Types, nlink : Nat, lock : Procs \cup {NoProc}]
          /\ e.nlink = 1 /\ e.lock = x.lock /\ e.ref = x.ref /\ e.valid = x.valid /\ e.type = x.type
      BY <2>2
    <2>4. PICK y \in [type : Types, nlink : Nat] : y = dinode[i]
      BY <1>1 DEF TypeOK
    <2>5. PICK k : k = [y EXCEPT !.nlink = 1]
      OBVIOUS
    <2>6. k \in [type : Types, nlink : Nat] /\ k.nlink = 1 /\ k.type = y.type
      BY <2>5
    <2>7. c1 = [c0 EXCEPT ![i] = e] /\ d1 = [dinode EXCEPT ![i] = k]
      BY <1>9, <1>10, <2>1, <2>2, <2>4, <2>5
    <2>8. Copies([c0 EXCEPT ![i] = e], [dinode EXCEPT ![i] = k])
      BY <1>6, <1>8, <1>12, <2>1, <2>3, <2>4, <2>6, SetCopy DEF Live
    <2>9. /\ c1[i] = e /\ \A j \in Inums : j # i => c1[j] = c0[j]
          /\ d1[i] = k /\ \A j \in Inums : j # i => d1[j] = dinode[j]
      BY <1>1, <1>12, <2>7 DEF Copies, Caches, TypeOK
    <2> QED
      BY <1>12, <2>1, <2>3, <2>4, <2>6, <2>7, <2>8, <2>9
  <1>14. /\ Copies(c2, d2) /\ \A j \in Inums : c2[j].ref = ic[j].ref /\ (j # i => c2[j].lock = ic[j].lock)
         /\ c2[i].lock = p
         /\ \A j \in Inums : d2[j].type = dinode[j].type /\ (j \notin {d, i} => d2[j] = dinode[j])
         /\ d2[i].nlink = 1 /\ d2[d].nlink = dinode[d].nlink + child
    <2>1. child \in Int /\ c1[d].nlink + child \in Nat /\ d1[d].nlink + child \in Nat
      BY <1>13 DEF Copies, Caches, Disks
    <2>2. /\ Copies(c2, d2)
          /\ \A j \in Inums : /\ c2[j].ref = c1[j].ref /\ c2[j].lock = c1[j].lock
                              /\ d2[j].type = d1[j].type /\ (j # d => d2[j] = d1[j])
          /\ d2[d].nlink = d1[d].nlink + child
      <3>1. /\ Copies(NLink(c1, d, child), DLink(d1, d, child))
            /\ \A j \in Inums : /\ NLink(c1, d, child)[j].ref = c1[j].ref
                                /\ NLink(c1, d, child)[j].lock = c1[j].lock
                                /\ DLink(d1, d, child)[j].type = d1[j].type
                                /\ j # d => DLink(d1, d, child)[j] = d1[j]
            /\ DLink(d1, d, child)[d].nlink = d1[d].nlink + child
        <4>1. Copies(c1, d1)
          BY <1>13
        <4> QED
          BY <2>1, <4>1, NLinkCopy
      <3>2. c2 = NLink(c1, d, child) /\ d2 = DLink(d1, d, child)
        BY <1>9, <1>10
      <3> QED
        BY <3>1, <3>2
    <2>3. d1[d] = dinode[d] /\ d2[i] = d1[i]
      BY <1>6, <1>13, <2>2
    <2> QED
      BY <1>13, <2>2, <2>3
  <1>15. /\ Copies(IUnlock(c2, d), d2)
         /\ \A j \in Inums : /\ IUnlock(c2, d)[j].ref = c2[j].ref
                             /\ j # d => IUnlock(c2, d)[j] = c2[j]
         /\ IUnlock(c2, d)[d].lock = NoProc
    BY <1>14, IUnlockCopy
  <1>16. /\ Copies(ic', dinode')
         /\ \A j \in Inums : ic'[j].ref = ic[j].ref
         /\ \A j \in Inums : j \notin {d, i} => ic'[j].lock = ic[j].lock
         /\ ic'[d].lock = NoProc /\ ic'[i].lock = p
         /\ \A j \in Inums : dinode'[j].type = dinode[j].type /\ (j \notin {d, i} => dinode'[j] = dinode[j])
         /\ dinode'[i].nlink = 1 /\ dinode'[d].nlink = dinode[d].nlink + child
    BY <1>6, <1>11, <1>14, <1>15
  <1>17. /\ pc'[p] = "put" /\ ret'[p] = "made" /\ Where(p)' = "made"
         /\ cwd'[p] = cwd[p] /\ dp'[p] = None /\ ip'[p] = i /\ put'[p] = d
         /\ call'[p] = call[p] /\ name'[p] = name[p]
    BY <1>1, <1>4, <1>11 DEF TypeOK, Where, Putting
  <1>18. /\ entry'[d][n] = i /\ entry' \in [Inums -> [Names -> Inums \cup {None}]]
         /\ \A j \in Inums, m \in Names : j # d \/ m # n => entry'[j][m] = entry[j][m]
         /\ \A j \in Inums : j # d => entry'[j] = entry[j]
    BY <1>1, <1>11 DEF TypeOK
  <1>19. TypeOK'
    BY <1>1, <1>11, <1>16, <1>18 DEF TypeOK, Copies, Caches, Disks, PC
  <1>20. OnlyBy(p)
    BY <1>1, <1>11 DEF OnlyBy, TypeOK
  <1>21. ~Linking(p)'
    BY <1>17 DEF Linking
  <1>22. PlaceOf(p)'
    BY <1>1, <1>2, <1>4, <1>11, <1>17, <1>21, Constants DEF PlaceOf, HasDp, HasIp, HoldsDp, HoldsIp, Putting, Back
  <1>23. Meets(p)
    BY <1>4, <1>11, <1>17, Constants DEF Meets, Refers, Sees
  <1>24. KeepsTypes(p) /\ Leaves(p)
    <2>1. Sees(p, i) /\ Sees(p, d)
      BY <1>4 DEF Sees
    <2> QED
      BY <1>7, <1>16, <1>18, <2>1, LeavesStep DEF KeepsTypes
  <1>25. LiveOf(p)'
    <2>1. dinode'[i].type # "free" /\ dinode'[d].type = "DIR" /\ dinode'[cwd[p]].type = "DIR"
      BY <1>1, <1>3, <1>6, <1>16 DEF LiveOf, IsDir, Live
    <2> QED
      BY <1>17, <1>21, <2>1 DEF LiveOf, IsDir, Live
  <1>26. DiskInv'
    BY <1>6, <1>16, <1>18 DEF IInv, DiskInv, IsDir, Live
  <1>27. LinksInv'
    <2>1. ASSUME NEW j \in Inums
          PROVE  dinode'[j].nlink >= Cardinality(Entries(j)') + Cardinality(ChildDirs(j)') + Cardinality(Pending(j)')
      <3>1. OnlyAt(d, n)
        BY <1>16, <1>18 DEF OnlyAt
      <3>2. /\ Cardinality(Entries(j)') \in Nat
            /\ Cardinality(Entries(j)') + Has(Entries(j), <<d, n>>) = Cardinality(Entries(j)) + Has(Entries(j)', <<d, n>>)
            /\ Cardinality(ChildDirs(j)') \in Nat
            /\ Cardinality(ChildDirs(j)') + Has(ChildDirs(j), n) = Cardinality(ChildDirs(j)) + Has(ChildDirs(j)', n)
            /\ j # d => Cardinality(ChildDirs(j)') = Cardinality(ChildDirs(j))
            /\ Cardinality(Pending(j)') \in Nat
            /\ Cardinality(Pending(j)') + Has(Pending(j), p) = Cardinality(Pending(j)) + Has(Pending(j)', p)
        BY <1>1, <1>20, <3>1, LinksMove
      <3>3. Has(Entries(j), <<d, n>>) = 0 /\ Has(Entries(j)', <<d, n>>) = Is(i, j)
        BY <1>6, <1>18, Constants DEF Has, Is, Entries
      <3>4. j = d => Has(ChildDirs(j), n) = 0 /\ Has(ChildDirs(j)', n) = child
        BY <1>6, <1>16, <1>18, Constants DEF Has, ChildDirs, IsDir
      <3>5. Has(Pending(j), p) = 0 /\ Has(Pending(j)', p) = 0
        BY <1>2, <1>17, <1>21 DEF Has, Pending
      <3>6. dinode[j].nlink >= Cardinality(Entries(j)) + Cardinality(ChildDirs(j)) + Cardinality(Pending(j))
            /\ dinode[j].nlink \in Nat
        BY <1>1 DEF IInv, LinksInv, TypeOK
      <3>7. dinode'[j].nlink = dinode[j].nlink + Is(i, j) + (IF j = d THEN child ELSE 0)
        BY <1>6, <1>16, <3>6 DEF Is
      <3>8. Cardinality(ChildDirs(j)') = Cardinality(ChildDirs(j)) + (IF j = d THEN child ELSE 0)
        BY <3>2, <3>4, LinksNat
      <3> QED
        BY <3>2, <3>3, <3>5, <3>6, <3>7, <3>8, LinksNat DEF Is
    <2> QED
      BY <2>1 DEF LinksInv
  <1>28. Locks(p) /\ LockOf(p)'
    BY <1>6, <1>7, <1>8, <1>16, <1>17, Constants DEF Locks, LockOf, Holds, HoldsDp, HoldsIp
  <1>29. \A j \in Inums : ic'[j].ref + Own(p, j) = ic[j].ref + Own(p, j)'
    <2>1. ASSUME NEW j \in Inums PROVE ic'[j].ref + Own(p, j) = ic[j].ref + Own(p, j)'
      <3>1. ic[j].ref \in Nat /\ None # j
        BY <1>1, Constants DEF TypeOK
      <3> QED
        BY <1>3, <1>4, <1>16, <1>17, <3>1 DEF Own, Is
    <2> QED
      BY <2>1
  <1>30. NewOf(p)' /\ FreeOf(p)'
    BY <1>17 DEF NewOf, FreeOf
  <1>31. {pc[p], pc'[p]} \cap Pipes = {} /\ pc'[p] # "panic" /\ CacheInv'
    BY <1>2, <1>16, <1>17, CopyIs DEF Pipes
  <1> QED
    BY <1>11, <1>19, <1>20, <1>22, <1>23, <1>24, <1>25, <1>26, <1>27, <1>28, <1>29, <1>30, <1>31, DiskStep

(* dirlink() of a new name: the link that was counted is made. *)
LEMMA LinkNewStep ==
  ASSUME IInv, NEW p \in Procs, LinkEntry(p), entry[dp[p]][name[p]] = None
  PROVE  IInv'
  <1>1. /\ TypeOK /\ PlaceOf(p) /\ LockOf(p) /\ LiveOf(p) /\ Copies(ic, dinode)
    BY Mine, IsCopy
  <1>2. pc[p] = "parent" /\ call[p] = "link2" /\ Unlocked(dp[p]) /\ Where(p) = "parent"
    BY DEF LinkEntry, Where, Putting
  <1>3. PICK d \in Inums, i \in Inums, n \in Names : d = dp[p] /\ i = ip[p] /\ n = name[p]
    BY <1>2, InParent
  <1>4. /\ IsDir(d) /\ Live(d) /\ put[p] = None /\ Linking(p)
        /\ dp[p] # None /\ cwd[p] # None /\ cwd[p] \in Inums
        /\ ic[d].lock = NoProc /\ ic[d].ref > 0 /\ \A j \in Inums : ic[j].lock # p
    BY <1>2, <1>3, InParent
  <1>5. Live(i) /\ ~IsDir(i) /\ entry[d][n] = None /\ i # None
    BY <1>1, <1>3, <1>4, Constants DEF LiveOf
  <1>6. /\ pc' = [pc EXCEPT ![p] = "put"] /\ put' = [put EXCEPT ![p] = d] /\ ret' = [ret EXCEPT ![p] = "linked"]
        /\ dp' = [dp EXCEPT ![p] = None] /\ entry' = [entry EXCEPT ![d][n] = i] /\ ic' = Section(ic, d)
        /\ UNCHANGED <<dinode, ftable, file, pipe, ofile, rf, wf, cwd, call, name, ip, budget>>
    <2>1. LockedGoto(p, d, "put")
      BY <1>3 DEF LinkEntry
    <2>2. pc' = [pc EXCEPT ![p] = "put"]
      BY <1>4, <2>1, Typed
    <2> QED
      BY <1>3, <2>2 DEF LinkEntry, Put, Drops, ftable
  <1>7. Copies(ic', dinode') /\ \A j \in Inums : ic'[j].ref = ic[j].ref /\ ic'[j].lock = ic[j].lock
    BY <1>1, <1>4, <1>6, SectionCopy
  <1>8. /\ pc'[p] = "put" /\ ret'[p] = "linked" /\ Where(p)' = "linked"
        /\ cwd'[p] = cwd[p] /\ dp'[p] = None /\ ip'[p] = i /\ put'[p] = d
        /\ call'[p] = call[p] /\ name'[p] = name[p]
    BY <1>1, <1>3, <1>6 DEF TypeOK, Where, Putting
  <1>9. /\ entry'[d][n] = i /\ entry' \in [Inums -> [Names -> Inums \cup {None}]]
        /\ \A j \in Inums, m \in Names : j # d \/ m # n => entry'[j][m] = entry[j][m]
        /\ \A j \in Inums : j # d => entry'[j] = entry[j]
    BY <1>1, <1>6 DEF TypeOK
  <1>10. TypeOK'
    BY <1>1, <1>6, <1>7, <1>9 DEF TypeOK, Copies, Caches, Disks, PC
  <1>11. OnlyBy(p)
    BY <1>1, <1>6 DEF OnlyBy, TypeOK
  <1>12. ~Linking(p)'
    BY <1>8 DEF Linking
  <1>13. PlaceOf(p)'
    BY <1>1, <1>2, <1>3, <1>4, <1>6, <1>8, <1>12, Constants DEF PlaceOf, HasDp, HasIp, HoldsDp, HoldsIp, Putting, Back
  <1>14. Meets(p)
    BY <1>3, <1>6, <1>8, Constants DEF Meets, Refers, Sees
  <1>15. KeepsTypes(p) /\ Leaves(p)
    <2>1. Sees(p, d)
      BY <1>3 DEF Sees
    <2> QED
      BY <1>4, <1>6, <1>9, <2>1, LeavesStep DEF KeepsTypes
  <1>16. LiveOf(p)'
    <2>1. dinode[i].type # "free" /\ dinode[d].type = "DIR" /\ dinode[cwd[p]].type = "DIR"
      BY <1>1, <1>4, <1>5 DEF LiveOf, IsDir, Live
    <2> QED
      BY <1>6, <1>8, <1>12, <2>1 DEF LiveOf, IsDir, Live
  <1>17. DiskInv'
    BY <1>4, <1>6, <1>9 DEF IInv, DiskInv, IsDir
  <1>18. LinksInv'
    <2>1. ASSUME NEW j \in Inums
          PROVE  dinode'[j].nlink >= Cardinality(Entries(j)') + Cardinality(ChildDirs(j)') + Cardinality(Pending(j)')
      <3>1. OnlyAt(d, n)
        BY <1>6, <1>9 DEF OnlyAt
      <3>2. /\ Cardinality(Entries(j)') \in Nat
            /\ Cardinality(Entries(j)') + Has(Entries(j), <<d, n>>) = Cardinality(Entries(j)) + Has(Entries(j)', <<d, n>>)
            /\ Cardinality(ChildDirs(j)') \in Nat
            /\ Cardinality(ChildDirs(j)') + Has(ChildDirs(j), n) = Cardinality(ChildDirs(j)) + Has(ChildDirs(j)', n)
            /\ j # d => Cardinality(ChildDirs(j)') = Cardinality(ChildDirs(j))
            /\ Cardinality(Pending(j)') \in Nat
            /\ Cardinality(Pending(j)') + Has(Pending(j), p) = Cardinality(Pending(j)) + Has(Pending(j)', p)
        BY <1>1, <1>11, <3>1, LinksMove
      <3>3. Has(Entries(j), <<d, n>>) = 0 /\ Has(Entries(j)', <<d, n>>) = Is(i, j)
        BY <1>5, <1>9, Constants DEF Has, Is, Entries
      <3>4. j = d => Has(ChildDirs(j), n) = 0 /\ Has(ChildDirs(j)', n) = 0
        BY <1>5, <1>6, <1>9 DEF Has, ChildDirs, IsDir
      <3>5. Has(Pending(j), p) = Is(i, j) /\ Has(Pending(j)', p) = 0
        BY <1>3, <1>4, <1>8, <1>12 DEF Has, Is, Pending
      <3>6. dinode[j].nlink >= Cardinality(Entries(j)) + Cardinality(ChildDirs(j)) + Cardinality(Pending(j))
            /\ dinode[j].nlink \in Nat /\ dinode'[j].nlink = dinode[j].nlink
        BY <1>1, <1>6 DEF IInv, LinksInv, TypeOK
      <3>7. Cardinality(ChildDirs(j)') = Cardinality(ChildDirs(j))
        BY <3>2, <3>4, LinksNat
      <3> QED
        BY <3>2, <3>3, <3>5, <3>6, <3>7, LinksNat DEF Is
    <2> QED
      BY <2>1 DEF LinksInv
  <1>19. Locks(p) /\ LockOf(p)'
    BY <1>4, <1>7, <1>8 DEF Locks, LockOf, Holds, HoldsDp, HoldsIp
  <1>20. \A j \in Inums : ic'[j].ref + Own(p, j) = ic[j].ref + Own(p, j)'
    <2>1. ASSUME NEW j \in Inums PROVE ic'[j].ref + Own(p, j) = ic[j].ref + Own(p, j)'
      <3>1. ic[j].ref \in Nat /\ None # j
        BY <1>1, Constants DEF TypeOK
      <3> QED
        BY <1>3, <1>4, <1>7, <1>8, <3>1 DEF Own, Is
    <2> QED
      BY <2>1
  <1>21. NewOf(p)' /\ FreeOf(p)'
    BY <1>8 DEF NewOf, FreeOf
  <1>22. {pc[p], pc'[p]} \cap Pipes = {} /\ pc'[p] # "panic" /\ CacheInv'
    BY <1>2, <1>7, <1>8, CopyIs DEF Pipes
  <1> QED
    BY <1>6, <1>10, <1>11, <1>13, <1>14, <1>15, <1>16, <1>17, <1>18, <1>19, <1>20, <1>21, <1>22, DiskStep

(* sys_unlink() clears the entry; ip stays locked until it is counted down. *)
LEMMA UnlinkEntryStep ==
  ASSUME IInv, NEW p \in Procs, UnlinkEntry(p)
  PROVE  IInv'
  <1>1. /\ TypeOK /\ PlaceOf(p) /\ LockOf(p) /\ LiveOf(p) /\ NewOf(p) /\ Copies(ic, dinode)
    BY Mine, IsCopy
  <1>2. pc[p] = "victim" /\ Unlocked(ip[p]) /\ Where(p) = "victim" /\ ~Linking(p)
    BY DEF UnlinkEntry, Where, Putting, Linking
  <1>3. /\ dp[p] # None /\ dp[p] \in Inums /\ ip[p] # None /\ ip[p] \in Inums /\ put[p] = None
        /\ name[p] \in Names /\ cwd[p] # None /\ cwd[p] \in Inums
    BY <1>1, <1>2, Mine DEF PlaceOf, HasDp, HoldsDp, HasIp, HoldsIp, Putting
  <1>4. PICK d \in Inums, i \in Inums, n \in Names : d = dp[p] /\ i = ip[p] /\ n = name[p]
    BY <1>3
  <1>5. \A j \in Inums : ic[j].lock = p <=> j = d
    BY <1>1, <1>2, <1>4 DEF LockOf, Holds, HoldsDp, HoldsIp
  <1>6. /\ entry[d][n] = i /\ Live(i) /\ IsDir(d) /\ Live(d) /\ i # d /\ ic[i].lock = NoProc
        /\ dinode[i].nlink \in Nat /\ dinode[i].nlink >= 1
    <2>1. entry[d][n] = i /\ ic[i].lock = NoProc
      BY <1>1, <1>2, <1>4 DEF NewOf, Unlocked
    <2>2. i # None
      BY <1>3, <1>4
    <2>3. Live(i) /\ IsDir(d) /\ dinode[i].nlink \in Nat /\ dinode[i].nlink >= 1
      BY <2>1, <2>2, Leads
    <2>4. i # d
      BY <1>5, <2>1, Constants
    <2> QED
      BY <2>1, <2>3, <2>4 DEF IsDir, Live
  <1>7. ic[i].ref > 0
    <2>1. ic[i].ref >= 1 /\ ic[i].ref \in Nat
      BY <1>1, <1>4, Referred DEF IInv, FilesInv, TypeOK
    <2> QED
      BY <2>1
  <1>8. PICK c0 : c0 = ILock(ic, i, p)
    OBVIOUS
  <1>9. /\ Copies(c0, dinode) /\ c0[i].lock = p /\ c0[i].type = dinode[i].type /\ c0[i].nlink = dinode[i].nlink
        /\ \A j \in Inums : c0[j].ref = ic[j].ref /\ (j # i => c0[j] = ic[j])
    BY <1>1, <1>6, <1>7, <1>8, ILockCopy
  <1>10. PICK child \in {-1, 0} : child = (IF c0[i].type = "DIR" THEN -1 ELSE 0) /\ (child = -1 <=> IsDir(i))
    BY <1>9 DEF IsDir
  <1>11. dinode[d].nlink + child \in Nat /\ c0[d].nlink + child \in Nat
    <2>1. c0[d].nlink = dinode[d].nlink /\ dinode[d].nlink \in Nat
      <3>1. c0[d].valid /\ c0[d].ref > 0 /\ Good(c0, dinode, d)
        BY <1>5, <1>6, <1>9, Constants DEF Copies, Good
      <3> QED
        BY <1>1, <3>1 DEF Good, TypeOK
    <2>2. child = -1 => dinode[d].nlink >= 1
      <3>1. SUFFICES ASSUME IsDir(i) PROVE dinode[d].nlink >= 1
        BY <1>10
      <3>2. n \in ChildDirs(d)
        BY <1>3, <1>4, <1>6, <3>1 DEF ChildDirs
      <3>3. Cardinality(ChildDirs(d)) >= 1
        BY <3>2, LinksNat, CardSome
      <3>4. dinode[d].nlink >= Cardinality(Entries(d)) + Cardinality(ChildDirs(d)) + Cardinality(Pending(d))
        BY DEF IInv, LinksInv
      <3> QED
        BY <2>1, <3>3, <3>4, LinksNat
    <2> QED
      BY <2>1, <2>2
  <1>12. PICK c1, d1 : c1 = NLink(c0, d, child) /\ d1 = DLink(dinode, d, child)
    OBVIOUS
  <1>13. /\ pc' = [pc EXCEPT ![p] = "put"] /\ put' = [put EXCEPT ![p] = d] /\ ret' = [ret EXCEPT ![p] = "drop"]
         /\ dp' = [dp EXCEPT ![p] = None] /\ entry' = [entry EXCEPT ![d][n] = None]
         /\ dinode' = d1 /\ ic' = IUnlock(c1, d)
         /\ UNCHANGED <<ftable, file, pipe, ofile, rf, wf, cwd, call, name, ip, budget>>
    <2>1. IF c0[i].nlink < 1 THEN Goto(p, "panic") ELSE LockedGoto(p, i, "put")
      BY <1>4, <1>8 DEF UnlinkEntry
    <2>2. ~(c0[i].nlink < 1)
      BY <1>6, <1>9
    <2>3. pc' = [pc EXCEPT ![p] = "put"]
      BY <1>6, <2>1, <2>2, Typed
    <2> QED
      BY <1>4, <1>8, <1>10, <1>12, <2>3 DEF UnlinkEntry, Put, Drops, ftable
  <1>14. IsDir(i) => entry[i] = NoEntries
    BY <1>4, <1>6, <1>8, <1>9 DEF UnlinkEntry, isdirempty, IsDir
  <1>15. /\ Copies(c1, d1) /\ \A j \in Inums : c1[j].ref = ic[j].ref /\ c1[j].lock = c0[j].lock
         /\ \A j \in Inums : d1[j].type = dinode[j].type /\ (j # d => d1[j] = dinode[j])
         /\ d1[d].nlink = dinode[d].nlink + child
    <2>1. /\ Copies(NLink(c0, d, child), DLink(dinode, d, child))
          /\ \A j \in Inums : /\ NLink(c0, d, child)[j].ref = c0[j].ref
                              /\ NLink(c0, d, child)[j].lock = c0[j].lock
                              /\ DLink(dinode, d, child)[j].type = dinode[j].type
                              /\ j # d => DLink(dinode, d, child)[j] = dinode[j]
          /\ DLink(dinode, d, child)[d].nlink = dinode[d].nlink + child
      <3>1. Copies(c0, dinode) /\ child \in Int
        BY <1>9
      <3> QED
        BY <1>11, <3>1, NLinkCopy
    <2> QED
      BY <1>9, <1>12, <2>1
  <1>16. /\ Copies(IUnlock(c1, d), d1)
         /\ \A j \in Inums : /\ IUnlock(c1, d)[j].ref = c1[j].ref
                             /\ j # d => IUnlock(c1, d)[j] = c1[j]
         /\ IUnlock(c1, d)[d].lock = NoProc
    BY <1>15, IUnlockCopy
  <1>17. /\ Copies(ic', dinode')
         /\ \A j \in Inums : ic'[j].ref = ic[j].ref
         /\ \A j \in Inums : j \notin {d, i} => ic'[j].lock = ic[j].lock
         /\ ic'[d].lock = NoProc /\ ic'[i].lock = p
         /\ \A j \in Inums : dinode'[j].type = dinode[j].type /\ (j # d => dinode'[j] = dinode[j])
         /\ dinode'[d].nlink = dinode[d].nlink + child
    BY <1>6, <1>9, <1>13, <1>15, <1>16
  <1>18. /\ pc'[p] = "put" /\ ret'[p] = "drop" /\ Where(p)' = "drop"
         /\ cwd'[p] = cwd[p] /\ dp'[p] = None /\ ip'[p] = i /\ put'[p] = d
         /\ call'[p] = call[p] /\ name'[p] = name[p]
    BY <1>1, <1>4, <1>13 DEF TypeOK, Where, Putting
  <1>19. /\ entry'[d][n] = None /\ entry' \in [Inums -> [Names -> Inums \cup {None}]]
         /\ \A j \in Inums, m \in Names : j # d \/ m # n => entry'[j][m] = entry[j][m]
         /\ \A j \in Inums : j # d => entry'[j] = entry[j]
    BY <1>1, <1>13 DEF TypeOK
  <1>20. TypeOK'
    BY <1>1, <1>13, <1>17, <1>19 DEF TypeOK, Copies, Caches, Disks, PC
  <1>21. OnlyBy(p)
    BY <1>1, <1>13 DEF OnlyBy, TypeOK
  <1>22. ~Linking(p)'
    BY <1>18 DEF Linking
  <1>23. PlaceOf(p)'
    BY <1>1, <1>2, <1>4, <1>13, <1>18, <1>22, Constants DEF PlaceOf, HasDp, HasIp, HoldsDp, HoldsIp, Putting, Back
  <1>24. Meets(p)
    BY <1>4, <1>13, <1>18, Constants DEF Meets, Refers, Sees
  <1>25. KeepsTypes(p) /\ Leaves(p)
    <2>1. Sees(p, d)
      BY <1>4 DEF Sees
    <2> QED
      BY <1>5, <1>17, <1>19, <2>1, LeavesStep DEF KeepsTypes
  <1>26. LiveOf(p)'
    <2>1. dinode'[i].type # "free" /\ dinode'[d].type = "DIR" /\ dinode'[cwd[p]].type = "DIR"
      BY <1>1, <1>3, <1>6, <1>17 DEF LiveOf, IsDir, Live
    <2> QED
      BY <1>18, <1>22, <2>1 DEF LiveOf, IsDir, Live
  <1>27. DiskInv'
    BY <1>6, <1>17, <1>19 DEF IInv, DiskInv, IsDir, Live
  <1>28. LinksInv'
    <2>1. ASSUME NEW j \in Inums
          PROVE  dinode'[j].nlink >= Cardinality(Entries(j)') + Cardinality(ChildDirs(j)') + Cardinality(Pending(j)')
      <3>1. OnlyAt(d, n)
        BY <1>17, <1>19 DEF OnlyAt
      <3>2. /\ Cardinality(Entries(j)') \in Nat
            /\ Cardinality(Entries(j)') + Has(Entries(j), <<d, n>>) = Cardinality(Entries(j)) + Has(Entries(j)', <<d, n>>)
            /\ Cardinality(ChildDirs(j)') \in Nat
            /\ Cardinality(ChildDirs(j)') + Has(ChildDirs(j), n) = Cardinality(ChildDirs(j)) + Has(ChildDirs(j)', n)
            /\ j # d => Cardinality(ChildDirs(j)') = Cardinality(ChildDirs(j))
            /\ Cardinality(Pending(j)') \in Nat
            /\ Cardinality(Pending(j)') + Has(Pending(j), p) = Cardinality(Pending(j)) + Has(Pending(j)', p)
        BY <1>1, <1>21, <3>1, LinksMove
      <3>3. Has(Entries(j), <<d, n>>) = Is(i, j) /\ Has(Entries(j)', <<d, n>>) = 0
        BY <1>6, <1>19, Constants DEF Has, Is, Entries
      <3>4. j = d => Has(ChildDirs(j), n) = -child /\ Has(ChildDirs(j)', n) = 0
        BY <1>3, <1>4, <1>6, <1>10, <1>19, Constants DEF Has, ChildDirs, IsDir
      <3>5. Has(Pending(j), p) = 0 /\ Has(Pending(j)', p) = Is(i, j)
        BY <1>2, <1>18, <1>22 DEF Has, Is, Pending
      <3>6. dinode[j].nlink >= Cardinality(Entries(j)) + Cardinality(ChildDirs(j)) + Cardinality(Pending(j))
            /\ dinode[j].nlink \in Nat
        BY <1>1 DEF IInv, LinksInv, TypeOK
      <3>7. dinode'[j].nlink = dinode[j].nlink + (IF j = d THEN child ELSE 0)
        BY <1>17, <3>6
      <3>8. Cardinality(ChildDirs(j)') = Cardinality(ChildDirs(j)) + (IF j = d THEN child ELSE 0)
        BY <3>2, <3>4, LinksNat
      <3> QED
        BY <3>2, <3>3, <3>5, <3>6, <3>7, <3>8, LinksNat DEF Is
    <2> QED
      BY <2>1 DEF LinksInv
  <1>29. Locks(p) /\ LockOf(p)'
    BY <1>5, <1>6, <1>17, <1>18, Constants DEF Locks, LockOf, Holds, HoldsDp, HoldsIp
  <1>30. \A j \in Inums : ic'[j].ref + Own(p, j) = ic[j].ref + Own(p, j)'
    <2>1. ASSUME NEW j \in Inums PROVE ic'[j].ref + Own(p, j) = ic[j].ref + Own(p, j)'
      <3>1. ic[j].ref \in Nat /\ None # j
        BY <1>1, Constants DEF TypeOK
      <3> QED
        BY <1>3, <1>4, <1>17, <1>18, <3>1 DEF Own, Is
    <2> QED
      BY <2>1
  <1>31. NewOf(p)' /\ FreeOf(p)'
    BY <1>18 DEF NewOf, FreeOf
  <1>32. {pc[p], pc'[p]} \cap Pipes = {} /\ pc'[p] # "panic" /\ CacheInv'
    BY <1>2, <1>17, <1>18, CopyIs DEF Pipes
  <1> QED
    BY <1>13, <1>20, <1>21, <1>23, <1>24, <1>25, <1>26, <1>27, <1>28, <1>29, <1>30, <1>31, <1>32, DiskStep

-----------------------------------------------------------------------------
(* The steps that change the table of open files.                          *)

(* An open descriptor is one of the counted ones. *)
LEMMA OpenIs ==
  ASSUME IInv, NEW p \in Procs, NEW fd \in FDs, ofile[p][fd] # None
  PROVE  /\ ofile[p][fd] \in Handles
         /\ file[ofile[p][fd]].ref \in Nat /\ file[ofile[p][fd]].ref >= 1
         /\ file[ofile[p][fd]].type \in {"INODE", "PIPE"}
  <1>1. PICK f \in Handles : f = ofile[p][fd]
    BY DEF IInv, FilesInv, TypeOK
  <1>2. file[f].ref = Refs(f) /\ Refs(f) \in Nat /\ Refs(f) >= 1
    BY <1>1, FilesAre, RefsNat DEF IInv, FilesInv
  <1>3. file[f].type \in {"NONE", "INODE", "PIPE"}
    BY DEF IInv, FilesInv, TypeOK
  <1>4. file[f].type # "NONE"
    BY <1>1 DEF IInv, TableInv, HasType
  <1> QED
    BY <1>1, <1>2, <1>3, <1>4

(* The table of open files. *)
FileSet == [ref : Nat, type : {"NONE", "INODE", "PIPE"}, ip : Inums \cup {None}, writable : BOOLEAN]

(* A step that takes a reference from f, and fileclose() of f in it. *)
Leaves1(p, f) ==
    /\ \A g \in Handles : Refs(g)' + Is(f, g) = Refs(g)
    /\ \A q \in Procs : q # p => ofile'[q] = ofile[q] /\ rf'[q] = rf[q] /\ wf'[q] = wf[q]
    /\ \A fd \in FDs : ofile'[p][fd] \in {None, ofile[p][fd]}
    /\ rf'[p] \in {None, rf[p]} /\ wf'[p] \in {None, wf[p]}

Closes(p, f) ==
    /\ \A g \in Handles : g # f => file'[g] = file[g]
    /\ pc[p] \notin Closing
    /\ \/ /\ file[f].ref > 1 /\ file'[f].ref = file[f].ref - 1
          /\ file'[f].type = file[f].type /\ file'[f].writable = file[f].writable
          /\ pc'[p] \notin Closing
       \/ /\ file[f].ref <= 1 /\ file'[f] = NoFile
          /\ IF IsPipe(f) THEN pc'[p] = IF file[f].writable THEN "wclose" ELSE "rclose"
             ELSE pc'[p] \notin Closing

(* The ends of the pipe after it. *)
LEMMA CloseEnds ==
  ASSUME IInv, NEW p \in Procs, OnlyBy(p), NEW f \in Handles, Closes(p, f), UNCHANGED pipe
  PROVE  EndsCounted' /\ EndsOne'
  <1>1. TypeOK /\ EndsOne /\ EndsCounted
    BY FilesAre DEF IInv, FilesInv, TableInv
  <1>2. \A q \in Procs : q # p => pc'[q] = pc[q]
    BY DEF OnlyBy
  <1>3. CASE ~(file[f].ref <= 1 /\ file'[f] = NoFile /\ IsPipe(f))
    <2>1. \A g \in Handles : (IsPipe(g)' <=> IsPipe(g)) /\ (IsPipe(g) => file'[g].writable = file[g].writable)
      BY <1>3 DEF Closes, IsPipe, NoFile
    <2>2. pc'[p] \notin Closing /\ pc[p] \notin Closing
      BY <1>3 DEF Closes
    <2>3. \A q \in Procs : pc'[q] \in Closing \/ pc[q] \in Closing => pc'[q] = pc[q]
      BY <1>2, <2>2
    <2> QED
      BY <1>1, <2>1, <2>3, EndsStep
  <1>4. CASE file[f].ref <= 1 /\ file'[f] = NoFile /\ IsPipe(f)
    <2>1. PICK w \in BOOLEAN : w = file[f].writable
      BY <1>1 DEF TypeOK
    <2>2. /\ pc'[p] = (IF w THEN "wclose" ELSE "rclose") /\ pc[p] \notin Closing
          /\ \A g \in Handles : g # f => file'[g] = file[g]
      <3>1. file[f].ref \in Nat
        BY <1>1 DEF TypeOK
      <3> QED
        BY <1>4, <2>1, <3>1 DEF Closes
    <2>3. \A g \in Handles : file[g].writable \in BOOLEAN
      BY <1>1 DEF TypeOK
    <2>4. \A g \in Handles : /\ IsPipe(g)' <=> IsPipe(g) /\ g # f
                             /\ g # f => file'[g].writable = file[g].writable
      BY <1>4, <2>2 DEF IsPipe, NoFile
    <2>5. \A g \in Handles : IsPipe(g) /\ g # f => file[g].writable = ~w
      <3>1. \A g \in Handles : IsPipe(g) /\ g # f => file[g].writable # w
        BY <1>1, <1>4, <2>1 DEF EndsOne
      <3> QED
        BY <2>3, <3>1
    <2>6. \A q \in Procs : q # p => pc'[q] # pc'[p]
      <3>1. \A q \in Procs : pc[q] \in Closing => w # (pc[q] = "wclose")
        BY <1>1, <1>4, <2>1 DEF EndsOne
      <3> QED
        BY <1>2, <2>2, <3>1 DEF Closing
    <2>7. EndsCounted'
      <3>1. CASE w
        <4>1. pc'[p] = "wclose" /\ \A q \in Procs : pc'[q] = "rclose" <=> pc[q] = "rclose"
          BY <1>2, <2>2, <3>1 DEF Closing
        <4>2. \A g \in Handles : IsPipe(g)' /\ ~file'[g].writable <=> IsPipe(g) /\ ~file[g].writable
          BY <2>1, <2>4, <3>1
        <4> QED
          BY <1>1, <1>4, <2>1, <3>1, <4>1, <4>2 DEF EndsCounted
      <3>2. CASE ~w
        <4>1. pc'[p] = "rclose" /\ \A q \in Procs : pc'[q] = "wclose" <=> pc[q] = "wclose"
          BY <1>2, <2>2, <3>2 DEF Closing
        <4>2. \A g \in Handles : IsPipe(g)' /\ file'[g].writable <=> IsPipe(g) /\ file[g].writable
          BY <2>1, <2>4, <3>2
        <4> QED
          BY <1>1, <1>4, <2>1, <3>2, <4>1, <4>2 DEF EndsCounted
      <3> QED
        BY <3>1, <3>2
    <2>8. \A g, h \in Handles : IsPipe(g)' /\ IsPipe(h)' /\ file'[g].writable = file'[h].writable => g = h
      BY <1>1, <2>4 DEF EndsOne
    <2>9. \A q, s \in Procs : pc'[q] \in Closing /\ pc'[s] = pc'[q] => s = q
      BY <1>1, <1>2, <2>6 DEF EndsOne
    <2>10. ASSUME NEW q \in Procs, NEW g \in Handles, pc'[q] \in Closing, IsPipe(g)'
           PROVE  file'[g].writable # (pc'[q] = "wclose")
      <3>1. IsPipe(g) /\ g # f /\ file'[g].writable = file[g].writable /\ file[g].writable = ~w
        BY <2>4, <2>5, <2>10
      <3>2. CASE q = p
        BY <2>1, <2>2, <3>1, <3>2
      <3>3. CASE q # p
        BY <1>1, <1>2, <2>10, <3>1, <3>3 DEF EndsOne
      <3> QED
        BY <3>2, <3>3
    <2> QED
      BY <2>7, <2>8, <2>9, <2>10 DEF EndsOne
  <1> QED
    BY <1>3, <1>4

(* The table of open files after it. *)
LEMMA CloseTable ==
  ASSUME IInv, TypeOK', NEW p \in Procs, OnlyBy(p), NEW f \in Handles,
         Leaves1(p, f), Closes(p, f), UNCHANGED pipe,
         Staged(p)', pc'[p] \notin {"pipe1", "piped"}
  PROVE  FilesCounted' /\ TableInv'
  <1>1. TypeOK /\ TableInv /\ \A g \in Handles : file[g].ref = Refs(g) /\ Refs(g) \in Nat
    BY FilesAre, RefsNat DEF IInv, FilesInv
  <1>2. \A g \in Handles : Refs(g)' \in Nat /\ (Refs(g)' = 0 => Nobody(g)')
    BY Nobodys
  <1>3. Is(f, f) = 1 /\ \A g \in Handles : g # f => Is(f, g) = 0
    BY DEF Is
  <1>4. file[f].ref >= 1 /\ Refs(f)' = file[f].ref - 1
    BY <1>1, <1>2, <1>3 DEF Leaves1
  <1>5. ASSUME NEW g \in Handles PROVE file'[g].ref = Refs(g)'
    <2>1. CASE g = f
      BY <1>1, <1>2, <1>4, <2>1 DEF Closes, NoFile
    <2>2. CASE g # f
      <3>1. Refs(g)' + Is(f, g) = Refs(g) /\ Is(f, g) = 0 /\ file'[g] = file[g]
        BY <1>3, <2>2 DEF Leaves1, Closes
      <3> QED
        BY <1>1, <1>2, <3>1
    <2> QED
      BY <2>1, <2>2
  <1>6. EndsCounted' /\ EndsOne'
    BY CloseEnds
  <1>7. FilesCounted'
    BY <1>5, <1>6, FilesThen
  <1>8. \A g \in Handles : \/ file'[g].type = file[g].type
                           \/ file'[g].type = "NONE" /\ Nobody(g)'
    <2>1. \/ file'[f].type = file[f].type
          \/ file'[f] = NoFile /\ Refs(f)' = 0
      BY <1>1, <1>4 DEF Closes
    <2>2. \/ file'[f].type = file[f].type
          \/ file'[f].type = "NONE" /\ Nobody(f)'
      BY <1>2, <2>1 DEF NoFile
    <2> QED
      BY <2>2 DEF Closes
  <1>9. /\ \A q \in Procs : q # p => PipeOf(q)'
        /\ \A q \in Procs, fd \in FDs : q # p /\ ofile'[q][fd] # None => HasType(ofile[q][fd])'
    <2>1. ASSUME NEW g \in Handles, file'[g].type # file[g].type, NEW q \in Procs, q # p
          PROVE  rf[q] # g /\ wf[q] # g /\ \A fd \in FDs : ofile[q][fd] # g
      <3>1. Nobody(g)'
        BY <1>8, <2>1
      <3> QED
        BY <2>1, <3>1 DEF Nobody, Leaves1
    <2>2. \A q \in Procs : q # p => ofile'[q] = ofile[q] /\ rf'[q] = rf[q] /\ wf'[q] = wf[q]
      BY DEF Leaves1
    <2> QED
      BY <2>1, <2>2, OthersFiles
  <1>10. ASSUME NEW fd \in FDs, ofile'[p][fd] # None PROVE HasType(ofile[p][fd])'
    <2>1. PICK g \in Handles : g = ofile[p][fd] /\ g = ofile'[p][fd]
      BY <1>1, <1>10 DEF Leaves1, TypeOK
    <2>2. HasType(g) /\ g # None
      BY <1>1, <1>10, <2>1 DEF TableInv
    <2>3. ~Nobody(g)'
      BY <2>1 DEF Nobody
    <2> QED
      BY <1>8, <2>1, <2>2, <2>3 DEF HasType
  <1>11. PipeOf(p)'
    <2>1. PipeOf(p) /\ rf[p] \in Handles \cup {None} /\ wf[p] \in Handles \cup {None}
      BY <1>1 DEF TableInv, TypeOK
    <2>2. rf'[p] # None => file'[rf'[p]].type # "INODE"
      BY <1>8, <2>1 DEF Leaves1, PipeOf
    <2>3. wf'[p] # None => file'[wf'[p]].type # "INODE"
      BY <1>8, <2>1 DEF Leaves1, PipeOf
    <2> QED
      BY <2>2, <2>3 DEF PipeOf
  <1>12. Apart'
    BY <1>1 DEF TableInv, Apart, Leaves1
  <1>13. \A g \in Handles : file'[g].ref = 0 => ~HasType(g)'
    <2>1. file'[f].ref = 0 => file'[f].type = "NONE"
      BY <1>1, <1>4 DEF Closes, NoFile
    <2> QED
      BY <1>1, <2>1 DEF TableInv, HasType, Closes
  <1>14. \A q \in Procs : PipeOf(q)'
    BY <1>9, <1>11
  <1>15. \A q \in Procs, fd \in FDs : ofile'[q][fd] # None => HasType(ofile[q][fd])'
    BY <1>9, <1>10
  <1>16. TableInv'
    BY <1>6, <1>12, <1>13, <1>14, <1>15 DEF TableInv
  <1> QED
    BY <1>7, <1>16

(* fileclose(), by the kind of the file. *)
LEMMA FileCloseIs ==
  ASSUME IInv, NEW p \in Procs, NEW f \in Handles, NEW label, FileClose(p, f, label)
  PROVE  /\ file' \in [Handles -> FileSet] /\ \A g \in Handles : g # f => file'[g] = file[g]
         /\ \/ /\ file[f].ref > 1 /\ file'[f].ref = file[f].ref - 1 /\ file'[f].type = file[f].type
               /\ file'[f].ip = file[f].ip /\ file'[f].writable = file[f].writable
               /\ pc' = [pc EXCEPT ![p] = label] /\ put' = put /\ ret' = ret
            \/ /\ file[f].ref <= 1 /\ file'[f] = NoFile
               /\ \/ /\ IsPipe(f) /\ ret' = [ret EXCEPT ![p] = label] /\ put' = put
                     /\ pc' = [pc EXCEPT ![p] = IF file[f].writable THEN "wclose" ELSE "rclose"]
                  \/ /\ file[f].type = "INODE" /\ ret' = [ret EXCEPT ![p] = label]
                     /\ put' = [put EXCEPT ![p] = file[f].ip] /\ pc' = [pc EXCEPT ![p] = "put"]
                  \/ /\ file[f].type = "NONE" /\ pc' = [pc EXCEPT ![p] = label]
                     /\ put' = put /\ ret' = ret
  <1>1. file \in [Handles -> FileSet]
    BY DEF IInv, FilesInv, TypeOK, FileSet
  <1>2. PICK x \in FileSet : x = file[f]
    BY <1>1
  <1>3. CASE file[f].ref > 1 /\ file' = [file EXCEPT ![f].ref = @ - 1]
    <2>1. PICK y : y = [x EXCEPT !.ref = @ - 1]
      OBVIOUS
    <2>2. /\ y \in FileSet /\ y.ref = x.ref - 1 /\ y.type = x.type /\ y.ip = x.ip
          /\ y.writable = x.writable
      BY <1>2, <1>3, <2>1 DEF FileSet
    <2>3. file' = [file EXCEPT ![f] = y]
      BY <1>2, <1>3, <2>1
    <2>4. /\ file' \in [Handles -> FileSet] /\ file'[f] = y
          /\ \A g \in Handles : g # f => file'[g] = file[g]
      BY <1>1, <2>2, <2>3
    <2>5. pc' = [pc EXCEPT ![p] = label] /\ put' = put /\ ret' = ret
      <3>1. x.ref \in Nat
        BY DEF FileSet
      <3> QED
        BY <1>2, <1>3, <3>1 DEF FileClose, Goto
    <2> QED
      BY <1>2, <1>3, <2>2, <2>4, <2>5
  <1>4. CASE file[f].ref <= 1 /\ file' = [file EXCEPT ![f] = NoFile]
    <2>1. /\ file' \in [Handles -> FileSet] /\ file'[f] = NoFile
          /\ \A g \in Handles : g # f => file'[g] = file[g]
      BY <1>1, <1>4 DEF NoFile, FileSet
    <2>2. ~(file[f].ref > 1)
      BY <1>2, <1>4 DEF FileSet
    <2> QED
      BY <1>4, <2>1, <2>2 DEF FileClose, Goto, Put, IsPipe
  <1> QED
    BY <1>3, <1>4 DEF FileClose

(* The steps of a process that is in no call with a path, which leave what *)
(* the files refer to alone.                                               *)
Plain == {"idle", "exit"} \cup Pipes

Alike ==
    \A g \in Handles :
        /\ file'[g].type = "INODE" <=> file[g].type = "INODE"
        /\ file[g].type = "INODE" => file'[g].ip = file[g].ip

(* The invariant after such a step. *)
LEMMA TableQuiet ==
  ASSUME IInv, TypeOK', NEW p \in Procs, OnlyBy(p), {pc[p], pc'[p]} \subseteq Plain,
         \A q \in Procs : q # p => ofile'[q] = ofile[q],
         UNCHANGED disks, UNCHANGED ic, UNCHANGED cwd, UNCHANGED call, UNCHANGED name,
         UNCHANGED dp, UNCHANGED ip, UNCHANGED put, Alike,
         FilesCounted', TableInv'
  PROVE  IInv'
  <1>1. /\ TypeOK /\ PlaceOf(p) /\ LockOf(p) /\ LiveOf(p)
    BY Mine
  <1>2. /\ ic' = ic /\ cwd' = cwd /\ call' = call /\ name' = name /\ dp' = dp /\ ip' = ip
        /\ put' = put /\ dinode' = dinode /\ entry' = entry
    BY DEF disks
  <1>3. Where(p) \in Plain /\ Where(p)' \in Plain /\ pc[p] \notin Putting /\ pc'[p] \notin Putting
    BY DEF Where, Plain, Pipes, Putting
  <1>4. cwd[p] # None /\ put[p] = None /\ dp[p] = None /\ ip[p] = None
    BY <1>1, <1>3 DEF PlaceOf, HasIp, HoldsIp, HasDp, HoldsDp, Linking, Plain, Pipes
  <1>5. ~Linking(p) /\ ~Linking(p)'
    BY <1>3 DEF Linking, Plain, Pipes
  <1>6. PlaceOf(p)'
    BY <1>1, <1>2, <1>3, <1>4, <1>5 DEF PlaceOf, HasIp, HoldsIp, HasDp, HoldsDp, Plain, Pipes
  <1>7. Finds(p)
    <2>1. \A j \in Inums : Refers(p, j)' => Sees(p, j)
      BY <1>2, <1>4, Constants DEF Refers, Sees, Alike
    <2>2. \A j \in Inums : (p \in Pending(j))' => p \in Pending(j)
      BY <1>3, <1>5 DEF Pending, Plain, Pipes
    <2>3. \A g \in Handles : file'[g].type = "INODE" => file'[g].ip \in Inums
      BY Mine DEF Alike
    <2> QED
      BY <1>1, <1>2, <1>5, <2>1, <2>2, <2>3 DEF Finds, LiveOf, IsDir
  <1>8. Locks(p) /\ LockOf(p)'
    BY <1>1, <1>2, <1>3, <1>4, Constants DEF Locks, LockOf, Holds, HoldsDp, HoldsIp, Plain, Pipes, Putting
  <1>9. RefsCounted'
    <2>1. ASSUME NEW j \in Inums PROVE ic'[j].ref = Held(j)'
      <3>1. OpenOn(j)' = OpenOn(j)
        BY DEF OpenOn, Alike
      <3>2. Held(j)' = Held(j)
        BY <1>2, <3>1 DEF Held, Users, In, Count
      <3>3. ic[j].ref = Held(j)
        BY Referred DEF IInv, FilesInv
      <3> QED
        BY <1>2, <3>2, <3>3
    <2> QED
      BY <2>1, RefsThen
  <1>10. NewOf(p)' /\ FreeOf(p)' /\ pc'[p] # "panic"
    BY DEF NewOf, FreeOf, Plain, Pipes
  <1>11. CacheInv'
    BY <1>2 DEF IInv, CacheInv, CacheOf, Live
  <1> QED
    BY <1>6, <1>7, <1>8, <1>9, <1>10, <1>11, Quiet

(* The last close of a file of an inode: iput(). *)
LEMMA CloseInode ==
  ASSUME IInv, TypeOK', NEW p \in Procs, OnlyBy(p), pc[p] \in {"idle", "exit"},
         NEW f \in Handles, file[f].type = "INODE", file'[f] = NoFile,
         \A g \in Handles : g # f => file'[g] = file[g],
         pc'[p] = "put", ret'[p] = pc[p], put'[p] = file[f].ip,
         \A q \in Procs : q # p => ofile'[q] = ofile[q],
         UNCHANGED disks, UNCHANGED ic, UNCHANGED cwd, UNCHANGED call, UNCHANGED name,
         UNCHANGED dp, UNCHANGED ip, FilesCounted', TableInv'
  PROVE  IInv'
  <1>1. /\ TypeOK /\ PlaceOf(p) /\ LockOf(p) /\ LiveOf(p)
    BY Mine
  <1>2. Where(p) = pc[p] /\ pc[p] \notin Putting
    BY DEF Where, Putting
  <1>3. cwd[p] # None /\ put[p] = None /\ dp[p] = None /\ ip[p] = None
    BY <1>1, <1>2 DEF PlaceOf, HasIp, HoldsIp, HasDp, HoldsDp, Putting, Linking
  <1>4. PICK i \in Inums : i = file[f].ip /\ Live(i)
    BY DEF IInv, LiveInv, OpenLive
  <1>5. /\ pc'[p] = "put" /\ ret'[p] = pc[p] /\ put'[p] = i /\ Where(p)' = pc[p]
        /\ cwd'[p] = cwd[p] /\ dp'[p] = None /\ ip'[p] = None /\ call'[p] = call[p] /\ name'[p] = name[p]
        /\ ic' = ic /\ dinode' = dinode /\ entry' = entry
    BY <1>3, <1>4 DEF Where, Putting, disks
  <1>6. ~Linking(p)' /\ ~Linking(p)
    BY <1>2, <1>5 DEF Linking
  <1>7. PlaceOf(p)'
    BY <1>1, <1>3, <1>5, <1>6, Constants DEF PlaceOf, HasDp, HasIp, HoldsDp, HoldsIp, Putting, Back
  <1>8. \A g \in Handles : file'[g].type = "INODE" => file[g].type = "INODE" /\ file'[g].ip = file[g].ip
    BY DEF NoFile
  <1>9. Finds(p)
    <2>1. ASSUME NEW j \in Inums, Refers(p, j)' PROVE Sees(p, j)
      <3>1. CASE \E g \in Handles : file'[g].type = "INODE" /\ file'[g].ip = j
        BY <1>8, <3>1 DEF Sees
      <3>2. CASE put'[p] = j
        BY <1>4, <1>5, <3>2 DEF Sees
      <3>3. CASE cwd'[p] = j \/ dp'[p] = j \/ ip'[p] = j
        BY <1>3, <1>5, <3>3, Constants DEF Sees
      <3> QED
        BY <2>1, <3>1, <3>2, <3>3 DEF Refers
    <2>2. \A j \in Inums : (p \in Pending(j))' => p \in Pending(j)
      BY <1>5, <1>6 DEF Pending
    <2>3. \A g \in Handles : file'[g].type = "INODE" => file'[g].ip \in Inums
      BY <1>8, Mine
    <2> QED
      BY <1>1, <1>5, <1>6, <2>1, <2>2, <2>3 DEF Finds, LiveOf, IsDir
  <1>10. Locks(p) /\ LockOf(p)'
    BY <1>1, <1>2, <1>3, <1>5 DEF Locks, LockOf, Holds, HoldsDp, HoldsIp
  <1>11. RefsCounted'
    <2>1. ASSUME NEW j \in Inums PROVE ic'[j].ref = Held(j)'
      <3>1. /\ Held(j) \in Nat /\ Held(j)' \in Nat
            /\ Held(j)' + Own(p, j) + Has(OpenOn(j), f) = Held(j) + Own(p, j)' + Has(OpenOn(j)', f)
        BY HeldFile
      <3>2. Has(OpenOn(j), f) = Is(i, j) /\ Has(OpenOn(j)', f) = 0
        BY <1>4 DEF Has, OpenOn, Is, NoFile
      <3>3. ic[j].ref = Held(j)
        BY Referred DEF IInv, FilesInv
      <3>4. Own(p, j)' = Own(p, j) + Is(i, j) /\ Own(p, j) \in Nat /\ Is(i, j) \in Nat
        <4>1. j # None
          BY Constants
        <4> QED
          BY <1>3, <1>5, <4>1 DEF Own, Is
      <3> QED
        BY <1>5, <3>1, <3>2, <3>3, <3>4
    <2> QED
      BY <2>1, RefsThen
  <1>12. NewOf(p)' /\ FreeOf(p)' /\ pc'[p] # "panic"
    BY <1>5 DEF NewOf, FreeOf
  <1>13. CacheInv'
    BY <1>5 DEF IInv, CacheInv, CacheOf, Live
  <1> QED
    BY <1>7, <1>9, <1>10, <1>11, <1>12, <1>13, Quiet

(* fileclose() of a reference of p, by close(), exit() or sys_pipe(). *)
LEMMA CloseFile ==
  ASSUME IInv, NEW p \in Procs, NEW f \in Handles, NEW label \in {"idle", "exit", "undo1"},
         FileClose(p, f, label), Leaves1(p, f), pc[p] \in {"idle", "exit", "undo", "undo1"},
         file[f].type = "INODE" => pc[p] = label /\ label # "undo1",
         ofile' \in [Procs -> [FDs -> Handles \cup {None}]],
         rf' \in [Procs -> Handles \cup {None}], wf' \in [Procs -> Handles \cup {None}],
         rf'[p] = None, wf'[p] # None <=> label = "undo1",
         UNCHANGED disks, UNCHANGED ic, UNCHANGED pipe, UNCHANGED cwd, UNCHANGED call, UNCHANGED name,
         UNCHANGED dp, UNCHANGED ip, UNCHANGED budget
  PROVE  IInv'
  <1>1. TypeOK
    BY Mine
  <1>2. /\ file' \in [Handles -> FileSet] /\ \A g \in Handles : g # f => file'[g] = file[g]
        /\ \/ /\ file[f].ref > 1 /\ file'[f].ref = file[f].ref - 1 /\ file'[f].type = file[f].type
              /\ file'[f].ip = file[f].ip /\ file'[f].writable = file[f].writable
              /\ pc' = [pc EXCEPT ![p] = label] /\ put' = put /\ ret' = ret
           \/ /\ file[f].ref <= 1 /\ file'[f] = NoFile
              /\ \/ /\ IsPipe(f) /\ ret' = [ret EXCEPT ![p] = label] /\ put' = put
                    /\ pc' = [pc EXCEPT ![p] = IF file[f].writable THEN "wclose" ELSE "rclose"]
                 \/ /\ file[f].type = "INODE" /\ ret' = [ret EXCEPT ![p] = label]
                    /\ put' = [put EXCEPT ![p] = file[f].ip] /\ pc' = [pc EXCEPT ![p] = "put"]
                 \/ /\ file[f].type = "NONE" /\ pc' = [pc EXCEPT ![p] = label]
                    /\ put' = put /\ ret' = ret
    BY FileCloseIs
  <1>3. file[f].ip \in Inums \cup {None}
    BY <1>1 DEF TypeOK
  <1>4. /\ pc \in [Procs -> PC] /\ ret \in [Procs -> PC] /\ put \in [Procs -> Inums \cup {None}]
        /\ {label, "put", "wclose", "rclose"} \subseteq PC
    BY <1>1 DEF TypeOK, PC
  <1>5. TypeOK'
    <2>1. pc' \in [Procs -> PC]
      <3>1. PICK l \in PC : pc' = [pc EXCEPT ![p] = l]
        BY <1>2, <1>4
      <3> QED
        BY <1>4, <3>1
    <2>2. ret' \in [Procs -> PC]
      BY <1>2, <1>4
    <2>3. put' \in [Procs -> Inums \cup {None}]
      BY <1>2, <1>3, <1>4
    <2> QED
      BY <1>1, <1>2, <2>1, <2>2, <2>3 DEF TypeOK, disks, FileSet
  <1>6. OnlyBy(p)
    BY <1>2, <1>4 DEF OnlyBy
  <1>7. \/ /\ file[f].ref > 1 /\ pc'[p] = label /\ put' = put /\ ret' = ret
           /\ file'[f].type = file[f].type /\ file'[f].ip = file[f].ip
        \/ /\ file[f].ref <= 1 /\ file'[f] = NoFile /\ IsPipe(f) /\ ret'[p] = label /\ put' = put
           /\ pc'[p] = IF file[f].writable THEN "wclose" ELSE "rclose"
        \/ /\ file[f].ref <= 1 /\ file'[f] = NoFile /\ file[f].type = "INODE" /\ ret'[p] = label
           /\ put'[p] = file[f].ip /\ pc'[p] = "put"
        \/ /\ file[f].ref <= 1 /\ file'[f] = NoFile /\ file[f].type = "NONE"
           /\ pc'[p] = label /\ put' = put /\ ret' = ret
    BY <1>1, <1>2 DEF TypeOK
  <1>8. Closes(p, f)
    <2>1. label \notin Closing /\ pc[p] \notin Closing /\ "put" \notin Closing
      BY DEF Closing
    <2>2. CASE file[f].ref > 1
      <3>1. pc'[p] = label /\ file'[f].ref = file[f].ref - 1 /\ file'[f].type = file[f].type
            /\ file'[f].ip = file[f].ip /\ file'[f].writable = file[f].writable
        BY <1>1, <1>2, <1>4, <2>2 DEF TypeOK
      <3> QED
        BY <1>2, <2>1, <2>2, <3>1 DEF Closes
    <2>3. CASE ~(file[f].ref > 1)
      <3>1. CASE IsPipe(f)
        BY <1>2, <1>7, <2>1, <2>3, <3>1 DEF Closes, IsPipe
      <3>2. CASE ~IsPipe(f)
        BY <1>2, <1>7, <2>1, <2>3, <3>2 DEF Closes, IsPipe
      <3> QED
        BY <3>1, <3>2
    <2> QED
      BY <2>2, <2>3
  <1>9. Staged(p)' /\ pc'[p] \notin {"pipe1", "piped"}
    <2>1. CASE pc'[p] = label
      BY <2>1 DEF Staged, Stage, Closing
    <2>2. CASE pc'[p] \in Closing /\ ret'[p] = label
      BY <2>2 DEF Staged, Stage, Closing
    <2>3. CASE pc'[p] = "put" /\ label # "undo1"
      BY <2>3 DEF Staged, Stage, Closing
    <2> QED
      BY <1>7, <2>1, <2>2, <2>3 DEF Closing
  <1>10. FilesCounted' /\ TableInv'
    BY <1>5, <1>6, <1>8, <1>9, CloseTable
  <1>11. \A q \in Procs : q # p => ofile'[q] = ofile[q]
    BY DEF Leaves1
  <1>12. CASE file[f].ref <= 1 /\ file'[f] = NoFile /\ file[f].type = "INODE" /\ ret'[p] = label
              /\ put'[p] = file[f].ip /\ pc'[p] = "put"
    <2>1. pc[p] \in {"idle", "exit"} /\ ret'[p] = pc[p]
      BY <1>12
    <2> QED
      BY <1>2, <1>5, <1>6, <1>10, <1>11, <1>12, <2>1, CloseInode
  <1>13. CASE /\ put' = put /\ pc'[p] \in {label, "wclose", "rclose"}
              /\ \/ file'[f].type = file[f].type /\ file'[f].ip = file[f].ip
                 \/ file'[f] = NoFile /\ file[f].type # "INODE"
    <2>1. Alike
      BY <1>2, <1>13 DEF Alike, NoFile
    <2>2. {pc[p], pc'[p]} \subseteq Plain
      BY <1>13 DEF Plain, Pipes
    <2> QED
      BY <1>5, <1>6, <1>10, <1>11, <1>13, <2>1, <2>2, TableQuiet
  <1> QED
    BY <1>7, <1>12, <1>13 DEF IsPipe

(* close() of a descriptor, by the call or by exit(). *)
LEMMA CloseFd ==
  ASSUME IInv, NEW p \in Procs, NEW fd \in FDs, NEW label \in {"idle", "exit"}, pc[p] = label,
         ofile[p][fd] # None, ofile' = [ofile EXCEPT ![p][fd] = None],
         FileClose(p, ofile[p][fd], label),
         UNCHANGED disks, UNCHANGED ic, UNCHANGED ends, UNCHANGED cwd, UNCHANGED call, UNCHANGED name,
         UNCHANGED dp, UNCHANGED ip, UNCHANGED budget
  PROVE  IInv'
  <1>1. TypeOK /\ PipeOf(p) /\ pipe' = pipe /\ rf' = rf /\ wf' = wf
    BY Mine DEF IInv, TableInv, ends
  <1>2. PICK f \in Handles : f = ofile[p][fd]
    BY OpenIs
  <1>3. rf[p] = None /\ wf[p] = None
    BY <1>1 DEF PipeOf, Staged, Stage, Closing
  <1>4. /\ ofile'[p][fd] = None /\ ofile' \in [Procs -> [FDs -> Handles \cup {None}]]
        /\ \A q \in Procs : q # p => ofile'[q] = ofile[q]
        /\ \A e \in FDs : e # fd => ofile'[p][e] = ofile[p][e]
    BY <1>1 DEF TypeOK
  <1>5. ASSUME NEW g \in Handles PROVE Refs(g)' + Is(f, g) = Refs(g)
    <2>1. \A q \in Procs, e \in FDs : q # p \/ e # fd => ofile'[q][e] = ofile[q][e]
      BY <1>4
    <2>2. /\ Cardinality(Fds(g)) \in Nat /\ Cardinality(Fds(g)') \in Nat
          /\ Cardinality(Fds(g)') + Is(f, g) = Cardinality(Fds(g)) + Is(None, g)
      BY <1>2, <1>4, <2>1, FdsMove
    <2>3. Is(None, g) = 0 /\ Is(f, g) \in Nat
      BY Constants DEF Is
    <2>4. /\ Refs(g) \in Nat /\ Refs(g)' \in Nat
          /\ Refs(g)' + Is(f, g) + Is(rf[p], g) + Is(wf[p], g) = Refs(g) + 0 + Is(rf'[p], g) + Is(wf'[p], g)
      BY <1>1, <2>2, <2>3, RefsMove
    <2> QED
      BY <1>1, <1>3, <2>3, <2>4
  <1>6. Leaves1(p, f)
    BY <1>1, <1>4, <1>5 DEF Leaves1
  <1>7. /\ rf' \in [Procs -> Handles \cup {None}] /\ wf' \in [Procs -> Handles \cup {None}]
        /\ rf'[p] = None /\ (wf'[p] # None <=> label = "undo1")
    BY <1>1, <1>3 DEF TypeOK
  <1> QED
    BY <1>1, <1>2, <1>4, <1>6, <1>7, CloseFile

(* close() *)
LEMMA CloseStep ==
  ASSUME IInv, NEW p \in Procs, NEW fd \in FDs, Close(p, fd)
  PROVE  IInv'
  <1>1. /\ pc[p] = "idle" /\ ofile[p][fd] # None /\ ofile' = [ofile EXCEPT ![p][fd] = None]
        /\ FileClose(p, ofile[p][fd], "idle")
        /\ UNCHANGED <<disks, ic, ends, cwd, call, name, dp, ip, budget>>
    BY DEF Close
  <1> QED
    BY <1>1, CloseFd

(* A file that exit() closes. *)
LEMMA ExitCloseStep ==
  ASSUME IInv, NEW p \in Procs, ExitClose(p)
  PROVE  IInv'
  <1>1. TypeOK
    BY Mine
  <1>2. PICK fd \in FDs : fd = Min(OpenFDs(p)) /\ ofile[p][fd] # None
    BY <1>1, FreeFound DEF ExitClose
  <1>3. /\ pc[p] = "exit" /\ ofile' = [ofile EXCEPT ![p][fd] = None]
        /\ FileClose(p, ofile[p][fd], "exit")
        /\ UNCHANGED <<disks, ic, ends, cwd, call, name, dp, ip, budget>>
    BY <1>2 DEF ExitClose
  <1> QED
    BY <1>2, <1>3, CloseFd

(* The first of the files that sys_pipe() gives back. *)
LEMMA PipeUndoStep ==
  ASSUME IInv, NEW p \in Procs, PipeUndo(p)
  PROVE  IInv'
  <1>1. TypeOK /\ PipeOf(p) /\ Apart
    BY Mine DEF IInv, TableInv
  <1>2. PICK label \in {"idle", "undo1"} : label = IF wf[p] = None THEN "idle" ELSE "undo1"
    OBVIOUS
  <1>3. /\ pc[p] = "undo" /\ rf' = [rf EXCEPT ![p] = None] /\ FileClose(p, rf[p], label)
        /\ UNCHANGED <<disks, ic, ofile, pipe, wf, cwd, call, name, dp, ip, budget>>
    BY <1>2 DEF PipeUndo, Drops
  <1>4. PICK f \in Handles : f = rf[p] /\ file[f].type # "INODE"
    BY <1>1, <1>3 DEF PipeOf, Staged, Stage, Closing, TypeOK
  <1>5. /\ rf'[p] = None /\ rf' \in [Procs -> Handles \cup {None}]
        /\ \A q \in Procs : q # p => rf'[q] = rf[q]
    BY <1>1, <1>3 DEF TypeOK
  <1>6. ASSUME NEW g \in Handles PROVE Refs(g)' + Is(f, g) = Refs(g)
    <2>1. Cardinality(Fds(g)') = Cardinality(Fds(g)) /\ Cardinality(Fds(g)) \in Nat
      BY <1>3, RefsNat DEF Fds
    <2>2. Is(None, g) = 0 /\ Is(f, g) \in Nat /\ Is(wf[p], g) \in Nat
      BY Constants DEF Is
    <2>3. /\ Refs(g) \in Nat /\ Refs(g)' \in Nat
          /\ Refs(g)' + 0 + Is(rf[p], g) + Is(wf[p], g) = Refs(g) + 0 + Is(rf'[p], g) + Is(wf'[p], g)
      BY <1>3, <1>5, <2>1, RefsMove
    <2> QED
      BY <1>3, <1>4, <1>5, <2>2, <2>3
  <1>7. Leaves1(p, f)
    BY <1>3, <1>5, <1>6 DEF Leaves1
  <1>8. wf'[p] # None <=> label = "undo1"
    BY <1>2, <1>3
  <1>9. wf' \in [Procs -> Handles \cup {None}] /\ ofile' \in [Procs -> [FDs -> Handles \cup {None}]]
    BY <1>1, <1>3 DEF TypeOK
  <1> QED
    BY <1>3, <1>4, <1>5, <1>7, <1>8, <1>9, CloseFile

(* The second *)
LEMMA PipeUndo1Step ==
  ASSUME IInv, NEW p \in Procs, PipeUndo1(p)
  PROVE  IInv'
  <1>1. TypeOK /\ PipeOf(p) /\ Apart
    BY Mine DEF IInv, TableInv
  <1>2. /\ pc[p] = "undo1" /\ wf' = [wf EXCEPT ![p] = None] /\ FileClose(p, wf[p], "idle")
        /\ UNCHANGED <<disks, ic, ofile, pipe, rf, cwd, call, name, dp, ip, budget>>
    BY DEF PipeUndo1, Drops
  <1>3. PICK f \in Handles : f = wf[p] /\ file[f].type # "INODE"
    BY <1>1, <1>2 DEF PipeOf, Staged, Stage, Closing, TypeOK
  <1>4. rf[p] = None
    BY <1>1, <1>2 DEF PipeOf, Staged, Stage, Closing
  <1>5. /\ wf'[p] = None /\ wf' \in [Procs -> Handles \cup {None}]
        /\ \A q \in Procs : q # p => wf'[q] = wf[q]
    BY <1>1, <1>2 DEF TypeOK
  <1>6. ASSUME NEW g \in Handles PROVE Refs(g)' + Is(f, g) = Refs(g)
    <2>1. Cardinality(Fds(g)') = Cardinality(Fds(g)) /\ Cardinality(Fds(g)) \in Nat
      BY <1>2, RefsNat DEF Fds
    <2>2. Is(None, g) = 0 /\ Is(f, g) \in Nat
      BY Constants DEF Is
    <2>3. /\ Refs(g) \in Nat /\ Refs(g)' \in Nat
          /\ Refs(g)' + 0 + Is(rf[p], g) + Is(wf[p], g) = Refs(g) + 0 + Is(rf'[p], g) + Is(wf'[p], g)
      BY <1>2, <1>5, <2>1, RefsMove
    <2> QED
      BY <1>2, <1>3, <1>4, <1>5, <2>2, <2>3
  <1>7. Leaves1(p, f)
    BY <1>2, <1>5, <1>6 DEF Leaves1
  <1>8. /\ rf'[p] = None /\ (wf'[p] # None <=> "idle" = "undo1")
        /\ rf' \in [Procs -> Handles \cup {None}] /\ ofile' \in [Procs -> [FDs -> Handles \cup {None}]]
    BY <1>1, <1>2, <1>4, <1>5 DEF TypeOK
  <1> QED
    BY <1>2, <1>3, <1>5, <1>7, <1>8, CloseFile

(* pipeclose() *)
LEMMA PipeCloseStep ==
  ASSUME IInv, NEW p \in Procs, PipeClose(p)
  PROVE  IInv'
  <1>1. TypeOK /\ TableInv /\ EndsCounted /\ PipeOf(p) /\ EndsOne
    BY Mine, FilesAre DEF IInv, FilesInv, TableInv
  <1>2. /\ pc[p] \in Closing /\ ret' = [ret EXCEPT ![p] = "idle"] /\ pc' = [pc EXCEPT ![p] = ret[p]]
        /\ pipe' = (IF pc[p] = "wclose" THEN [pipe EXCEPT !.writeopen = FALSE]
                    ELSE [pipe EXCEPT !.readopen = FALSE])
        /\ UNCHANGED <<disks, ic, file, ofile, rf, wf, cwd, call, name, dp, ip, put, budget>>
    BY DEF PipeClose, Goto, Closing
  <1>3. ret[p] \in {"idle", "exit", "undo1"}
    BY <1>1, <1>2 DEF PipeOf, Staged
  <1>4. /\ pc'[p] = ret[p] /\ \A q \in Procs : q # p => pc'[q] = pc[q] /\ ret'[q] = ret[q]
        /\ pc' \in [Procs -> PC] /\ ret' \in [Procs -> PC]
    BY <1>1, <1>2, <1>3 DEF TypeOK, PC
  <1>5. /\ pipe' \in [readopen : BOOLEAN, writeopen : BOOLEAN]
        /\ pipe'.readopen = (pipe.readopen /\ pc[p] # "rclose")
        /\ pipe'.writeopen = (pipe.writeopen /\ pc[p] # "wclose")
    BY <1>1, <1>2 DEF TypeOK, Closing
  <1>6. TypeOK'
    BY <1>1, <1>2, <1>4, <1>5 DEF TypeOK, disks
  <1>7. OnlyBy(p)
    BY <1>2, <1>4 DEF OnlyBy
  <1>8. FilesCounted'
    <2>1. \A g \in Handles : file'[g].ref = Refs(g)'
      <3>1. \A g \in Handles : file[g].ref = Refs(g)
        BY FilesAre DEF IInv, FilesInv
      <3> QED
        BY <1>2, <3>1 DEF Refs, Fds, Count
    <2>2. \A g \in Handles : IsPipe(g) => file[g].writable # (pc[p] = "wclose")
      BY <1>1, <1>2 DEF EndsOne
    <2>3. \A q \in Procs : q # p => pc[q] # pc[p]
      BY <1>1, <1>2 DEF EndsOne
    <2>4. pc'[p] \notin Closing
      BY <1>3, <1>4 DEF Closing
    <2>5. \A q \in Procs, l \in Closing : pc'[q] = l <=> pc[q] = l /\ q # p
      BY <1>4, <2>4
    <2>6. \A g \in Handles : file[g].writable \in BOOLEAN
      BY <1>1 DEF TypeOK
    <2>7. CASE pc[p] = "rclose"
      <3>1. /\ \A g \in Handles : IsPipe(g) => file[g].writable
            /\ \A q \in Procs : pc'[q] # "rclose" /\ (pc'[q] = "wclose" <=> pc[q] = "wclose")
        BY <2>2, <2>3, <2>5, <2>6, <2>7 DEF Closing
      <3> QED
        BY <1>1, <1>2, <1>5, <2>1, <2>7, <3>1, FilesThen DEF EndsCounted, IsPipe
    <2>8. CASE pc[p] = "wclose"
      <3>1. /\ \A g \in Handles : IsPipe(g) => ~file[g].writable
            /\ \A q \in Procs : pc'[q] # "wclose" /\ (pc'[q] = "rclose" <=> pc[q] = "rclose")
        BY <2>2, <2>3, <2>5, <2>6, <2>8 DEF Closing
      <3> QED
        BY <1>1, <1>2, <1>5, <2>1, <2>8, <3>1, FilesThen DEF EndsCounted, IsPipe
    <2> QED
      BY <1>2, <2>7, <2>8 DEF Closing
  <1>9. TableInv'
    <2>1. PipeOf(p)'
      <3>1. Stage(p)' = Stage(p)
        BY <1>2, <1>3, <1>4 DEF Stage, Closing
      <3>2. pc'[p] \notin Closing \cup {"pipe1", "piped"}
        BY <1>3, <1>4 DEF Closing
      <3> QED
        BY <1>1, <1>2, <3>1, <3>2 DEF PipeOf, Staged
    <2>2. \A q \in Procs : q # p => PipeOf(q)'
      BY <1>2, <1>7, OthersFiles
    <2>3. EndsOne'
      <3>1. \A q \in Procs : pc'[q] \in Closing => pc'[q] = pc[q]
        BY <1>3, <1>4 DEF Closing
      <3> QED
        BY <1>1, <1>2, <3>1 DEF EndsOne, IsPipe
    <2>4. \A q \in Procs : PipeOf(q)'
      BY <2>1, <2>2
    <2> QED
      BY <1>1, <1>2, <2>3, <2>4 DEF TableInv, Apart, HasType
  <1>10. Alike
    BY <1>2 DEF Alike
  <1>11. {pc[p], pc'[p]} \subseteq Plain
    BY <1>2, <1>3, <1>4 DEF Plain, Pipes, Closing
  <1> QED
    BY <1>2, <1>6, <1>7, <1>8, <1>9, <1>10, <1>11, TableQuiet

(* The table after a step in which every file keeps its type. *)
LEMMA TypesKept ==
  ASSUME IInv, NEW p \in Procs, OnlyBy(p), {pc[p], pc'[p]} \cap Closing = {}, UNCHANGED pipe,
         \A g \in Handles : file'[g].type = file[g].type /\ file'[g].writable = file[g].writable,
         \A q \in Procs : q # p => ofile'[q] = ofile[q] /\ rf'[q] = rf[q] /\ wf'[q] = wf[q],
         \A g \in Handles : file'[g].ref = Refs(g)' /\ (file'[g].ref = 0 => file[g].ref = 0),
         \A fd \in FDs : ofile'[p][fd] # None => ofile'[p][fd] \in Handles /\ HasType(ofile'[p][fd]),
         PipeOf(p)', Apart'
  PROVE  FilesCounted' /\ TableInv'
  <1>1. EndsCounted /\ TableInv /\ EndsOne
    BY FilesAre DEF IInv, FilesInv, TableInv
  <1>2. EndsCounted' /\ EndsOne'
    <2>1. \A q \in Procs : pc'[q] \in Closing \/ pc[q] \in Closing => pc'[q] = pc[q]
      BY DEF OnlyBy
    <2>2. \A g \in Handles : (IsPipe(g)' <=> IsPipe(g)) /\ (IsPipe(g) => file'[g].writable = file[g].writable)
      BY DEF IsPipe
    <2> QED
      BY <1>1, <2>1, <2>2, EndsStep
  <1>3. FilesCounted'
    BY <1>2, FilesThen
  <1>4. /\ \A q \in Procs : q # p => PipeOf(q)'
        /\ \A q \in Procs, fd \in FDs : q # p /\ ofile'[q][fd] # None => HasType(ofile[q][fd])'
    BY OthersFiles
  <1>5. \A fd \in FDs : ofile'[p][fd] # None => HasType(ofile[p][fd])'
    BY DEF HasType
  <1>6. \A g \in Handles : file'[g].ref = 0 => ~HasType(g)'
    BY <1>1 DEF TableInv, HasType
  <1>7. \A q \in Procs : PipeOf(q)'
    BY <1>4
  <1>8. \A q \in Procs, fd \in FDs : ofile'[q][fd] # None => HasType(ofile[q][fd])'
    BY <1>4, <1>5
  <1> QED
    BY <1>2, <1>3, <1>6, <1>7, <1>8 DEF TableInv

(* Another reference count of a file. *)
LEMMA RefSet ==
  ASSUME NEW t, t \in [Handles -> FileSet], NEW u, NEW f \in Handles, NEW k \in Nat,
         u = [t EXCEPT ![f].ref = k]
  PROVE  /\ u \in [Handles -> FileSet] /\ u[f].ref = k
         /\ \A g \in Handles : /\ u[g].type = t[g].type /\ u[g].ip = t[g].ip /\ u[g].writable = t[g].writable
                               /\ g # f => u[g].ref = t[g].ref
  <1>1. PICK x \in FileSet : x = t[f]
    OBVIOUS
  <1>2. PICK y : y = [x EXCEPT !.ref = k]
    OBVIOUS
  <1>3. /\ y \in FileSet /\ y.type = x.type /\ y.ip = x.ip /\ y.writable = x.writable
        /\ y.ref = k
    BY <1>2 DEF FileSet
  <1>4. u = [t EXCEPT ![f] = y]
    BY <1>1, <1>2
  <1> QED
    BY <1>1, <1>3, <1>4

(* dup() *)
LEMMA DupStep ==
  ASSUME IInv, NEW p \in Procs, NEW fd \in FDs, Dup(p, fd)
  PROVE  IInv'
  <1>1. TypeOK /\ TableInv /\ PipeOf(p) /\ file \in [Handles -> FileSet]
    BY Mine DEF IInv, TableInv, TypeOK, FileSet
  <1>2. pc[p] = "idle" /\ ofile[p][fd] # None /\ FreeFDs(p) # {} /\ budget > 0
    BY DEF Dup
  <1>3. PICK f \in Handles : f = ofile[p][fd]
    BY <1>2, OpenIs
  <1>4. HasType(f)
    BY <1>1, <1>2, <1>3 DEF TableInv
  <1>5. PICK e \in FDs : e = Min(FreeFDs(p)) /\ ofile[p][e] = None
    BY <1>1, <1>2, FreeFound
  <1>6. /\ ofile' = [ofile EXCEPT ![p][e] = f] /\ file' = [file EXCEPT ![f].ref = @ + 1]
        /\ budget' = budget - 1
        /\ UNCHANGED <<disks, ic, pipe, rf, wf, cwd, pc, call, name, dp, ip, put, ret>>
    BY <1>3, <1>5 DEF Dup, ends, locals
  <1>7. /\ \A g \in Handles : /\ file'[g].type = file[g].type /\ file'[g].ip = file[g].ip
                              /\ file'[g].writable = file[g].writable
                              /\ g # f => file'[g].ref = file[g].ref
        /\ file'[f].ref = file[f].ref + 1 /\ file' \in [Handles -> FileSet]
    <2>1. PICK k \in Nat : k = file[f].ref + 1
      BY <1>1 DEF FileSet
    <2>2. file' = [file EXCEPT ![f].ref = k]
      BY <1>6, <2>1
    <2> QED
      BY <1>1, <2>1, <2>2, RefSet
  <1>8. /\ ofile'[p][e] = f
        /\ \A q \in Procs, c \in FDs : q # p \/ c # e => ofile'[q][c] = ofile[q][c]
        /\ \A q \in Procs : q # p => ofile'[q] = ofile[q]
        /\ ofile' \in [Procs -> [FDs -> Handles \cup {None}]]
    BY <1>1, <1>6 DEF TypeOK
  <1>9. TypeOK'
    BY <1>1, <1>2, <1>6, <1>7, <1>8, FilesAssumption DEF TypeOK, disks, FileSet
  <1>10. OnlyBy(p)
    BY <1>6 DEF OnlyBy
  <1>11. ASSUME NEW g \in Handles PROVE file'[g].ref = Refs(g)' /\ (file'[g].ref = 0 => file[g].ref = 0)
    <2>1. /\ Cardinality(Fds(g)) \in Nat /\ Cardinality(Fds(g)') \in Nat
          /\ Cardinality(Fds(g)') + Is(ofile[p][e], g) = Cardinality(Fds(g)) + Is(f, g)
      BY <1>8, FdsMove
    <2>2. Is(ofile[p][e], g) = 0 /\ Is(f, g) \in Nat /\ Is(rf[p], g) \in Nat /\ Is(wf[p], g) \in Nat
      BY <1>5, Constants DEF Is
    <2>3. /\ Refs(g) \in Nat /\ Refs(g)' \in Nat
          /\ Refs(g)' + 0 + Is(rf[p], g) + Is(wf[p], g) = Refs(g) + Is(f, g) + Is(rf'[p], g) + Is(wf'[p], g)
      BY <1>6, <2>1, <2>2, RefsMove
    <2>4. Refs(g)' = Refs(g) + Is(f, g)
      BY <1>6, <2>2, <2>3
    <2>5. file[g].ref = Refs(g)
      BY FilesAre DEF IInv, FilesInv
    <2> QED
      BY <1>7, <2>3, <2>4, <2>5 DEF Is
  <1>12. PipeOf(p)' /\ Apart'
    <2>1. rf[p] = None /\ wf[p] = None
      BY <1>1, <1>2 DEF PipeOf, Staged, Stage, Closing
    <2> QED
      BY <1>1, <1>2, <1>6, <2>1 DEF PipeOf, Staged, Stage, Closing, TableInv, Apart
  <1>13. ASSUME NEW c \in FDs, ofile'[p][c] # None PROVE ofile'[p][c] \in Handles /\ HasType(ofile'[p][c])
    BY <1>1, <1>4, <1>8, <1>13 DEF TableInv, TypeOK
  <1>14. FilesCounted' /\ TableInv'
    <2>1. {pc[p], pc'[p]} \cap Closing = {}
      BY <1>2, <1>6 DEF Closing
    <2> QED
      BY <1>6, <1>7, <1>8, <1>10, <1>11, <1>12, <1>13, <2>1, TypesKept
  <1>15. Alike
    BY <1>7 DEF Alike
  <1>16. {pc[p], pc'[p]} \subseteq Plain
    BY <1>2, <1>6 DEF Plain
  <1> QED
    BY <1>6, <1>8, <1>9, <1>10, <1>14, <1>15, <1>16, TableQuiet

(* What filealloc() takes was nobody's. *)
LEMMA FreeIs ==
  ASSUME IInv, NEW f \in Handles, file[f].ref = 0
  PROVE  Nobody(f) /\ file[f].type = "NONE" /\ ~IsPipe(f) /\ Refs(f) = 0
  <1>1. Refs(f) = 0
    BY FilesAre DEF IInv, FilesInv
  <1>2. ~HasType(f)
    BY DEF IInv, TableInv
  <1> QED
    BY <1>1, <1>2, Nobodys DEF HasType, IsPipe

(* The reference to it is the one that sys_pipe() has. *)
LEMMA TakeRefs ==
  ASSUME IInv, NEW p \in Procs, NEW f \in Handles, file[f].ref = 0, UNCHANGED ofile,
         \A q \in Procs : q # p => rf'[q] = rf[q] /\ wf'[q] = wf[q],
         \/ rf[p] = None /\ rf'[p] = f /\ wf'[p] = wf[p]
         \/ wf[p] = None /\ wf'[p] = f /\ rf'[p] = rf[p],
         file'[f].ref = 1, \A g \in Handles : g # f => file'[g].ref = file[g].ref
  PROVE  \A g \in Handles : file'[g].ref = Refs(g)' /\ (file'[g].ref = 0 => file[g].ref = 0)
  <1>1. ASSUME NEW g \in Handles PROVE file'[g].ref = Refs(g)' /\ (file'[g].ref = 0 => file[g].ref = 0)
    <2>1. Cardinality(Fds(g)') = Cardinality(Fds(g)) /\ Cardinality(Fds(g)) \in Nat
      BY RefsNat DEF Fds
    <2>2. /\ Refs(g) \in Nat /\ Refs(g)' \in Nat
          /\ Refs(g)' + 0 + Is(rf[p], g) + Is(wf[p], g) = Refs(g) + 0 + Is(rf'[p], g) + Is(wf'[p], g)
      BY <2>1, RefsMove
    <2>3. /\ Is(None, g) = 0 /\ Is(f, g) = (IF g = f THEN 1 ELSE 0)
          /\ Is(rf[p], g) \in Nat /\ Is(wf[p], g) \in Nat
      BY Constants DEF Is
    <2>4. Refs(g)' = Refs(g) + Is(f, g)
      BY <2>2, <2>3
    <2>5. file[g].ref = Refs(g)
      BY FilesAre DEF IInv, FilesInv
    <2>6. CASE g = f
      BY <2>3, <2>4, <2>5, <2>6
    <2>7. CASE g # f
      <3>1. Refs(g)' = Refs(g) /\ file'[g].ref = file[g].ref
        BY <2>2, <2>3, <2>4, <2>7
      <3> QED
        BY <2>5, <3>1
    <2> QED
      BY <2>6, <2>7
  <1> QED
    BY <1>1

(* The first file of pipealloc() *)
LEMMA PipeFirstStep ==
  ASSUME IInv, NEW p \in Procs, PipeFirst(p)
  PROVE  IInv'
  <1>1. TypeOK /\ TableInv /\ PipeOf(p) /\ file \in [Handles -> FileSet]
    BY Mine DEF IInv, TableInv, TypeOK, FileSet
  <1>2. PICK f \in Handles : f = Min(FreeHandles) /\ file[f].ref = 0
    BY <1>1, FreeFound DEF PipeFirst
  <1>3. /\ pc[p] = "idle" /\ budget > 0 /\ file' = [file EXCEPT ![f].ref = 1]
        /\ rf' = [rf EXCEPT ![p] = f] /\ pc' = [pc EXCEPT ![p] = "pipe1"] /\ budget' = budget - 1
        /\ UNCHANGED <<disks, ic, ofile, pipe, wf, cwd, call, name, dp, ip, put, ret>>
    BY <1>2 DEF PipeFirst, Goto, locals
  <1>4. /\ \A g \in Handles : /\ file'[g].type = file[g].type /\ file'[g].ip = file[g].ip
                              /\ file'[g].writable = file[g].writable
                              /\ g # f => file'[g].ref = file[g].ref
        /\ file'[f].ref = 1 /\ file' \in [Handles -> FileSet]
    BY <1>1, <1>2, <1>3, RefSet
  <1>5. /\ rf'[p] = f /\ rf' \in [Procs -> Handles \cup {None}] /\ \A q \in Procs : q # p => rf'[q] = rf[q]
        /\ pc'[p] = "pipe1" /\ pc' \in [Procs -> PC] /\ \A q \in Procs : q # p => pc'[q] = pc[q]
    BY <1>1, <1>3 DEF TypeOK, PC
  <1>6. TypeOK'
    BY <1>1, <1>3, <1>4, <1>5, FilesAssumption DEF TypeOK, disks, FileSet
  <1>7. OnlyBy(p)
    BY <1>3, <1>5 DEF OnlyBy
  <1>8. rf[p] = None /\ wf[p] = None /\ Nobody(f) /\ file[f].type = "NONE"
    BY <1>1, <1>2, <1>3, FreeIs DEF PipeOf, Staged, Stage, Closing
  <1>9. PipeOf(p)'
    BY <1>3, <1>4, <1>5, <1>8, Constants DEF PipeOf, Staged, Stage, Closing
  <1>10. Apart'
    BY <1>1, <1>3, <1>5, <1>8 DEF TableInv, Apart, Nobody
  <1>11. FilesCounted' /\ TableInv'
    <2>1. \A g \in Handles : file'[g].ref = Refs(g)' /\ (file'[g].ref = 0 => file[g].ref = 0)
      BY <1>2, <1>3, <1>4, <1>5, <1>8, TakeRefs
    <2>2. \A c \in FDs : ofile'[p][c] # None => ofile'[p][c] \in Handles /\ HasType(ofile'[p][c])
      BY <1>1, <1>3 DEF TableInv, TypeOK
    <2>3. {pc[p], pc'[p]} \cap Closing = {}
      BY <1>3, <1>5 DEF Closing
    <2> QED
      BY <1>3, <1>4, <1>5, <1>7, <1>9, <1>10, <2>1, <2>2, <2>3, TypesKept
  <1>12. Alike
    BY <1>4 DEF Alike
  <1>13. {pc[p], pc'[p]} \subseteq Plain
    BY <1>3, <1>5 DEF Plain, Pipes
  <1> QED
    BY <1>3, <1>6, <1>7, <1>11, <1>12, <1>13, TableQuiet

(* sys_pipe() gives up: pipealloc() without a second file or a page, or no *)
(* two descriptors.                                                        *)
LEMMA GiveUp ==
  ASSUME IInv, TypeOK', NEW p \in Procs, pc[p] \in {"pipe1", "piped"},
         pc' = [pc EXCEPT ![p] = "undo"], Apart',
         \A g \in Handles : file'[g].ref = Refs(g)' /\ (file'[g].ref = 0 => file[g].ref = 0),
         \A g \in Handles : /\ file'[g].type = file[g].type /\ file'[g].ip = file[g].ip
                            /\ file'[g].writable = file[g].writable,
         \A q \in Procs : q # p => wf'[q] = wf[q],
         wf'[p] # None => file[wf'[p]].type # "INODE" /\ wf'[p] \in Handles,
         UNCHANGED <<disks, ic, ofile, pipe, rf, cwd, call, name, dp, ip, put, ret>>
  PROVE  IInv'
  <1>1. TypeOK /\ TableInv /\ PipeOf(p)
    BY Mine DEF IInv, TableInv
  <1>2. pc'[p] = "undo" /\ \A q \in Procs : q # p => pc'[q] = pc[q]
    BY <1>1 DEF TypeOK
  <1>3. OnlyBy(p)
    BY <1>2 DEF OnlyBy
  <1>4. PipeOf(p)'
    <2>1. rf[p] # None /\ file[rf[p]].type # "INODE" /\ rf[p] \in Handles
      BY <1>1 DEF PipeOf, Staged, Stage, Closing, TypeOK
    <2> QED
      BY <1>2, <2>1 DEF PipeOf, Staged, Stage, Closing
  <1>5. FilesCounted' /\ TableInv'
    <2>1. \A c \in FDs : ofile'[p][c] # None => ofile'[p][c] \in Handles /\ HasType(ofile'[p][c])
      BY <1>1 DEF TableInv, TypeOK
    <2>2. {pc[p], pc'[p]} \cap Closing = {}
      BY <1>2 DEF Closing
    <2>3. /\ pipe' = pipe
          /\ \A q \in Procs : q # p => ofile'[q] = ofile[q] /\ rf'[q] = rf[q] /\ wf'[q] = wf[q]
      OBVIOUS
    <2> QED
      BY <1>3, <1>4, <2>1, <2>2, <2>3, TypesKept
  <1>6. Alike
    BY DEF Alike
  <1>7. {pc[p], pc'[p]} \subseteq Plain
    BY <1>2 DEF Plain, Pipes
  <1> QED
    BY <1>3, <1>5, <1>6, <1>7, TableQuiet

(* bad: in pipealloc() *)
LEMMA PipeBadStep ==
  ASSUME IInv, NEW p \in Procs, PipeBad(p)
  PROVE  IInv'
  <1>1. TypeOK /\ TableInv /\ PipeOf(p) /\ file \in [Handles -> FileSet]
    BY Mine DEF IInv, TableInv, TypeOK, FileSet
  <1>2. /\ pc[p] = "pipe1" /\ pc' = [pc EXCEPT ![p] = "undo"] /\ UNCHANGED budget
        /\ UNCHANGED <<disks, ic, ofile, pipe, rf, cwd, call, name, dp, ip, put, ret>>
    BY DEF PipeBad, Goto, locals
  <1>3. pc' \in [Procs -> PC] /\ wf[p] = None
    BY <1>1, <1>2 DEF TypeOK, PC, PipeOf, Staged, Stage, Closing
  <1>4. CASE FreeHandles = {}
    <2>1. UNCHANGED <<file, wf>>
      BY <1>4 DEF PipeBad
    <2>2. TypeOK'
      BY <1>1, <1>2, <1>3, <2>1 DEF TypeOK, disks
    <2>3. \A g \in Handles : file'[g].ref = Refs(g)' /\ (file'[g].ref = 0 => file[g].ref = 0)
      <3>1. \A g \in Handles : file[g].ref = Refs(g)
        BY FilesAre DEF IInv, FilesInv
      <3> QED
        BY <1>2, <2>1, <3>1 DEF Refs, Fds, Count
    <2>4. Apart'
      BY <1>1, <1>2, <2>1 DEF TableInv, Apart
    <2> QED
      BY <1>2, <1>3, <2>1, <2>2, <2>3, <2>4, GiveUp
  <1>5. CASE FreeHandles # {}
    <2>1. PICK f \in Handles : f = Min(FreeHandles) /\ file[f].ref = 0
      BY <1>1, <1>5, FreeFound
    <2>2. file' = [file EXCEPT ![f].ref = 1] /\ wf' = [wf EXCEPT ![p] = f]
      BY <1>5, <2>1 DEF PipeBad
    <2>3. /\ \A g \in Handles : /\ file'[g].type = file[g].type /\ file'[g].ip = file[g].ip
                                /\ file'[g].writable = file[g].writable
                                /\ g # f => file'[g].ref = file[g].ref
          /\ file'[f].ref = 1 /\ file' \in [Handles -> FileSet]
      BY <1>1, <2>1, <2>2, RefSet
    <2>4. wf'[p] = f /\ wf' \in [Procs -> Handles \cup {None}] /\ \A q \in Procs : q # p => wf'[q] = wf[q]
      BY <1>1, <2>2 DEF TypeOK
    <2>5. TypeOK'
      BY <1>1, <1>2, <1>3, <2>3, <2>4 DEF TypeOK, disks, FileSet
    <2>6. Nobody(f) /\ file[f].type = "NONE"
      BY <2>1, FreeIs
    <2>7. \A g \in Handles : file'[g].ref = Refs(g)' /\ (file'[g].ref = 0 => file[g].ref = 0)
      BY <1>2, <1>3, <2>1, <2>3, <2>4, TakeRefs
    <2>8. Apart'
      BY <1>1, <1>2, <2>4, <2>6 DEF TableInv, Apart, Nobody
    <2> QED
      BY <1>2, <2>3, <2>4, <2>5, <2>6, <2>7, <2>8, GiveUp
  <1> QED
    BY <1>4, <1>5

(* sys_pipe() without two free descriptors *)
LEMMA PipeNoFdsStep ==
  ASSUME IInv, NEW p \in Procs, PipeNoFds(p)
  PROVE  IInv'
  <1>1. TypeOK /\ TableInv /\ PipeOf(p)
    BY Mine DEF IInv, TableInv
  <1>2. /\ pc[p] = "piped" /\ pc' = [pc EXCEPT ![p] = "undo"] /\ UNCHANGED budget
        /\ UNCHANGED <<disks, ic, file, ofile, pipe, rf, wf, cwd, call, name, dp, ip, put, ret>>
    BY DEF PipeNoFds, Goto, locals, ftable
  <1>3. TypeOK'
    BY <1>1, <1>2 DEF TypeOK, disks, PC
  <1>4. \A g \in Handles : file'[g].ref = Refs(g)' /\ (file'[g].ref = 0 => file[g].ref = 0)
    <2>1. \A g \in Handles : file[g].ref = Refs(g)
      BY FilesAre DEF IInv, FilesInv
    <2> QED
      BY <1>2, <2>1 DEF Refs, Fds, Count
  <1>5. Apart' /\ (wf'[p] # None => file[wf'[p]].type # "INODE" /\ wf'[p] \in Handles)
    BY <1>1, <1>2 DEF TableInv, Apart, PipeOf, TypeOK
  <1> QED
    BY <1>2, <1>3, <1>4, <1>5, GiveUp

(* pipealloc() with two files and a page *)
LEMMA PipeAllocStep ==
  ASSUME IInv, NEW p \in Procs, PipeAlloc(p)
  PROVE  IInv'
  <1>1. TypeOK /\ TableInv /\ PipeOf(p) /\ EndsCounted /\ file \in [Handles -> FileSet]
    BY Mine, FilesAre DEF IInv, FilesInv, TableInv, TypeOK, FileSet
  <1>2. /\ pc[p] = "pipe1" /\ FreeHandles # {} /\ ~pipe.readopen /\ ~pipe.writeopen
    BY DEF PipeAlloc
  <1>3. PICK w \in Handles : w = Min(FreeHandles) /\ file[w].ref = 0
    BY <1>1, <1>2, FreeFound
  <1>4. PICK r \in Handles : r = rf[p] /\ file[r].type = "NONE"
    BY <1>1, <1>2 DEF PipeOf, Staged, Stage, Closing, TypeOK
  <1>5. Nobody(w) /\ file[w].type = "NONE" /\ wf[p] = None /\ r # w
    BY <1>1, <1>2, <1>3, <1>4, FreeIs DEF PipeOf, Staged, Stage, Closing, Nobody
  <1>6. PICK a \in FileSet, b \in FileSet : a = file[r] /\ b = file[w]
    BY <1>1
  <1>7. PICK x, y : /\ x = [a EXCEPT !.type = "PIPE", !.writable = FALSE]
                    /\ y = [b EXCEPT !.ref = 1, !.type = "PIPE", !.writable = TRUE]
    OBVIOUS
  <1>8. /\ x \in FileSet /\ x.ref = a.ref /\ x.type = "PIPE" /\ x.writable = FALSE
        /\ y \in FileSet /\ y.ref = 1 /\ y.type = "PIPE" /\ y.writable = TRUE
    BY <1>7 DEF FileSet
  <1>9. /\ file' = [file EXCEPT ![r] = x, ![w] = y] /\ pc' = [pc EXCEPT ![p] = "piped"]
        /\ pipe' = [readopen |-> TRUE, writeopen |-> TRUE] /\ wf' = [wf EXCEPT ![p] = w]
        /\ UNCHANGED <<disks, ic, ofile, rf, cwd, call, name, dp, ip, put, ret, budget>>
    <2>1. file' = [file EXCEPT ![r] = [@ EXCEPT !.type = "PIPE", !.writable = FALSE],
                               ![w] = [@ EXCEPT !.ref = 1, !.type = "PIPE", !.writable = TRUE]]
      BY <1>3, <1>4 DEF PipeAlloc
    <2>2. file' = [file EXCEPT ![r] = x, ![w] = y]
      BY <1>1, <1>5, <1>6, <1>7, <2>1
    <2> QED
      BY <1>3, <2>2 DEF PipeAlloc, Goto, locals
  <1>10. /\ file'[r] = x /\ file'[w] = y /\ \A g \in Handles : g # r /\ g # w => file'[g] = file[g]
         /\ file' \in [Handles -> FileSet]
         /\ pc'[p] = "piped" /\ pc' \in [Procs -> PC] /\ \A q \in Procs : q # p => pc'[q] = pc[q]
         /\ wf'[p] = w /\ wf' \in [Procs -> Handles \cup {None}] /\ \A q \in Procs : q # p => wf'[q] = wf[q]
         /\ pipe'.readopen = TRUE /\ pipe'.writeopen = TRUE /\ pipe' \in [readopen : BOOLEAN, writeopen : BOOLEAN]
    BY <1>1, <1>5, <1>8, <1>9 DEF TypeOK, PC
  <1>11. TypeOK'
    BY <1>1, <1>9, <1>10 DEF TypeOK, disks, FileSet
  <1>12. OnlyBy(p)
    BY <1>9, <1>10 DEF OnlyBy
  <1>13. (\A g \in Handles : ~IsPipe(g)) /\ \A q \in Procs : pc[q] \notin Closing
    BY <1>1, <1>2 DEF EndsCounted, Closing
  <1>14. \A g \in Handles : IsPipe(g)' <=> g = r \/ g = w
    BY <1>8, <1>10, <1>13 DEF IsPipe
  <1>15. \A q \in Procs : pc'[q] \notin Closing
    BY <1>10, <1>13 DEF Closing
  <1>16. FilesCounted'
    <2>1. \A g \in Handles : file'[g].ref = Refs(g)'
      <3>1. file'[w].ref = 1 /\ \A g \in Handles : g # w => file'[g].ref = file[g].ref
        BY <1>5, <1>6, <1>8, <1>10
      <3> QED
        BY <1>3, <1>5, <1>9, <1>10, <3>1, TakeRefs
    <2>2. EndsCounted'
      BY <1>5, <1>8, <1>10, <1>14, <1>15 DEF EndsCounted, Closing
    <2> QED
      BY <2>1, <2>2, FilesThen
  <1>17. TableInv'
    <2>1. \A q \in Procs : q # p => rf[q] # r /\ wf[q] # r
      BY <1>1, <1>4, Constants DEF TableInv, Apart
    <2>2. \A q \in Procs, e \in FDs : ofile[q][e] # r
      BY <1>1, <1>4, Constants DEF TableInv, HasType
    <2>3. /\ \A q \in Procs : q # p => PipeOf(q)'
          /\ \A q \in Procs, e \in FDs : q # p /\ ofile'[q][e] # None => HasType(ofile[q][e])'
      <3>1. \A g \in Handles :
              \/ file'[g].type = file[g].type
              \/ \A q \in Procs : q # p => /\ rf[q] # g /\ wf[q] # g
                                           /\ \A e \in FDs : ofile[q][e] # g
        BY <1>5, <1>10, <2>1, <2>2 DEF Nobody
      <3>2. \A q \in Procs : q # p => ofile'[q] = ofile[q] /\ rf'[q] = rf[q] /\ wf'[q] = wf[q]
        BY <1>9, <1>10
      <3> QED
        BY <1>12, <3>1, <3>2, OthersFiles
    <2>4. PipeOf(p)'
      <3>1. Stage(p)' = "piped"
        BY <1>10 DEF Stage, Closing
      <3>2. rf'[p] = r /\ wf'[p] = w /\ r # None /\ w # None
        BY <1>4, <1>5, <1>8, <1>9, <1>10, Constants
      <3>3. Staged(p)'
        BY <1>10, <3>1, <3>2 DEF Staged, Closing
      <3>4. file'[r].type = "PIPE" /\ file'[w].type = "PIPE"
        BY <1>8, <1>10
      <3> QED
        BY <1>10, <3>2, <3>3, <3>4 DEF PipeOf, IsPipe
    <2>5. \A g \in Handles : file'[g].type = "NONE" => file[g].type = "NONE"
      BY <1>8, <1>10
    <2>6. \A q \in Procs, e \in FDs : ofile'[q][e] # None => HasType(ofile[q][e])'
      <3>1. ASSUME NEW q \in Procs, NEW e \in FDs, ofile'[q][e] # None PROVE HasType(ofile[q][e])'
        <4>1. PICK g \in Handles : g = ofile[q][e] /\ g = ofile'[q][e]
          BY <1>1, <1>9, <3>1 DEF TypeOK
        <4>2. HasType(g)
          BY <1>1, <1>9, <3>1, <4>1 DEF TableInv
        <4>3. HasType(g)'
          BY <1>8, <1>10, <4>2 DEF HasType
        <4> QED
          BY <4>1, <4>3 DEF HasType
      <3> QED
        BY <3>1
    <2>7. \A g \in Handles : file'[g].ref = 0 => ~HasType(g)'
      <3>1. file[r].ref # 0
        BY <1>4, FreeIs DEF Nobody
      <3> QED
        BY <1>1, <1>6, <1>8, <1>10, <3>1 DEF TableInv, HasType
    <2>8. Apart'
      BY <1>1, <1>4, <1>5, <1>9, <1>10 DEF TableInv, Apart, Nobody
    <2>9. EndsOne'
      BY <1>8, <1>10, <1>14, <1>15 DEF EndsOne
    <2>10. \A q \in Procs : PipeOf(q)'
      BY <2>3, <2>4
    <2> QED
      BY <2>6, <2>7, <2>8, <2>9, <2>10 DEF TableInv
  <1>18. Alike
    BY <1>4, <1>5, <1>8, <1>10 DEF Alike
  <1>19. {pc[p], pc'[p]} \subseteq Plain
    BY <1>2, <1>10 DEF Plain, Pipes
  <1> QED
    BY <1>9, <1>11, <1>12, <1>16, <1>17, <1>18, <1>19, TableQuiet

(* Two different free descriptors *)
LEMMA TwoFree ==
  ASSUME TypeOK, NEW p \in Procs, Cardinality(FreeFDs(p)) >= 2
  PROVE  \E a, b \in FDs : /\ a = Min(FreeFDs(p)) /\ b = Min(FreeFDs(p) \ {a}) /\ a # b
                           /\ ofile[p][a] = None /\ ofile[p][b] = None
  <1>1. FreeFDs(p) \subseteq FDs /\ IsFiniteSet(FreeFDs(p)) /\ FreeFDs(p) \in SUBSET Nat
    BY Constants, FS_Subset DEF FreeFDs
  <1>2. Cardinality(FreeFDs(p)) \in Nat
    BY <1>1, FS_CardinalityType
  <1>3. FreeFDs(p) # {}
    BY <1>2, FS_EmptySet
  <1>4. PICK a : a = Min(FreeFDs(p)) /\ a \in FreeFDs(p)
    BY <1>1, <1>3, MinIn
  <1>5. Cardinality(FreeFDs(p) \ {a}) = Cardinality(FreeFDs(p)) - 1
    BY <1>1, <1>4, FS_RemoveElement
  <1>6. FreeFDs(p) \ {a} # {}
    BY <1>2, <1>5, FS_EmptySet
  <1>7. FreeFDs(p) \ {a} \in SUBSET Nat
    BY <1>1
  <1>8. Min(FreeFDs(p) \ {a}) \in FreeFDs(p) \ {a}
    BY <1>6, <1>7, MinIn
  <1> QED
    BY <1>4, <1>8 DEF FreeFDs

(* The descriptors of pipe() *)
LEMMA PipeFdsStep ==
  ASSUME IInv, NEW p \in Procs, PipeFds(p)
  PROVE  IInv'
  <1>1. TypeOK /\ TableInv /\ PipeOf(p)
    BY Mine DEF IInv, TableInv
  <1>2. pc[p] = "piped" /\ Cardinality(FreeFDs(p)) >= 2
    BY DEF PipeFds
  <1>3. PICK a \in FDs, b \in FDs : /\ a = Min(FreeFDs(p)) /\ b = Min(FreeFDs(p) \ {a}) /\ a # b
                                    /\ ofile[p][a] = None /\ ofile[p][b] = None
    BY <1>1, <1>2, TwoFree
  <1>4. PICK r \in Handles, w \in Handles : r = rf[p] /\ w = wf[p] /\ IsPipe(r) /\ IsPipe(w)
    BY <1>1, <1>2 DEF PipeOf, Staged, Stage, Closing, TypeOK
  <1>5. /\ ofile' = [ofile EXCEPT ![p][a] = r, ![p][b] = w]
        /\ rf' = [rf EXCEPT ![p] = None] /\ wf' = [wf EXCEPT ![p] = None] /\ pc' = [pc EXCEPT ![p] = "idle"]
        /\ UNCHANGED <<disks, ic, file, pipe, cwd, call, name, dp, ip, put, ret, budget>>
    BY <1>3, <1>4 DEF PipeFds, Drops, Goto, locals
  <1>6. /\ ofile'[p][a] = r /\ ofile'[p][b] = w /\ \A c \in FDs : c # a /\ c # b => ofile'[p][c] = ofile[p][c]
        /\ \A q \in Procs : q # p => ofile'[q] = ofile[q]
        /\ ofile' \in [Procs -> [FDs -> Handles \cup {None}]]
    BY <1>1, <1>3, <1>5 DEF TypeOK
  <1>7. /\ rf'[p] = None /\ wf'[p] = None /\ pc'[p] = "idle"
        /\ \A q \in Procs : q # p => rf'[q] = rf[q] /\ wf'[q] = wf[q] /\ pc'[q] = pc[q]
        /\ rf' \in [Procs -> Handles \cup {None}] /\ wf' \in [Procs -> Handles \cup {None}] /\ pc' \in [Procs -> PC]
    BY <1>1, <1>5 DEF TypeOK, PC
  <1>8. TypeOK'
    BY <1>1, <1>5, <1>6, <1>7 DEF TypeOK, disks
  <1>9. OnlyBy(p)
    BY <1>5, <1>7 DEF OnlyBy
  <1>10. ASSUME NEW g \in Handles PROVE file'[g].ref = Refs(g)' /\ (file'[g].ref = 0 => file[g].ref = 0)
    <2> DEFINE o == [ofile EXCEPT ![p][a] = r]
    <2>1. o = [ofile EXCEPT ![p][a] = r]
      OBVIOUS
    <2> HIDE DEF o
    <2>2. /\ o[p][a] = r /\ o[p][b] = None
          /\ OnlyFd(ofile, o, p, a) /\ OnlyFd(o, ofile', p, b)
      <3>1. /\ o[p][a] = r /\ o[p][b] = None
            /\ \A q \in Procs, c \in FDs : q # p \/ c # a => o[q][c] = ofile[q][c]
            /\ \A q \in Procs, c \in FDs : q # p \/ c # b => ofile'[q][c] = o[q][c]
        BY <1>1, <1>3, <1>6, <2>1 DEF TypeOK
      <3> QED
        BY <3>1 DEF OnlyFd
    <2>3. /\ Cardinality(FdsOf(ofile, g)) \in Nat /\ Cardinality(FdsOf(o, g)) \in Nat
          /\ Cardinality(FdsOf(o, g)) + Is(None, g) = Cardinality(FdsOf(ofile, g)) + Is(r, g)
      <3>1. OnlyFd(ofile, o, p, a) /\ p \in Procs /\ a \in FDs
        BY <2>2
      <3>2. Cardinality(FdsOf(o, g)) + Is(ofile[p][a], g) = Cardinality(FdsOf(ofile, g)) + Is(o[p][a], g)
        BY <3>1, FdsChange
      <3>3. Cardinality(FdsOf(ofile, g)) \in Nat /\ Cardinality(FdsOf(o, g)) \in Nat
        BY Constants, FS_Subset, FS_Product, FS_CardinalityType DEF FdsOf
      <3> QED
        BY <1>3, <2>2, <3>2, <3>3
    <2>4. /\ Cardinality(FdsOf(ofile', g)) \in Nat
          /\ Cardinality(FdsOf(ofile', g)) + Is(None, g) = Cardinality(FdsOf(o, g)) + Is(w, g)
      BY <1>6, <2>2, FdsChange
    <2>5. Is(None, g) = 0 /\ Is(r, g) \in Nat /\ Is(w, g) \in Nat
      BY Constants DEF Is
    <2>6. Fds(g) = FdsOf(ofile, g) /\ Fds(g)' = FdsOf(ofile', g)
      BY DEF Fds, FdsOf
    <2>7. PICK k \in Nat : k = Is(r, g) + Is(w, g)
      BY <2>5
    <2>8. Cardinality(Fds(g)') \in Nat /\ Cardinality(Fds(g)') + 0 = Cardinality(Fds(g)) + k
      BY <2>3, <2>4, <2>5, <2>6, <2>7
    <2>9. /\ Refs(g) \in Nat /\ Refs(g)' \in Nat
          /\ Refs(g)' + 0 + Is(rf[p], g) + Is(wf[p], g) = Refs(g) + k + Is(rf'[p], g) + Is(wf'[p], g)
      BY <1>7, <2>8, RefsMove
    <2>10. Refs(g)' = Refs(g)
      BY <1>4, <1>7, <2>5, <2>7, <2>9
    <2>11. file[g].ref = Refs(g)
      BY FilesAre DEF IInv, FilesInv
    <2> QED
      BY <1>5, <2>10, <2>11
  <1>11. PipeOf(p)' /\ Apart'
    <2>1. PipeOf(p)'
      BY <1>7 DEF PipeOf, Staged, Stage, Closing
    <2>2. Apart'
      BY <1>1, <1>7 DEF TableInv, Apart
    <2> QED
      BY <2>1, <2>2
  <1>12. ASSUME NEW c \in FDs, ofile'[p][c] # None PROVE ofile'[p][c] \in Handles /\ HasType(ofile'[p][c])
    <2>1. CASE c = a \/ c = b
      BY <1>4, <1>6, <2>1 DEF HasType, IsPipe
    <2>2. CASE c # a /\ c # b
      BY <1>1, <1>6, <1>12, <2>2 DEF TableInv, TypeOK
    <2> QED
      BY <2>1, <2>2
  <1>13. FilesCounted' /\ TableInv'
    <2>1. {pc[p], pc'[p]} \cap Closing = {}
      BY <1>2, <1>7 DEF Closing
    <2>2. \A g \in Handles : file'[g].type = file[g].type /\ file'[g].writable = file[g].writable
      BY <1>5
    <2> QED
      BY <1>5, <1>6, <1>7, <1>9, <1>10, <1>11, <1>12, <2>1, <2>2, TypesKept
  <1>14. Alike
    BY <1>5 DEF Alike
  <1>15. {pc[p], pc'[p]} \subseteq Plain
    BY <1>2, <1>7 DEF Plain, Pipes
  <1> QED
    BY <1>5, <1>6, <1>8, <1>9, <1>13, <1>14, <1>15, TableQuiet

(* The descriptors of a child are its parent's. *)
Shares(p, f) == {fd \in FDs : ofile[p][fd] = f}

(* The parent's stay, and the child had none. *)
LEMMA ForkFds ==
  ASSUME NEW p \in Procs, NEW q \in Procs, q # p, NEW g, \A c \in FDs : ofile[q][c] # g,
         \A c \in FDs : ofile'[q][c] = ofile[p][c],
         \A r \in Procs : r # q => ofile'[r] = ofile[r]
  PROVE  /\ Cardinality(Fds(g)) \in Nat /\ Cardinality(Shares(p, g)) \in Nat
         /\ Cardinality(Fds(g)') = Cardinality(Fds(g)) + Cardinality(Shares(p, g))
  <1> DEFINE D == Shares(p, g)
             N == {q} \X D
             F == Fds(g)
             G == Fds(g)'
  <1>1. IsFiniteSet(F) /\ IsFiniteSet(D)
    BY Constants, FS_Subset, FS_Product DEF Fds, Shares
  <1>2. G = F \cup N
    <2>1. ASSUME NEW x \in Procs \X FDs PROVE x \in G <=> x \in F \cup N
      <3>1. PICK r \in Procs, c \in FDs : x = <<r, c>>
        OBVIOUS
      <3>2. /\ x \in G <=> ofile'[r][c] = g
            /\ x \in F <=> ofile[r][c] = g
            /\ x \in N <=> r = q /\ ofile[p][c] = g
        BY <3>1 DEF Fds, Shares
      <3> QED
        BY <3>2
    <2>2. G \subseteq Procs \X FDs /\ F \subseteq Procs \X FDs /\ N \subseteq Procs \X FDs
      BY DEF Fds, Shares
    <2> HIDE DEF G, F, N
    <2> QED
      BY <2>1, <2>2
  <1>3. F \cap N = {}
    <2>1. ASSUME NEW x \in F, x \in N PROVE FALSE
      <3>1. PICK c \in FDs : x = <<q, c>>
        BY <2>1 DEF Shares
      <3>2. ofile[q][c] = g
        BY <3>1, <2>1 DEF Fds
      <3> QED
        BY <3>2
    <2> HIDE DEF F, N
    <2> QED
      BY <2>1
  <1>4. IsFiniteSet({q}) /\ Cardinality({q}) = 1 /\ Cardinality(D) \in Nat /\ Cardinality(F) \in Nat
    BY <1>1, FS_Singleton, FS_CardinalityType
  <1>5. IsFiniteSet(N) /\ Cardinality(N) = Cardinality(D)
    <2> HIDE DEF D
    <2>1. IsFiniteSet({q} \X D) /\ Cardinality({q} \X D) = Cardinality({q}) * Cardinality(D)
      BY <1>1, <1>4, FS_Product
    <2> QED
      BY <1>4, <2>1
  <1> HIDE DEF F, G, N, D
  <1>6. Cardinality(G) = Cardinality(F) + Cardinality(N) - Cardinality({})
    BY <1>1, <1>2, <1>3, <1>5, FS_Union
  <1>7. Cardinality({}) = 0
    BY FS_EmptySet
  <1>8. Cardinality(G) = Cardinality(F) + Cardinality(D)
    BY <1>4, <1>5, <1>6, <1>7
  <1> QED
    BY <1>4, <1>8 DEF F, G, D

(* The part of fork() that the files are about *)
LEMMA ForkStep ==
  ASSUME IInv, NEW p \in Procs, NEW q \in Procs, Fork(p, q)
  PROVE  IInv'
  <1>1. /\ TypeOK /\ PlaceOf(q) /\ LockOf(q) /\ LiveOf(q) /\ Copies(ic, dinode)
        /\ TableInv /\ PipeOf(q)
    BY Mine, IsCopy DEF IInv, TableInv
  <1>2. pc[p] = "idle" /\ budget > 0 /\ pc[q] = "none" /\ q # p /\ Where(q) = "none" /\ pc[q] \notin Putting
    BY DEF Fork, Where, Putting
  <1>3. /\ cwd[q] = None /\ dp[q] = None /\ ip[q] = None /\ put[q] = None
        /\ \A c \in FDs : ofile[q][c] = None
    BY <1>1, <1>2 DEF PlaceOf, HasIp, HoldsIp, HasDp, HoldsDp, Putting, Linking
  <1>4. PICK d \in Inums : d = cwd[p] /\ IsDir(d)
    <2>1. PlaceOf(p) /\ LiveOf(p) /\ Where(p) = "idle"
      BY <1>2, Mine DEF Where, Putting
    <2>2. cwd[p] # None
      BY <2>1 DEF PlaceOf
    <2> QED
      BY <1>1, <2>1, <2>2 DEF TypeOK, LiveOf
  <1>5. /\ ofile' = [ofile EXCEPT ![q] = ofile[p]]
        /\ file' = [f \in Handles |->
                      [file[f] EXCEPT !.ref = @ + Cardinality(Shares(p, f))]]
        /\ cwd' = [cwd EXCEPT ![q] = d] /\ ic' = IGet(ic, d) /\ pc' = [pc EXCEPT ![q] = "idle"]
        /\ budget' = budget - 1
        /\ UNCHANGED <<disks, dinode, entry, pipe, rf, wf, call, name, dp, ip, put, ret>>
    BY <1>4 DEF Fork, Goto, disks, ends, locals, Shares
  <1>6. /\ \A c \in FDs : ofile'[q][c] = ofile[p][c]
        /\ \A r \in Procs : r # q => ofile'[r] = ofile[r]
        /\ ofile' \in [Procs -> [FDs -> Handles \cup {None}]]
    BY <1>1, <1>5 DEF TypeOK
  <1>7. ASSUME NEW g \in Handles
        PROVE  /\ Cardinality(Fds(g)) \in Nat /\ Cardinality(Shares(p, g)) \in Nat
               /\ Cardinality(Fds(g)') = Cardinality(Fds(g)) + Cardinality(Shares(p, g))
    <2>1. \A c \in FDs : ofile[q][c] # g
      BY <1>3, Constants
    <2> QED
      BY <1>2, <1>6, <2>1, ForkFds
  <1>8. ASSUME NEW g \in Handles
        PROVE  /\ file'[g] \in FileSet
               /\ file'[g].ref = file[g].ref + Cardinality(Shares(p, g))
               /\ file'[g].type = file[g].type /\ file'[g].ip = file[g].ip
               /\ file'[g].writable = file[g].writable
    <2>1. PICK x \in FileSet : x = file[g]
      BY <1>1 DEF TypeOK, FileSet
    <2>2. PICK k \in Nat : k = Cardinality(Shares(p, g))
      BY <1>7
    <2>3. file'[g] = [x EXCEPT !.ref = @ + k]
      BY <1>5, <2>1, <2>2
    <2>4. PICK y : y = [x EXCEPT !.ref = @ + k]
      OBVIOUS
    <2>5. y \in FileSet /\ y.ref = x.ref + k /\ y.type = x.type /\ y.ip = x.ip /\ y.writable = x.writable
      BY <2>1, <2>2, <2>4 DEF FileSet
    <2> QED
      BY <2>1, <2>2, <2>3, <2>4, <2>5
  <1>9. file' \in [Handles -> FileSet]
    <2>1. PICK k : k = file'
      OBVIOUS
    <2>2. k = [f \in Handles |-> k[f]]
      BY <1>5, <2>1
    <2>3. \A f \in Handles : k[f] \in FileSet
      BY <1>8, <2>1
    <2> QED
      BY <2>1, <2>2, <2>3
  <1>10. /\ Copies(ic', dinode')
         /\ \A j \in Inums : ic'[j].ref = ic[j].ref + Is(d, j) /\ ic'[j].lock = ic[j].lock
    BY <1>1, <1>5, IGetCopy
  <1>11. /\ pc'[q] = "idle" /\ Where(q)' = "idle" /\ cwd'[q] = d /\ dp'[q] = None /\ ip'[q] = None /\ put'[q] = None
         /\ call'[q] = call[q] /\ name'[q] = name[q]
    BY <1>1, <1>3, <1>5 DEF TypeOK, Where, Putting
  <1>12. TypeOK'
    <2>1. /\ cwd' \in [Procs -> Inums \cup {None}] /\ pc' \in [Procs -> PC]
          /\ budget' \in 0..MaxCalls
      BY <1>1, <1>2, <1>5, FilesAssumption DEF TypeOK, PC
    <2>2. ic' \in Caches /\ file' \in [Handles -> FileSet]
      BY <1>9, <1>10 DEF Copies
    <2> QED
      BY <1>1, <1>5, <1>6, <2>1, <2>2 DEF TypeOK, FileSet, Caches
  <1>13. OnlyBy(q)
    BY <1>1, <1>5 DEF OnlyBy, TypeOK
  <1>14. ~Linking(q)' /\ ~Linking(q)
    BY <1>2, <1>11 DEF Linking
  <1>15. PlaceOf(q)'
    BY <1>4, <1>11, <1>14, Constants DEF PlaceOf, HasDp, HasIp, HoldsDp, HoldsIp, Putting
  <1>16. Finds(q)
    <2>1. ASSUME NEW j \in Inums, Refers(q, j)' PROVE Sees(q, j)
      <3>1. CASE \E g \in Handles : file'[g].type = "INODE" /\ file'[g].ip = j
        BY <1>8, <3>1 DEF Sees
      <3>2. CASE cwd'[q] = j \/ dp'[q] = j \/ ip'[q] = j \/ put'[q] = j
        BY <1>4, <1>11, <3>2, Constants DEF Sees
      <3> QED
        BY <2>1, <3>1, <3>2 DEF Refers
    <2>2. \A j \in Inums : (q \in Pending(j))' => q \in Pending(j)
      BY <1>11, <1>14 DEF Pending
    <2>3. \A g \in Handles : file'[g].type = "INODE" => file'[g].ip \in Inums
      BY <1>8, Mine
    <2> QED
      BY <1>4, <1>11, <1>14, <2>1, <2>2, <2>3 DEF Finds
  <1>17. Locks(q) /\ LockOf(q)'
    BY <1>1, <1>2, <1>3, <1>10, <1>11, Constants DEF Locks, LockOf, Holds, HoldsDp, HoldsIp
  <1>18. RefsCounted'
    <2>1. ASSUME NEW j \in Inums PROVE ic'[j].ref = Held(j)'
      <3>1. OpenOn(j)' = OpenOn(j)
        BY <1>8 DEF OpenOn
      <3>2. Count(cwd', j) \in Nat /\ Count(cwd, j) \in Nat /\ Count(cwd', j) = Count(cwd, j) + Is(d, j)
        <4>1. OnlyFor(cwd, cwd', q)
          BY <1>13 DEF OnlyBy, OnlyFor
        <4>2. Count(cwd', j) + Is(cwd[q], j) = Count(cwd, j) + Is(cwd'[q], j)
          BY <4>1, CountMove
        <4>3. Is(cwd[q], j) = 0 /\ Is(cwd'[q], j) = Is(d, j)
          BY <1>3, <1>11, Constants DEF Is
        <4>4. Count(cwd', j) \in Nat /\ Count(cwd, j) \in Nat
          BY CountNat
        <4>5. Is(d, j) \in Nat
          BY DEF Is
        <4> QED
          BY <4>2, <4>3, <4>4, <4>5
      <3>3. Held(j)' = Cardinality(OpenOn(j)) + Count(cwd', j) + Is(j, root)
                       + Count(dp, j) + Count(ip, j) + Count(put, j)
        <4>1. Cardinality(In(j)') = Count(cwd', j)
          BY DEF In, Count
        <4>2. Users(j)' = Cardinality(OpenOn(j)) + Cardinality(In(j)') + Is(j, root)
          BY <3>1 DEF Users, Is
        <4>3. Held(j)' = Users(j)' + Count(dp, j) + Count(ip, j) + Count(put, j)
          BY <1>5 DEF Held, Count
        <4> QED
          BY <4>1, <4>2, <4>3
      <3>4. ic[j].ref = Cardinality(OpenOn(j)) + Count(cwd, j) + Is(j, root)
                        + Count(dp, j) + Count(ip, j) + Count(put, j)
        BY Referred DEF IInv, FilesInv
      <3>5. /\ Count(dp, j) \in Nat /\ Count(ip, j) \in Nat /\ Count(put, j) \in Nat
            /\ Cardinality(OpenOn(j)) \in Nat /\ Is(j, root) \in Nat /\ Is(d, j) \in Nat
        BY CountNat, OpenFinite DEF Is
      <3> QED
        BY <1>10, <3>2, <3>3, <3>4, <3>5
    <2> QED
      BY <2>1, RefsThen
  <1>19. ASSUME NEW g \in Handles PROVE file'[g].ref = Refs(g)' /\ (file'[g].ref = 0 => file[g].ref = 0)
    <2>1. PICK k \in Nat : k = Cardinality(Shares(p, g))
      BY <1>7
    <2>2. Cardinality(Fds(g)') \in Nat /\ Cardinality(Fds(g)') + 0 = Cardinality(Fds(g)) + k
      BY <1>7, <2>1
    <2>3. \A r \in Procs : r # q => rf'[r] = rf[r] /\ wf'[r] = wf[r]
      BY <1>5
    <2>4. /\ Refs(g) \in Nat /\ Refs(g)' \in Nat
          /\ Refs(g)' + 0 + Is(rf[q], g) + Is(wf[q], g) = Refs(g) + k + Is(rf'[q], g) + Is(wf'[q], g)
      BY <2>2, <2>3, RefsMove
    <2>5. Is(rf[q], g) \in Nat /\ Is(wf[q], g) \in Nat /\ rf' = rf /\ wf' = wf
      BY <1>5 DEF Is
    <2>6. Refs(g)' = Refs(g) + k
      BY <2>4, <2>5
    <2>7. file[g].ref = Refs(g)
      BY FilesAre DEF IInv, FilesInv
    <2>8. file'[g].ref = file[g].ref + k
      BY <1>8, <2>1
    <2> QED
      BY <2>1, <2>4, <2>6, <2>7, <2>8
  <1>20. PipeOf(q)' /\ Apart'
    <2>1. rf[q] = None /\ wf[q] = None
      BY <1>1, <1>2 DEF PipeOf, Staged, Stage, Closing
    <2> QED
      BY <1>1, <1>5, <1>11, <2>1 DEF PipeOf, Staged, Stage, Closing, TableInv, Apart
  <1>21. \A c \in FDs : ofile'[q][c] # None => ofile'[q][c] \in Handles /\ HasType(ofile'[q][c])
    BY <1>1, <1>6 DEF TableInv, TypeOK
  <1>22. FilesCounted' /\ TableInv'
    <2>1. {pc[q], pc'[q]} \cap Closing = {}
      BY <1>2, <1>11 DEF Closing
    <2>2. \A g \in Handles : file'[g].type = file[g].type /\ file'[g].writable = file[g].writable
      BY <1>8
    <2>3. \A r \in Procs : r # q => ofile'[r] = ofile[r] /\ rf'[r] = rf[r] /\ wf'[r] = wf[r]
      BY <1>5, <1>6
    <2> QED
      BY <1>5, <1>13, <1>19, <1>20, <1>21, <2>1, <2>2, <2>3, TypesKept
  <1>23. NewOf(q)' /\ FreeOf(q)' /\ pc'[q] # "panic" /\ CacheInv'
    BY <1>10, <1>11, CopyIs DEF NewOf, FreeOf
  <1>24. UNCHANGED disks
    BY <1>5
  <1> QED
    BY <1>6, <1>12, <1>13, <1>15, <1>16, <1>17, <1>18, <1>22, <1>23, <1>24, Quiet

-----------------------------------------------------------------------------
(* The invariant holds at the start. *)
LEMMA InitTables ==
  ASSUME Init
  PROVE  /\ \A i \in Inums : OpenOn(i) = {}
         /\ \A f \in Handles : Fds(f) = {} /\ file[f] = NoFile
         /\ \A p \in Procs : rf[p] = None /\ wf[p] = None
         /\ \A p \in Procs : /\ cwd[p] \in {root, sub} /\ dp[p] = None /\ ip[p] = None /\ put[p] = None
                             /\ pc[p] = "idle" /\ call[p] = "other" /\ Where(p) = "idle"
                             /\ ~Linking(p) /\ \A fd \in FDs : ofile[p][fd] = None
  <1>1. \A f \in Handles : file[f] = NoFile
    BY DEF Init
  <1>2. \A i \in Inums : OpenOn(i) = {}
    BY <1>1 DEF OpenOn, NoFile
  <1>3. \A p \in Procs : /\ cwd[p] \in {root, sub} /\ dp[p] = None /\ ip[p] = None /\ put[p] = None
                         /\ pc[p] = "idle" /\ call[p] = "other"
                         /\ \A fd \in FDs : ofile[p][fd] = None
    BY DEF Init
  <1>4. \A p \in Procs : Where(p) = "idle"
    BY <1>3 DEF Where, Putting
  <1>5. \A p \in Procs : ~Linking(p)
    BY <1>3 DEF Linking
  <1>6. ASSUME NEW f \in Handles PROVE Fds(f) = {}
    <2>1. ASSUME NEW x \in Procs \X FDs PROVE ofile[x[1]][x[2]] # f
      <3>1. PICK p \in Procs, fd \in FDs : x = <<p, fd>>
        OBVIOUS
      <3> QED
        BY <1>3, <3>1, Constants
    <2> QED
      BY <2>1 DEF Fds
  <1>7. \A p \in Procs : rf[p] = None /\ wf[p] = None
    BY DEF Init
  <1> QED
    BY <1>1, <1>2, <1>3, <1>4, <1>5, <1>6, <1>7

(* The first state has the types. *)
LEMMA InitType == ASSUME Init PROVE TypeOK
  <1>1. entry \in [Inums -> [Names -> Inums \cup {None}]]
    <2>1. PICK n \in Names :
            entry = [d \in Inums |-> IF d = root THEN [NoEntries EXCEPT ![n] = sub] ELSE NoEntries]
      BY DEF Init
    <2>2. NoEntries \in [Names -> Inums \cup {None}]
      BY DEF NoEntries
    <2>3. [NoEntries EXCEPT ![n] = sub] \in [Names -> Inums \cup {None}]
      BY <2>2, Constants
    <2> QED
      BY <2>1, <2>2, <2>3
  <1>2. ic \in [Inums -> [ref : Nat, valid : BOOLEAN, type : Types, nlink : Nat, lock : Procs \cup {NoProc}]]
    <2>1. ASSUME NEW i \in Inums
          PROVE  Cardinality({p \in Procs : cwd[p] = i}) + (IF i = root THEN 1 ELSE 0) \in Nat
      <3>1. Cardinality({p \in Procs : cwd[p] = i}) \in Nat
        BY Constants, FS_Subset, FS_CardinalityType
      <3> QED
        BY <3>1
    <2> QED
      BY <2>1 DEF Init, Types
  <1>3. dinode \in [Inums -> [type : Types, nlink : Nat]]
    BY DEF Init, Types
  <1>4. file \in [Handles -> FileSet]
    BY DEF Init, NoFile, FileSet
  <1>5. cwd \in [Procs -> Inums \cup {None}]
    BY Constants DEF Init
  <1>6. budget \in 0..MaxCalls
    BY FilesAssumption DEF Init
  <1> QED
    BY <1>1, <1>2, <1>3, <1>4, <1>5, <1>6 DEF Init, TypeOK, FileSet, PC, Calls

(* The first state satisfies the invariant. *)
LEMMA InitIInv == Init => IInv
  <1> SUFFICES ASSUME Init PROVE IInv
    OBVIOUS
  <1> USE InitTables
  <1>1. TypeOK
    BY InitType
  <1>2. Cardinality({}) = 0 /\ IsFiniteSet({})
    BY FS_EmptySet
  <1>3. PICK n \in Names :
          entry = [d \in Inums |-> IF d = root THEN [NoEntries EXCEPT ![n] = sub] ELSE NoEntries]
    BY DEF Init
  <1>4. /\ entry[root][n] = sub
        /\ \A d \in Inums, m \in Names : d # root \/ m # n => entry[d][m] = None
        /\ \A d \in Inums : d # root => entry[d] = NoEntries
    BY <1>3, Constants DEF NoEntries
  <1>5. /\ \A i \in Inums : dinode[i].type = (IF i \in {root, sub} THEN "DIR" ELSE "free")
        /\ dinode[root].nlink = 2 /\ dinode[sub].nlink = 1
        /\ \A i \in Inums : i \notin {root, sub} => dinode[i].nlink = 0
    BY Constants DEF Init
  <1>6. RefsCounted
    <2>1. ASSUME NEW i \in Inums PROVE ic[i].ref = Held(i)
      <3>1. ic[i].ref = Count(cwd, i) + Is(i, root)
        BY DEF Init, Count, Is
      <3>2. Count(dp, i) = 0 /\ Count(ip, i) = 0 /\ Count(put, i) = 0
        <4>1. {p \in Procs : dp[p] = i} = {} /\ {p \in Procs : ip[p] = i} = {} /\ {p \in Procs : put[p] = i} = {}
          BY Constants
        <4> QED
          BY <1>2, <4>1 DEF Count
      <3>3. Cardinality(OpenOn(i)) = 0
        BY <1>2
      <3>4. Users(i) = Cardinality(OpenOn(i)) + Count(cwd, i) + Is(i, root) /\ Count(cwd, i) \in Nat
        BY UsersIs
      <3> QED
        BY <3>1, <3>2, <3>3, <3>4 DEF Held, Is
    <2> QED
      BY <2>1, HeldIs
  <1>7. FilesCounted
    <2>1. \A f \in Handles : file[f].ref = 0
      BY DEF Init, NoFile
    <2>2. \A f \in Handles : Refs(f) = 0
      <3>1. ASSUME NEW f \in Handles PROVE Refs(f) = 0
        <4>1. {p \in Procs : rf[p] = f} = {} /\ {p \in Procs : wf[p] = f} = {} /\ Fds(f) = {}
          BY Constants
        <4>2. Cardinality(Fds(f)) = 0
          BY <1>2, <4>1
        <4>3. Count(rf, f) = 0 /\ Count(wf, f) = 0
          BY <1>2, <4>1 DEF Count
        <4> QED
          BY <4>2, <4>3 DEF Refs
      <3> QED
        BY <3>1
    <2>3. EndsCounted
      BY DEF EndsCounted, Init, IsPipe, NoFile
    <2> QED
      BY <2>1, <2>2, <2>3, FilesAre
  <1>8. NoPanic
    BY DEF NoPanic
  <1>9. PlaceInv
    BY Constants DEF PlaceInv, PlaceOf, Putting, HasDp, HasIp, HoldsDp, HoldsIp
  <1>10. LockInv
    <2>1. \A i \in Inums : ic[i].lock = NoProc
      BY DEF Init
    <2> QED
      BY <2>1, Constants DEF LockInv, LockOf, Holds, HoldsDp, HoldsIp
  <1>11. LiveInv
    <2>1. IsDir(root) /\ IsDir(sub)
      BY <1>5, Constants DEF IsDir
    <2>2. OpenLive
      BY DEF OpenLive, Init, NoFile
    <2>3. \A p \in Procs : cwd[p] = root \/ cwd[p] = sub
      OBVIOUS
    <2>4. \A p \in Procs : LiveOf(p)
      BY <2>1, <2>3 DEF LiveOf
    <2> QED
      BY <2>1, <2>2, <2>4 DEF LiveInv
  <1>12. CacheInv
    BY DEF CacheInv, CacheOf, Init
  <1>13. DiskInv
    BY <1>4, <1>5 DEF DiskInv
  <1>14. LinksInv
    <2>1. ASSUME NEW i \in Inums
          PROVE  dinode[i].nlink >= Cardinality(Entries(i)) + Cardinality(ChildDirs(i)) + Cardinality(Pending(i))
      <3>1. Cardinality(Pending(i)) = 0
        <4>1. Pending(i) = {}
          BY Constants DEF Pending
        <4> QED
          BY <1>2, <4>1
      <3>2. /\ i = sub => Entries(i) = {<<root, n>>}
            /\ i # sub => Entries(i) = {}
        <4>1. ASSUME NEW d \in Inums, NEW m \in Names PROVE entry[d][m] = i <=> i = sub /\ d = root /\ m = n
          BY <1>4, Constants
        <4>2. \A e \in Inums \X Names : e \in Entries(i) <=> i = sub /\ e = <<root, n>>
          <5>1. ASSUME NEW e \in Inums \X Names PROVE e \in Entries(i) <=> i = sub /\ e = <<root, n>>
            <6>1. PICK d \in Inums, m \in Names : e = <<d, m>>
              OBVIOUS
            <6>2. e \in Entries(i) <=> entry[d][m] = i
              BY <6>1 DEF Entries
            <6> QED
              BY <4>1, <6>1, <6>2
          <5> QED
            BY <5>1
        <4>3. Entries(i) \subseteq Inums \X Names /\ <<root, n>> \in Inums \X Names
          BY Constants DEF Entries
        <4> QED
          BY <4>2, <4>3
      <3>3. /\ i = root => ChildDirs(i) = {n}
            /\ i # root => ChildDirs(i) = {}
        BY <1>4, <1>5, Constants DEF ChildDirs, IsDir
      <3>4. /\ Cardinality(Entries(i)) = (IF i = sub THEN 1 ELSE 0)
            /\ Cardinality(ChildDirs(i)) = (IF i = root THEN 1 ELSE 0)
        <4>1. Cardinality({n}) = 1 /\ Cardinality({<<root, n>>}) = 1
          BY FS_Singleton
        <4>2. Cardinality(Entries(i)) = (IF i = sub THEN 1 ELSE 0)
          BY <1>2, <3>2, <4>1
        <4>3. Cardinality(ChildDirs(i)) = (IF i = root THEN 1 ELSE 0)
          BY <1>2, <3>3, <4>1
        <4> QED
          BY <4>2, <4>3
      <3> QED
        BY <1>1, <1>5, <3>1, <3>4, Constants DEF TypeOK
    <2> QED
      BY <2>1 DEF LinksInv
  <1>15. NewInv /\ FreeingInv
    BY DEF NewInv, NewOf, FreeingInv, FreeOf
  <1>16. TableInv
    <2>1. \A f \in Handles : ~HasType(f) /\ ~IsPipe(f)
      BY DEF HasType, IsPipe, NoFile
    <2>2. \A p \in Procs : PipeOf(p)
      BY DEF PipeOf, Staged, Stage, Closing
    <2>3. Apart /\ EndsOne
      BY <2>1 DEF Apart, EndsOne, Closing
    <2> QED
      BY <2>1, <2>2, <2>3 DEF TableInv
  <1> QED
    BY <1>1, <1>6, <1>7, <1>8, <1>9, <1>10, <1>11, <1>12, <1>13, <1>14, <1>15, <1>16 DEF IInv, FilesInv

(* Nothing happens. *)
LEMMA StutterIInv == IInv /\ UNCHANGED vars => IInv'
  <1> SUFFICES ASSUME IInv, UNCHANGED vars PROVE IInv'
    OBVIOUS
  <1>1. /\ dinode' = dinode /\ entry' = entry /\ ic' = ic /\ file' = file /\ pipe' = pipe /\ ofile' = ofile
        /\ rf' = rf /\ wf' = wf /\ cwd' = cwd /\ pc' = pc /\ call' = call /\ name' = name /\ dp' = dp /\ ip' = ip /\ put' = put
        /\ ret' = ret /\ budget' = budget
    BY DEF vars, disks, ftable, locals
  <1>2. TypeOK'
    BY <1>1 DEF IInv, FilesInv, TypeOK
  <1>3. RefsCounted'
    BY <1>1 DEF IInv, FilesInv, RefsCounted, Users, OpenOn, In
  <1>4. FilesCounted'
    BY <1>1 DEF IInv, FilesInv, FilesCounted
  <1>5. \A p \in Procs : Where(p)' = Where(p) /\ Linking(p)' = Linking(p)
    BY <1>1 DEF Where, Linking
  <1>6. NoPanic' /\ PlaceInv'
    BY <1>1, <1>5 DEF IInv, NoPanic, PlaceInv, PlaceOf
  <1>7. LockInv'
    BY <1>1, <1>5 DEF IInv, LockInv, LockOf, Holds
  <1>8. LiveInv'
    BY <1>1, <1>5 DEF IInv, LiveInv, LiveOf, OpenLive, Live, IsDir
  <1>9. CacheInv' /\ DiskInv'
    BY <1>1 DEF IInv, CacheInv, CacheOf, DiskInv, Live
  <1>10. LinksInv'
    <2>1. \A i \in Inums : Entries(i)' = Entries(i) /\ ChildDirs(i)' = ChildDirs(i)
      BY <1>1 DEF Entries, ChildDirs, IsDir
    <2>2. \A i \in Inums : Pending(i)' = Pending(i)
      BY <1>1, <1>5 DEF Pending
    <2> QED
      BY <1>1, <2>1, <2>2 DEF IInv, LinksInv
  <1>11. NewInv' /\ FreeingInv'
    BY <1>1 DEF IInv, NewInv, NewOf, FreeingInv, FreeOf, Unused
  <1>12. TableInv'
    BY <1>1 DEF IInv, TableInv, IsPipe, HasType, PipeOf, Staged, Stage, Apart, EndsOne
  <1> QED
    BY <1>2, <1>3, <1>4, <1>6, <1>7, <1>8, <1>9, <1>10, <1>11, <1>12 DEF IInv, FilesInv

(* Every step keeps the invariant. *)
LEMMA NextIInv == IInv /\ [Next]_vars => IInv'
  <1> SUFFICES ASSUME IInv, [Next]_vars PROVE IInv'
    OBVIOUS
  <1>1. CASE UNCHANGED vars
    BY <1>1, StutterIInv
  <1>2. ASSUME NEW p \in Procs, Step(p) PROVE IInv'
    <2>1. CASE namex(p)
      BY <2>1, BeginStep, WalkParentStep, WalkStep DEF namex
    <2>2. CASE iput(p)
      BY <2>2, IPutStep, IFreeStep, DerefStep DEF iput
    <2>3. CASE create(p)
      BY <2>3, CreateOldStep, CreateNewStep, MakeStep, MadeStep, ExistsStep DEF create
    <2>4. CASE Open(p) \/ Chdir(p)
      BY <2>4, OpensStep, ChdirStep
    <2>5. CASE sys_link(p)
      BY <2>5, LinkCountStep, LinkDirStep, LinkOldStep, LinkNewStep, LinkedStep,
         UnlockParentStep, LinkUndoStep DEF sys_link
    <2>6. CASE sys_unlink(p)
      BY <2>6, UnlinkLookupStep, UnlinkFullStep, UnlockParentStep, UnlinkEntryStep, UnlinkDropStep DEF sys_unlink
    <2>7. CASE sys_pipe(p)
      BY <2>7, PipeFirstStep, PipeAllocStep, PipeBadStep, PipeFdsStep, PipeNoFdsStep, PipeUndoStep,
         PipeUndo1Step DEF sys_pipe, pipealloc
    <2>8. CASE \E fd \in FDs : Close(p, fd) \/ Dup(p, fd)
      BY <2>8, CloseStep, DupStep
    <2>9. CASE \E q \in Procs : Fork(p, q)
      BY <2>9, ForkStep
    <2>10. CASE exit(p)
      BY <2>10, ExitStep, ExitCloseStep, ExitPutStep DEF exit
    <2> QED
      BY <1>2, <2>1, <2>2, <2>3, <2>4, <2>5, <2>6, <2>7, <2>8, <2>9, <2>10, PipeCloseStep DEF Step
  <1> QED
    BY <1>1, <1>2 DEF Next

(* What holds between any two steps of any processes, in the calls as well *)
(* as outside them.                                                        *)
THEOREM Inductive == Spec => []IInv
  BY InitIInv, NextIInv, PTL DEF Spec

(* Every reference to an inode and to an open file is counted, and the     *)
(* pipe is open as long as a file stands for its end.                      *)
THEOREM FilesInvHolds == Spec => []FilesInv
  <1>1. IInv => FilesInv
    BY DEF IInv
  <1> QED
    BY <1>1, Inductive, PTL

(* No name, no open file and no directory leads ilock() to a freed inode,  *)
(* and sys_unlink() finds a link to count down.                            *)
THEOREM NoPanicHolds == Spec => []NoPanic
  <1>1. IInv => NoPanic
    BY DEF IInv
  <1> QED
    BY <1>1, Inductive, PTL

(* nlink on disk is never less than the entries and the ".." that lead to  *)
(* an inode, in the middle of link() and unlink() too.                     *)
THEOREM LinksCoverHolds == Spec => []LinksCover
  <1>1. IInv => LinksCover
    <2> SUFFICES ASSUME IInv PROVE LinksCover
      OBVIOUS
    <2>1. ASSUME NEW i \in Inums
          PROVE  dinode[i].nlink >= Cardinality(Entries(i)) + Cardinality(ChildDirs(i))
      <3>1. dinode[i].nlink >= Cardinality(Entries(i)) + Cardinality(ChildDirs(i)) + Cardinality(Pending(i))
        BY DEF IInv, LinksInv
      <3>2. dinode[i].nlink \in Nat
        BY DEF IInv, FilesInv, TypeOK
      <3>3. /\ Cardinality(Entries(i)) \in Nat /\ Cardinality(ChildDirs(i)) \in Nat
            /\ Cardinality(Pending(i)) \in Nat
        BY Constants, FS_Subset, FS_Product, FS_CardinalityType DEF Entries, ChildDirs, Pending
      <3> QED
        BY <3>1, <3>2, <3>3
    <2> QED
      BY <2>1 DEF LinksCover, Entries, ChildDirs, IsDir
  <1> QED
    BY <1>1, Inductive, PTL

(* The copy of an inode in memory is what the disk holds, also after its   *)
(* number was freed and allocated again.                                   *)
THEOREM CacheIsTrueHolds == Spec => []CacheIsTrue
  <1>1. IInv => CacheIsTrue
    BY DEF IInv, CacheInv, CacheOf, CacheIsTrue
  <1> QED
    BY <1>1, Inductive, PTL

-----------------------------------------------------------------------------
(* What programs see: the types but of the inodes that create() has not    *)
(* yet named, and the users.                                               *)
Kind ==
    [i \in Inums |-> IF \E p \in Procs : pc[p] = "new" /\ ip[p] = i THEN "free" ELSE dinode[i].type]

Usage == [i \in Inums |-> Users(i)]

(* What nobody uses has no users. *)
LEMMA NoUsers ==
  ASSUME NEW i \in Inums, Unused(i)
  PROVE  Users(i) = 0
  <1>1. OpenOn(i) = {} /\ In(i) = {} /\ i # root
    BY DEF Unused, OpenOn, In
  <1> QED
    BY <1>1, FS_EmptySet DEF Users

(* What is free for programs has no users. *)
FreeUnused == \A i \in Inums : Users(i) \in Nat /\ (Kind[i] = "free" => Users(i) = 0)

(* Neither a free inode nor one without a name yet has users. *)
LEMMA FreeHasNone == IInv => FreeUnused
  <1> SUFFICES ASSUME IInv, NEW i \in Inums PROVE Users(i) \in Nat /\ (Kind[i] = "free" => Users(i) = 0)
    BY DEF FreeUnused
  <1>1. Users(i) \in Nat
    BY UsersIs
  <1>2. ASSUME NEW p \in Procs, pc[p] = "new", ip[p] = i PROVE Unused(i)
    BY <1>2, Mine DEF NewOf
  <1>3. ASSUME ~Live(i) PROVE Unused(i)
    <2>1. i # root
      BY <1>3 DEF IInv, LiveInv, IsDir, Live
    <2>2. ASSUME NEW p \in Procs PROVE cwd[p] # i /\ dp[p] # i
      BY <1>3, Mine, Constants DEF LiveOf, IsDir, Live
    <2>3. \A f \in Handles : file[f].type = "INODE" => file[f].ip # i
      BY <1>3 DEF IInv, LiveInv, OpenLive
    <2> QED
      BY <2>1, <2>2, <2>3 DEF Unused
  <1>4. CASE Kind[i] = "free"
    <2>1. Unused(i)
      BY <1>2, <1>3, <1>4 DEF Kind, Live
    <2> QED
      BY <1>1, <2>1, NoUsers
  <1> QED
    BY <1>1, <1>4

(* A step that programs see at most as a change of users. *)
LEMMA UseStep ==
  ASSUME IInv', Kind' = Kind, entry' = entry
  PROVE  Store!FNext
  <1>1. FreeUnused'
    BY FreeHasNone, PTL
  <1>2. Usage' \in [Inums -> Nat]
    BY <1>1 DEF FreeUnused, Usage
  <1>3. \A i \in Inums : Kind[i] = "free" => Usage'[i] = 0
    BY <1>1 DEF FreeUnused, Usage
  <1>4. Store!Use
    BY <1>2, <1>3 DEF Store!Use, Kind, Usage
  <1> QED
    BY <1>4 DEF Store!FNext

(* The steps of p that neither begin nor end its new inode. *)
Passes(p) ==
    /\ \A q \in Procs : q # p => pc'[q] = pc[q] /\ ip'[q] = ip[q]
    /\ pc[p] # "new" /\ pc'[p] # "new"

KeepTypes == \A i \in Inums : dinode'[i].type = dinode[i].type

(* Programs see such a step at most as a change of users. *)
LEMMA PassesUse ==
  ASSUME IInv', NEW p \in Procs, Passes(p), KeepTypes, entry' = entry
  PROVE  Store!FNext
  <1>1. \A i \in Inums : (\E q \in Procs : pc'[q] = "new" /\ ip'[q] = i) <=> (\E q \in Procs : pc[q] = "new" /\ ip[q] = i)
    BY DEF Passes
  <1>2. Kind' = Kind
    BY <1>1 DEF Kind, KeepTypes
  <1> QED
    BY <1>2, UseStep

(* iupdate() of a link count. *)
LEMMA LinkTypes ==
  ASSUME NEW d \in Disks, NEW i, NEW k
  PROVE  \A j \in Inums : DLink(d, i, k)[j].type = d[j].type
  <1>1. ASSUME NEW j \in Inums PROVE DLink(d, i, k)[j].type = d[j].type
    <2>1. PICK x \in [type : Types, nlink : Nat] : x = d[j]
      BY DEF Disks
    <2>2. DLink(d, i, k)[j] = x \/ DLink(d, i, k)[j] = [x EXCEPT !.nlink = @ + k]
      BY <2>1 DEF DLink, Disks
    <2> QED
      BY <2>1, <2>2
  <1> QED
    BY <1>1

(* The steps between, which programs do not see, or as a change of users.  *)
LEMMA PathSees ==
  ASSUME IInv, IInv', NEW p \in Procs, namex(p) \/ Open(p) \/ Chdir(p)
  PROVE  Store!FNext
  <1>1. pc \in [Procs -> PC] /\ ip \in [Procs -> Inums \cup {None}]
    BY DEF IInv, FilesInv, TypeOK
  <1>2. ASSUME NEW c \in Calls, NEW n \in Names, NEW d \in {root, cwd[p]}, Begin(p, c, n, d) PROVE Passes(p) /\ UNCHANGED disks
    BY <1>1, <1>2 DEF Begin, Goto, Passes
  <1>3. WalkParent(p) => Passes(p) /\ UNCHANGED disks
    BY <1>1 DEF WalkParent, LockedGoto, Goto, Passes, locals
  <1>4. Walk(p) => Passes(p) /\ UNCHANGED disks
    BY <1>1 DEF Walk, LockedGoto, Goto, Passes
  <1>5. Open(p) => Passes(p) /\ UNCHANGED disks
    BY <1>1 DEF Open, OpenFile, UnlockPut, Put, Drops, LockedGoto, Goto, Passes
  <1>6. Chdir(p) => Passes(p) /\ UNCHANGED disks
    BY <1>1 DEF Chdir, UnlockPut, Put, Drops, LockedGoto, Goto, Passes
  <1>7. Passes(p) /\ UNCHANGED disks
    BY <1>2, <1>3, <1>4, <1>5, <1>6 DEF namex
  <1>8. KeepTypes /\ entry' = entry
    BY <1>7 DEF KeepTypes, disks
  <1> QED
    BY <1>7, <1>8, PassesUse

(* iput() that does not free *)
LEMMA PutSees ==
  ASSUME IInv, IInv', NEW p \in Procs, IPut(p) \/ Deref(p)
  PROVE  Store!FNext
  <1>1. pc \in [Procs -> PC] /\ ip \in [Procs -> Inums \cup {None}]
    BY DEF IInv, FilesInv, TypeOK
  <1>2. pc[p] \in Putting => ret[p] # "new"
    BY Mine DEF PlaceOf, Back
  <1>3. IPut(p) => Passes(p) /\ UNCHANGED disks
    BY <1>1 DEF IPut, Goto, Passes, locals
  <1>4. Deref(p) => Passes(p) /\ UNCHANGED disks
    BY <1>1, <1>2 DEF Deref, Goto, Passes, Putting
  <1>5. KeepTypes /\ entry' = entry
    BY <1>3, <1>4 DEF KeepTypes, disks
  <1> QED
    BY <1>3, <1>4, <1>5, PassesUse

(* create() of what exists, and the end of the calls that create *)
LEMMA CreateSees ==
  ASSUME IInv, IInv', NEW p \in Procs, CreateOld(p) \/ Made(p) \/ Exists(p)
  PROVE  Store!FNext
  <1>1. pc \in [Procs -> PC] /\ ip \in [Procs -> Inums \cup {None}]
    BY DEF IInv, FilesInv, TypeOK
  <1>2. CreateOld(p) => Passes(p) /\ UNCHANGED disks
    BY <1>1 DEF CreateOld, LockedGoto, Goto, Passes
  <1>3. Made(p) => Passes(p) /\ UNCHANGED disks
    BY <1>1 DEF Made, OpenFile, UnlockPut, Put, Drops, LockedGoto, Goto, Passes
  <1>4. Exists(p) => Passes(p) /\ UNCHANGED disks
    BY <1>1 DEF Exists, OpenFile, UnlockPut, Put, Drops, LockedGoto, Goto, Passes
  <1>5. KeepTypes /\ entry' = entry
    BY <1>2, <1>3, <1>4 DEF KeepTypes, disks
  <1> QED
    BY <1>2, <1>3, <1>4, <1>5, PassesUse

(* sys_link() but for the entry it makes *)
LEMMA LinkSees ==
  ASSUME IInv, IInv', NEW p \in Procs, sys_link(p),
         ~(LinkEntry(p) /\ entry[dp[p]][name[p]] = None)
  PROVE  Store!FNext
  <1>1. pc \in [Procs -> PC] /\ ip \in [Procs -> Inums \cup {None}] /\ dinode \in Disks
    BY DEF IInv, FilesInv, TypeOK, Disks
  <1>2. ASSUME NEW n \in Names, NEW d \in {root, cwd[p]}, LinkCount(p, n, d)
        PROVE  Passes(p) /\ KeepTypes /\ entry' = entry
    <2>1. dinode' = DLink(dinode, ip[p], 1) /\ entry' = entry
      BY <1>2 DEF LinkCount
    <2>2. Passes(p)
      BY <1>1, <1>2 DEF LinkCount, LockedGoto, Goto, Passes
    <2> QED
      BY <1>1, <2>1, <2>2, LinkTypes DEF KeepTypes
  <1>3. LinkDir(p) => Passes(p) /\ KeepTypes /\ entry' = entry
    BY <1>1 DEF LinkDir, UnlockPut, Put, Drops, LockedGoto, Goto, Passes, KeepTypes, disks
  <1>4. LinkEntry(p) => Passes(p) /\ KeepTypes /\ entry' = entry
    BY <1>1 DEF LinkEntry, Put, Drops, LockedGoto, Goto, Passes, KeepTypes
  <1>5. Linked(p) => Passes(p) /\ KeepTypes /\ entry' = entry
    BY <1>1 DEF Linked, Put, Drops, Goto, Passes, KeepTypes, disks
  <1>6. LinkBad(p) => Passes(p) /\ KeepTypes /\ entry' = entry
    BY <1>1 DEF LinkBad, UnlockParent, Goto, Passes, KeepTypes, disks
  <1>7. LinkUndo(p) => Passes(p) /\ KeepTypes /\ entry' = entry
    <2> SUFFICES ASSUME LinkUndo(p) PROVE Passes(p) /\ KeepTypes /\ entry' = entry
      OBVIOUS
    <2>1. dinode' = DLink(dinode, ip[p], -1) /\ entry' = entry
      BY DEF LinkUndo
    <2>2. Passes(p)
      BY <1>1 DEF LinkUndo, UnlockPut, Put, Drops, LockedGoto, Goto, Passes
    <2> QED
      BY <1>1, <2>1, <2>2, LinkTypes DEF KeepTypes
  <1>8. Passes(p) /\ KeepTypes /\ entry' = entry
    BY <1>2, <1>3, <1>4, <1>5, <1>6, <1>7 DEF sys_link
  <1> QED
    BY <1>8, PassesUse

(* sys_unlink() but for the entry it clears *)
LEMMA UnlinkSees ==
  ASSUME IInv, IInv', NEW p \in Procs, UnlinkLookup(p) \/ UnlinkFull(p) \/ Full(p) \/ UnlinkDrop(p)
  PROVE  Store!FNext
  <1>1. pc \in [Procs -> PC] /\ ip \in [Procs -> Inums \cup {None}] /\ dinode \in Disks
    BY DEF IInv, FilesInv, TypeOK, Disks
  <1>2. UnlinkLookup(p) => Passes(p) /\ KeepTypes /\ entry' = entry
    BY <1>1 DEF UnlinkLookup, Put, Drops, LockedGoto, Goto, Passes, KeepTypes, disks
  <1>3. UnlinkFull(p) => Passes(p) /\ KeepTypes /\ entry' = entry
    BY <1>1 DEF UnlinkFull, Put, Drops, LockedGoto, Goto, Passes, KeepTypes, disks
  <1>4. Full(p) => Passes(p) /\ KeepTypes /\ entry' = entry
    BY <1>1 DEF Full, UnlockParent, Goto, Passes, KeepTypes, disks
  <1>5. UnlinkDrop(p) => Passes(p) /\ KeepTypes /\ entry' = entry
    <2> SUFFICES ASSUME UnlinkDrop(p) PROVE Passes(p) /\ KeepTypes /\ entry' = entry
      OBVIOUS
    <2>1. dinode' = DLink(dinode, ip[p], -1) /\ entry' = entry
      BY DEF UnlinkDrop
    <2>2. Passes(p)
      BY <1>1 DEF UnlinkDrop, UnlockPut, Put, Drops, Goto, Passes
    <2> QED
      BY <1>1, <2>1, <2>2, LinkTypes DEF KeepTypes
  <1> QED
    BY <1>2, <1>3, <1>4, <1>5, PassesUse

(* The calls on open files *)
LEMMA TableSees ==
  ASSUME IInv, IInv', NEW p \in Procs,
         \/ sys_pipe(p) \/ exit(p) \/ PipeClose(p)
         \/ \E fd \in FDs : Close(p, fd) \/ Dup(p, fd)
         \/ \E q \in Procs : Fork(p, q)
  PROVE  Store!FNext
  <1>1. pc \in [Procs -> PC] /\ ip \in [Procs -> Inums \cup {None}]
    BY DEF IInv, FilesInv, TypeOK
  <1>2. sys_pipe(p) => Passes(p) /\ UNCHANGED disks
    <2>1. pipealloc(p) \/ PipeFds(p) \/ PipeNoFds(p) => Passes(p) /\ UNCHANGED disks
      BY <1>1 DEF pipealloc, PipeFirst, PipeAlloc, PipeBad, PipeFds, PipeNoFds, Goto, Passes, locals
    <2>2. PipeUndo(p) \/ PipeUndo1(p) => Passes(p) /\ UNCHANGED disks
      BY <1>1 DEF PipeUndo, PipeUndo1, FileClose, Put, Goto, Passes
    <2> QED
      BY <2>1, <2>2 DEF sys_pipe
  <1>3. exit(p) \/ PipeClose(p) => Passes(p) /\ UNCHANGED disks
    <2>1. exit(p) => Passes(p) /\ UNCHANGED disks
      BY <1>1 DEF exit, Exit, ExitClose, ExitPut, FileClose, Put, Goto, Passes
    <2>2. PipeClose(p) => Passes(p) /\ UNCHANGED disks
      <3>1. PipeClose(p) => PipeOf(p)
        BY DEF IInv, TableInv
      <3>2. PipeClose(p) => ret[p] # "new"
        BY <3>1 DEF PipeClose, PipeOf, Staged, Closing
      <3> QED
        BY <1>1, <3>2 DEF PipeClose, Goto, Passes
    <2> QED
      BY <2>1, <2>2
  <1>4. ASSUME NEW fd \in FDs PROVE Close(p, fd) \/ Dup(p, fd) => Passes(p) /\ UNCHANGED disks
    BY <1>1 DEF Close, Dup, FileClose, Put, Goto, Passes, locals
  <1>5. ASSUME NEW q \in Procs PROVE Fork(p, q) => Passes(q) /\ UNCHANGED disks
    BY <1>1 DEF Fork, Goto, Passes, locals
  <1>6. \E q \in Procs : Passes(q) /\ UNCHANGED disks
    BY <1>2, <1>3, <1>4, <1>5
  <1>7. KeepTypes /\ entry' = entry
    BY <1>6 DEF KeepTypes, disks
  <1> QED
    BY <1>6, <1>7, PassesUse

(* The inode that ialloc() takes is still free for programs. *)
LEMMA CreateNewSees ==
  ASSUME IInv, IInv', NEW p \in Procs, CreateNew(p)
  PROVE  Store!FNext
  <1>1. pc \in [Procs -> PC] /\ ip \in [Procs -> Inums \cup {None}] /\ dinode \in Disks
    BY DEF IInv, FilesInv, TypeOK, Disks
  <1>2. pc[p] = "parent" /\ Unlocked(dp[p]) /\ FreeInodes # {} /\ entry' = entry
    BY DEF CreateNew
  <1>3. PICK i \in Inums : i = Min(FreeInodes) /\ dinode[i].type = "free"
    <2>1. FreeInodes \in SUBSET Nat
      BY Constants DEF FreeInodes
    <2>2. Min(FreeInodes) \in FreeInodes
      BY <1>2, <2>1, MinIn
    <2> QED
      BY <2>2 DEF FreeInodes
  <1>4. /\ \A j \in Inums : j # i => dinode'[j] = dinode[j]
        /\ pc' = [pc EXCEPT ![p] = "new"] /\ ip' = [ip EXCEPT ![p] = i]
    <2>1. Live(dp[p])
      BY <1>2, InParent
    <2>2. pc' = [pc EXCEPT ![p] = "new"]
      BY <2>1, Typed DEF CreateNew
    <2> QED
      BY <1>1, <1>3, <2>2 DEF CreateNew, Disks
  <1>5. ASSUME NEW j \in Inums PROVE Kind'[j] = Kind[j]
    <2>1. \A q \in Procs : q # p => pc'[q] = pc[q] /\ ip'[q] = ip[q]
      BY <1>1, <1>4
    <2>2. pc'[p] = "new" /\ ip'[p] = i
      BY <1>1, <1>4
    <2>3. CASE j = i
      BY <1>3, <2>2, <2>3 DEF Kind
    <2>4. CASE j # i
      <3>1. (\E q \in Procs : pc'[q] = "new" /\ ip'[q] = j) <=> (\E q \in Procs : pc[q] = "new" /\ ip[q] = j)
        BY <1>2, <2>1, <2>2, <2>4
      <3>2. dinode'[j].type = dinode[j].type
        BY <1>4, <2>4
      <3> QED
        BY <3>1, <3>2 DEF Kind
    <2> QED
      BY <2>3, <2>4
  <1>6. Kind' = Kind
    BY <1>5 DEF Kind
  <1> QED
    BY <1>2, <1>6, UseStep

(* With its name it is there. *)
LEMMA MakeSees ==
  ASSUME IInv, NEW p \in Procs, Make(p)
  PROVE  Store!FNext
  <1>1. /\ pc \in [Procs -> PC] /\ ip \in [Procs -> Inums \cup {None}] /\ dinode \in Disks
        /\ PlaceOf(p) /\ LiveOf(p) /\ NewOf(p)
    BY Mine DEF IInv, FilesInv, TypeOK, Disks
  <1>2. pc[p] = "new" /\ Where(p) = "new"
    BY DEF Make, Where, Putting
  <1>3. PICK d \in Inums, i \in Inums, n \in Names : d = dp[p] /\ i = ip[p] /\ n = name[p]
    BY <1>1, <1>2, Mine DEF PlaceOf, HasDp, HasIp, HoldsDp
  <1>4. /\ IsDir(d) /\ entry[d][n] = None /\ Unused(i) /\ dinode[i].type \in {"FILE", "DIR"}
        /\ \A q \in Procs : q # p => ip[q] # i
    <2>1. d # None
      BY Constants
    <2>2. IsDir(d)
      BY <1>1, <1>3, <2>1 DEF LiveOf
    <2>3. /\ entry[d][n] = None /\ Unused(i) /\ \A q \in Procs : q # p => ip[q] # i
          /\ dinode[i] = [type |-> IF call[p] = "creat" THEN "FILE" ELSE "DIR", nlink |-> 0]
      BY <1>1, <1>2, <1>3 DEF NewOf
    <2> QED
      BY <2>2, <2>3
  <1>5. KeepTypes
    <2>1. PICK child : dinode' = DLink([dinode EXCEPT ![i].nlink = 1], d, child)
      BY <1>3 DEF Make
    <2>2. PICK e : e = [dinode EXCEPT ![i].nlink = 1]
      OBVIOUS
    <2>3. PICK x \in [type : Types, nlink : Nat] : x = dinode[i]
      BY <1>1 DEF Disks
    <2>4. PICK y : y = [x EXCEPT !.nlink = 1]
      OBVIOUS
    <2>5. y \in [type : Types, nlink : Nat] /\ y.type = x.type
      BY <2>4
    <2>6. e = [dinode EXCEPT ![i] = y]
      BY <2>2, <2>3, <2>4
    <2>7. e \in Disks /\ \A j \in Inums : e[j].type = dinode[j].type
      BY <1>1, <2>3, <2>5, <2>6 DEF Disks
    <2>8. dinode' = DLink(e, d, child)
      BY <2>1, <2>2
    <2>9. \A j \in Inums : DLink(e, d, child)[j].type = e[j].type
      BY <2>7, LinkTypes
    <2> QED
      BY <2>7, <2>8, <2>9 DEF KeepTypes
  <1>6. /\ pc'[p] # "new" /\ \A q \in Procs : q # p => pc'[q] = pc[q]
        /\ ip' = ip /\ entry' = [entry EXCEPT ![d][n] = i] /\ file' = file /\ cwd' = cwd
    BY <1>1, <1>3 DEF Make, LockedGoto, Goto, ftable
  <1>7. ASSUME NEW j \in Inums PROVE Kind'[j] = IF j = i THEN dinode[i].type ELSE Kind[j]
    <2>1. (\E q \in Procs : pc'[q] = "new" /\ ip'[q] = j) <=> j # i /\ (\E q \in Procs : pc[q] = "new" /\ ip[q] = j)
      BY <1>2, <1>3, <1>4, <1>6
    <2> QED
      BY <1>5, <2>1 DEF Kind, KeepTypes
  <1>8. PICK k \in {"FILE", "DIR"} : k = dinode[i].type
    BY <1>4
  <1>9. Kind' = [Kind EXCEPT ![i] = k]
    BY <1>7, <1>8 DEF Kind
  <1>10. Kind[i] = "free" /\ Kind[d] = "DIR"
    <2>1. Kind[i] = "free"
      BY <1>2, <1>3 DEF Kind
    <2>2. ASSUME NEW q \in Procs, pc[q] = "new", ip[q] = d PROVE FALSE
      <3>1. Unused(d)
        BY <2>2, Mine DEF NewOf
      <3> QED
        BY <1>3, <3>1 DEF Unused
    <2> QED
      BY <1>4, <2>1, <2>2 DEF Kind, IsDir
  <1>11. Usage' = Usage
    BY <1>6 DEF Usage, Users, OpenOn, In
  <1>12. Store!Make(d, n, i, k)
    BY <1>4, <1>6, <1>9, <1>10, <1>11 DEF Store!Make, Kind, Usage
  <1> QED
    BY <1>12 DEF Store!FNext

(* link() gives a file another name. *)
LEMMA LinkNewSees ==
  ASSUME IInv, NEW p \in Procs, LinkEntry(p), entry[dp[p]][name[p]] = None
  PROVE  Store!FNext
  <1>1. /\ pc \in [Procs -> PC] /\ ip \in [Procs -> Inums \cup {None}] /\ dinode \in Disks
        /\ LiveOf(p)
    BY Mine DEF IInv, FilesInv, TypeOK, Disks
  <1>2. pc[p] = "parent" /\ call[p] = "link2" /\ Unlocked(dp[p])
    BY DEF LinkEntry
  <1>3. PICK d \in Inums, i \in Inums, n \in Names : d = dp[p] /\ i = ip[p] /\ n = name[p]
    BY <1>2, InParent
  <1>4. IsDir(d) /\ Live(i) /\ ~IsDir(i) /\ entry[d][n] = None
    BY <1>1, <1>2, <1>3, InParent DEF LiveOf
  <1>5. /\ Passes(p) /\ dinode' = dinode /\ ip' = ip /\ file' = file /\ cwd' = cwd
        /\ entry' = [entry EXCEPT ![d][n] = i]
    BY <1>1, <1>2, <1>3, <1>4 DEF LinkEntry, LockedGoto, Goto, Passes, ftable
  <1>6. Kind' = Kind
    <2>1. \A j \in Inums : (\E q \in Procs : pc'[q] = "new" /\ ip'[q] = j) <=> (\E q \in Procs : pc[q] = "new" /\ ip[q] = j)
      BY <1>5 DEF Passes
    <2> QED
      BY <1>5, <2>1 DEF Kind
  <1>7. Kind[d] = "DIR" /\ Kind[i] = "FILE"
    <2>1. ASSUME NEW q \in Procs, pc[q] = "new" PROVE ip[q] # d /\ ip[q] # i
      <3>1. q # p
        BY <1>2, <2>1
      <3>2. Unused(ip[q]) /\ ip[p] # ip[q]
        BY <2>1, <3>1, Mine DEF NewOf
      <3> QED
        BY <1>3, <3>2 DEF Unused
    <2>2. dinode[i].type \in Types
      BY <1>1 DEF Disks
    <2> QED
      BY <1>4, <2>1, <2>2 DEF Kind, IsDir, Live, Types
  <1>8. Usage' = Usage
    BY <1>5 DEF Usage, Users, OpenOn, In
  <1>9. Store!Link(d, n, i)
    BY <1>4, <1>5, <1>6, <1>7, <1>8 DEF Store!Link, Kind, Usage
  <1> QED
    BY <1>9 DEF Store!FNext

(* unlink() takes the name of a file or of an empty directory. *)
LEMMA UnlinkEntrySees ==
  ASSUME IInv, NEW p \in Procs, UnlinkEntry(p)
  PROVE  Store!FNext
  <1>1. /\ pc \in [Procs -> PC] /\ ip \in [Procs -> Inums \cup {None}] /\ dinode \in Disks
        /\ PlaceOf(p) /\ LiveOf(p) /\ NewOf(p) /\ Copies(ic, dinode)
    BY Mine, IsCopy DEF IInv, FilesInv, TypeOK, Disks
  <1>2. pc[p] = "victim" /\ Where(p) = "victim"
    BY DEF UnlinkEntry, Where, Putting
  <1>3. PICK d \in Inums, i \in Inums, n \in Names : d = dp[p] /\ i = ip[p] /\ n = name[p]
    BY <1>1, <1>2, Mine DEF PlaceOf, HasDp, HasIp, HoldsDp
  <1>4. entry[d][n] = i /\ i # None
    BY <1>1, <1>2, <1>3, Constants DEF NewOf
  <1>5. Live(i) /\ dinode[i].nlink \in Nat /\ dinode[i].nlink >= 1
    BY <1>4, Leads
  <1>6. ic[i].ref > 0
    <2>1. ic[i].ref >= 1 /\ ic[i].ref \in Nat
      BY <1>3, Referred DEF IInv, FilesInv, TypeOK
    <2> QED
      BY <2>1
  <1>7. PICK c : c = ILock(ic, i, p)
    OBVIOUS
  <1>8. c[i].type = dinode[i].type /\ c[i].nlink = dinode[i].nlink
    BY <1>1, <1>5, <1>6, <1>7, ILockCopy
  <1>9. entry[i] = NoEntries
    <2>1. CASE IsDir(i)
      BY <1>3, <1>5, <1>7, <1>8, <2>1 DEF UnlinkEntry, isdirempty, IsDir
    <2>2. CASE ~IsDir(i)
      BY <2>2 DEF IInv, DiskInv, IsDir
    <2> QED
      BY <2>1, <2>2
  <1>10. /\ ip' = ip /\ file' = file /\ cwd' = cwd
         /\ entry' = [entry EXCEPT ![d][n] = None]
    BY <1>3 DEF UnlinkEntry, ftable
  <1>11. KeepTypes
    <2>1. PICK child : dinode' = DLink(dinode, d, child)
      BY <1>3 DEF UnlinkEntry
    <2> QED
      BY <1>1, <2>1, LinkTypes DEF KeepTypes
  <1>12. Passes(p)
    <2>1. Goto(p, "panic") \/ LockedGoto(p, i, "put")
      BY <1>3, <1>7 DEF UnlinkEntry
    <2> QED
      BY <1>1, <1>2, <1>10, <2>1 DEF LockedGoto, Goto, Passes
  <1>13. Kind' = Kind
    <2>1. \A j \in Inums : (\E q \in Procs : pc'[q] = "new" /\ ip'[q] = j) <=> (\E q \in Procs : pc[q] = "new" /\ ip[q] = j)
      BY <1>12 DEF Passes
    <2> QED
      BY <1>11, <2>1 DEF Kind, KeepTypes
  <1>14. Usage' = Usage
    BY <1>10 DEF Usage, Users, OpenOn, In
  <1>15. Store!Unlink(d, n)
    BY <1>4, <1>9, <1>10, <1>13, <1>14 DEF Store!Unlink, Store!NoNames, NoEntries, Kind, Usage
  <1> QED
    BY <1>15 DEF Store!FNext

(* Only what has neither a name nor a user is freed. *)
LEMMA IFreeSees ==
  ASSUME IInv, NEW p \in Procs, IFree(p)
  PROVE  Store!FNext
  <1>1. /\ pc \in [Procs -> PC] /\ dinode \in Disks
        /\ PlaceOf(p) /\ LiveOf(p) /\ FreeOf(p)
    BY Mine DEF IInv, FilesInv, TypeOK, Disks
  <1>2. pc[p] = "free"
    BY DEF IFree
  <1>3. PICK i \in Inums : i = put[p]
    BY <1>1, <1>2, Mine DEF PlaceOf, Putting
  <1>4. Live(i) /\ dinode[i].nlink = 0 /\ Unused(i) /\ \A q \in Procs : ip[q] # i
    BY <1>1, <1>2, <1>3 DEF LiveOf, FreeOf
  <1>5. ASSUME NEW d \in Inums, NEW n \in Names PROVE entry[d][n] # i
    <2>1. i # None
      BY Constants
    <2>2. entry[d][n] = i => dinode[i].nlink >= 1
      BY <2>1, Leads
    <2> QED
      BY <1>4, <2>2
  <1>6. /\ entry' = [entry EXCEPT ![i] = NoEntries] /\ ip' = ip /\ file' = file /\ cwd' = cwd
        /\ dinode' = [dinode EXCEPT ![i].type = "free"] /\ pc' = [pc EXCEPT ![p] = "deref"]
    BY <1>3 DEF IFree, Goto, ftable, locals
  <1>7. dinode'[i].type = "free" /\ \A j \in Inums : j # i => dinode'[j] = dinode[j]
    <2>1. PICK x \in [type : Types, nlink : Nat] : x = dinode[i]
      BY <1>1 DEF Disks
    <2>2. dinode'[i] = [x EXCEPT !.type = "free"]
      BY <1>1, <1>6, <2>1 DEF Disks
    <2>3. dinode'[i].type = "free"
      BY <2>1, <2>2
    <2> QED
      BY <1>1, <1>6, <2>3 DEF Disks
  <1>8. ASSUME NEW j \in Inums PROVE Kind'[j] = IF j = i THEN "free" ELSE Kind[j]
    <2>1. (\E q \in Procs : pc'[q] = "new" /\ ip'[q] = j) <=> (\E q \in Procs : pc[q] = "new" /\ ip[q] = j)
      BY <1>1, <1>2, <1>6
    <2> QED
      BY <1>7, <2>1 DEF Kind
  <1>9. Kind' = [Kind EXCEPT ![i] = "free"] /\ Kind[i] # "free"
    <2>1. Kind[i] = dinode[i].type
      BY <1>4 DEF Kind
    <2> QED
      BY <1>4, <1>8, <2>1 DEF Kind, Live
  <1>10. Usage' = Usage
    BY <1>6 DEF Usage, Users, OpenOn, In
  <1>11. Usage[i] = 0
    BY <1>4, NoUsers DEF Usage
  <1>12. ~Store!Named(i)
    BY <1>5 DEF Store!Named
  <1>13. Store!Collect(i)
    BY <1>6, <1>9, <1>10, <1>11, <1>12 DEF Store!Collect, Store!NoNames, NoEntries, Kind, Usage
  <1> QED
    BY <1>13 DEF Store!FNext

(* Every step is one of the store, or changes nothing that programs see. *)
LEMMA StepRefines ==
  ASSUME IInv, IInv', NEW p \in Procs, Step(p)
  PROVE  Store!FNext
  <1>1. CASE create(p)
    BY <1>1, CreateSees, CreateNewSees, MakeSees DEF create
  <1>2. CASE iput(p)
    BY <1>2, PutSees, IFreeSees DEF iput
  <1>3. CASE sys_link(p)
    <2>1. CASE LinkEntry(p) /\ entry[dp[p]][name[p]] = None
      BY <2>1, LinkNewSees
    <2>2. CASE ~(LinkEntry(p) /\ entry[dp[p]][name[p]] = None)
      BY <1>3, <2>2, LinkSees
    <2> QED
      BY <2>1, <2>2
  <1>4. CASE sys_unlink(p)
    BY <1>4, UnlinkSees, UnlinkEntrySees DEF sys_unlink
  <1>5. CASE namex(p) \/ Open(p) \/ Chdir(p)
    BY <1>5, PathSees
  <1>6. CASE \/ sys_pipe(p) \/ exit(p) \/ PipeClose(p)
             \/ \E fd \in FDs : Close(p, fd) \/ Dup(p, fd)
             \/ \E q \in Procs : Fork(p, q)
    BY <1>6, TableSees
  <1> QED
    BY <1>1, <1>2, <1>3, <1>4, <1>5, <1>6 DEF Step

(* The first state is one of the store. *)
LEMMA InitRefines == Init => Store!FInit
  <1> SUFFICES ASSUME Init PROVE Store!FInit
    OBVIOUS
  <1> USE InitTables
  <1>1. Kind = [i \in Inums |-> IF i \in {root, sub} THEN "DIR" ELSE "free"]
    <2>1. \A i \in Inums : dinode[i].type = (IF i \in {root, sub} THEN "DIR" ELSE "free")
      BY DEF Init
    <2>2. \A i \in Inums : ~\E q \in Procs : pc[q] = "new" /\ ip[q] = i
      OBVIOUS
    <2> QED
      BY <2>1, <2>2 DEF Kind
  <1>2. \E n \in Names :
          entry = [d \in Inums |-> IF d = root THEN [Store!NoNames EXCEPT ![n] = sub] ELSE Store!NoNames]
    BY DEF Init, Store!NoNames, NoEntries
  <1>3. ASSUME NEW i \in Inums
        PROVE  Users(i) \in 0..(Cardinality(Procs) + 1) /\ (Users(i) > 0 => Kind[i] = "DIR")
    <2>1. /\ Users(i) = Cardinality(OpenOn(i)) + Cardinality(In(i)) + Is(i, root)
          /\ Cardinality(OpenOn(i)) = 0 /\ Is(i, root) \in {0, 1}
      BY FS_EmptySet DEF Users, Is
    <2>2. /\ In(i) \subseteq Procs /\ Cardinality(In(i)) \in Nat /\ Cardinality(Procs) \in Nat
          /\ Cardinality(In(i)) <= Cardinality(Procs)
      BY Constants, FS_Subset, FS_CardinalityType DEF In
    <2>3. Users(i) > 0 => i \in {root, sub}
      <3>1. SUFFICES ASSUME i \notin {root, sub} PROVE Users(i) = 0
        BY <2>1, <2>2
      <3>2. In(i) = {}
        BY <3>1 DEF In
      <3>3. Cardinality(In(i)) = 0 /\ Is(i, root) = 0
        BY <3>1, <3>2, FS_EmptySet DEF Is
      <3> QED
        BY <2>1, <3>3
    <2>4. Users(i) \in 0..(Cardinality(Procs) + 1)
      BY <2>1, <2>2
    <2> QED
      BY <1>1, <2>3, <2>4
  <1>4. /\ Usage \in [Inums -> 0..(Cardinality(Procs) + 1)]
        /\ \A i \in Inums : Usage[i] > 0 => Kind[i] = "DIR"
    BY <1>3 DEF Usage
  <1> QED
    BY <1>1, <1>2, <1>4 DEF Store!FInit, Kind, Usage

(* Whatever the interleaving, and however often a call lets go of a lock   *)
(* in the middle, programs see calls that take effect in one step, and     *)
(* nothing that has a name or a user disappears.                           *)
THEOREM Refinement == Spec => ImplementsFileStore
  <1>1. UNCHANGED vars => UNCHANGED <<Kind, entry, Usage>>
    <2> SUFFICES ASSUME UNCHANGED vars PROVE UNCHANGED <<Kind, entry, Usage>>
      OBVIOUS
    <2>1. dinode' = dinode /\ entry' = entry /\ pc' = pc /\ ip' = ip /\ file' = file /\ cwd' = cwd
      BY DEF vars, disks, ftable, locals
    <2>2. Kind' = Kind
      BY <2>1 DEF Kind
    <2>3. Usage' = Usage
      BY <2>1 DEF Usage, Users, OpenOn, In
    <2> QED
      BY <2>1, <2>2, <2>3
  <1>2. IInv /\ IInv' /\ [Next]_vars => [Store!FNext]_<<Kind, entry, Usage>>
    BY <1>1, StepRefines DEF Next
  <1> QED
    BY <1>2, InitRefines, Inductive, PTL DEF Spec, ImplementsFileStore, Store!FSpec, Store!vars, Kind, Usage
=============================================================================
