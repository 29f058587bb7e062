------------------------------- MODULE Files -------------------------------
(***************************************************************************)
(* Inodes, directories, open files and the system calls on them (fs.c,     *)
(* file.c, sysfile.c): what several processes that create, link, remove    *)
(* and open the same names do to the link counts on disk, to the reference *)
(* counts in memory and to the table of open files.                        *)
(*                                                                         *)
(* A path has one element, looked up in the root or in the working         *)
(* directory, and no name is "." or "..".  A stretch of code under an      *)
(* inode's lock, under icache.lock or under ftable.lock is one step; the   *)
(* inode's lock is held from step to step where the code takes another     *)
(* lock under it.  Blocks and transactions are those of DurableDisk.       *)
(***************************************************************************)
EXTENDS Integers, FiniteSets, FiniteSetsExt

CONSTANTS
    Procs,
    Inums,      \* inode numbers, 1 is ROOTINO
    Names,      \* names of directory entries
    NFILE,      \* entries of ftable
    NOFILE,     \* descriptors of a process
    MaxCalls,   \* bound: system calls but close() the processes make together
    NoProc

ASSUME FilesAssumption ==
    /\ Inums \subseteq Nat \ {0} /\ {1, 2} \subseteq Inums
    /\ IsFiniteSet(Procs) /\ IsFiniteSet(Inums) /\ IsFiniteSet(Names)
    /\ NFILE \in Nat /\ NOFILE \in Nat /\ MaxCalls \in Nat
    /\ NoProc \notin Procs

root == 1
None == 0           \* no inode, no file: inode numbers and files start at 1
FDs == 1..NOFILE
Handles == 1..NFILE

VARIABLES
    dinode,     \* on disk: type and nlink of each inode
    entry,      \* entry[d][n]: the inode number in d's entry n, or None
    ic,         \* the cache entry of each inode: ref, valid, type, nlink, lock
    file,       \* ftable.file: ref, type, ip, writable
    pipe,       \* readopen and writeopen of the one pipe kalloc() has room for
    ofile,      \* ofile[p][fd]: an entry of ftable, or None
    rf, wf,     \* the files that sys_pipe() has, until they have descriptors
    cwd,        \* cwd[p]: the working directory, None when p does not exist
    pc,         \* pc[p], see PC
    call,       \* call[p]: the system call p is in
    name,       \* name[p]: the last element of its path
    dp, ip,     \* the inodes it holds a reference to
    put,        \* put[p]: the inode it is in iput() for
    ret,        \* ret[p]: where it continues after iput()
    budget      \* calls that may still begin

disks == <<dinode, entry>>
ends == <<pipe, rf, wf>>
ftable == <<file, pipe, ofile, rf, wf>>
locals == <<call, name, dp, ip, put, ret>>
vars == <<disks, ic, ftable, cwd, pc, locals, budget>>

Types == {"free", "FILE", "DIR"}
Calls == {"open", "creat", "mkdir", "link", "link2", "unlink", "chdir", "exit", "other"}

(***************************************************************************)
(* "none": no such process; "idle": in user space; "walk": in namex(),     *)
(* about to lock dp; "parent": about to lock the parent dp; "new":         *)
(* create() about to lock the new inode; "exists", "target", "old",        *)
(* "victim", "bad": about to lock ip; "made", "drop": ip is locked;        *)
(* "linkbad", "full": dp is locked; "linked": sys_link() is done with dp;  *)
(* "exit": closing all files; "pipe1", "piped": sys_pipe() has one file,   *)
(* has a pipe; "undo", "undo1": it closes rf, wf; "rclose", "wclose": in   *)
(* pipeclose() of an end; "put", "free", "deref": in iput(); "panic".      *)
(***************************************************************************)
PC == {"none", "idle", "walk", "parent", "new", "exists", "target", "old",
       "victim", "bad", "made", "drop", "linkbad", "full", "linked", "exit",
       "pipe1", "piped", "undo", "undo1", "rclose", "wclose",
       "put", "free", "deref", "panic"}

TypeOK ==
    /\ dinode \in [Inums -> [type : Types, nlink : Nat]]
    /\ entry \in [Inums -> [Names -> Inums \cup {None}]]
    /\ ic \in [Inums -> [ref : Nat, valid : BOOLEAN, type : Types,
                         nlink : Nat, lock : Procs \cup {NoProc}]]
    /\ file \in [Handles -> [ref : Nat, type : {"NONE", "INODE", "PIPE"},
                             ip : Inums \cup {None}, writable : BOOLEAN]]
    /\ pipe \in [readopen : BOOLEAN, writeopen : BOOLEAN]
    /\ ofile \in [Procs -> [FDs -> Handles \cup {None}]]
    /\ rf \in [Procs -> Handles \cup {None}] /\ wf \in [Procs -> Handles \cup {None}]
    /\ cwd \in [Procs -> Inums \cup {None}]
    /\ pc \in [Procs -> PC] /\ ret \in [Procs -> PC]
    /\ call \in [Procs -> Calls] /\ name \in [Procs -> Names \cup {None}]
    /\ dp \in [Procs -> Inums \cup {None}]
    /\ ip \in [Procs -> Inums \cup {None}]
    /\ put \in [Procs -> Inums \cup {None}]
    /\ budget \in 0..MaxCalls

(* A root directory with one empty directory in it, where some children of *)
(* init work, with nothing open.  Init itself does no more: its reference  *)
(* to the root stays.                                                      *)
NoFile == [ref |-> 0, type |-> "NONE", ip |-> None, writable |-> FALSE]
sub == 2
NoEntries == [n \in Names |-> None]

Init ==
    /\ dinode = [i \in Inums |-> [type |-> IF i \in {root, sub} THEN "DIR" ELSE "free",
                                  nlink |-> IF i = root THEN 2 ELSE IF i = sub THEN 1 ELSE 0]]
    /\ \E n \in Names :
          entry = [d \in Inums |-> IF d = root THEN [NoEntries EXCEPT ![n] = sub] ELSE NoEntries]
    /\ cwd \in [Procs -> {root, sub}] /\ {cwd[p] : p \in Procs} = {root, sub}
    /\ ic = [i \in Inums |-> [ref |-> Cardinality({p \in Procs : cwd[p] = i}) + (IF i = root THEN 1 ELSE 0),
                              valid |-> FALSE, type |-> "free", nlink |-> 0, lock |-> NoProc]]
    /\ file = [f \in Handles |-> NoFile]
    /\ pipe = [readopen |-> FALSE, writeopen |-> FALSE]
    /\ ofile = [p \in Procs |-> [fd \in FDs |-> None]]
    /\ rf = [p \in Procs |-> None] /\ wf = rf
    /\ pc = [p \in Procs |-> "idle"]
    /\ ret = [p \in Procs |-> "idle"]
    /\ call = [p \in Procs |-> "other"] /\ name = [p \in Procs |-> None]
    /\ dp = [p \in Procs |-> None] /\ ip = dp /\ put = dp
    /\ budget = MaxCalls

-----------------------------------------------------------------------------
(* The inode cache.  Operators on ic take the value c it has so far.       *)

(* iget(), and idup() on an inode that is in use. *)
IGet(c, i) ==
    [c EXCEPT ![i] = IF c[i].ref > 0 THEN [c[i] EXCEPT !.ref = @ + 1]
                     ELSE [c[i] EXCEPT !.ref = 1, !.valid = FALSE]]

(* The entry of i after the read of ilock(). *)
Loaded(c, i) ==
    IF c[i].valid THEN c[i]
    ELSE [c[i] EXCEPT !.valid = TRUE, !.type = dinode[i].type, !.nlink = dinode[i].nlink]

Unlocked(i) == ic[i].lock = NoProc
NoType(i) == ~ic[i].valid /\ dinode[i].type = "free"

(* ilock() by p, and a section between ilock() and iunlock(). *)
ILock(c, i, p) == [c EXCEPT ![i] = [Loaded(c, i) EXCEPT !.lock = p]]
IUnlock(c, i) == [c EXCEPT ![i].lock = NoProc]
Section(c, i) == [c EXCEPT ![i] = Loaded(c, i)]

(* ip->nlink += k, with the iupdate() that follows it. *)
NLink(c, i, k) == [c EXCEPT ![i].nlink = @ + k]
DLink(d, i, k) == [d EXCEPT ![i].nlink = @ + k]

Goto(p, label) == pc' = [pc EXCEPT ![p] = label]

(* The same after an ilock(i), which panics on an inode without a type. *)
LockedGoto(p, i, label) == Goto(p, IF NoType(i) THEN "panic" ELSE label)

(* p calls iput(i) and then goes on at label. *)
Put(p, i, label) ==
    /\ put' = [put EXCEPT ![p] = i]
    /\ ret' = [ret EXCEPT ![p] = label]

Drops(v, p) == v' = [v EXCEPT ![p] = None]

(* Mutant of IPut: the references of others are not looked at. *)
IPutLinkOnly(p) ==
    LET e == ic[put[p]] IN
    /\ pc[p] = "put" /\ Unlocked(put[p])
    /\ IF e.valid /\ e.nlink = 0
       THEN Goto(p, "free") /\ ic' = [ic EXCEPT ![put[p]].lock = p]
       ELSE Goto(p, "deref") /\ UNCHANGED ic
    /\ UNCHANGED <<disks, ftable, cwd, locals, budget>>

(* iput() up to the test of ref: the lock is kept only to free the inode. *)
IPut(p) ==
    LET e == ic[put[p]] IN
    /\ pc[p] = "put" /\ Unlocked(put[p])
    /\ IF e.valid /\ e.nlink = 0 /\ e.ref = 1
       THEN Goto(p, "free") /\ ic' = [ic EXCEPT ![put[p]].lock = p]
       ELSE Goto(p, "deref") /\ UNCHANGED ic
    /\ UNCHANGED <<disks, ftable, cwd, locals, budget>>

(* Mutant of IFree: the copy in memory stays valid. *)
IFreeValid(p) ==
    LET i == put[p] IN
    /\ pc[p] = "free"
    /\ entry' = [entry EXCEPT ![i] = NoEntries]
    /\ dinode' = [dinode EXCEPT ![i].type = "free"]
    /\ ic' = [ic EXCEPT ![i].type = "free", ![i].lock = NoProc]
    /\ Goto(p, "deref")
    /\ UNCHANGED <<ftable, cwd, locals, budget>>

(* itrunc(), type = 0, iupdate(), valid = 0 and releasesleep() *)
IFree(p) ==
    LET i == put[p] IN
    /\ pc[p] = "free"
    /\ entry' = [entry EXCEPT ![i] = NoEntries]
    /\ dinode' = [dinode EXCEPT ![i].type = "free"]
    /\ ic' = [ic EXCEPT ![i].type = "free", ![i].valid = FALSE, ![i].lock = NoProc]
    /\ Goto(p, "deref")
    /\ UNCHANGED <<ftable, cwd, locals, budget>>

Deref(p) ==
    /\ pc[p] = "deref"
    /\ ic' = [ic EXCEPT ![put[p]].ref = @ - 1]
    /\ Goto(p, ret[p])
    /\ Drops(put, p)
    /\ ret' = [ret EXCEPT ![p] = "idle"]
    /\ IF ret[p] \in {"idle", "none"}
       THEN call' = [call EXCEPT ![p] = "other"] /\ Drops(name, p)
       ELSE UNCHANGED <<call, name>>
    /\ UNCHANGED <<disks, ftable, cwd, dp, ip, budget>>

-----------------------------------------------------------------------------
(* Path lookup (namex()).                                                  *)

(* A call with a path begins: iget() of the root or idup() of cwd. *)
Begin(p, c, n, d) ==
    /\ pc[p] = "idle" /\ budget > 0
    /\ c \in {"open", "creat", "mkdir", "link", "unlink", "chdir"}
    /\ call' = [call EXCEPT ![p] = c] /\ name' = [name EXCEPT ![p] = n]
    /\ dp' = [dp EXCEPT ![p] = d] /\ ic' = IGet(ic, d)
    /\ Goto(p, "walk")
    /\ budget' = budget - 1
    /\ UNCHANGED <<disks, ftable, cwd, ip, put, ret>>

(* nameiparent() stops one level early. *)
WalkParent(p) ==
    /\ pc[p] = "walk" /\ call[p] \in {"creat", "mkdir", "unlink", "link2"}
    /\ Unlocked(dp[p])
    /\ ic' = Section(ic, dp[p])
    /\ LockedGoto(p, dp[p], "parent")
    /\ UNCHANGED <<disks, ftable, cwd, locals, budget>>

(* namei(): dirlookup() and iunlockput(dp). *)
Walk(p) ==
    LET e == entry[dp[p]][name[p]]
        next == IF e = None THEN "idle" ELSE IF call[p] = "link" THEN "old" ELSE "target"
    IN
    /\ pc[p] = "walk" /\ call[p] \in {"open", "link", "chdir"}
    /\ Unlocked(dp[p])
    /\ LET c == Section(ic, dp[p]) IN ic' = IF e = None THEN c ELSE IGet(c, e)
    /\ ip' = [ip EXCEPT ![p] = e]
    /\ Put(p, dp[p], next) /\ Drops(dp, p)
    /\ LockedGoto(p, dp[p], "put")
    /\ UNCHANGED <<disks, ftable, cwd, call, name, budget>>

-----------------------------------------------------------------------------
(* create() under dp's lock.  ialloc() takes the first inode that is free  *)
(* on disk (the disk is never full here).                                  *)
CreateOld(p) ==
    LET e == entry[dp[p]][name[p]] IN
    /\ pc[p] = "parent" /\ call[p] \in {"creat", "mkdir"} /\ Unlocked(dp[p])
    /\ e # None
    /\ ic' = IGet(Section(ic, dp[p]), e)
    /\ ip' = [ip EXCEPT ![p] = e]
    /\ Put(p, dp[p], "exists") /\ Drops(dp, p)
    /\ LockedGoto(p, dp[p], "put")
    /\ UNCHANGED <<disks, ftable, cwd, call, name, budget>>

FreeInodes == {i \in Inums : dinode[i].type = "free"}

CreateNew(p) ==
    LET i == Min(FreeInodes)
        type == IF call[p] = "creat" THEN "FILE" ELSE "DIR"
    IN
    /\ pc[p] = "parent" /\ call[p] \in {"creat", "mkdir"} /\ Unlocked(dp[p])
    /\ entry[dp[p]][name[p]] = None
    /\ FreeInodes # {}
    /\ dinode' = [dinode EXCEPT ![i] = [type |-> type, nlink |-> 0]]
    /\ ic' = IGet(ILock(ic, dp[p], p), i)
    /\ ip' = [ip EXCEPT ![p] = i]
    /\ LockedGoto(p, dp[p], "new")
    /\ UNCHANGED <<entry, ftable, cwd, call, name, dp, put, ret, budget>>

(* Mutant of Make: the ".." of a new directory is not counted. *)
MakeUncounted(p) ==
    LET d == dp[p]  i == ip[p]  child == 0 IN
    /\ pc[p] = "new" /\ Unlocked(i)
    /\ dinode' = DLink([dinode EXCEPT ![i].nlink = 1], d, child)
    /\ entry' = [entry EXCEPT ![d][name[p]] = i]
    /\ ic' = LET c == [ILock(ic, i, p) EXCEPT ![i].nlink = 1]
             IN  IUnlock(NLink(c, d, child), d)
    /\ Put(p, d, "made") /\ Drops(dp, p)
    /\ LockedGoto(p, i, "put")
    /\ UNCHANGED <<ftable, cwd, call, name, ip, budget>>

(* The rest of create(), up to iput(dp); the new inode stays locked. *)
Make(p) ==
    LET d == dp[p]  i == ip[p]  child == IF call[p] = "mkdir" THEN 1 ELSE 0 IN
    /\ pc[p] = "new" /\ Unlocked(i)
    /\ dinode' = DLink([dinode EXCEPT ![i].nlink = 1], d, child)
    /\ entry' = [entry EXCEPT ![d][name[p]] = i]
    /\ ic' = LET c == [ILock(ic, i, p) EXCEPT ![i].nlink = 1]
             IN  IUnlock(NLink(c, d, child), d)
    /\ Put(p, d, "made") /\ Drops(dp, p)
    /\ LockedGoto(p, i, "put")
    /\ UNCHANGED <<ftable, cwd, call, name, ip, budget>>

(* The end of a call that holds ip's lock, in the icache c. *)
UnlockPut(p, c) ==
    /\ ic' = IUnlock(c, ip[p])
    /\ Put(p, ip[p], "idle") /\ Drops(ip, p)
    /\ UNCHANGED <<call, name>>

(* sys_open() from filealloc() on, with ip's lock.  The mode of a file     *)
(* decides nothing here; writable tells the ends of a pipe apart.          *)
FreeHandles == {f \in Handles : file[f].ref = 0}
FreeFDs(p) == {fd \in FDs : ofile[p][fd] = None}

OpenFile(p, c) ==
    IF FreeHandles # {} /\ FreeFDs(p) # {}
    THEN LET f == Min(FreeHandles) IN
         /\ file' = [file EXCEPT ![f] = [ref |-> 1, type |-> "INODE", ip |-> ip[p],
                                         writable |-> FALSE]]
         /\ ofile' = [ofile EXCEPT ![p][Min(FreeFDs(p))] = f]
         /\ ic' = IUnlock(c, ip[p])
         /\ LockedGoto(p, ip[p], "idle")
         /\ call' = [call EXCEPT ![p] = "other"] /\ Drops(name, p)
         /\ Drops(ip, p)
         /\ UNCHANGED <<put, ret>>
    ELSE UnlockPut(p, c) /\ LockedGoto(p, ip[p], "put") /\ UNCHANGED <<file, ofile>>

(* sys_mkdir(), and sys_open() on the file it has created. *)
Made(p) ==
    /\ pc[p] = "made"
    /\ IF call[p] = "creat" THEN OpenFile(p, ic)
       ELSE UnlockPut(p, ic) /\ Goto(p, "put") /\ UNCHANGED <<file, ofile>>
    /\ UNCHANGED <<disks, ends, cwd, dp, budget>>

(* create() of a name that exists: only a file is opened. *)
Exists(p) ==
    LET c == Section(ic, ip[p]) IN
    /\ pc[p] = "exists" /\ Unlocked(ip[p])
    /\ IF call[p] = "creat" /\ c[ip[p]].type = "FILE" THEN OpenFile(p, c)
       ELSE UnlockPut(p, c) /\ LockedGoto(p, ip[p], "put") /\ UNCHANGED <<file, ofile>>
    /\ UNCHANGED <<disks, ends, cwd, dp, budget>>

(* sys_open() without O_CREATE: a directory is opened only for reading. *)
Open(p) ==
    LET c == Section(ic, ip[p]) IN
    /\ pc[p] = "target" /\ call[p] = "open" /\ Unlocked(ip[p])
    /\ \/ OpenFile(p, c)
       \/ /\ c[ip[p]].type = "DIR"
          /\ UnlockPut(p, c) /\ LockedGoto(p, ip[p], "put") /\ UNCHANGED <<file, ofile>>
    /\ UNCHANGED <<disks, ends, cwd, dp, budget>>

(* The new cwd is set before the old one is put; only p looks at it. *)
Chdir(p) ==
    LET c == Section(ic, ip[p]) IN
    /\ pc[p] = "target" /\ call[p] = "chdir" /\ Unlocked(ip[p])
    /\ IF c[ip[p]].type = "DIR"
       THEN /\ ic' = c
            /\ cwd' = [cwd EXCEPT ![p] = ip[p]]
            /\ Put(p, cwd[p], "idle") /\ Drops(ip, p)
            /\ UNCHANGED <<call, name>>
       ELSE UnlockPut(p, c) /\ UNCHANGED cwd
    /\ LockedGoto(p, ip[p], "put")
    /\ UNCHANGED <<disks, ftable, dp, budget>>

-----------------------------------------------------------------------------
(* sys_link(): the link is counted before the new path is looked up.       *)
LinkCount(p, n, d) ==
    LET c == Section(ic, ip[p]) IN
    /\ pc[p] = "old" /\ Unlocked(ip[p])
    /\ c[ip[p]].type # "DIR"
    /\ dinode' = DLink(dinode, ip[p], 1)
    /\ ic' = IGet(NLink(c, ip[p], 1), d)
    /\ call' = [call EXCEPT ![p] = "link2"] /\ name' = [name EXCEPT ![p] = n]
    /\ dp' = [dp EXCEPT ![p] = d]
    /\ LockedGoto(p, ip[p], "walk")
    /\ UNCHANGED <<entry, ftable, cwd, ip, put, ret, budget>>

LinkDir(p) ==
    LET c == Section(ic, ip[p]) IN
    /\ pc[p] = "old" /\ Unlocked(ip[p])
    /\ c[ip[p]].type = "DIR"
    /\ UnlockPut(p, c)
    /\ LockedGoto(p, ip[p], "put")
    /\ UNCHANGED <<disks, ftable, cwd, dp, budget>>

(* dirlink() under dp's lock; an entry that exists is put under it. *)
LinkEntry(p) ==
    LET e == entry[dp[p]][name[p]] IN
    /\ pc[p] = "parent" /\ call[p] = "link2" /\ Unlocked(dp[p])
    /\ IF e = None
       THEN /\ entry' = [entry EXCEPT ![dp[p]][name[p]] = ip[p]]
            /\ ic' = Section(ic, dp[p])
            /\ Put(p, dp[p], "linked") /\ Drops(dp, p)
       ELSE /\ ic' = IGet(ILock(ic, dp[p], p), e)
            /\ Put(p, e, "linkbad")
            /\ UNCHANGED <<entry, dp>>
    /\ LockedGoto(p, dp[p], "put")
    /\ UNCHANGED <<dinode, ftable, cwd, call, name, ip, budget>>

Linked(p) ==
    /\ pc[p] = "linked"
    /\ Put(p, ip[p], "idle") /\ Drops(ip, p)
    /\ Goto(p, "put")
    /\ UNCHANGED <<disks, ic, ftable, cwd, call, name, dp, budget>>

(* The iunlockput(dp) of a call that keeps ip for label. *)
UnlockParent(p, at, label) ==
    /\ pc[p] = at
    /\ ic' = IUnlock(ic, dp[p])
    /\ Put(p, dp[p], label) /\ Drops(dp, p)
    /\ Goto(p, "put")
    /\ UNCHANGED <<disks, ftable, cwd, call, name, ip, budget>>

LinkBad(p) == UnlockParent(p, "linkbad", "bad")

(* bad: the link is taken back. *)
LinkUndo(p) ==
    /\ pc[p] = "bad" /\ Unlocked(ip[p])
    /\ dinode' = DLink(dinode, ip[p], -1)
    /\ UnlockPut(p, NLink(Section(ic, ip[p]), ip[p], -1))
    /\ LockedGoto(p, ip[p], "put")
    /\ UNCHANGED <<entry, ftable, cwd, dp, budget>>

-----------------------------------------------------------------------------
(* sys_unlink(): dp is locked, then the inode of the entry. *)
UnlinkLookup(p) ==
    LET e == entry[dp[p]][name[p]] IN
    /\ pc[p] = "parent" /\ call[p] = "unlink" /\ Unlocked(dp[p])
    /\ IF e = None
       THEN /\ ic' = Section(ic, dp[p])
            /\ Put(p, dp[p], "idle") /\ Drops(dp, p)
            /\ LockedGoto(p, dp[p], "put")
            /\ UNCHANGED ip
       ELSE /\ ic' = IGet(ILock(ic, dp[p], p), e)
            /\ ip' = [ip EXCEPT ![p] = e]
            /\ LockedGoto(p, dp[p], "victim")
            /\ UNCHANGED <<dp, put, ret>>
    /\ UNCHANGED <<disks, ftable, cwd, call, name, budget>>

(* Mutant of isdirempty: the first free entry ends the search. *)
isdiremptyFirst(d) == \E n \in Names : entry[d][n] = None

isdirempty(d) == entry[d] = NoEntries

(* A directory that is not empty stays: iunlockput(ip), then dp's. *)
UnlinkFull(p) ==
    LET c == Section(ic, ip[p]) IN
    /\ pc[p] = "victim" /\ Unlocked(ip[p])
    /\ c[ip[p]].nlink >= 1 /\ c[ip[p]].type = "DIR" /\ ~isdirempty(ip[p])
    /\ ic' = c
    /\ Put(p, ip[p], "full") /\ Drops(ip, p)
    /\ LockedGoto(p, ip[p], "put")
    /\ UNCHANGED <<disks, ftable, cwd, call, name, dp, budget>>

Full(p) == UnlockParent(p, "full", "idle")

(* The entry is cleared, and dp put while ip is still locked. *)
UnlinkEntry(p) ==
    LET d == dp[p]  i == ip[p]
        c == ILock(ic, i, p)
        child == IF c[i].type = "DIR" THEN -1 ELSE 0
    IN
    /\ pc[p] = "victim" /\ Unlocked(i)
    /\ ~(c[i].nlink >= 1 /\ c[i].type = "DIR" /\ ~isdirempty(i))
    /\ entry' = [entry EXCEPT ![d][name[p]] = None]
    /\ dinode' = DLink(dinode, d, child)
    /\ ic' = IUnlock(NLink(c, d, child), d)
    /\ Put(p, d, "drop") /\ Drops(dp, p)
    /\ IF c[i].nlink < 1 THEN Goto(p, "panic") ELSE LockedGoto(p, i, "put")
    /\ UNCHANGED <<ftable, cwd, call, name, ip, budget>>

UnlinkDrop(p) ==
    /\ pc[p] = "drop"
    /\ dinode' = DLink(dinode, ip[p], -1)
    /\ UnlockPut(p, NLink(ic, ip[p], -1))
    /\ Goto(p, "put")
    /\ UNCHANGED <<entry, ftable, cwd, dp, budget>>

-----------------------------------------------------------------------------
(* Open files.                                                             *)

(* fileclose(f), which goes on at label.  The last one frees f's slot;     *)
(* only then, without ftable.lock, it gives back what f referred to.  A    *)
(* file has no type yet when pipealloc() fails.                            *)
FileClose(p, f, label) ==
    \/ /\ file[f].ref > 1
       /\ file' = [file EXCEPT ![f].ref = @ - 1]
       /\ Goto(p, label)
       /\ UNCHANGED <<put, ret>>
    \/ /\ file[f].ref <= 1
       /\ file' = [file EXCEPT ![f] = NoFile]
       /\ \/ /\ file[f].type = "PIPE"
             /\ ret' = [ret EXCEPT ![p] = label]
             /\ Goto(p, IF file[f].writable THEN "wclose" ELSE "rclose")
             /\ UNCHANGED put
          \/ /\ file[f].type = "INODE"
             /\ Put(p, file[f].ip, label) /\ Goto(p, "put")
          \/ /\ file[f].type = "NONE"
             /\ Goto(p, label) /\ UNCHANGED <<put, ret>>

(* pipeclose(), after which the call goes on.  The page is free when both  *)
(* ends are closed.                                                        *)
PipeClose(p) ==
    /\ pc[p] \in {"rclose", "wclose"}
    /\ pipe' = IF pc[p] = "wclose" THEN [pipe EXCEPT !.writeopen = FALSE]
               ELSE [pipe EXCEPT !.readopen = FALSE]
    /\ Goto(p, ret[p])
    /\ ret' = [ret EXCEPT ![p] = "idle"]
    /\ UNCHANGED <<disks, ic, file, ofile, rf, wf, cwd, call, name, dp, ip, put, budget>>

Close(p, fd) ==
    /\ pc[p] = "idle" /\ ofile[p][fd] # None
    /\ ofile' = [ofile EXCEPT ![p][fd] = None]
    /\ FileClose(p, ofile[p][fd], "idle")
    /\ UNCHANGED <<disks, ic, ends, cwd, call, name, dp, ip, budget>>

(* fdalloc() and filedup() *)
Dup(p, fd) ==
    /\ pc[p] = "idle" /\ budget > 0 /\ ofile[p][fd] # None
    /\ FreeFDs(p) # {}
    /\ ofile' = [ofile EXCEPT ![p][Min(FreeFDs(p))] = ofile[p][fd]]
    /\ file' = [file EXCEPT ![ofile[p][fd]].ref = @ + 1]
    /\ UNCHANGED <<disks, ic, ends, cwd, pc, locals>>
    /\ budget' = budget - 1

(* Mutant of Fork: no idup() of the directory. *)
ForkNoDup(p, q) ==
    /\ pc[p] = "idle" /\ budget > 0 /\ pc[q] = "none"
    /\ ofile' = [ofile EXCEPT ![q] = ofile[p]]
    /\ file' = [f \in Handles |->
                   [file[f] EXCEPT !.ref = @ + Cardinality({fd \in FDs : ofile[p][fd] = f})]]
    /\ cwd' = [cwd EXCEPT ![q] = cwd[p]]
    /\ Goto(q, "idle")
    /\ UNCHANGED <<disks, ic, ends, locals>>
    /\ budget' = budget - 1

(* The part of fork() that shares the files and the directory.  *)
Fork(p, q) ==
    /\ pc[p] = "idle" /\ budget > 0 /\ pc[q] = "none"
    /\ ofile' = [ofile EXCEPT ![q] = ofile[p]]
    /\ file' = [f \in Handles |->
                   [file[f] EXCEPT !.ref = @ + Cardinality({fd \in FDs : ofile[p][fd] = f})]]
    /\ cwd' = [cwd EXCEPT ![q] = cwd[p]]
    /\ ic' = IGet(ic, cwd[p])
    /\ Goto(q, "idle")
    /\ UNCHANGED <<disks, ends, locals>>
    /\ budget' = budget - 1

(* exit() closes every file and puts cwd. *)
Exit(p) ==
    /\ pc[p] = "idle" /\ budget > 0
    /\ call' = [call EXCEPT ![p] = "exit"]
    /\ Goto(p, "exit")
    /\ UNCHANGED <<disks, ic, ftable, cwd, name, dp, ip, put, ret>>
    /\ budget' = budget - 1

OpenFDs(p) == FDs \ FreeFDs(p)

ExitClose(p) ==
    /\ pc[p] = "exit" /\ OpenFDs(p) # {}
    /\ ofile' = [ofile EXCEPT ![p][Min(OpenFDs(p))] = None]
    /\ FileClose(p, ofile[p][Min(OpenFDs(p))], "exit")
    /\ UNCHANGED <<disks, ic, ends, cwd, call, name, dp, ip, budget>>

ExitPut(p) ==
    /\ pc[p] = "exit" /\ OpenFDs(p) = {}
    /\ Put(p, cwd[p], "none") /\ Drops(cwd, p)
    /\ Goto(p, "put")
    /\ UNCHANGED <<disks, ic, ftable, call, name, dp, ip, budget>>

(* pipealloc(): a file, then a second file and a page; without them the    *)
(* files it has are closed.  kalloc() may fail at any time.                *)
PipeFirst(p) ==
    LET r == Min(FreeHandles) IN
    /\ pc[p] = "idle" /\ budget > 0
    /\ FreeHandles # {}
    /\ file' = [file EXCEPT ![r].ref = 1]
    /\ rf' = [rf EXCEPT ![p] = r]
    /\ Goto(p, "pipe1")
    /\ UNCHANGED <<disks, ic, ofile, pipe, wf, cwd, locals>>
    /\ budget' = budget - 1

PipeAlloc(p) ==
    LET r == rf[p]  w == Min(FreeHandles) IN
    /\ pc[p] = "pipe1"
    /\ FreeHandles # {} /\ ~pipe.readopen /\ ~pipe.writeopen
    /\ pipe' = [readopen |-> TRUE, writeopen |-> TRUE]
    /\ file' = [file EXCEPT ![r] = [@ EXCEPT !.type = "PIPE", !.writable = FALSE],
                            ![w] = [@ EXCEPT !.ref = 1, !.type = "PIPE", !.writable = TRUE]]
    /\ wf' = [wf EXCEPT ![p] = w]
    /\ Goto(p, "piped")
    /\ UNCHANGED <<disks, ic, ofile, rf, cwd, locals, budget>>

PipeBad(p) ==
    /\ pc[p] = "pipe1"
    /\ IF FreeHandles = {} THEN UNCHANGED <<file, wf>>
       ELSE /\ file' = [file EXCEPT ![Min(FreeHandles)].ref = 1]
            /\ wf' = [wf EXCEPT ![p] = Min(FreeHandles)]
    /\ Goto(p, "undo")
    /\ UNCHANGED <<disks, ic, ofile, pipe, rf, cwd, locals, budget>>

(* sys_pipe(): a descriptor for each end.  When there is only one free it  *)
(* is cleared again, and the files are closed.                             *)
PipeFds(p) ==
    LET fd0 == Min(FreeFDs(p))  fd1 == Min(FreeFDs(p) \ {fd0}) IN
    /\ pc[p] = "piped" /\ Cardinality(FreeFDs(p)) >= 2
    /\ ofile' = [ofile EXCEPT ![p][fd0] = rf[p], ![p][fd1] = wf[p]]
    /\ Drops(rf, p) /\ Drops(wf, p)
    /\ Goto(p, "idle")
    /\ UNCHANGED <<disks, ic, file, pipe, cwd, locals, budget>>

PipeNoFds(p) ==
    /\ pc[p] = "piped" /\ Cardinality(FreeFDs(p)) < 2
    /\ Goto(p, "undo")
    /\ UNCHANGED <<disks, ic, ftable, cwd, locals, budget>>

PipeUndo(p) ==
    /\ pc[p] = "undo"
    /\ FileClose(p, rf[p], IF wf[p] = None THEN "idle" ELSE "undo1")
    /\ Drops(rf, p)
    /\ UNCHANGED <<disks, ic, ofile, pipe, wf, cwd, call, name, dp, ip, budget>>

PipeUndo1(p) ==
    /\ pc[p] = "undo1"
    /\ FileClose(p, wf[p], "idle")
    /\ Drops(wf, p)
    /\ UNCHANGED <<disks, ic, ofile, pipe, rf, cwd, call, name, dp, ip, budget>>

-----------------------------------------------------------------------------
iput(p) == IPut(p) \/ IFree(p) \/ Deref(p)
namex(p) ==
    \/ \E c \in Calls, n \in Names, d \in {root, cwd[p]} : Begin(p, c, n, d)
    \/ WalkParent(p) \/ Walk(p)
create(p) == CreateOld(p) \/ CreateNew(p) \/ Make(p) \/ Made(p) \/ Exists(p)
sys_link(p) ==
    \/ \E n \in Names, d \in {root, cwd[p]} : LinkCount(p, n, d)
    \/ LinkDir(p) \/ LinkEntry(p) \/ Linked(p) \/ LinkBad(p) \/ LinkUndo(p)
sys_unlink(p) == UnlinkLookup(p) \/ UnlinkFull(p) \/ Full(p) \/ UnlinkEntry(p) \/ UnlinkDrop(p)
exit(p) == Exit(p) \/ ExitClose(p) \/ ExitPut(p)
pipealloc(p) == PipeFirst(p) \/ PipeAlloc(p) \/ PipeBad(p)
sys_pipe(p) == pipealloc(p) \/ PipeFds(p) \/ PipeNoFds(p) \/ PipeUndo(p) \/ PipeUndo1(p)

Step(p) ==
    \/ namex(p) \/ iput(p) \/ create(p) \/ Open(p) \/ Chdir(p)
    \/ sys_link(p) \/ sys_unlink(p) \/ sys_pipe(p)
    \/ \E fd \in FDs : Close(p, fd) \/ Dup(p, fd)
    \/ \E q \in Procs : Fork(p, q)
    \/ exit(p) \/ PipeClose(p)

Next == \E p \in Procs : Step(p)

Spec == Init /\ [][Next]_vars

-----------------------------------------------------------------------------
(* No panic of ilock() ("no type": a name leads to a freed inode) or of    *)
(* sys_unlink() is reached.                                                *)
NoPanic == \A p \in Procs : pc[p] # "panic"

(* ip->ref is the number of pointers to the entry: open files, working     *)
(* directories, and what the calls under way hold.  One too many and the   *)
(* inode is never freed, one too few and it is freed in use.               *)
OpenOn(i) == {f \in Handles : file[f].type = "INODE" /\ file[f].ip = i}
In(i) == {p \in Procs : cwd[p] = i}
Users(i) == Cardinality(OpenOn(i)) + Cardinality(In(i)) + (IF i = root THEN 1 ELSE 0)

RefsCounted ==
    \A i \in Inums :
        ic[i].ref = Users(i)
                    + Cardinality({p \in Procs : dp[p] = i}) + Cardinality({p \in Procs : ip[p] = i})
                    + Cardinality({p \in Procs : put[p] = i})

(* nlink on disk covers every entry, and a directory's "..", at every      *)
(* moment, in calls as well: an entry never leads to an inode that iput()  *)
(* may free.                                                               *)
LinksCover ==
    \A i \in Inums :
        dinode[i].nlink >=
            Cardinality({e \in Inums \X Names : entry[e[1]][e[2]] = i})
            + Cardinality({n \in Names : entry[i][n] # None /\ dinode[entry[i][n]].type = "DIR"})

(* The inode whose lock p is about to take. *)
Wanted(p) ==
    CASE pc[p] \in {"walk", "parent"} -> dp[p]
      [] pc[p] \in {"new", "exists", "target", "old", "victim", "bad"} -> ip[p]
      [] pc[p] = "put" -> put[p]
      [] OTHER -> None

(* Calls that create, link and remove the same names at the same time do   *)
(* not wait for each other's inode locks in a circle.                      *)
NoDeadlock ==
    \A Q \in SUBSET Procs \ {{}} :
        \E p \in Q : Wanted(p) = None \/ ic[Wanted(p)].lock \notin Q

(* The copy in memory is what the disk holds, also for an inode number     *)
(* that was freed and allocated again while its entry was in use.          *)
CacheIsTrue ==
    \A i \in Inums : ic[i].ref > 0 /\ ic[i].valid =>
        ic[i].type = dinode[i].type /\ ic[i].nlink = dinode[i].nlink

(* f->ref is the number of descriptors and of the files that calls of      *)
(* pipe() have in hand, and an end of the pipe is open as long as a file   *)
(* stands for it or its pipeclose() is still to come: a reader sees the    *)
(* end of the file only when no process can write any more, and then at    *)
(* the latest when the last close() returns.                               *)
FilesCounted ==
    /\ \A f \in Handles :
          file[f].ref = Cardinality({x \in Procs \X FDs : ofile[x[1]][x[2]] = f})
                        + Cardinality({p \in Procs : rf[p] = f})
                        + Cardinality({p \in Procs : wf[p] = f})
    /\ pipe.readopen = \/ \E f \in Handles : file[f].type = "PIPE" /\ ~file[f].writable
                       \/ \E p \in Procs : pc[p] = "rclose"
    /\ pipe.writeopen = \/ \E f \in Handles : file[f].type = "PIPE" /\ file[f].writable
                        \/ \E p \in Procs : pc[p] = "wclose"

(* The types, and exact reference counts of inodes and of open files. *)
FilesInv == TypeOK /\ RefsCounted /\ FilesCounted

Store == INSTANCE FileStore WITH
    Objects <- Inums, Nothing <- None, sub <- sub, crew <- Cardinality(Procs) + 1,
    kind <- [i \in Inums |-> IF \E p \in Procs : pc[p] = "new" /\ ip[p] = i
                             THEN "free" ELSE dinode[i].type],
    names <- entry,
    users <- [i \in Inums |-> Users(i)]

(* Seen by programs, every call takes effect in one step, and no file that *)
(* has a name or a user loses its contents or its inode.                   *)
ImplementsFileStore == Store!FSpec
=============================================================================
