--------------------------------- MODULE Fs ---------------------------------
(***************************************************************************)
(* lab3/kernel/fs.c and the file system calls of sysfile.c: inodes, their  *)
(* copies in the inode cache, directories, paths.                          *)
(*                                                                         *)
(* The cache is indexed by inode number: iget looks only at slots with     *)
(* ref > 0, under icache.lock, so a slot whose ref is 0 holds nothing.     *)
(* The NINODE slots are not counted: iget may panic for want of one        *)
(* whenever its inode is not cached.                                       *)
(* What a process does while it holds an inode's lock is one action, but   *)
(* for create and sys_unlink, which take a second one.  A path is chosen   *)
(* element by element while it is walked.  The log makes each call one     *)
(* transaction and has a module of its own; file contents are left out.    *)
(*                                                                         *)
(* pc[p]: "out"; "walk" in namex; "found" behind namei, "parent" behind    *)
(* nameiparent; "made" and "gone" where create and sys_unlink hold dp and  *)
(* want ip, "cut" where sys_unlink has ip alone; "held" where sys_link and *)
(* sys_unlink fail with dp still locked; "old" where create found a file,  *)
(* "undo" at sys_link's bad.  Before it goes on, p does the iputs in       *)
(* puts[p]; stage[p] is where it is in one that frees an inode.            *)
(***************************************************************************)
EXTENDS Integers, Sequences, FiniteSets

CONSTANTS
  Proc,
  Inum,     \* inode numbers, and
  ROOTINO,  \* that of the root
  Name,     \* names other than . and .., of which . leads nowhere
  MaxPath,  \* bound on the elements of a path
  MaxCalls, \* bound on the calls of all processes
  None

Names == Name \cup {".."}

ASSUME FsAssumption ==
  /\ Inum \subseteq Nat /\ ROOTINO \in Inum
  /\ IsFiniteSet(Proc) /\ IsFiniteSet(Inum) /\ IsFiniteSet(Name)
  /\ None \notin Proc \cup Inum /\ None \notin Names /\ ".." \notin Name
  /\ {MaxPath, MaxCalls} \subseteq Nat

VARIABLES
  disk,   \* disk[i]: type and nlink of the dinode
  ents,   \* ents[i]: the entries of directory i, None where there is none
  ref, valid, mem, lock,   \* the cached inode: mem[i] is its type and nlink
  panicked,
  pc, op, puts, stage,
  at,     \* at[p]: ip of namex, then dp of the call
  ip,     \* ip[p]: the other inode of the call
  name,   \* name[p]: the last element of the path
  depth,  \* depth[p]: elements walked so far
  cwd, fd,   \* the working directory and the open file of p
  calls   \* calls made so far

cache == <<ref, valid, mem, lock>>
local == <<at, ip, name, depth>>
vars == <<disk, ents, cache, panicked, pc, op, puts, stage, local, cwd, fd, calls>>

Free == [type |-> "free", nlink |-> 0]
Empty == [n \in Names |-> None]
Dots(parent) == [Empty EXCEPT ![".."] = parent]

(* Any tree of directories and files: home[i] is where the entry of inode  *)
(* i stands.  Every process is in some directory and in no call.           *)
Init ==
  /\ \E type \in [Inum -> {"free", "dir", "file"}], home \in [Inum \ {ROOTINO} -> Inum \X Name] :
       LET used == {i \in Inum \ {ROOTINO} : type[i] # "free"}
           Up(d) == IF d = ROOTINO THEN d ELSE home[d][1] IN
       /\ type[ROOTINO] = "dir"
       /\ \A i \in used : Up(i) < i /\ type[Up(i)] = "dir"
       /\ \A i, j \in used : home[i] = home[j] => i = j
       /\ ents = [d \in Inum |-> IF type[d] # "dir" THEN Empty ELSE [n \in Names |->
                    IF n = ".." THEN Up(d) ELSE IF <<d, n>> \notin {home[i] : i \in used} THEN None
                    ELSE CHOOSE i \in used : home[i] = <<d, n>>]]
       /\ disk = [i \in Inum |-> IF type[i] = "free" THEN Free ELSE [type |-> type[i],
                    nlink |-> 1 + Cardinality({j \in used : Up(j) = i /\ type[j] = "dir"})]]
  /\ cwd \in [Proc -> {i \in Inum : disk[i].type = "dir"}]
  /\ ref = [i \in Inum |-> Cardinality({p \in Proc : cwd[p] = i})]
  /\ valid = [i \in Inum |-> FALSE] /\ mem = [i \in Inum |-> Free]
  /\ lock = [i \in Inum |-> None] /\ panicked = None
  /\ pc = [p \in Proc |-> "out"] /\ op = [p \in Proc |-> None]
  /\ puts = [p \in Proc |-> <<>>] /\ stage = [p \in Proc |-> "no"]
  /\ at = [p \in Proc |-> None] /\ ip = [p \in Proc |-> None]
  /\ name = [p \in Proc |-> None] /\ depth = [p \in Proc |-> 0]
  /\ fd = [p \in Proc |-> None] /\ calls = 0

Ready(p) == panicked = None /\ puts[p] = <<>>

(* iget and idup.                                                          *)
Iget(i) == ref' = [ref EXCEPT ![i] = @ + 1]

(* ilock by p, which stands at l and wants inode i: the inode as p sees it *)
(* is Loaded(i).                                                           *)
Ilock(p, l, i) == pc[p] = l /\ Ready(p) /\ lock[i] = None /\ (valid[i] \/ disk[i].type # "free")
Loaded(i) == IF valid[i] THEN mem[i] ELSE disk[i]

(* The cached inodes of S are valid from now on; iupdate gives those of    *)
(* DOMAIN new the values of new.                                           *)
Update(S, new) ==
  /\ valid' = [i \in Inum |-> i \in S \/ valid[i]]
  /\ mem' = [i \in Inum |-> IF i \in DOMAIN new THEN new[i] ELSE IF i \in S THEN Loaded(i) ELSE mem[i]]
  /\ disk' = [i \in Inum |-> IF i \in DOMAIN new THEN new[i] ELSE disk[i]]
Load(i) == Update({i}, <<>>)
Unlock(S) == lock' = [i \in Inum |-> IF i \in S THEN None ELSE lock[i]]
DirlookupPanics(i) == Loaded(i).type # "dir"
Nlink(i, d) == [Loaded(i) EXCEPT !.nlink = @ + d]

Goto(p, l) == pc' = [pc EXCEPT ![p] = l]
(* The call is over but for the iputs that remain.                         *)
Ends(p) ==
  /\ Goto(p, "out") /\ op' = [op EXCEPT ![p] = None]
  /\ at' = [at EXCEPT ![p] = None] /\ ip' = [ip EXCEPT ![p] = None]
  /\ name' = [name EXCEPT ![p] = None] /\ depth' = [depth EXCEPT ![p] = 0]
Put(p, s) == puts' = [puts EXCEPT ![p] = s]
Panic(why) == panicked' = why
              /\ UNCHANGED <<disk, ents, cache, pc, op, puts, stage, local, cwd, fd, calls>>

(* namex returns 0: sys_link has to undo the link it has counted.          *)
Fails(p) ==
  IF ip[p] = None THEN Ends(p)
  ELSE /\ Goto(p, "undo") /\ at' = [at EXCEPT ![p] = None]
       /\ depth' = [depth EXCEPT ![p] = 0] /\ name' = [name EXCEPT ![p] = None]
       /\ UNCHANGED <<op, ip>>

-----------------------------------------------------------------------------
(* Calls and namex                                                         *)
Parent == {"create", "mkdir", "unlink"}  \* the calls that begin with nameiparent
WantsParent(p) == op[p] \in Parent \/ ip[p] # None

Call(p, o, start) ==
  /\ pc[p] = "out" /\ Ready(p)
  /\ start \in {ROOTINO, cwd[p]}
  /\ calls < MaxCalls /\ calls' = calls + 1
  /\ Iget(start)
  /\ op' = [op EXCEPT ![p] = o] /\ Goto(p, "walk")
  /\ at' = [at EXCEPT ![p] = start] /\ depth' = [depth EXCEPT ![p] = 0]
  /\ UNCHANGED <<disk, ents, valid, mem, lock, panicked, puts, stage, ip, name, cwd, fd>>

(* A path of no elements: "/" or "".                                       *)
WalkNothing(p) ==
  /\ pc[p] = "walk" /\ Ready(p) /\ depth[p] = 0
  /\ IF WantsParent(p)
     THEN Put(p, <<at[p]>>) /\ Fails(p)
     ELSE Goto(p, "found") /\ UNCHANGED <<op, puts, local>>
  /\ UNCHANGED <<disk, ents, cache, panicked, stage, cwd, fd, calls>>

(* Not a directory, or no such entry.                                      *)
WalkFails(p, n) ==
  LET i == at[p] IN
  /\ Ilock(p, "walk", i) /\ depth[p] < MaxPath
  /\ Loaded(i).type # "dir" \/ ents[i][n] = None
  /\ Load(i) /\ Put(p, <<i>>) /\ Fails(p)
  /\ UNCHANGED <<ents, ref, lock, panicked, stage, cwd, fd, calls>>

(* The next element is found; the walk goes on or namei returns.           *)
WalkInto(p, n, last) ==
  LET i == at[p] IN
  /\ Ilock(p, "walk", i) /\ depth[p] < MaxPath
  /\ Loaded(i).type = "dir" /\ ents[i][n] # None
  /\ last => ~WantsParent(p)
  /\ Load(i) /\ Iget(ents[i][n]) /\ Put(p, <<i>>)
  /\ at' = [at EXCEPT ![p] = ents[i][n]]
  /\ depth' = [depth EXCEPT ![p] = IF last THEN 0 ELSE @ + 1]
  /\ Goto(p, IF last THEN "found" ELSE "walk")
  /\ UNCHANGED <<ents, lock, panicked, op, stage, ip, name, cwd, fd, calls>>

(* One level early: nameiparent returns the directory, unlocked.           *)
WalkParent(p, n) ==
  LET i == at[p] IN
  /\ Ilock(p, "walk", i) /\ WantsParent(p)
  /\ Loaded(i).type = "dir"
  /\ Load(i) /\ name' = [name EXCEPT ![p] = n] /\ Goto(p, "parent")
  /\ depth' = [depth EXCEPT ![p] = 0]
  /\ UNCHANGED <<ents, ref, lock, panicked, op, puts, stage, at, ip, cwd, fd, calls>>

-----------------------------------------------------------------------------
(* sys_open, sys_chdir, close                                              *)

(* The call has locked i and ends: i becomes the open file, or is put.     *)
Opens(p, i, before, may) ==
  \/ may /\ fd[p] = None /\ fd' = [fd EXCEPT ![p] = i] /\ Put(p, before)
  \/ ~(may /\ fd[p] = None) /\ UNCHANGED fd /\ Put(p, Append(before, i))

(* Any mode opens a file, O_RDONLY a directory.                            *)
Open(p) ==
  LET i == at[p] IN
  /\ op[p] = "open" /\ Ilock(p, "found", i)
  /\ Load(i)
  /\ \E rdonly \in BOOLEAN : Opens(p, i, <<>>, rdonly \/ Loaded(i).type # "dir")
  /\ Ends(p)
  /\ UNCHANGED <<ents, ref, lock, panicked, stage, cwd, calls>>

ChangeTo(p, putOld) ==
  LET i == at[p] IN
  /\ op[p] = "chdir" /\ Ilock(p, "found", i)
  /\ Load(i)
  /\ IF Loaded(i).type = "dir" THEN Put(p, putOld) /\ cwd' = [cwd EXCEPT ![p] = i]
     ELSE Put(p, <<i>>) /\ UNCHANGED cwd
  /\ Ends(p)
  /\ UNCHANGED <<ents, ref, lock, panicked, stage, fd, calls>>

(* Mutant: the old directory is not put.                                   *)
ChdirKeeps(p) == ChangeTo(p, <<>>)

Chdir(p) == ChangeTo(p, <<cwd[p]>>)

Close(p) ==
  /\ pc[p] = "out" /\ Ready(p) /\ fd[p] # None
  /\ Put(p, <<fd[p]>>) /\ fd' = [fd EXCEPT ![p] = None]
  /\ UNCHANGED <<disk, ents, cache, panicked, pc, op, stage, local, cwd, calls>>

-----------------------------------------------------------------------------
(* sys_link                                                                *)

(* The link is counted before there is an entry; then nameiparent(new).    *)
LinkFound(p, start) ==
  LET i == at[p] IN
  /\ op[p] = "link" /\ Ilock(p, "found", i)
  /\ start \in {ROOTINO, cwd[p]}
  /\ IF Loaded(i).type = "dir"
     THEN Load(i) /\ Put(p, <<i>>) /\ Ends(p) /\ UNCHANGED ref
     ELSE /\ Update({i}, [j \in {i} |-> Nlink(i, 1)]) /\ Goto(p, "walk")
          /\ ip' = [ip EXCEPT ![p] = i] /\ at' = [at EXCEPT ![p] = start]
          /\ Iget(start) /\ UNCHANGED <<op, name, depth, puts>>
  /\ UNCHANGED <<ents, lock, panicked, stage, cwd, fd, calls>>

(* dirlink enters the name.                                                *)
Link(p) ==
  LET d == at[p] IN
  /\ op[p] = "link" /\ Ilock(p, "parent", d)
  /\ IF DirlookupPanics(d) THEN Panic("dirlookup not DIR")
     ELSE /\ ents[d][name[p]] = None
          /\ Load(d) /\ ents' = [ents EXCEPT ![d][name[p]] = ip[p]]
          /\ Put(p, <<d, ip[p]>>) /\ Ends(p)
          /\ UNCHANGED <<ref, lock, panicked, stage, cwd, fd, calls>>

(* dirlink finds the name, and gives back what dirlookup got, dp locked.   *)
LinkTaken(p) ==
  LET d == at[p]  e == ents[d][name[p]] IN
  /\ op[p] = "link" /\ Ilock(p, "parent", d)
  /\ ~DirlookupPanics(d) /\ e # None
  /\ Load(d) /\ Iget(e) /\ lock' = [lock EXCEPT ![d] = p]
  /\ Put(p, <<e>>) /\ Goto(p, "held") /\ name' = [name EXCEPT ![p] = None]
  /\ UNCHANGED <<ents, panicked, op, stage, at, ip, depth, cwd, fd, calls>>

(* dp is unlocked and put at last.                                         *)
Refuse(p) ==
  /\ pc[p] = "held" /\ Ready(p)
  /\ Unlock({at[p]}) /\ Put(p, <<at[p]>>) /\ Fails(p)
  /\ UNCHANGED <<disk, ents, ref, valid, mem, panicked, stage, cwd, fd, calls>>

LinkUndo(p) ==
  LET i == ip[p] IN
  /\ Ilock(p, "undo", i)
  /\ Update({i}, [j \in {i} |-> Nlink(i, -1)])
  /\ Put(p, <<i>>) /\ Ends(p)
  /\ UNCHANGED <<ents, ref, lock, panicked, stage, cwd, fd, calls>>

-----------------------------------------------------------------------------
(* sys_unlink                                                              *)
(* ip is looked up in dp, whose lock has the holder it is given.           *)
LookUp(p, holder) ==
  LET d == at[p] IN
  /\ op[p] = "unlink" /\ Ilock(p, "parent", d)
  /\ IF name[p] # ".." /\ DirlookupPanics(d) THEN Panic("dirlookup not DIR")
     ELSE /\ Load(d)
          /\ IF name[p] = ".." \/ ents[d][name[p]] = None
             THEN Put(p, <<d>>) /\ Ends(p) /\ UNCHANGED <<ref, lock>>
             ELSE /\ lock' = [lock EXCEPT ![d] = holder] /\ Goto(p, "gone")
                  /\ Iget(ents[d][name[p]]) /\ ip' = [ip EXCEPT ![p] = ents[d][name[p]]]
                  /\ UNCHANGED <<puts, op, at, name, depth>>
          /\ UNCHANGED <<ents, panicked, stage, cwd, fd, calls>>

(* Mutant: dp is not kept locked.                                          *)
UnlinkLookUnlocked(p) == LookUp(p, None)

UnlinkLook(p) == LookUp(p, p)

Isdirempty(i) == \A n \in Name : ents[i][n] = None

(* ip is locked too.  Its entry goes, and the links of dp as given; dp is  *)
(* unlocked and put.  A directory with entries is put, dp locked.          *)
Erase(p, links) ==
  LET d == at[p]  i == ip[p]  isdir == Loaded(i).type = "dir" IN
  /\ Ilock(p, "gone", i)
  /\ IF Loaded(i).nlink < 1 THEN Panic("unlink: nlink < 1")
     ELSE /\ IF isdir /\ ~Isdirempty(i)
             THEN /\ Load(i) /\ Put(p, <<i>>) /\ Goto(p, "held")
                  /\ ip' = [ip EXCEPT ![p] = None] /\ name' = [name EXCEPT ![p] = None]
                  /\ UNCHANGED <<ents, lock, op, at, depth>>
             ELSE /\ ents' = [ents EXCEPT ![d][name[p]] = None]
                  /\ Update({i}, [j \in {d} |-> Nlink(d, -links)])
                  /\ lock' = [lock EXCEPT ![d] = None, ![i] = p]
                  /\ Put(p, <<d>>) /\ Goto(p, "cut")
                  /\ at' = [at EXCEPT ![p] = None] /\ name' = [name EXCEPT ![p] = None]
                  /\ UNCHANGED <<op, ip, depth>>
          /\ UNCHANGED <<ref, panicked, stage, cwd, fd, calls>>

Unlink(p) == Erase(p, IF Loaded(ip[p]).type = "dir" THEN 1 ELSE 0)

(* Mutant: the link count is not written to the disk.                      *)
UnlinkCutUnwritten(p) ==
  LET i == ip[p] IN
  /\ pc[p] = "cut" /\ Ready(p)
  /\ mem' = [mem EXCEPT ![i].nlink = @ - 1] /\ Unlock({i})
  /\ Put(p, <<i>>) /\ Ends(p)
  /\ UNCHANGED <<disk, valid, ents, ref, panicked, stage, cwd, fd, calls>>

UnlinkCut(p) ==
  LET i == ip[p] IN
  /\ pc[p] = "cut" /\ Ready(p)
  /\ Update({i}, [j \in {i} |-> Nlink(i, -1)]) /\ Unlock({i})
  /\ Put(p, <<i>>) /\ Ends(p)
  /\ UNCHANGED <<ents, ref, panicked, stage, cwd, fd, calls>>

-----------------------------------------------------------------------------
(* create, for sys_open and sys_mkdir                                      *)

(* The name exists: dp's lock goes to the holder it is given and dp is     *)
(* put; ip is not yet locked.                                              *)
Exists(p, holder) ==
  LET d == at[p] IN
  /\ op[p] \in {"create", "mkdir"} /\ Ilock(p, "parent", d)
  /\ ~DirlookupPanics(d) /\ ents[d][name[p]] # None
  /\ Load(d) /\ Iget(ents[d][name[p]])
  /\ lock' = [lock EXCEPT ![d] = holder]
  /\ ip' = [ip EXCEPT ![p] = ents[d][name[p]]] /\ at' = [at EXCEPT ![p] = None]
  /\ name' = [name EXCEPT ![p] = None] /\ Put(p, <<d>>) /\ Goto(p, "old")
  /\ UNCHANGED <<ents, panicked, op, stage, depth, cwd, fd, calls>>

(* Mutant: dp is unlocked only behind ilock(ip).                           *)
CreateFoundLocked(p) == Exists(p, p)

CreateFound(p) == Exists(p, None)

CreateOld(p) ==
  LET i == ip[p] IN
  /\ Ilock(p, "old", i)
  /\ Load(i)
  /\ Opens(p, i, <<>>, op[p] = "create" /\ Loaded(i).type = "file")
  /\ Ends(p)
  /\ UNCHANGED <<ents, ref, lock, panicked, stage, cwd, calls>>

(* ialloc, dp locked: any inode that is free on disk when it is looked at. *)
CreateAlloc(p, i) ==
  LET d == at[p] IN
  /\ op[p] \in {"create", "mkdir"} /\ Ilock(p, "parent", d)
  /\ IF DirlookupPanics(d) THEN Panic("dirlookup not DIR")
     ELSE /\ ents[d][name[p]] = None /\ disk[i].type = "free"
          /\ disk' = [disk EXCEPT ![i] = [type |-> IF op[p] = "mkdir" THEN "dir" ELSE "file",
                                          nlink |-> 0]]
          /\ valid' = [valid EXCEPT ![d] = TRUE] /\ mem' = [mem EXCEPT ![d] = Loaded(d)]
          /\ Iget(i) /\ lock' = [lock EXCEPT ![d] = p]
          /\ ip' = [ip EXCEPT ![p] = i] /\ Goto(p, "made")
          /\ UNCHANGED <<ents, panicked, op, puts, stage, at, name, depth, cwd, fd, calls>>

IallocPanics(p) ==
  /\ op[p] \in {"create", "mkdir"} /\ Ilock(p, "parent", at[p])
  /\ ents[at[p]][name[p]] = None /\ \A i \in Inum : disk[i].type # "free"
  /\ Panic("ialloc: no inodes")

(* The new inode is locked (iput may be at work on its former life), gets  *)
(* its link, its dots and its entry.                                       *)
CreateMade(p) ==
  LET d == at[p]  i == ip[p]  isdir == op[p] = "mkdir" IN
  /\ Ilock(p, "made", i)
  /\ IF ents[d][name[p]] # None THEN Panic("create: dirlink")
     ELSE /\ Update({i}, [j \in {i} \cup IF isdir THEN {d} ELSE {} |->
                            IF j = i THEN [Loaded(i) EXCEPT !.nlink = 1] ELSE Nlink(d, 1)])
          /\ ents' = [ents EXCEPT ![d][name[p]] = i, ![i] = IF isdir THEN Dots(d) ELSE @]
          /\ Unlock({d})
          /\ Opens(p, i, <<d>>, ~isdir)
          /\ Ends(p)
          /\ UNCHANGED <<ref, panicked, stage, cwd, calls>>

-----------------------------------------------------------------------------
(* iput, and the panics of ilock and iget                                  *)

Putting(p, s) == panicked = None /\ puts[p] # <<>> /\ stage[p] = s

(* ref--; a slot without references is as good as empty.                   *)
Drop(p, i) ==
  /\ ref' = [ref EXCEPT ![i] = @ - 1]
  /\ valid' = [valid EXCEPT ![i] = @ /\ ref[i] > 1]
  /\ mem' = [mem EXCEPT ![i] = IF ref[i] > 1 THEN @ ELSE Free]
  /\ Put(p, Tail(puts[p]))
  /\ stage' = [stage EXCEPT ![p] = "no"]
  /\ UNCHANGED <<disk, ents, lock, panicked, pc, op, local, cwd, fd, calls>>

(* Mutant: whoever puts an unlinked inode frees it.                        *)
LastLink(i) == valid[i] /\ mem[i].nlink = 0

Last(i) == ref[i] = 1 /\ valid[i] /\ mem[i].nlink = 0

IputRef(p) ==
  LET i == Head(puts[p]) IN
  Putting(p, "no") /\ ~Last(i) /\ Drop(p, i)

(* acquiresleep under icache.lock must not block: sched would panic.       *)
IputLast(p) ==
  LET i == Head(puts[p]) IN
  /\ Putting(p, "no") /\ Last(i)
  /\ IF lock[i] # None THEN Panic("sched locks")
     ELSE /\ lock' = [lock EXCEPT ![i] = p]
          /\ stage' = [stage EXCEPT ![p] = "trunc"]
          /\ UNCHANGED <<disk, ents, ref, valid, mem, panicked, pc, op, puts, local, cwd, fd, calls>>

(* itrunc, type = 0, iupdate: from here on ialloc may give the inode away. *)
IputFree(p) ==
  LET i == Head(puts[p]) IN
  /\ Putting(p, "trunc")
  /\ ents' = [ents EXCEPT ![i] = Empty]
  /\ Update({}, [j \in {i} |-> Free])
  /\ stage' = [stage EXCEPT ![p] = "free"]
  /\ UNCHANGED <<ref, lock, panicked, pc, op, puts, local, cwd, fd, calls>>

IputInvalid(p) ==
  LET i == Head(puts[p]) IN
  /\ Putting(p, "free")
  /\ valid' = [valid EXCEPT ![i] = FALSE] /\ Unlock({i})
  /\ stage' = [stage EXCEPT ![p] = "drop"]
  /\ UNCHANGED <<disk, ents, ref, mem, panicked, pc, op, puts, local, cwd, fd, calls>>

IputDrop(p) == Putting(p, "drop") /\ Drop(p, Head(puts[p]))

Iput(p) == IputRef(p) \/ IputLast(p) \/ IputFree(p) \/ IputInvalid(p) \/ IputDrop(p)

(* The inode p waits to lock.                                              *)
Wanted(p) == CASE pc[p] \in {"walk", "found", "parent"} -> at[p]
               [] pc[p] \in {"gone", "made", "old", "undo"} -> ip[p]
               [] OTHER -> None

(* The inode turns out to be free.                                         *)
IlockPanics(p) ==
  /\ Ready(p) /\ Wanted(p) # None
  /\ lock[Wanted(p)] = None /\ ~valid[Wanted(p)] /\ disk[Wanted(p)].type = "free"
  /\ Panic("ilock: no type")

(* p is about to call iget for inode i, and has the locks to do so.        *)
Seeks(p, i) ==
  LET d == at[p]
      looks(l) == Ilock(p, l, d) /\ ~DirlookupPanics(d) IN
  \/ pc[p] = "out" /\ calls < MaxCalls /\ i = ROOTINO
  \/ op[p] = "link" /\ Ilock(p, "found", d) /\ Loaded(d).type # "dir" /\ i = ROOTINO
  \/ looks("walk") /\ depth[p] < MaxPath /\ \E n \in Names : ents[d][n] = i
  \/ looks("parent") /\ ents[d][name[p]] = i /\ (op[p] = "unlink" => name[p] # "..")
  \/ looks("parent") /\ ents[d][name[p]] = None /\ op[p] \in {"create", "mkdir"}
     /\ disk[i].type = "free"

(* iget finds neither the inode nor a free slot.                           *)
IgetPanics(p) ==
  /\ Ready(p) /\ \E i \in Inum : ref[i] = 0 /\ Seeks(p, i)
  /\ Panic("iget: no inodes")

Next ==
  \E p \in Proc :
    \/ \E o \in Parent \cup {"open", "chdir", "link"}, s \in Inum : Call(p, o, s)
    \/ \E n \in Names : WalkFails(p, n) \/ WalkParent(p, n)
    \/ \E n \in Names, last \in BOOLEAN : WalkInto(p, n, last)
    \/ WalkNothing(p) \/ Open(p) \/ Chdir(p) \/ Close(p)
    \/ \E s \in Inum : LinkFound(p, s)
    \/ Link(p) \/ LinkTaken(p) \/ LinkUndo(p) \/ Refuse(p)
    \/ UnlinkLook(p) \/ Unlink(p) \/ UnlinkCut(p)
    \/ CreateFound(p) \/ CreateOld(p) \/ CreateMade(p) \/ IallocPanics(p)
    \/ \E i \in Inum : CreateAlloc(p, i)
    \/ Iput(p) \/ IlockPanics(p) \/ IgetPanics(p)

Spec == Init /\ [][Next]_vars

-----------------------------------------------------------------------------
(* Every variable has its type.  nlink is a short in the code, and may go  *)
(* below 0 when create sets to 1 what a call gone astray has counted.      *)
TypeOK ==
  LET inode == [type : {"free", "dir", "file"}, nlink : Int]
      inum == Inum \cup {None} IN
  /\ {disk, mem} \subseteq [Inum -> inode]
  /\ ents \in [Inum -> [Names -> inum]]
  /\ ref \in [Inum -> Nat] /\ valid \in [Inum -> BOOLEAN] /\ lock \in [Inum -> Proc \cup {None}]
  /\ panicked \in {None, "ilock: no type", "ialloc: no inodes", "iget: no inodes",
                   "dirlookup not DIR", "unlink: nlink < 1", "create: dirlink", "sched locks"}
  /\ pc \in [Proc -> {"out", "walk", "found", "parent", "gone", "cut", "held", "made", "old", "undo"}]
  /\ op \in [Proc -> Parent \cup {"open", "chdir", "link", None}] /\ calls \in 0 .. MaxCalls
  /\ puts \in [Proc -> Seq(Inum)] /\ stage \in [Proc -> {"no", "trunc", "free", "drop"}]
  /\ {at, ip, cwd, fd} \subseteq [Proc -> inum]
  /\ name \in [Proc -> Names \cup {None}] /\ depth \in [Proc -> 0 .. MaxPath]

(* An inode's reference count is the number of working directories, open   *)
(* files and calls that hold on to it, on every path through the calls.    *)
References(i) ==
  Cardinality({e \in Proc \X (1 .. 4) : <<cwd, fd, at, ip>>[e[2]][e[1]] = i})
  + Cardinality({e \in Proc \X (1 .. 3) : e[2] <= Len(puts[e[1]]) /\ puts[e[1]][e[2]] = i})
RefsExact == \A i \in Inum : ref[i] = References(i)

(* A cached inode nobody has locked is what is on the disk, also when the  *)
(* number is freed by one process and allocated by another meanwhile.      *)
CacheIsWrittenThrough ==
  \A i \in Inum : valid[i] /\ lock[i] = None => mem[i] = disk[i]

Links(i) == Cardinality({e \in Inum \X Name : ents[e[1]][e[2]] = i})

(* What a directory entry names is allocated, and its link count covers    *)
(* all its entries: no name leads to a freed inode.                        *)
NamedIsAllocated ==
  \A i \in Inum : Links(i) > 0 => disk[i].type # "free" /\ disk[i].nlink >= Links(i)

(* An inode in use is not freed, whoever unlinks it.                       *)
InUseIsAllocated ==
  \A p \in Proc : /\ disk[cwd[p]].type = "dir"
                  /\ fd[p] # None => disk[fd[p]].type # "free"

(* Unlinked, an inode lives as long as somebody refers to it: its last     *)
(* user frees it.                                                          *)
OrphanIsReferenced ==
  \A i \in Inum : disk[i].type # "free" /\ disk[i].nlink = 0 => ref[i] > 0

(* Call p waits for an inode that q has locked.                            *)
WaitsFor(p, q) == Ready(p) /\ Wanted(p) # None /\ lock[Wanted(p)] = q
=============================================================================
