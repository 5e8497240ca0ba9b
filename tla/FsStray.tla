------------------------------ MODULE FsStray ------------------------------
(***************************************************************************)
(* Fs with a history variable: whether a call has gone through the .. of a *)
(* directory that no entry names any more (the working directory of a      *)
(* process, say, that another has removed).  What that .. names may have   *)
(* been removed too, freed, and allocated again: the call has got hold of  *)
(* an inode that is somebody else's, and may count links to it before its  *)
(* creator sets their number to 1.  The properties here are what the calls *)
(* guarantee until then.                                                   *)
(***************************************************************************)
EXTENDS Fs

VARIABLE astray

strayVars == <<vars, astray>>

Removed(i) == i # ROOTINO /\ Links(i) = 0

(* p looks up n in the directory it stands at.                             *)
Strays(p, n) == astray' = (astray \/ (n = ".." /\ Removed(at[p])))

StrayInit == Init /\ astray = FALSE

(* Next, action by action: the lookups of a .. are those of namex, of      *)
(* create and of link.                                                     *)
StrayNext ==
  \E p \in Proc :
    \/ \E n \in Names, last \in BOOLEAN : WalkInto(p, n, last) /\ Strays(p, n)
    \/ CreateFound(p) /\ Strays(p, name[p])
    \/ LinkTaken(p) /\ Strays(p, name[p])
    \/ \E o \in Parent \cup {"open", "chdir", "link"}, s \in Inum :
         Call(p, o, s) /\ UNCHANGED astray
    \/ \E n \in Names : WalkFails(p, n) /\ UNCHANGED astray
    \/ \E n \in Names : WalkParent(p, n) /\ UNCHANGED astray
    \/ \E s \in Inum : LinkFound(p, s) /\ UNCHANGED astray
    \/ \E i \in Inum : CreateAlloc(p, i) /\ UNCHANGED astray
    \/ WalkNothing(p) /\ UNCHANGED astray
    \/ Open(p) /\ UNCHANGED astray
    \/ Chdir(p) /\ UNCHANGED astray
    \/ Close(p) /\ UNCHANGED astray
    \/ Link(p) /\ UNCHANGED astray
    \/ LinkUndo(p) /\ UNCHANGED astray
    \/ Refuse(p) /\ UNCHANGED astray
    \/ UnlinkLook(p) /\ UNCHANGED astray
    \/ Unlink(p) /\ UNCHANGED astray
    \/ UnlinkCut(p) /\ UNCHANGED astray
    \/ CreateOld(p) /\ UNCHANGED astray
    \/ CreateMade(p) /\ UNCHANGED astray
    \/ IallocPanics(p) /\ UNCHANGED astray
    \/ Iput(p) /\ UNCHANGED astray
    \/ IlockPanics(p) /\ UNCHANGED astray
    \/ IgetPanics(p) /\ UNCHANGED astray

StraySpec == StrayInit /\ [][StrayNext]_strayVars

-----------------------------------------------------------------------------
(* Neither a name nor a user of an inode is left with a freed one.         *)
InodesAllocated == ~astray => NamedIsAllocated /\ InUseIsAllocated

(* No two calls that hold one inode and want another wait for each other.  *)
NoLockCycle == ~astray => \A p, q \in Proc : ~(WaitsFor(p, q) /\ WaitsFor(q, p))

(* nameiparent returns its directory unlocked, and yet the calls find a    *)
(* directory in it and no second entry; iput does not sleep with           *)
(* icache.lock held; and what is looked up is allocated and has links to   *)
(* count down, where a call has not gone astray.  Of the panics on those   *)
(* paths that leaves ialloc's for want of free inodes and iget's for want  *)
(* of free slots; what wants disk blocks (balloc) is not modelled.         *)
NoPanic ==
  /\ panicked \in {None, "ialloc: no inodes", "iget: no inodes", "ilock: no type", "unlink: nlink < 1"}
  /\ ~astray => panicked \in {None, "ialloc: no inodes", "iget: no inodes"}
=============================================================================
