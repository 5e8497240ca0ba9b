------------------------------ MODULE FsProofs ------------------------------
(***************************************************************************)
(* Proofs about inodes, directories and the calls that use them, for every *)
(* number of processes, inodes and names and paths of every length.        *)
(***************************************************************************)
EXTENDS FsStray, FiniteSetTheorems, FunctionTheorems, SequenceTheorems, TLAPS

Inode == [type : {"free", "dir", "file"}, nlink : Int]
Ops == Parent \cup {"open", "chdir", "link"}
Pcs == {"out", "walk", "found", "parent", "gone", "cut", "held", "made", "old", "undo"}
Stages == {"no", "trunc", "free", "drop"}

(* Every variable has its type.  That counts are not negative follows from *)
(* the other parts.                                                        *)
Store ==
  /\ disk \in [Inum -> Inode] /\ mem \in [Inum -> Inode]
  /\ ents \in [Inum -> [Names -> Inum \cup {None}]]
  /\ ref \in [Inum -> Int] /\ valid \in [Inum -> BOOLEAN]
  /\ lock \in [Inum -> Proc \cup {None}]
Calls ==
  /\ pc \in [Proc -> Pcs] /\ op \in [Proc -> Ops \cup {None}]
  /\ puts \in [Proc -> Seq(Inum)] /\ stage \in [Proc -> Stages]
  /\ at \in [Proc -> Inum \cup {None}] /\ ip \in [Proc -> Inum \cup {None}]
  /\ cwd \in [Proc -> Inum] /\ fd \in [Proc -> Inum \cup {None}]
  /\ name \in [Proc -> Names \cup {None}]
Types == Store /\ Calls

(* The inodes a call holds at each point of it.                            *)
Shape ==
  \A p \in Proc :
    /\ pc[p] = "out" => at[p] = None /\ ip[p] = None
    /\ pc[p] = "walk" => at[p] # None /\ (ip[p] # None => op[p] = "link")
    /\ pc[p] = "found" => at[p] # None /\ ip[p] = None /\ op[p] \notin Parent
    /\ pc[p] = "parent" => at[p] # None /\ name[p] # None /\ (op[p] = "link" <=> ip[p] # None)
    /\ pc[p] \in {"gone", "made"} =>
         at[p] # None /\ ip[p] # None /\ name[p] # None /\ puts[p] = <<>>
    /\ pc[p] = "gone" => name[p] \in Name
    /\ pc[p] = "held" => at[p] # None
    /\ pc[p] \in {"cut", "old", "undo"} => at[p] = None /\ ip[p] # None
    /\ Len(puts[p]) <= 2
    /\ stage[p] # "no" => puts[p] # <<>>

(* Who holds an inode's lock behind a step, and that the inode is valid.   *)
Emptying(p, i) == stage[p] \in {"trunc", "free"} /\ Head(puts[p]) = i
Holds(p, i) ==
  \/ pc[p] \in {"gone", "held", "made"} /\ at[p] = i
  \/ pc[p] = "cut" /\ ip[p] = i
  \/ Emptying(p, i)
Locks ==
  /\ \A p \in Proc, i \in Inum : lock[i] = p <=> Holds(p, i)
  /\ \A p \in Proc, i \in Inum : Holds(p, i) => valid[i]
  /\ \A p \in Proc : pc[p] = "cut" => ~Emptying(p, ip[p])
  /\ \A p \in Proc : pc[p] = "held" => ~Emptying(p, at[p])

(* A valid inode is allocated and as on the disk, unless it is being freed.*)
Freeing(p, i) == stage[p] = "free" /\ Head(puts[p]) = i
Cached ==
  \A i \in Inum : valid[i] =>
    \/ mem[i] = disk[i] /\ disk[i].type # "free"
    \/ \E p \in Proc : Freeing(p, i)

(* A directory that a call has found stays one.                            *)
Settled ==
  \A p \in Proc : pc[p] \in {"parent", "gone", "made"} =>
    /\ disk[at[p]].type = "dir"
    /\ \A q \in Proc : ~Emptying(q, at[p])

(* What a call has seen in a directory stays there while it has it locked. *)
Seen ==
  \A p \in Proc :
    /\ pc[p] = "gone" => ents[at[p]][name[p]] = ip[p]
    /\ pc[p] = "made" => ents[at[p]][name[p]] = None

Panics ==
  panicked \in {None, "ialloc: no inodes", "iget: no inodes", "ilock: no type", "unlink: nlink < 1"}

IInv == Types /\ Shape /\ RefsExact /\ Locks /\ Cached /\ Settled /\ Seen /\ Panics

-----------------------------------------------------------------------------
(* What holds until a call goes astray.                                    *)

(* p refers to inode i, and has not freed it.                              *)
Uses(p, i) ==
  \/ i \in {cwd[p], fd[p], at[p], ip[p]}
  \/ \E k \in 1 .. Len(puts[p]) :
       puts[p][k] = i /\ ~(k = 1 /\ stage[p] \in {"free", "drop"})

(* The links of an inode: its entries, the .. of its directories, what     *)
(* calls have counted and not yet entered or erased and not yet counted.   *)
LinkSet(i) == {e \in Inum \X Name : ents[e[1]][e[2]] = i}
SubdirSet(i) == {n \in Name : ents[i][n] # None /\ disk[ents[i][n]].type = "dir"}
PendingSet(i) == {p \in Proc : ip[p] = i /\ pc[p] \in {"walk", "parent", "held", "undo", "cut"}}
Subdirs(i) == Cardinality(SubdirSet(i))
Pending(i) == Cardinality(PendingSet(i))
CountedAt(i) ==
  disk[i].nlink >= Links(i) + Subdirs(i) + Pending(i) + (IF i = ROOTINO THEN 1 ELSE 0)
Counted == \A i \in Inum : CountedAt(i)

(* What is in use is allocated.                                            *)
Alive ==
  /\ \A p \in Proc, i \in Inum : Uses(p, i) => disk[i].type # "free"
  /\ \A p \in Proc : disk[cwd[p]].type = "dir"
  /\ \A i \in Inum : disk[i].type = "free" => disk[i].nlink = 0
  /\ disk[ROOTINO].type = "dir"

(* An inode that is new, or about to be freed, is in use by one call.      *)
Only(p, i) == disk[i].nlink = 0 /\ \A q \in Proc \ {p} : ~Uses(q, i)
Fresh ==
  \A p \in Proc : pc[p] = "made" =>
    /\ Only(p, ip[p]) /\ ip[p] \notin {cwd[p], fd[p], at[p]}
    /\ ents[ip[p]] = Empty /\ (disk[ip[p]].type = "dir" <=> op[p] = "mkdir")
DoomedAt(p) ==
  /\ Only(p, Head(puts[p])) /\ Head(puts[p]) \notin {cwd[p], fd[p], at[p], ip[p]}
  /\ Len(puts[p]) > 1 => puts[p][2] # Head(puts[p])
Doomed == \A p \in Proc : stage[p] = "trunc" => DoomedAt(p)

(* Directories form trees, and .. leads up.                                *)
New(i) == \E p \in Proc : pc[p] = "made" /\ ip[p] = i
Tree ==
  /\ \A d \in Inum : disk[d].type # "dir" => ents[d] = Empty
  /\ \A d \in Inum : disk[d].type = "dir" /\ ~New(d) => ents[d][".."] # None
  /\ \A d, i \in Inum, n \in Name :
       ents[d][n] = i /\ disk[i].type = "dir" => ents[i][".."] = d
  /\ \A d, i \in Inum, n, m \in Name : ~(ents[d][n] = i /\ ents[i][m] = d)
  /\ ents[ROOTINO][".."] = ROOTINO

(* Links are made to files.                                                *)
LinksToFiles ==
  \A p \in Proc : pc[p] \in {"walk", "parent", "held", "undo"} /\ ip[p] # None => disk[ip[p]].type # "dir"

Tame == Counted /\ Alive /\ Fresh /\ Doomed /\ Tree /\ LinksToFiles
        /\ panicked \in {None, "ialloc: no inodes", "iget: no inodes"}
SInv == IInv /\ (~astray => Tame)

-----------------------------------------------------------------------------
(* What is assumed of the constants, as facts.                             *)
LEMMA ConstFacts ==
  /\ Inum \subseteq Nat /\ ROOTINO \in Inum
  /\ IsFiniteSet(Proc) /\ IsFiniteSet(Inum) /\ IsFiniteSet(Name)
  /\ None \notin Proc /\ None \notin Inum /\ None \notin Names
  /\ Name \subseteq Names /\ ".." \in Names /\ ".." \notin Name
  /\ \A n \in Names : n \in Name \/ n = ".."
BY FsAssumption DEF FsAssumption, Names

-----------------------------------------------------------------------------
(* Counting references                                                     *)

LEMMA AddIf ==
  ASSUME NEW S, NEW e, NEW b \in BOOLEAN, IsFiniteSet(S), e \notin S
  PROVE  LET T == S \cup (IF b THEN {e} ELSE {}) IN
         /\ IsFiniteSet(T) /\ Cardinality(S) \in Int
         /\ Cardinality(T) = Cardinality(S) + (IF b THEN 1 ELSE 0)
<1>1. Cardinality(S) \in Nat
  BY FS_CardinalityType
<1>2. CASE b
  BY <1>1, <1>2, FS_AddElement
<1>3. CASE ~b
  <2>1. S \cup (IF b THEN {e} ELSE {}) = S
    BY <1>3
  <2> QED BY <1>1, <1>3, <2>1
<1> QED BY <1>2, <1>3

(* References, as a function of the variables it depends on: those of p    *)
(* and those of the others.                                                *)
Kept(c, f, a, x, i, S) == {e \in S \X (1 .. 4) : <<c, f, a, x>>[e[2]][e[1]] = i}
Owed(s, i, S) == {e \in S \X (1 .. 3) : e[2] <= Len(s[e[1]]) /\ s[e[1]][e[2]] = i}
RefsOf(c, f, a, x, s, i, S) == Cardinality(Kept(c, f, a, x, i, S)) + Cardinality(Owed(s, i, S))
Bit(b) == IF b THEN 1 ELSE 0
Mine(c, f, a, x, s, i) ==
  Bit(c = i) + Bit(f = i) + Bit(a = i) + Bit(x = i)
  + Bit(1 <= Len(s) /\ s[1] = i) + Bit(2 <= Len(s) /\ s[2] = i)

LEMMA RefsFinite ==
  ASSUME NEW c, NEW f, NEW a, NEW x, NEW s, NEW i, NEW S \in SUBSET Proc
  PROVE  /\ IsFiniteSet(Kept(c, f, a, x, i, S)) /\ IsFiniteSet(Owed(s, i, S))
         /\ Cardinality(Kept(c, f, a, x, i, S)) \in Nat
         /\ Cardinality(Owed(s, i, S)) \in Nat
<1>0. 1 \in Int /\ 3 \in Int /\ 4 \in Int
  OBVIOUS
<1>1. IsFiniteSet(S) /\ IsFiniteSet(1 .. 4) /\ IsFiniteSet(1 .. 3)
  <2>1. IsFiniteSet(1 .. 4) /\ IsFiniteSet(1 .. 3)
    BY <1>0, FS_Interval
  <2>2. IsFiniteSet(S)
    BY ConstFacts, FS_Subset
  <2> QED BY <2>1, <2>2
<1>2. IsFiniteSet(S \X (1 .. 4)) /\ IsFiniteSet(S \X (1 .. 3))
  BY <1>1, FS_Product
<1>3. IsFiniteSet(Kept(c, f, a, x, i, S)) /\ IsFiniteSet(Owed(s, i, S))
  BY <1>2, FS_Subset DEF Kept, Owed
<1> QED BY <1>3, FS_CardinalityType

LEMMA ReferencesAre ==
  ASSUME NEW i
  PROVE  References(i) = RefsOf(cwd, fd, at, ip, puts, i, Proc)
BY DEF References, RefsOf, Kept, Owed

LEMMA MineAndOthers ==
  ASSUME NEW c, NEW f, NEW a, NEW x, NEW s \in [Proc -> Seq(Inum)],
         NEW i, NEW p \in Proc, Len(s[p]) <= 2
  PROVE  RefsOf(c, f, a, x, s, i, Proc) =
         RefsOf(c, f, a, x, s, i, Proc \ {p}) + Mine(c[p], f[p], a[p], x[p], s[p], i)
<1> DEFINE K0 == Kept(c, f, a, x, i, Proc \ {p})
           K1 == K0 \cup (IF c[p] = i THEN {<<p, 1>>} ELSE {})
           K2 == K1 \cup (IF f[p] = i THEN {<<p, 2>>} ELSE {})
           K3 == K2 \cup (IF a[p] = i THEN {<<p, 3>>} ELSE {})
           K4 == K3 \cup (IF x[p] = i THEN {<<p, 4>>} ELSE {})
           O0 == Owed(s, i, Proc \ {p})
           O1 == O0 \cup (IF 1 <= Len(s[p]) /\ s[p][1] = i THEN {<<p, 1>>} ELSE {})
           O2 == O1 \cup (IF 2 <= Len(s[p]) /\ s[p][2] = i THEN {<<p, 2>>} ELSE {})
<1>1. Kept(c, f, a, x, i, Proc) = K4
  <2>1. \A e \in Proc \X (1 .. 4) : <<c, f, a, x>>[e[2]][e[1]] = i <=> e \in K4
    <3> SUFFICES ASSUME NEW e \in Proc \X (1 .. 4)
                 PROVE  <<c, f, a, x>>[e[2]][e[1]] = i <=> e \in K4
      OBVIOUS
    <3>0. PICK q \in Proc, k \in 1 .. 4 : e = <<q, k>> /\ e[1] = q /\ e[2] = k
      OBVIOUS
    <3>1. CASE q # p
      BY <3>0, <3>1 DEF Kept
    <3>2. CASE q = p
      <4>1. k = 1 \/ k = 2 \/ k = 3 \/ k = 4
        OBVIOUS
      <4> QED BY <3>0, <3>2, <4>1 DEF Kept
    <3> QED BY <3>1, <3>2
  <2>2. K4 \subseteq Proc \X (1 .. 4)
    BY DEF Kept
  <2> QED BY <2>1, <2>2 DEF Kept
<1>2. Owed(s, i, Proc) = O2
  <2>1. \A e \in Proc \X (1 .. 3) : e[2] <= Len(s[e[1]]) /\ s[e[1]][e[2]] = i <=> e \in O2
    <3> SUFFICES ASSUME NEW e \in Proc \X (1 .. 3)
                 PROVE  e[2] <= Len(s[e[1]]) /\ s[e[1]][e[2]] = i <=> e \in O2
      OBVIOUS
    <3>0. PICK q \in Proc, k \in 1 .. 3 : e = <<q, k>> /\ e[1] = q /\ e[2] = k
      OBVIOUS
    <3>1. CASE q # p
      BY <3>0, <3>1 DEF Owed
    <3>2. CASE q = p
      <4>1. k = 1 \/ k = 2 \/ k = 3
        OBVIOUS
      <4>2. Len(s[p]) \in Nat
        OBVIOUS
      <4> QED BY <3>0, <3>2, <4>1, <4>2 DEF Owed
    <3> QED BY <3>1, <3>2
  <2>2. O2 \subseteq Proc \X (1 .. 3)
    BY DEF Owed
  <2> QED BY <2>1, <2>2 DEF Owed
<1>3. IsFiniteSet(K0) /\ IsFiniteSet(O0) /\ Cardinality(K0) \in Nat /\ Cardinality(O0) \in Nat
  BY RefsFinite
<1>4. Cardinality(K4) = Cardinality(K0) + Bit(c[p] = i) + Bit(f[p] = i) + Bit(a[p] = i) + Bit(x[p] = i)
  <2>0. \A k : <<p, k>> \notin K0
    BY DEF Kept
  <2> HIDE DEF K0
  <2>1. IsFiniteSet(K1) /\ Cardinality(K1) = Cardinality(K0) + Bit(c[p] = i)
    BY <1>3, <2>0, AddIf DEF Bit
  <2>2. <<p, 2>> \notin K1 /\ <<p, 3>> \notin K1 /\ <<p, 4>> \notin K1
    BY <2>0
  <2> HIDE DEF K1
  <2>3. IsFiniteSet(K2) /\ Cardinality(K2) = Cardinality(K1) + Bit(f[p] = i)
    BY <2>1, <2>2, AddIf DEF Bit
  <2>4. <<p, 3>> \notin K2 /\ <<p, 4>> \notin K2
    BY <2>2
  <2> HIDE DEF K2
  <2>5. IsFiniteSet(K3) /\ Cardinality(K3) = Cardinality(K2) + Bit(a[p] = i)
    BY <2>3, <2>4, AddIf DEF Bit
  <2>6. <<p, 4>> \notin K3
    BY <2>4
  <2> HIDE DEF K3
  <2>7. IsFiniteSet(K4) /\ Cardinality(K4) = Cardinality(K3) + Bit(x[p] = i)
    BY <2>5, <2>6, AddIf DEF Bit
  <2> HIDE DEF K4
  <2> QED BY <1>3, <2>1, <2>3, <2>5, <2>7 DEF Bit
<1>5. Cardinality(O2) = Cardinality(O0) + Bit(1 <= Len(s[p]) /\ s[p][1] = i)
                        + Bit(2 <= Len(s[p]) /\ s[p][2] = i)
  <2>0. \A k : <<p, k>> \notin O0
    BY DEF Owed
  <2> HIDE DEF O0
  <2>1. IsFiniteSet(O1) /\ Cardinality(O1) = Cardinality(O0) + Bit(1 <= Len(s[p]) /\ s[p][1] = i)
    BY <1>3, <2>0, AddIf DEF Bit
  <2>2. <<p, 2>> \notin O1
    BY <2>0
  <2> HIDE DEF O1
  <2>3. IsFiniteSet(O2) /\ Cardinality(O2) = Cardinality(O1) + Bit(2 <= Len(s[p]) /\ s[p][2] = i)
    BY <2>1, <2>2, AddIf DEF Bit
  <2> HIDE DEF O2
  <2> QED BY <1>3, <2>1, <2>3 DEF Bit
<1> HIDE DEF K0, K1, K2, K3, K4, O0, O1, O2
<1>6. RefsOf(c, f, a, x, s, i, Proc) = Cardinality(K4) + Cardinality(O2)
  BY <1>1, <1>2 DEF RefsOf
<1>7. RefsOf(c, f, a, x, s, i, Proc \ {p}) = Cardinality(K0) + Cardinality(O0)
  BY DEF RefsOf, K0, O0
<1>8. /\ Bit(c[p] = i) \in Int /\ Bit(f[p] = i) \in Int /\ Bit(a[p] = i) \in Int
      /\ Bit(x[p] = i) \in Int /\ Bit(1 <= Len(s[p]) /\ s[p][1] = i) \in Int
      /\ Bit(2 <= Len(s[p]) /\ s[p][2] = i) \in Int
  BY DEF Bit
<1>9. PICK b1 \in Int, b2 \in Int, b3 \in Int, b4 \in Int, b5 \in Int, b6 \in Int :
        /\ b1 = Bit(c[p] = i) /\ b2 = Bit(f[p] = i) /\ b3 = Bit(a[p] = i) /\ b4 = Bit(x[p] = i)
        /\ b5 = Bit(1 <= Len(s[p]) /\ s[p][1] = i) /\ b6 = Bit(2 <= Len(s[p]) /\ s[p][2] = i)
  BY <1>8
<1>10. Mine(c[p], f[p], a[p], x[p], s[p], i) = b1 + b2 + b3 + b4 + b5 + b6
  BY <1>9 DEF Mine
<1>11. /\ Cardinality(K4) = Cardinality(K0) + b1 + b2 + b3 + b4
       /\ Cardinality(O2) = Cardinality(O0) + b5 + b6
  BY <1>4, <1>5, <1>9
<1>12. Cardinality(K0) \in Int /\ Cardinality(O0) \in Int
  BY <1>3, FS_CardinalityType
<1>13. PICK k \in Int, o \in Int : k = Cardinality(K0) /\ o = Cardinality(O0)
  BY <1>12
<1>14. RefsOf(c, f, a, x, s, i, Proc) = (k + b1 + b2 + b3 + b4) + (o + b5 + b6)
  BY <1>6, <1>11, <1>13
<1>15. (k + b1 + b2 + b3 + b4) + (o + b5 + b6) = (k + o) + (b1 + b2 + b3 + b4 + b5 + b6)
  OBVIOUS
<1> QED BY <1>7, <1>10, <1>13, <1>14, <1>15

LEMMA Split ==
  ASSUME NEW i, NEW p \in Proc, puts \in [Proc -> Seq(Inum)], Len(puts[p]) <= 2
  PROVE  References(i) = RefsOf(cwd, fd, at, ip, puts, i, Proc \ {p})
                         + Mine(cwd[p], fd[p], at[p], ip[p], puts[p], i)
<1>1. RefsOf(cwd, fd, at, ip, puts, i, Proc) =
      RefsOf(cwd, fd, at, ip, puts, i, Proc \ {p}) + Mine(cwd[p], fd[p], at[p], ip[p], puts[p], i)
  BY MineAndOthers
<1> QED BY <1>1, ReferencesAre

LEMMA SplitNext ==
  ASSUME NEW i, NEW p \in Proc, puts' \in [Proc -> Seq(Inum)], Len(puts'[p]) <= 2
  PROVE  References(i)' = RefsOf(cwd', fd', at', ip', puts', i, Proc \ {p})
                          + Mine(cwd'[p], fd'[p], at'[p], ip'[p], puts'[p], i)
<1>1. References(i)' = RefsOf(cwd', fd', at', ip', puts', i, Proc)
  BY DEF References, RefsOf, Kept, Owed
<1> QED BY <1>1, MineAndOthers

(* When p changes its own references, and ref as they do, counts stay      *)
(* exact.                                                                  *)
LEMMA RefsStep ==
  ASSUME NEW p \in Proc, Types, Types', RefsExact, Len(puts[p]) <= 2, Len(puts'[p]) <= 2,
         \A q \in Proc \ {p} :
           /\ cwd'[q] = cwd[q] /\ fd'[q] = fd[q] /\ at'[q] = at[q] /\ ip'[q] = ip[q]
           /\ puts'[q] = puts[q],
         \A i \in Inum : ref'[i] - Mine(cwd'[p], fd'[p], at'[p], ip'[p], puts'[p], i)
                       = ref[i] - Mine(cwd[p], fd[p], at[p], ip[p], puts[p], i)
  PROVE  RefsExact'
<1> SUFFICES ASSUME NEW i \in Inum
             PROVE  ref'[i] = References(i)'
  BY DEF RefsExact
<1> DEFINE others == RefsOf(cwd, fd, at, ip, puts, i, Proc \ {p})
           mine == Mine(cwd[p], fd[p], at[p], ip[p], puts[p], i)
<1>2. References(i)' = RefsOf(cwd', fd', at', ip', puts', i, Proc \ {p})
                       + Mine(cwd'[p], fd'[p], at'[p], ip'[p], puts'[p], i)
  <2>1. puts' \in [Proc -> Seq(Inum)]
    BY DEF Types, Store, Calls
  <2> QED BY <2>1, SplitNext
<1>3. References(i) = others + mine
  <2>1. puts \in [Proc -> Seq(Inum)]
    BY DEF Types, Store, Calls
  <2> QED BY <2>1, Split
<1>4. RefsOf(cwd', fd', at', ip', puts', i, Proc \ {p}) = others
  <2>1. Kept(cwd', fd', at', ip', i, Proc \ {p}) = Kept(cwd, fd, at, ip, i, Proc \ {p})
    <3>1. \A e \in (Proc \ {p}) \X (1 .. 4) :
            <<cwd', fd', at', ip'>>[e[2]][e[1]] = <<cwd, fd, at, ip>>[e[2]][e[1]]
      <4> SUFFICES ASSUME NEW e \in (Proc \ {p}) \X (1 .. 4)
                   PROVE  <<cwd', fd', at', ip'>>[e[2]][e[1]] = <<cwd, fd, at, ip>>[e[2]][e[1]]
        OBVIOUS
      <4>1. PICK q \in Proc \ {p}, k \in 1 .. 4 : e[1] = q /\ e[2] = k
        OBVIOUS
      <4>2. k = 1 \/ k = 2 \/ k = 3 \/ k = 4
        OBVIOUS
      <4> QED BY <4>1, <4>2
    <3> QED BY <3>1 DEF Kept
  <2>2. Owed(puts', i, Proc \ {p}) = Owed(puts, i, Proc \ {p})
    <3>1. \A e \in (Proc \ {p}) \X (1 .. 3) : puts'[e[1]] = puts[e[1]]
      OBVIOUS
    <3> QED BY <3>1 DEF Owed
  <2> QED BY <2>1, <2>2 DEF RefsOf
<1>5. others \in Int
  BY RefsFinite DEF RefsOf
<1>6. mine \in Int /\ Mine(cwd'[p], fd'[p], at'[p], ip'[p], puts'[p], i) \in Int
  BY DEF Mine, Bit
<1>7. ref[i] = References(i)
  BY DEF RefsExact
<1>8. ref[i] \in Int /\ ref'[i] \in Int
  BY DEF Types, Store, Calls
<1>9. ref'[i] - Mine(cwd'[p], fd'[p], at'[p], ip'[p], puts'[p], i) = ref[i] - mine
  OBVIOUS
<1> HIDE DEF others, mine
<1> QED BY <1>2, <1>3, <1>4, <1>5, <1>6, <1>7, <1>8, <1>9

(* A reference that p is about to drop is the only one, or there are two.  *)
LEMMA OnlyReference ==
  ASSUME NEW p \in Proc, Types, Shape, RefsExact, puts[p] # <<>>, ~(ref[Head(puts[p])] > 1)
  PROVE  /\ \A q \in Proc : Head(puts[p]) \notin {cwd[q], fd[q], at[q], ip[q]}
         /\ \A q \in Proc : \A k \in 1 .. Len(puts[q]) :
              puts[q][k] = Head(puts[p]) => q = p /\ k = 1
<1> DEFINE i == Head(puts[p])
           K == Kept(cwd, fd, at, ip, i, Proc)
           O == Owed(puts, i, Proc)
<1>1. i \in Inum /\ i = puts[p][1] /\ Len(puts[p]) >= 1
  BY DEF Types, Store, Calls
<1>2. IsFiniteSet(K) /\ IsFiniteSet(O) /\ Cardinality(K) \in Nat /\ Cardinality(O) \in Nat
  BY RefsFinite
<1>3. ref[i] = Cardinality(K) + Cardinality(O)
  BY <1>1, ReferencesAre DEF RefsExact, RefsOf
<1>4. <<p, 1>> \in O
  BY <1>1 DEF Owed
<1>5. ref[i] <= 1
  BY <1>1 DEF Types, Store, Calls
<1> HIDE DEF K, O
<1>6. Cardinality(O) >= 1
  <2>1. Cardinality(O) # 0
    BY <1>2, <1>4, FS_EmptySet
  <2> QED BY <1>2, <2>1
<1>7. K = {}
  <2>1. Cardinality(K) = 0
    BY <1>2, <1>3, <1>5, <1>6
  <2> QED BY <1>2, <2>1, FS_EmptySet
<1>8. O = {<<p, 1>>}
  <2>1. Cardinality(O) = 1
    BY <1>2, <1>3, <1>5, <1>6
  <2>2. PICK e : O = {e}
    BY <1>2, <2>1, FS_Singleton
  <2> QED BY <1>4, <2>2
<1>9. ASSUME NEW q \in Proc
      PROVE  i \notin {cwd[q], fd[q], at[q], ip[q]}
  <2>1. <<q, 1>> \notin K /\ <<q, 2>> \notin K /\ <<q, 3>> \notin K /\ <<q, 4>> \notin K
    BY <1>7
  <2> QED BY <2>1 DEF K, Kept
<1>10. ASSUME NEW q \in Proc, NEW k \in 1 .. Len(puts[q]), puts[q][k] = i
       PROVE  q = p /\ k = 1
  <2>1. Len(puts[q]) <= 2 /\ Len(puts[q]) \in Nat
    BY DEF Types, Store, Calls, Shape
  <2>2. <<q, k>> \in O
    BY <1>10, <2>1 DEF O, Owed
  <2> QED BY <1>8, <2>2
<1> QED BY <1>9, <1>10

-----------------------------------------------------------------------------
(* Inodes and their locks                                                  *)

LEMMA LoadedIs ==
  ASSUME Types, Locks, Cached, NEW i \in Inum, lock[i] = None,
         valid[i] \/ disk[i].type # "free"
  PROVE  /\ Loaded(i) = disk[i] /\ disk[i].type # "free"
         /\ \A q \in Proc : ~Holds(q, i)
<1>1. \A q \in Proc : ~Holds(q, i)
  BY ConstFacts DEF Locks
<1>2. \A q \in Proc : ~Freeing(q, i)
  BY <1>1 DEF Holds, Emptying, Freeing
<1> QED BY <1>1, <1>2 DEF Loaded, Cached

LEMMA HeldIs ==
  ASSUME Types, Locks, Cached, NEW p \in Proc, NEW i \in Inum, Holds(p, i)
  PROVE  /\ lock[i] = p /\ valid[i] /\ \A q \in Proc : Holds(q, i) => q = p
         /\ ~Freeing(p, i) => mem[i] = disk[i] /\ Loaded(i) = disk[i] /\ disk[i].type # "free"
<1>1. lock[i] = p /\ valid[i] /\ \A q \in Proc : Holds(q, i) => q = p
  BY DEF Locks
<1>2. \A q \in Proc : Freeing(q, i) => q = p
  BY <1>1 DEF Holds, Emptying, Freeing
<1> QED BY <1>1, <1>2 DEF Loaded, Cached

LEMMA LoadedType ==
  ASSUME Types, NEW i \in Inum
  PROVE  /\ Loaded(i) \in Inode
         /\ \A d \in Int : Nlink(i, d) \in Inode
         /\ [Loaded(i) EXCEPT !.nlink = 1] \in Inode
<1>1. Loaded(i) \in Inode
  BY DEF Types, Store, Loaded
<1>2. \A r \in Inode : r.nlink \in Int /\ \A k \in Int : [r EXCEPT !.nlink = k] \in Inode
  BY DEF Inode
<1>3. ASSUME NEW d \in Int
      PROVE  Nlink(i, d) \in Inode
  <2>1. Loaded(i).nlink + d \in Int
    BY <1>1, <1>2
  <2> QED BY <1>1, <1>2, <2>1 DEF Nlink
<1> QED BY <1>1, <1>2, <1>3

(* Update, inode by inode.                                                 *)
LEMMA UpdateIs ==
  ASSUME Types, NEW S \in SUBSET Inum, NEW new, Update(S, new), DOMAIN new \subseteq Inum,
         \A i \in DOMAIN new : new[i] \in Inode
  PROVE  /\ disk' \in [Inum -> Inode] /\ mem' \in [Inum -> Inode] /\ valid' \in [Inum -> BOOLEAN]
<1>1. \A i \in Inum : Loaded(i) \in Inode
  BY LoadedType
<1> QED BY <1>1 DEF Update, Types, Store

LEMMA LoadIs ==
  ASSUME Types, NEW i \in Inum, Load(i)
  PROVE  /\ disk' = disk /\ valid' = [valid EXCEPT ![i] = TRUE]
         /\ mem' = [mem EXCEPT ![i] = Loaded(i)]
<1>1. DOMAIN <<>> = {}
  OBVIOUS
<1> QED BY <1>1 DEF Load, Update, Types, Store

-----------------------------------------------------------------------------
(* What each action does                                                   *)

(* The call of p is at l, with the given values.                           *)
After(p, l, o, a, x, n) ==
  /\ pc' = [pc EXCEPT ![p] = l] /\ op' = [op EXCEPT ![p] = o]
  /\ at' = [at EXCEPT ![p] = a] /\ ip' = [ip EXCEPT ![p] = x]
  /\ name' = [name EXCEPT ![p] = n]

(* p finds inode i unlocked and allocated, and makes it r.                 *)
Unlocked(i) == lock[i] = None /\ disk[i].type # "free" /\ \A q \in Proc : ~Holds(q, i)
Writes(i, r) ==
  /\ disk' = [disk EXCEPT ![i] = r] /\ mem' = [mem EXCEPT ![i] = r]
  /\ valid' = [valid EXCEPT ![i] = TRUE]
Reads(i) ==
  /\ Unlocked(i) /\ disk' = disk /\ mem' = [mem EXCEPT ![i] = disk[i]]
  /\ valid' = [valid EXCEPT ![i] = TRUE]
Counting(i, d) == [disk[i] EXCEPT !.nlink = @ + d]

LEMMA Same ==
  ASSUME Types, NEW p \in Proc
  PROVE  /\ pc = [pc EXCEPT ![p] = pc[p]] /\ op = [op EXCEPT ![p] = op[p]]
         /\ at = [at EXCEPT ![p] = at[p]] /\ ip = [ip EXCEPT ![p] = ip[p]]
         /\ name = [name EXCEPT ![p] = name[p]]
         /\ puts = [puts EXCEPT ![p] = puts[p]] /\ stage = [stage EXCEPT ![p] = stage[p]]
         /\ cwd = [cwd EXCEPT ![p] = cwd[p]] /\ fd = [fd EXCEPT ![p] = fd[p]]
BY DEF Types, Calls

LEMMA IlockIs ==
  ASSUME IInv, NEW p \in Proc, NEW l, NEW i, i \in Inum \cup {None}, i # None, Ilock(p, l, i)
  PROVE  /\ pc[p] = l /\ puts[p] = <<>> /\ stage[p] = "no" /\ panicked = None
         /\ i \in Inum /\ Loaded(i) = disk[i] /\ Unlocked(i)
<1>1. i \in Inum /\ pc[p] = l /\ puts[p] = <<>> /\ panicked = None
      /\ lock[i] = None /\ (valid[i] \/ disk[i].type # "free")
  BY DEF Ilock, Ready
<1>2. stage[p] = "no"
  BY <1>1 DEF IInv, Shape
<1> QED BY <1>1, <1>2, LoadedIs DEF IInv, Unlocked

LEMMA ReadsIs ==
  ASSUME Types, NEW i \in Inum, Load(i), Loaded(i) = disk[i], Unlocked(i)
  PROVE  Reads(i)
BY LoadIs DEF Reads

LEMMA WritesIs ==
  ASSUME Types, NEW i \in Inum, NEW r, Update({i}, [j \in {i} |-> r])
  PROVE  Writes(i, r)
BY DEF Update, Types, Store, Writes

LEMMA EndsIs ==
  ASSUME NEW p \in Proc, Ends(p)
  PROVE  After(p, "out", None, None, None, None)
BY DEF Ends, After, Goto

LEMMA FailsIs ==
  ASSUME Types, NEW p \in Proc, Fails(p)
  PROVE  \/ ip[p] = None /\ After(p, "out", None, None, None, None)
         \/ ip[p] # None /\ After(p, "undo", op[p], None, ip[p], None)
<1>1. CASE ip[p] = None
  BY <1>1, EndsIs DEF Fails
<1>2. CASE ip[p] # None
  BY <1>2, Same DEF Fails, After, Goto
<1> QED BY <1>1, <1>2

LEMMA CallIs ==
  ASSUME IInv, NEW p \in Proc, NEW o \in Ops, NEW s, Call(p, o, s)
  PROVE  /\ pc[p] = "out" /\ puts[p] = <<>> /\ stage[p] = "no" /\ at[p] = None /\ ip[p] = None
         /\ s \in {ROOTINO, cwd[p]} /\ s \in Inum
         /\ After(p, "walk", o, s, None, name[p])
         /\ ref' = [ref EXCEPT ![s] = @ + 1]
         /\ UNCHANGED <<disk, ents, valid, mem, lock, panicked, puts, stage, cwd, fd>>
<1>1. pc[p] = "out" /\ puts[p] = <<>> /\ s \in {ROOTINO, cwd[p]} /\ s \in Inum
  BY ConstFacts DEF Call, Ready, IInv, Types, Calls
<1>2. stage[p] = "no" /\ at[p] = None /\ ip[p] = None
  BY <1>1 DEF IInv, Shape
<1>3. After(p, "walk", o, s, None, name[p])
  BY <1>2, Same DEF Call, After, Goto, IInv
<1> QED BY <1>1, <1>2, <1>3 DEF Call, Iget

LEMMA WalkNothingIs ==
  ASSUME IInv, NEW p \in Proc, WalkNothing(p)
  PROVE  /\ pc[p] = "walk" /\ puts[p] = <<>> /\ stage[p] = "no" /\ at[p] \in Inum
         /\ \/ ip[p] = None /\ After(p, "out", None, None, None, None)
               /\ puts' = [puts EXCEPT ![p] = <<at[p]>>]
            \/ ip[p] # None /\ After(p, "undo", op[p], None, ip[p], None)
               /\ puts' = [puts EXCEPT ![p] = <<at[p]>>]
            \/ ip[p] = None /\ op[p] \notin Parent
               /\ After(p, "found", op[p], at[p], None, name[p]) /\ puts' = puts
         /\ UNCHANGED <<disk, ents, ref, valid, mem, lock, panicked, stage, cwd, fd>>
<1>1. pc[p] = "walk" /\ puts[p] = <<>>
  BY DEF WalkNothing, Ready
<1>2. stage[p] = "no" /\ at[p] \in Inum
  BY <1>1 DEF IInv, Shape, Types, Calls
<1>3. CASE WantsParent(p)
  BY <1>1, <1>2, <1>3, FailsIs DEF WalkNothing, Put, IInv, cache
<1>4. CASE ~WantsParent(p)
  BY <1>1, <1>2, <1>4, Same DEF WalkNothing, After, Goto, WantsParent, IInv, cache, local
<1> QED BY <1>3, <1>4

LEMMA WalkFailsIs ==
  ASSUME IInv, NEW p \in Proc, NEW n \in Names, WalkFails(p, n)
  PROVE  /\ pc[p] = "walk" /\ puts[p] = <<>> /\ stage[p] = "no" /\ at[p] \in Inum /\ Reads(at[p])
         /\ \/ ip[p] = None /\ After(p, "out", None, None, None, None)
            \/ ip[p] # None /\ After(p, "undo", op[p], None, ip[p], None)
         /\ puts' = [puts EXCEPT ![p] = <<at[p]>>]
         /\ UNCHANGED <<ents, ref, lock, panicked, stage, cwd, fd>>
<1>1. pc[p] = "walk" /\ at[p] \in Inum
  BY DEF WalkFails, Ilock, IInv, Shape, Types, Calls
<1>2. /\ puts[p] = <<>> /\ stage[p] = "no"
      /\ Loaded(at[p]) = disk[at[p]] /\ Unlocked(at[p])
  BY <1>1, IlockIs, ConstFacts DEF WalkFails
<1>3. Reads(at[p])
  BY <1>1, <1>2, ReadsIs DEF WalkFails, IInv
<1> QED BY <1>1, <1>2, <1>3, FailsIs DEF WalkFails, Put, IInv

LEMMA WalkIntoIs ==
  ASSUME IInv, NEW p \in Proc, NEW n \in Names, NEW last \in BOOLEAN, WalkInto(p, n, last)
  PROVE  /\ pc[p] = "walk" /\ puts[p] = <<>> /\ stage[p] = "no" /\ at[p] \in Inum /\ Reads(at[p])
         /\ disk[at[p]].type = "dir" /\ ents[at[p]][n] \in Inum
         /\ \/ After(p, "walk", op[p], ents[at[p]][n], ip[p], name[p])
            \/ ip[p] = None /\ op[p] \notin Parent
               /\ After(p, "found", op[p], ents[at[p]][n], None, name[p])
         /\ ref' = [ref EXCEPT ![ents[at[p]][n]] = @ + 1]
         /\ puts' = [puts EXCEPT ![p] = <<at[p]>>]
         /\ UNCHANGED <<ents, lock, panicked, stage, cwd, fd>>
<1>1. pc[p] = "walk" /\ at[p] \in Inum
  BY DEF WalkInto, Ilock, IInv, Shape, Types, Calls
<1>2. /\ puts[p] = <<>> /\ stage[p] = "no"
      /\ Loaded(at[p]) = disk[at[p]] /\ Unlocked(at[p])
  BY <1>1, IlockIs, ConstFacts DEF WalkInto
<1>3. Reads(at[p])
  BY <1>1, <1>2, ReadsIs DEF WalkInto, IInv
<1>4. disk[at[p]].type = "dir" /\ ents[at[p]][n] \in Inum
  BY <1>1, <1>2 DEF WalkInto, IInv, Types, Store
<1>5. \/ After(p, "walk", op[p], ents[at[p]][n], ip[p], name[p])
      \/ ip[p] = None /\ op[p] \notin Parent
         /\ After(p, "found", op[p], ents[at[p]][n], None, name[p])
  <2>1. CASE last
    BY <2>1, Same DEF WalkInto, After, Goto, WantsParent, IInv
  <2>2. CASE ~last
    BY <2>2, Same DEF WalkInto, After, Goto, IInv
  <2> QED BY <2>1, <2>2
<1> QED BY <1>1, <1>2, <1>3, <1>4, <1>5 DEF WalkInto, Iget, Put

LEMMA WalkParentIs ==
  ASSUME IInv, NEW p \in Proc, NEW n \in Names, WalkParent(p, n)
  PROVE  /\ pc[p] = "walk" /\ puts[p] = <<>> /\ stage[p] = "no" /\ at[p] \in Inum /\ Reads(at[p])
         /\ disk[at[p]].type = "dir" /\ (op[p] = "link" <=> ip[p] # None)
         /\ After(p, "parent", op[p], at[p], ip[p], n)
         /\ UNCHANGED <<ents, ref, lock, panicked, puts, stage, cwd, fd>>
<1>1. pc[p] = "walk" /\ at[p] \in Inum
  BY DEF WalkParent, Ilock, IInv, Shape, Types, Calls
<1>2. /\ puts[p] = <<>> /\ stage[p] = "no"
      /\ Loaded(at[p]) = disk[at[p]] /\ Unlocked(at[p])
  BY <1>1, IlockIs, ConstFacts DEF WalkParent
<1>3. Reads(at[p])
  BY <1>1, <1>2, ReadsIs DEF WalkParent, IInv
<1>4. disk[at[p]].type = "dir"
  BY <1>2 DEF WalkParent
<1>5. op[p] = "link" <=> ip[p] # None
  BY <1>1 DEF WalkParent, WantsParent, Parent, IInv, Shape
<1>6. After(p, "parent", op[p], at[p], ip[p], n)
  BY Same DEF WalkParent, After, Goto, IInv
<1> QED BY <1>1, <1>2, <1>3, <1>4, <1>5, <1>6 DEF WalkParent

LEMMA AppendKeeps ==
  ASSUME NEW s \in Seq(Inum), NEW b \in Inum, Len(s) = 1
  PROVE  Append(s, b)[1] = s[1]
OBVIOUS

LEMMA SeqFacts ==
  /\ <<>> \in Seq(Inum) /\ Len(<<>>) = 0
  /\ \A a \in Inum : <<a>> \in Seq(Inum) /\ Len(<<a>>) = 1 /\ <<a>>[1] = a
  /\ \A a, b \in Inum : <<a, b>> \in Seq(Inum) /\ Len(<<a, b>>) = 2
                        /\ <<a, b>>[1] = a /\ <<a, b>>[2] = b
  /\ \A a \in Inum : Append(<<>>, a) = <<a>>
  /\ \A a, b \in Inum : Append(<<a>>, b) = <<a, b>>
<1>1. <<>> \in Seq(Inum) /\ Len(<<>>) = 0
  OBVIOUS
<1>2. \A a \in Inum : <<a>> \in Seq(Inum) /\ Len(<<a>>) = 1 /\ <<a>>[1] = a
  OBVIOUS
<1>3. \A a, b \in Inum : <<a, b>> \in Seq(Inum) /\ Len(<<a, b>>) = 2
                         /\ <<a, b>>[1] = a /\ <<a, b>>[2] = b
  OBVIOUS
<1>4. \A a \in Inum : Append(<<>>, a) = <<a>>
  OBVIOUS
<1>5. ASSUME NEW a \in Inum, NEW b \in Inum
      PROVE  Append(<<a>>, b) = <<a, b>>
  <2> DEFINE s == <<a>>
             t == Append(s, b)
             u == <<a, b>>
  <2>1. s \in Seq(Inum) /\ Len(s) = 1 /\ s[1] = a
    OBVIOUS
  <2> HIDE DEF s
  <2>2. t \in Seq(Inum) /\ Len(t) = 2 /\ t[1] = a /\ t[2] = b
    <3>1. t \in Seq(Inum) /\ Len(t) = Len(s) + 1
      BY <2>1, AppendProperties
    <3>2. t[Len(s) + 1] = b
      BY <2>1, AppendProperties
    <3>3. t[1] = a
      BY <2>1, AppendKeeps
    <3> HIDE DEF t
    <3> QED BY <2>1, <3>1, <3>2, <3>3
  <2>3. u \in Seq(Inum) /\ Len(u) = 2 /\ u[1] = a /\ u[2] = b
    OBVIOUS
  <2> HIDE DEF t, u
  <2>4. t = [k \in 1 .. 2 |-> t[k]] /\ u = [k \in 1 .. 2 |-> u[k]]
    BY <2>2, <2>3
  <2>5. \A k \in 1 .. 2 : t[k] = u[k]
    <3>1. \A k \in 1 .. 2 : k = 1 \/ k = 2
      OBVIOUS
    <3> QED BY <2>2, <2>3, <3>1
  <2>6. t = u
    BY <2>4, <2>5
  <2> QED BY <2>6 DEF s, t, u
<1> QED BY <1>1, <1>2, <1>3, <1>4, <1>5

(* An inode that ends as the open file, or is put behind the others.       *)
OpensOrPuts(p, i, before, all) ==
  \/ fd[p] = None /\ fd' = [fd EXCEPT ![p] = i] /\ puts' = [puts EXCEPT ![p] = before]
  \/ fd' = fd /\ puts' = [puts EXCEPT ![p] = all]

LEMMA OpensIs ==
  ASSUME NEW p, NEW i, NEW before, NEW all, all = Append(before, i),
         \E may \in BOOLEAN : Opens(p, i, before, may)
  PROVE  OpensOrPuts(p, i, before, all)
BY DEF Opens, OpensOrPuts, Put

LEMMA OpenIs ==
  ASSUME IInv, NEW p \in Proc, Open(p)
  PROVE  /\ pc[p] = "found" /\ puts[p] = <<>> /\ stage[p] = "no" /\ at[p] \in Inum /\ Reads(at[p])
         /\ ip[p] = None /\ After(p, "out", None, None, None, None)
         /\ OpensOrPuts(p, at[p], <<>>, <<at[p]>>)
         /\ UNCHANGED <<ents, ref, lock, panicked, stage, cwd>>
<1>1. pc[p] = "found" /\ at[p] \in Inum /\ ip[p] = None
  BY DEF Open, Ilock, IInv, Shape, Types, Calls
<1>2. /\ puts[p] = <<>> /\ stage[p] = "no"
      /\ Loaded(at[p]) = disk[at[p]] /\ Unlocked(at[p])
  BY <1>1, IlockIs, ConstFacts DEF Open
<1>3. Reads(at[p])
  BY <1>1, <1>2, ReadsIs DEF Open, IInv
<1>4. OpensOrPuts(p, at[p], <<>>, <<at[p]>>)
  <2>1. <<at[p]>> = Append(<<>>, at[p])
    BY <1>1, SeqFacts
  <2>2. \E may \in BOOLEAN : Opens(p, at[p], <<>>, may)
    BY DEF Open
  <2> QED BY <2>1, <2>2, OpensIs
<1> QED BY <1>1, <1>2, <1>3, <1>4, EndsIs DEF Open

LEMMA ChdirIs ==
  ASSUME IInv, NEW p \in Proc, Chdir(p)
  PROVE  /\ pc[p] = "found" /\ puts[p] = <<>> /\ stage[p] = "no" /\ at[p] \in Inum /\ Reads(at[p])
         /\ ip[p] = None /\ After(p, "out", None, None, None, None)
         /\ \/ /\ disk[at[p]].type = "dir" /\ cwd' = [cwd EXCEPT ![p] = at[p]]
               /\ puts' = [puts EXCEPT ![p] = <<cwd[p]>>]
            \/ cwd' = cwd /\ puts' = [puts EXCEPT ![p] = <<at[p]>>]
         /\ UNCHANGED <<ents, ref, lock, panicked, stage, fd>>
<1>1. pc[p] = "found" /\ at[p] \in Inum /\ ip[p] = None
  BY DEF Chdir, ChangeTo, Ilock, IInv, Shape, Types, Calls
<1>2. /\ puts[p] = <<>> /\ stage[p] = "no"
      /\ Loaded(at[p]) = disk[at[p]] /\ Unlocked(at[p])
  BY <1>1, IlockIs, ConstFacts DEF Chdir, ChangeTo
<1>3. Reads(at[p])
  BY <1>1, <1>2, ReadsIs DEF Chdir, ChangeTo, IInv
<1> QED BY <1>1, <1>2, <1>3, EndsIs DEF Chdir, ChangeTo, Put

LEMMA CloseIs ==
  ASSUME IInv, NEW p \in Proc, Close(p)
  PROVE  /\ pc[p] = "out" /\ puts[p] = <<>> /\ stage[p] = "no" /\ fd[p] \in Inum
         /\ After(p, pc[p], op[p], at[p], ip[p], name[p])
         /\ fd' = [fd EXCEPT ![p] = None] /\ puts' = [puts EXCEPT ![p] = <<fd[p]>>]
         /\ UNCHANGED <<disk, ents, ref, valid, mem, lock, panicked, stage, cwd>>
<1>1. pc[p] = "out" /\ puts[p] = <<>> /\ fd[p] \in Inum
  BY DEF Close, Ready, IInv, Types, Calls
<1>2. stage[p] = "no"
  BY <1>1 DEF IInv, Shape
<1>3. After(p, pc[p], op[p], at[p], ip[p], name[p])
  BY Same DEF Close, local, After, IInv
<1> QED BY <1>1, <1>2, <1>3 DEF Close, Put, cache

LEMMA LinkFoundIs ==
  ASSUME IInv, NEW p \in Proc, NEW s, LinkFound(p, s)
  PROVE  /\ pc[p] = "found" /\ puts[p] = <<>> /\ stage[p] = "no" /\ at[p] \in Inum /\ ip[p] = None
         /\ Unlocked(at[p])
         /\ \/ /\ Reads(at[p]) /\ After(p, "out", None, None, None, None)
               /\ puts' = [puts EXCEPT ![p] = <<at[p]>>] /\ ref' = ref
            \/ /\ disk[at[p]].type # "dir" /\ Writes(at[p], Counting(at[p], 1))
               /\ s \in {ROOTINO, cwd[p]} /\ s \in Inum /\ op[p] = "link"
               /\ After(p, "walk", op[p], s, at[p], name[p])
               /\ puts' = puts /\ ref' = [ref EXCEPT ![s] = @ + 1]
         /\ UNCHANGED <<ents, lock, panicked, stage, cwd, fd>>
<1>1. pc[p] = "found" /\ at[p] \in Inum /\ ip[p] = None
  BY DEF LinkFound, Ilock, IInv, Shape, Types, Calls
<1>2. /\ puts[p] = <<>> /\ stage[p] = "no"
      /\ Loaded(at[p]) = disk[at[p]] /\ Unlocked(at[p])
  BY <1>1, IlockIs, ConstFacts DEF LinkFound
<1>3. CASE Loaded(at[p]).type = "dir"
  <2>1. Reads(at[p])
    BY <1>1, <1>2, <1>3, ReadsIs DEF LinkFound, IInv
  <2> QED BY <1>1, <1>2, <1>3, <2>1, EndsIs DEF LinkFound, Put
<1>4. CASE Loaded(at[p]).type # "dir"
  <2>1. Update({at[p]}, [j \in {at[p]} |-> Counting(at[p], 1)])
    <3>1. Nlink(at[p], 1) = Counting(at[p], 1)
      BY <1>2 DEF Nlink, Counting
    <3> QED BY <1>4, <3>1 DEF LinkFound
  <2>2. Writes(at[p], Counting(at[p], 1))
    BY <1>1, <2>1, WritesIs DEF IInv
  <2>3. After(p, "walk", op[p], s, at[p], name[p])
    BY <1>4, Same DEF LinkFound, After, Goto, IInv
  <2>4. s \in {ROOTINO, cwd[p]} /\ s \in Inum
    BY ConstFacts DEF LinkFound, IInv, Types, Calls
  <2> QED BY <1>1, <1>2, <1>4, <2>2, <2>3, <2>4 DEF LinkFound, Iget
<1> QED BY <1>3, <1>4

LEMMA LinkIs ==
  ASSUME IInv, NEW p \in Proc, Link(p)
  PROVE  /\ pc[p] = "parent" /\ puts[p] = <<>> /\ stage[p] = "no" /\ at[p] \in Inum /\ ip[p] \in Inum
         /\ name[p] \in Names /\ Reads(at[p]) /\ disk[at[p]].type = "dir"
         /\ ents[at[p]][name[p]] = None
         /\ ents' = [ents EXCEPT ![at[p]][name[p]] = ip[p]]
         /\ After(p, "out", None, None, None, None)
         /\ puts' = [puts EXCEPT ![p] = <<at[p], ip[p]>>]
         /\ UNCHANGED <<ref, lock, panicked, stage, cwd, fd>>
<1>1. pc[p] = "parent" /\ at[p] \in Inum /\ ip[p] \in Inum /\ name[p] \in Names
  BY DEF Link, Ilock, IInv, Shape, Types, Calls
<1>2. /\ puts[p] = <<>> /\ stage[p] = "no" /\ disk[at[p]].type = "dir"
      /\ Loaded(at[p]) = disk[at[p]] /\ Unlocked(at[p])
  BY <1>1, IlockIs, ConstFacts DEF Link, IInv, Settled
<1>3. Reads(at[p])
  BY <1>1, <1>2, ReadsIs DEF Link, DirlookupPanics, IInv
<1> QED BY <1>1, <1>2, <1>3, EndsIs DEF Link, DirlookupPanics, Put

LEMMA LinkTakenIs ==
  ASSUME IInv, NEW p \in Proc, LinkTaken(p)
  PROVE  /\ pc[p] = "parent" /\ puts[p] = <<>> /\ stage[p] = "no" /\ at[p] \in Inum /\ ip[p] \in Inum
         /\ name[p] \in Names /\ Reads(at[p]) /\ disk[at[p]].type = "dir"
         /\ ents[at[p]][name[p]] \in Inum
         /\ After(p, "held", op[p], at[p], ip[p], None)
         /\ ref' = [ref EXCEPT ![ents[at[p]][name[p]]] = @ + 1]
         /\ puts' = [puts EXCEPT ![p] = <<ents[at[p]][name[p]]>>]
         /\ lock' = [lock EXCEPT ![at[p]] = p]
         /\ UNCHANGED <<ents, panicked, stage, cwd, fd>>
<1>1. pc[p] = "parent" /\ at[p] \in Inum /\ ip[p] \in Inum /\ name[p] \in Names
  BY DEF LinkTaken, Ilock, IInv, Shape, Types, Calls
<1>2. /\ puts[p] = <<>> /\ stage[p] = "no" /\ disk[at[p]].type = "dir"
      /\ Loaded(at[p]) = disk[at[p]] /\ Unlocked(at[p])
  BY <1>1, IlockIs, ConstFacts DEF LinkTaken, IInv, Settled
<1>3. Reads(at[p])
  BY <1>1, <1>2, ReadsIs DEF LinkTaken, IInv
<1>4. ents[at[p]][name[p]] \in Inum
  BY <1>1 DEF LinkTaken, IInv, Types, Store
<1>5. After(p, "held", op[p], at[p], ip[p], None)
  BY Same DEF LinkTaken, After, Goto, IInv
<1> QED BY <1>1, <1>2, <1>3, <1>4, <1>5 DEF LinkTaken, Iget, Put

LEMMA RefuseIs ==
  ASSUME IInv, NEW p \in Proc, Refuse(p)
  PROVE  /\ pc[p] = "held" /\ puts[p] = <<>> /\ stage[p] = "no" /\ at[p] \in Inum
         /\ Holds(p, at[p]) /\ lock' = [lock EXCEPT ![at[p]] = None]
         /\ \/ ip[p] = None /\ After(p, "out", None, None, None, None)
            \/ ip[p] # None /\ After(p, "undo", op[p], None, ip[p], None)
         /\ puts' = [puts EXCEPT ![p] = <<at[p]>>]
         /\ UNCHANGED <<disk, ents, ref, valid, mem, panicked, stage, cwd, fd>>
<1>1. pc[p] = "held" /\ puts[p] = <<>> /\ at[p] \in Inum
  BY DEF Refuse, Ready, IInv, Shape, Types, Calls
<1>2. stage[p] = "no" /\ Holds(p, at[p])
  BY <1>1 DEF IInv, Shape, Holds
<1>3. lock' = [lock EXCEPT ![at[p]] = None]
  BY <1>1 DEF Refuse, Unlock, IInv, Types, Store
<1> QED BY <1>1, <1>2, <1>3, FailsIs DEF Refuse, Put, IInv

LEMMA LinkUndoIs ==
  ASSUME IInv, NEW p \in Proc, LinkUndo(p)
  PROVE  /\ pc[p] = "undo" /\ puts[p] = <<>> /\ stage[p] = "no" /\ at[p] = None /\ ip[p] \in Inum
         /\ Unlocked(ip[p]) /\ Writes(ip[p], Counting(ip[p], -1))
         /\ After(p, "out", None, None, None, None)
         /\ puts' = [puts EXCEPT ![p] = <<ip[p]>>]
         /\ UNCHANGED <<ents, ref, lock, panicked, stage, cwd, fd>>
<1>1. pc[p] = "undo" /\ at[p] = None /\ ip[p] \in Inum
  BY DEF LinkUndo, Ilock, IInv, Shape, Types, Calls
<1>2. /\ puts[p] = <<>> /\ stage[p] = "no"
      /\ Loaded(ip[p]) = disk[ip[p]] /\ Unlocked(ip[p])
  BY <1>1, IlockIs, ConstFacts DEF LinkUndo
<1>3. Update({ip[p]}, [j \in {ip[p]} |-> Counting(ip[p], -1)])
  <2>1. Nlink(ip[p], -1) = Counting(ip[p], -1)
    BY <1>2 DEF Nlink, Counting
  <2> QED BY <2>1 DEF LinkUndo
<1>4. Writes(ip[p], Counting(ip[p], -1))
  BY <1>1, <1>3, WritesIs DEF IInv
<1> QED BY <1>1, <1>2, <1>4, EndsIs DEF LinkUndo, Put

LEMMA UnlinkLookIs ==
  ASSUME IInv, NEW p \in Proc, UnlinkLook(p)
  PROVE  /\ pc[p] = "parent" /\ puts[p] = <<>> /\ stage[p] = "no" /\ at[p] \in Inum /\ ip[p] = None
         /\ Reads(at[p]) /\ disk[at[p]].type = "dir"
         /\ \/ /\ After(p, "out", None, None, None, None)
               /\ puts' = [puts EXCEPT ![p] = <<at[p]>>] /\ ref' = ref /\ lock' = lock
            \/ /\ name[p] \in Name /\ ents[at[p]][name[p]] \in Inum
               /\ After(p, "gone", op[p], at[p], ents[at[p]][name[p]], name[p])
               /\ puts' = puts /\ ref' = [ref EXCEPT ![ents[at[p]][name[p]]] = @ + 1]
               /\ lock' = [lock EXCEPT ![at[p]] = p]
         /\ UNCHANGED <<ents, panicked, stage, cwd, fd>>
<1>1. pc[p] = "parent" /\ at[p] \in Inum /\ ip[p] = None /\ name[p] \in Names
  BY DEF UnlinkLook, LookUp, Ilock, IInv, Shape, Types, Calls
<1>2. /\ puts[p] = <<>> /\ stage[p] = "no" /\ disk[at[p]].type = "dir"
      /\ Loaded(at[p]) = disk[at[p]] /\ Unlocked(at[p])
  <2>1. Ilock(p, "parent", at[p])
    BY DEF UnlinkLook, LookUp
  <2>2. disk[at[p]].type = "dir"
    BY <1>1 DEF IInv, Settled
  <2> QED BY <1>1, <2>1, <2>2, IlockIs, ConstFacts
<1>3. Reads(at[p])
  BY <1>1, <1>2, ReadsIs DEF UnlinkLook, LookUp, DirlookupPanics, IInv
<1>4. CASE name[p] = ".." \/ ents[at[p]][name[p]] = None
  BY <1>1, <1>2, <1>3, <1>4, EndsIs DEF UnlinkLook, LookUp, DirlookupPanics, Put
<1>5. CASE ~(name[p] = ".." \/ ents[at[p]][name[p]] = None)
  <2>1. name[p] \in Name /\ ents[at[p]][name[p]] \in Inum
    BY <1>1, <1>5, ConstFacts DEF IInv, Types, Store
  <2>2. After(p, "gone", op[p], at[p], ents[at[p]][name[p]], name[p])
    BY <1>2, <1>5, Same DEF UnlinkLook, LookUp, DirlookupPanics, After, Goto, IInv
  <2> QED BY <1>1, <1>2, <1>3, <1>5, <2>1, <2>2 DEF UnlinkLook, LookUp, DirlookupPanics, Iget
<1> QED BY <1>4, <1>5

LEMMA UnlinkIs ==
  ASSUME IInv, NEW p \in Proc, Unlink(p)
  PROVE  /\ pc[p] = "gone" /\ puts[p] = <<>> /\ stage[p] = "no"
         /\ at[p] \in Inum /\ ip[p] \in Inum /\ name[p] \in Name /\ at[p] # ip[p]
         /\ Unlocked(ip[p]) /\ Holds(p, at[p])
         /\ \/ disk[ip[p]].nlink < 1 /\ Panic("unlink: nlink < 1")
            \/ /\ Reads(ip[p]) /\ ents' = ents /\ lock' = lock
               /\ After(p, "held", op[p], at[p], None, None)
               /\ puts' = [puts EXCEPT ![p] = <<ip[p]>>]
               /\ UNCHANGED <<ref, panicked, stage, cwd, fd>>
            \/ LET r == Counting(at[p], IF disk[ip[p]].type = "dir" THEN -1 ELSE 0) IN
               /\ disk[ip[p]].type = "dir" => Isdirempty(ip[p])
               /\ disk' = [disk EXCEPT ![at[p]] = r]
               /\ mem' = [mem EXCEPT ![at[p]] = r, ![ip[p]] = disk[ip[p]]]
               /\ valid' = [valid EXCEPT ![ip[p]] = TRUE]
               /\ ents' = [ents EXCEPT ![at[p]][name[p]] = None]
               /\ lock' = [lock EXCEPT ![at[p]] = None, ![ip[p]] = p]
               /\ After(p, "cut", op[p], None, ip[p], None)
               /\ puts' = [puts EXCEPT ![p] = <<at[p]>>]
               /\ UNCHANGED <<ref, panicked, stage, cwd, fd>>
<1> DEFINE d == at[p]
           i == ip[p]
           isdir == disk[i].type = "dir"
<1>1. pc[p] = "gone" /\ d \in Inum /\ i \in Inum /\ name[p] \in Name
  BY DEF Unlink, Erase, Ilock, IInv, Shape, Types, Calls
<1>2. /\ puts[p] = <<>> /\ stage[p] = "no" /\ Loaded(i) = disk[i] /\ Unlocked(i)
  <2>1. Ilock(p, "gone", i)
    BY DEF Unlink, Erase
  <2> QED BY <1>1, <2>1, IlockIs, ConstFacts
<1>3. Holds(p, d)
  BY <1>1 DEF Holds
<1>4. /\ valid[d] /\ mem[d] = disk[d] /\ Loaded(d) = disk[d]
  BY <1>1, <1>2, <1>3, HeldIs DEF Freeing, IInv
<1>5. d # i
  BY <1>2, <1>3 DEF Unlocked
<1>6. CASE disk[i].nlink < 1
  BY <1>1, <1>2, <1>3, <1>5, <1>6 DEF Unlink, Erase
<1>7. CASE ~(disk[i].nlink < 1) /\ isdir /\ ~Isdirempty(i)
  <2>1. /\ Load(i) /\ Put(p, <<i>>) /\ Goto(p, "held")
        /\ ip' = [ip EXCEPT ![p] = None] /\ name' = [name EXCEPT ![p] = None]
        /\ UNCHANGED <<ents, lock, op, at>> /\ UNCHANGED <<ref, panicked, stage, cwd, fd>>
    BY <1>2, <1>7 DEF Unlink, Erase
  <2>2. After(p, "held", op[p], d, None, None)
    BY <2>1, Same DEF After, Goto, IInv
  <2>3. Reads(i)
    BY <1>1, <1>2, <2>1, ReadsIs DEF IInv
  <2> QED BY <1>1, <1>2, <1>3, <1>5, <2>1, <2>2, <2>3 DEF Put
<1>8. CASE ~(disk[i].nlink < 1) /\ ~(isdir /\ ~Isdirempty(i))
  <2> DEFINE r == Counting(d, IF isdir THEN -1 ELSE 0)
  <2>1. /\ ents' = [ents EXCEPT ![d][name[p]] = None]
        /\ Update({i}, [j \in {d} |-> Nlink(d, -(IF isdir THEN 1 ELSE 0))])
        /\ lock' = [lock EXCEPT ![d] = None, ![i] = p]
        /\ Put(p, <<d>>) /\ Goto(p, "cut")
        /\ at' = [at EXCEPT ![p] = None] /\ name' = [name EXCEPT ![p] = None]
        /\ UNCHANGED <<op, ip, depth>> /\ UNCHANGED <<ref, panicked, stage, cwd, fd>>
    BY <1>2, <1>8 DEF Unlink, Erase
  <2>2. Nlink(d, -(IF isdir THEN 1 ELSE 0)) = r
    BY <1>4 DEF Nlink, Counting
  <2>3. Update({i}, [j \in {d} |-> r])
    BY <2>1, <2>2
  <2>4. After(p, "cut", op[p], None, i, None)
    BY <2>1, Same DEF After, Goto, IInv
  <2> HIDE DEF r
  <2>5. /\ disk' = [disk EXCEPT ![d] = r]
        /\ mem' = [mem EXCEPT ![d] = r, ![i] = disk[i]]
        /\ valid' = [valid EXCEPT ![i] = TRUE]
    BY <1>1, <1>2, <1>4, <1>5, <2>3 DEF Update, IInv, Types, Store
  <2> QED BY <1>1, <1>2, <1>3, <1>5, <1>8, <2>1, <2>4, <2>5 DEF Put, r
<1> QED BY <1>6, <1>7, <1>8

(* sys_unlink where it does not panic.                                     *)
Unlinks(p) == Unlink(p) /\ ~Panic("unlink: nlink < 1")

LEMMA UnlinksIs ==
  ASSUME IInv, NEW p \in Proc, Unlinks(p)
  PROVE  /\ pc[p] = "gone" /\ puts[p] = <<>> /\ stage[p] = "no"
         /\ at[p] \in Inum /\ ip[p] \in Inum /\ name[p] \in Name /\ at[p] # ip[p]
         /\ Unlocked(ip[p]) /\ Holds(p, at[p])
         /\ \/ /\ Reads(ip[p]) /\ ents' = ents /\ lock' = lock
               /\ After(p, "held", op[p], at[p], None, None)
               /\ puts' = [puts EXCEPT ![p] = <<ip[p]>>]
               /\ UNCHANGED <<ref, panicked, stage, cwd, fd>>
            \/ LET r == Counting(at[p], IF disk[ip[p]].type = "dir" THEN -1 ELSE 0) IN
               /\ disk[ip[p]].type = "dir" => Isdirempty(ip[p])
               /\ disk' = [disk EXCEPT ![at[p]] = r]
               /\ mem' = [mem EXCEPT ![at[p]] = r, ![ip[p]] = disk[ip[p]]]
               /\ valid' = [valid EXCEPT ![ip[p]] = TRUE]
               /\ ents' = [ents EXCEPT ![at[p]][name[p]] = None]
               /\ lock' = [lock EXCEPT ![at[p]] = None, ![ip[p]] = p]
               /\ After(p, "cut", op[p], None, ip[p], None)
               /\ puts' = [puts EXCEPT ![p] = <<at[p]>>]
               /\ UNCHANGED <<ref, panicked, stage, cwd, fd>>
BY UnlinkIs, Zenon DEF Unlinks

LEMMA UnlinkCutIs ==
  ASSUME IInv, NEW p \in Proc, UnlinkCut(p)
  PROVE  /\ pc[p] = "cut" /\ puts[p] = <<>> /\ stage[p] = "no" /\ at[p] = None /\ ip[p] \in Inum
         /\ Holds(p, ip[p]) /\ disk[ip[p]].type # "free"
         /\ Writes(ip[p], Counting(ip[p], -1)) /\ lock' = [lock EXCEPT ![ip[p]] = None]
         /\ After(p, "out", None, None, None, None)
         /\ puts' = [puts EXCEPT ![p] = <<ip[p]>>]
         /\ UNCHANGED <<ents, ref, panicked, stage, cwd, fd>>
<1>1. pc[p] = "cut" /\ at[p] = None /\ ip[p] \in Inum /\ puts[p] = <<>> /\ stage[p] = "no"
  BY DEF UnlinkCut, Ready, IInv, Shape, Types, Calls
<1>2. Holds(p, ip[p])
  BY <1>1 DEF Holds
<1>3. Loaded(ip[p]) = disk[ip[p]] /\ disk[ip[p]].type # "free"
  BY <1>1, <1>2, HeldIs DEF Freeing, IInv
<1>4. Update({ip[p]}, [j \in {ip[p]} |-> Counting(ip[p], -1)])
  <2>1. Nlink(ip[p], -1) = Counting(ip[p], -1)
    BY <1>3 DEF Nlink, Counting
  <2> QED BY <2>1 DEF UnlinkCut
<1>5. Writes(ip[p], Counting(ip[p], -1))
  BY <1>1, <1>4, WritesIs DEF IInv
<1>6. lock' = [lock EXCEPT ![ip[p]] = None]
  BY <1>1 DEF UnlinkCut, Unlock, IInv, Types, Store
<1> QED BY <1>1, <1>2, <1>3, <1>5, <1>6, EndsIs DEF UnlinkCut, Put

LEMMA CreateFoundIs ==
  ASSUME IInv, NEW p \in Proc, CreateFound(p)
  PROVE  /\ pc[p] = "parent" /\ puts[p] = <<>> /\ stage[p] = "no" /\ at[p] \in Inum /\ ip[p] = None
         /\ name[p] \in Names /\ Reads(at[p]) /\ disk[at[p]].type = "dir"
         /\ ents[at[p]][name[p]] \in Inum
         /\ After(p, "old", op[p], None, ents[at[p]][name[p]], None)
         /\ ref' = [ref EXCEPT ![ents[at[p]][name[p]]] = @ + 1]
         /\ puts' = [puts EXCEPT ![p] = <<at[p]>>]
         /\ UNCHANGED <<ents, lock, panicked, stage, cwd, fd>>
<1>1. pc[p] = "parent" /\ at[p] \in Inum /\ ip[p] = None /\ name[p] \in Names
  BY DEF CreateFound, Exists, Ilock, IInv, Shape, Types, Calls
<1>2. /\ puts[p] = <<>> /\ stage[p] = "no" /\ disk[at[p]].type = "dir"
      /\ Loaded(at[p]) = disk[at[p]] /\ Unlocked(at[p])
  BY <1>1, IlockIs, ConstFacts DEF CreateFound, Exists, IInv, Settled
<1>3. Reads(at[p])
  BY <1>1, <1>2, ReadsIs DEF CreateFound, Exists, IInv
<1>4. ents[at[p]][name[p]] \in Inum
  BY <1>1 DEF CreateFound, Exists, IInv, Types, Store
<1>5. After(p, "old", op[p], None, ents[at[p]][name[p]], None)
  BY Same DEF CreateFound, Exists, After, Goto, IInv
<1>6. lock' = lock
  BY <1>1, <1>2 DEF CreateFound, Exists, Unlocked, IInv, Types, Store
<1> QED BY <1>1, <1>2, <1>3, <1>4, <1>5, <1>6 DEF CreateFound, Exists, Iget, Put

LEMMA CreateOldIs ==
  ASSUME IInv, NEW p \in Proc, CreateOld(p)
  PROVE  /\ pc[p] = "old" /\ puts[p] = <<>> /\ stage[p] = "no" /\ at[p] = None /\ ip[p] \in Inum
         /\ Reads(ip[p]) /\ After(p, "out", None, None, None, None)
         /\ OpensOrPuts(p, ip[p], <<>>, <<ip[p]>>)
         /\ UNCHANGED <<ents, ref, lock, panicked, stage, cwd>>
<1>1. pc[p] = "old" /\ at[p] = None /\ ip[p] \in Inum
  BY DEF CreateOld, Ilock, IInv, Shape, Types, Calls
<1>2. /\ puts[p] = <<>> /\ stage[p] = "no"
      /\ Loaded(ip[p]) = disk[ip[p]] /\ Unlocked(ip[p])
  BY <1>1, IlockIs, ConstFacts DEF CreateOld
<1>3. Reads(ip[p])
  BY <1>1, <1>2, ReadsIs DEF CreateOld, IInv
<1>4. OpensOrPuts(p, ip[p], <<>>, <<ip[p]>>)
  <2>1. <<ip[p]>> = Append(<<>>, ip[p])
    BY <1>1, SeqFacts
  <2>2. \E may \in BOOLEAN : Opens(p, ip[p], <<>>, may)
    BY DEF CreateOld
  <2> QED BY <2>1, <2>2, OpensIs
<1> QED BY <1>1, <1>2, <1>3, <1>4, EndsIs DEF CreateOld

LEMMA CreateAllocIs ==
  ASSUME IInv, NEW p \in Proc, NEW i \in Inum, CreateAlloc(p, i)
  PROVE  /\ pc[p] = "parent" /\ puts[p] = <<>> /\ stage[p] = "no" /\ at[p] \in Inum /\ ip[p] = None
         /\ name[p] \in Names /\ disk[at[p]].type = "dir" /\ Unlocked(at[p])
         /\ op[p] # "link" /\ ents[at[p]][name[p]] = None /\ disk[i].type = "free"
         /\ \E t \in {"dir", "file"} : disk' = [disk EXCEPT ![i] = [type |-> t, nlink |-> 0]]
                                     /\ (t = "dir" <=> op[p] = "mkdir")
         /\ valid' = [valid EXCEPT ![at[p]] = TRUE]
         /\ mem' = [mem EXCEPT ![at[p]] = disk[at[p]]]
         /\ ref' = [ref EXCEPT ![i] = @ + 1] /\ lock' = [lock EXCEPT ![at[p]] = p]
         /\ After(p, "made", op[p], at[p], i, name[p])
         /\ UNCHANGED <<ents, panicked, puts, stage, cwd, fd>>
<1>1. pc[p] = "parent" /\ at[p] \in Inum /\ ip[p] = None /\ name[p] \in Names /\ op[p] # "link"
  BY DEF CreateAlloc, Ilock, IInv, Shape, Types, Calls
<1>2. /\ puts[p] = <<>> /\ stage[p] = "no" /\ disk[at[p]].type = "dir"
      /\ Loaded(at[p]) = disk[at[p]] /\ Unlocked(at[p])
  <2>1. Ilock(p, "parent", at[p])
    BY DEF CreateAlloc
  <2> QED BY <1>1, <2>1, IlockIs, ConstFacts DEF IInv, Settled
<1>3. /\ ents[at[p]][name[p]] = None /\ disk[i].type = "free"
      /\ disk' = [disk EXCEPT ![i] = [type |-> IF op[p] = "mkdir" THEN "dir" ELSE "file",
                                      nlink |-> 0]]
      /\ valid' = [valid EXCEPT ![at[p]] = TRUE] /\ mem' = [mem EXCEPT ![at[p]] = Loaded(at[p])]
      /\ Iget(i) /\ lock' = [lock EXCEPT ![at[p]] = p]
      /\ ip' = [ip EXCEPT ![p] = i] /\ Goto(p, "made")
      /\ UNCHANGED <<ents, panicked, op, puts, stage, at, name, depth, cwd, fd, calls>>
  BY <1>2 DEF CreateAlloc, DirlookupPanics
<1>4. After(p, "made", op[p], at[p], i, name[p])
  BY <1>3, Same DEF After, Goto, IInv
<1> QED BY <1>1, <1>2, <1>3, <1>4 DEF Iget

LEMMA CreateMadeIs ==
  ASSUME IInv, NEW p \in Proc, CreateMade(p)
  PROVE  /\ pc[p] = "made" /\ puts[p] = <<>> /\ stage[p] = "no"
         /\ at[p] \in Inum /\ ip[p] \in Inum /\ name[p] \in Names /\ at[p] # ip[p]
         /\ Unlocked(ip[p]) /\ Holds(p, at[p]) /\ ents[at[p]][name[p]] = None
         /\ LET r == [disk[ip[p]] EXCEPT !.nlink = 1] IN
            \/ /\ op[p] # "mkdir" /\ ents' = [ents EXCEPT ![at[p]][name[p]] = ip[p]]
               /\ Writes(ip[p], r)
            \/ /\ op[p] = "mkdir"
               /\ ents' = [ents EXCEPT ![at[p]][name[p]] = ip[p], ![ip[p]] = Dots(at[p])]
               /\ disk' = [disk EXCEPT ![ip[p]] = r, ![at[p]] = Counting(at[p], 1)]
               /\ mem' = [mem EXCEPT ![ip[p]] = r, ![at[p]] = Counting(at[p], 1)]
               /\ valid' = [valid EXCEPT ![ip[p]] = TRUE]
         /\ lock' = [lock EXCEPT ![at[p]] = None]
         /\ After(p, "out", None, None, None, None)
         /\ OpensOrPuts(p, ip[p], <<at[p]>>, <<at[p], ip[p]>>)
         /\ UNCHANGED <<ref, panicked, stage, cwd>>
<1> DEFINE d == at[p]
           i == ip[p]
           r == [disk[i] EXCEPT !.nlink = 1]
           c == Counting(d, 1)
           isdir == op[p] = "mkdir"
<1>1. pc[p] = "made" /\ d \in Inum /\ i \in Inum /\ name[p] \in Names
  BY DEF CreateMade, Ilock, IInv, Shape, Types, Calls
<1>2. /\ puts[p] = <<>> /\ stage[p] = "no" /\ Loaded(i) = disk[i] /\ Unlocked(i)
  <2>1. Ilock(p, "made", i)
    BY DEF CreateMade
  <2> QED BY <1>1, <2>1, IlockIs, ConstFacts
<1>3. Holds(p, d)
  BY <1>1 DEF Holds
<1>4. valid[d] /\ Loaded(d) = disk[d]
  BY <1>1, <1>2, <1>3, HeldIs DEF Freeing, IInv
<1>5. d # i
  BY <1>2, <1>3 DEF Unlocked
<1>6. ents[d][name[p]] = None
  BY <1>1 DEF IInv, Seen
<1>7. /\ Update({i}, [j \in {i} \cup IF isdir THEN {d} ELSE {} |->
                        IF j = i THEN [Loaded(i) EXCEPT !.nlink = 1] ELSE Nlink(d, 1)])
      /\ ents' = [ents EXCEPT ![d][name[p]] = i, ![i] = IF isdir THEN Dots(d) ELSE @]
      /\ Unlock({d})
      /\ Opens(p, i, <<d>>, ~isdir)
      /\ Ends(p)
      /\ UNCHANGED <<ref, panicked, stage, cwd, calls>>
  BY <1>6 DEF CreateMade
<1>8. [Loaded(i) EXCEPT !.nlink = 1] = r /\ Nlink(d, 1) = c
  BY <1>2, <1>4 DEF Nlink, Counting
<1>9. lock' = [lock EXCEPT ![d] = None]
  BY <1>1, <1>7 DEF Unlock, IInv, Types, Store
<1>12. OpensOrPuts(p, i, <<d>>, <<d, i>>)
  <2>1. <<d, i>> = Append(<<d>>, i)
    BY <1>1, SeqFacts
  <2>2. \E may \in BOOLEAN : Opens(p, i, <<d>>, may)
    BY <1>7
  <2> QED BY <2>1, <2>2, OpensIs
<1>10. CASE isdir
  <2>1. Update({i}, [j \in {i, d} |-> IF j = i THEN r ELSE c])
    <3>1. {i} \cup {d} = {i, d}
      OBVIOUS
    <3> QED BY <1>7, <1>8, <1>10, <3>1
  <2>2. ents' = [ents EXCEPT ![d][name[p]] = i, ![i] = Dots(d)]
    BY <1>7, <1>10
  <2> HIDE DEF r, c
  <2>3. /\ disk' = [disk EXCEPT ![i] = r, ![d] = c]
        /\ mem' = [mem EXCEPT ![i] = r, ![d] = c]
        /\ valid' = [valid EXCEPT ![i] = TRUE]
    BY <1>1, <1>4, <1>5, <2>1 DEF Update, IInv, Types, Store
  <2> QED BY <1>1, <1>2, <1>3, <1>5, <1>6, <1>7, <1>9, <1>10, <1>12, <2>2, <2>3, EndsIs DEF r, c
<1>11. CASE ~isdir
  <2>1. Update({i}, [j \in {i} |-> r])
    <3>1. {i} \cup {} = {i}
      OBVIOUS
    <3>2. [j \in {i} |-> IF j = i THEN r ELSE c] = [j \in {i} |-> r]
      OBVIOUS
    <3> QED BY <1>7, <1>8, <1>11, <3>1, <3>2
  <2>2. ents' = [ents EXCEPT ![d][name[p]] = i]
    BY <1>1, <1>7, <1>11, <1>5 DEF IInv, Types, Store
  <2> HIDE DEF r, c
  <2>3. Writes(i, r)
    BY <1>1, <2>1, WritesIs DEF IInv
  <2> QED BY <1>1, <1>2, <1>3, <1>5, <1>6, <1>7, <1>9, <1>11, <1>12, <2>2, <2>3, EndsIs DEF r
<1> QED BY <1>10, <1>11

LEMMA PutsOf ==
  ASSUME Types, Shape, NEW p \in Proc, puts[p] # <<>>
  PROVE  /\ Head(puts[p]) \in Inum /\ Head(puts[p]) = puts[p][1]
         /\ Len(puts[p]) \in 1 .. 2 /\ Tail(puts[p]) \in Seq(Inum)
         /\ Len(Tail(puts[p])) = Len(puts[p]) - 1
         /\ \A k \in 1 .. Len(Tail(puts[p])) : Tail(puts[p])[k] = puts[p][k + 1]
         /\ Len(puts[p]) > 1 => puts[p][2] \in Inum
<1> DEFINE s == puts[p]
<1>1. s \in Seq(Inum) /\ s # <<>> /\ Len(s) <= 2
  BY DEF Types, Calls, Shape
<1> HIDE DEF s
<1>2. Len(s) \in 1 .. 2 /\ Head(s) = s[1] /\ Head(s) \in Inum
  <2>1. Len(s) \in Nat /\ Len(s) # 0
    BY <1>1
  <2>2. Len(s) \in 1 .. 2
    <3>1. PICK n \in Nat : n = Len(s) /\ n # 0 /\ n <= 2
      BY <1>1, <2>1
    <3>2. n \in 1 .. 2
      BY <3>1
    <3> QED BY <3>1, <3>2
  <2>3. Head(s) = s[1]
    BY <1>1, <2>1
  <2> QED BY <1>1, <2>2, <2>3
<1>3. Tail(s) \in Seq(Inum) /\ Len(Tail(s)) = Len(s) - 1
  BY <1>1
<1>4. \A k \in 1 .. Len(Tail(s)) : Tail(s)[k] = s[k + 1]
  BY <1>1, <1>3
<1>5. Len(s) > 1 => s[2] \in Inum
  BY <1>1
<1> QED BY <1>2, <1>3, <1>4, <1>5 DEF s

(* The reference is given back.                                            *)
Drops(p, i) ==
  /\ ref' = [ref EXCEPT ![i] = @ - 1]
  /\ valid' = [valid EXCEPT ![i] = @ /\ ref[i] > 1]
  /\ mem' = [mem EXCEPT ![i] = IF ref[i] > 1 THEN @ ELSE Free]
  /\ puts' = [puts EXCEPT ![p] = Tail(puts[p])]
  /\ stage' = [stage EXCEPT ![p] = "no"]
  /\ After(p, pc[p], op[p], at[p], ip[p], name[p])
  /\ UNCHANGED <<disk, ents, lock, panicked, cwd, fd>>

LEMMA DropIs ==
  ASSUME Types, NEW p \in Proc, NEW i, Drop(p, i)
  PROVE  Drops(p, i)
<1>1. After(p, pc[p], op[p], at[p], ip[p], name[p])
  BY Same DEF Drop, local, After
<1> QED BY <1>1 DEF Drop, Drops, Put

LEMMA IputRefIs ==
  ASSUME IInv, NEW p \in Proc, IputRef(p)
  PROVE  /\ puts[p] # <<>> /\ stage[p] = "no" /\ Drops(p, Head(puts[p]))
BY DropIs DEF IputRef, Putting, IInv

LEMMA IputDropIs ==
  ASSUME IInv, NEW p \in Proc, IputDrop(p)
  PROVE  /\ puts[p] # <<>> /\ stage[p] = "drop" /\ Drops(p, Head(puts[p]))
BY DropIs DEF IputDrop, Putting, IInv

LEMMA IputLastIs ==
  ASSUME IInv, NEW p \in Proc, IputLast(p)
  PROVE  LET i == Head(puts[p]) IN
         /\ puts[p] # <<>> /\ stage[p] = "no" /\ Unlocked(i) /\ i \in Inum
         /\ ~(ref[i] > 1) /\ valid[i] /\ disk[i].nlink = 0
         /\ lock' = [lock EXCEPT ![i] = p] /\ stage' = [stage EXCEPT ![p] = "trunc"]
         /\ After(p, pc[p], op[p], at[p], ip[p], name[p])
         /\ UNCHANGED <<disk, ents, ref, valid, mem, panicked, puts, cwd, fd>>
<1> DEFINE i == Head(puts[p])
<1>1. puts[p] # <<>> /\ stage[p] = "no" /\ i \in Inum /\ ref[i] = 1 /\ valid[i] /\ mem[i].nlink = 0
  BY PutsOf DEF IputLast, Putting, Last, IInv
<1>2. ~(ref[i] > 1)
  BY <1>1
<1>3. \A q \in Proc : ~Holds(q, i)
  <2> SUFFICES ASSUME NEW q \in Proc, Holds(q, i)
               PROVE  FALSE
    OBVIOUS
  <2>1. i \notin {cwd[q], fd[q], at[q], ip[q]}
    BY <1>1, <1>2, OnlyReference DEF IInv
  <2>2. Emptying(q, i)
    BY <2>1 DEF Holds
  <2>3. puts[q] # <<>> /\ stage[q] # "no"
    BY <2>2 DEF Emptying, IInv, Shape
  <2>4. 1 \in 1 .. Len(puts[q]) /\ puts[q][1] = i
    BY <2>2, <2>3, PutsOf DEF Emptying, IInv
  <2>5. q = p
    BY <1>1, <1>2, <2>4, OnlyReference DEF IInv
  <2> QED BY <1>1, <2>3, <2>5
<1>4. lock[i] = None
  BY <1>1, <1>3 DEF IInv, Locks, Types, Store
<1>5. Unlocked(i) /\ mem[i] = disk[i]
  BY <1>1, <1>3, <1>4, LoadedIs DEF Unlocked, Loaded, IInv
<1>6. After(p, pc[p], op[p], at[p], ip[p], name[p])
  BY <1>4, Same DEF IputLast, local, After, IInv
<1> QED BY <1>1, <1>2, <1>4, <1>5, <1>6 DEF IputLast

LEMMA IputFreeIs ==
  ASSUME IInv, NEW p \in Proc, IputFree(p)
  PROVE  LET i == Head(puts[p]) IN
         /\ puts[p] # <<>> /\ stage[p] = "trunc" /\ i \in Inum /\ Holds(p, i) /\ valid[i]
         /\ ents' = [ents EXCEPT ![i] = Empty]
         /\ disk' = [disk EXCEPT ![i] = Free] /\ mem' = [mem EXCEPT ![i] = Free]
         /\ stage' = [stage EXCEPT ![p] = "free"]
         /\ After(p, pc[p], op[p], at[p], ip[p], name[p])
         /\ UNCHANGED <<ref, valid, lock, panicked, puts, cwd, fd>>
<1> DEFINE i == Head(puts[p])
<1>1. puts[p] # <<>> /\ stage[p] = "trunc" /\ i \in Inum
  BY PutsOf DEF IputFree, Putting, IInv
<1>2. Holds(p, i) /\ valid[i]
  BY <1>1 DEF Holds, Emptying, IInv, Locks
<1>3. disk' = [disk EXCEPT ![i] = Free] /\ mem' = [mem EXCEPT ![i] = Free] /\ valid' = valid
  BY <1>1 DEF IputFree, Update, IInv, Types, Store
<1>4. After(p, pc[p], op[p], at[p], ip[p], name[p])
  BY Same DEF IputFree, local, After, IInv
<1> QED BY <1>1, <1>2, <1>3, <1>4 DEF IputFree

LEMMA IputInvalidIs ==
  ASSUME IInv, NEW p \in Proc, IputInvalid(p)
  PROVE  LET i == Head(puts[p]) IN
         /\ puts[p] # <<>> /\ stage[p] = "free" /\ i \in Inum /\ Holds(p, i)
         /\ valid' = [valid EXCEPT ![i] = FALSE] /\ lock' = [lock EXCEPT ![i] = None]
         /\ stage' = [stage EXCEPT ![p] = "drop"]
         /\ After(p, pc[p], op[p], at[p], ip[p], name[p])
         /\ UNCHANGED <<disk, ents, ref, mem, panicked, puts, cwd, fd>>
<1> DEFINE i == Head(puts[p])
<1>1. puts[p] # <<>> /\ stage[p] = "free" /\ i \in Inum
  BY PutsOf DEF IputInvalid, Putting, IInv
<1>2. Holds(p, i)
  BY <1>1 DEF Holds, Emptying
<1>3. lock' = [lock EXCEPT ![i] = None]
  BY <1>1 DEF IputInvalid, Unlock, IInv, Types, Store
<1>4. After(p, pc[p], op[p], at[p], ip[p], name[p])
  BY Same DEF IputInvalid, local, After, IInv
<1> QED BY <1>1, <1>2, <1>3, <1>4 DEF IputInvalid

-----------------------------------------------------------------------------
(* The steps of p, but for panics.                                         *)
Acts(p) ==
  \/ \E o \in Ops, s \in Inum : Call(p, o, s)
  \/ WalkNothing(p)
  \/ \E n \in Names : WalkFails(p, n)
  \/ \E n \in Names, last \in BOOLEAN : WalkInto(p, n, last)
  \/ \E n \in Names : WalkParent(p, n)
  \/ Open(p)
  \/ Chdir(p)
  \/ Close(p)
  \/ \E s \in Inum : LinkFound(p, s)
  \/ Link(p)
  \/ LinkTaken(p)
  \/ Refuse(p)
  \/ LinkUndo(p)
  \/ UnlinkLook(p)
  \/ Unlinks(p)
  \/ UnlinkCut(p)
  \/ CreateFound(p)
  \/ CreateOld(p)
  \/ \E i \in Inum : CreateAlloc(p, i)
  \/ CreateMade(p)
  \/ IputRef(p)
  \/ IputLast(p)
  \/ IputFree(p)
  \/ IputInvalid(p)
  \/ IputDrop(p)

LEMMA PanicIs ==
  ASSUME NEW why, Panic(why)
  PROVE  /\ panicked' = why
         /\ UNCHANGED <<disk, ents, ref, valid, mem, lock, pc, op, puts, stage, at, ip, name, cwd, fd>>
BY DEF Panic, cache, local

(* Every step is one of those, or a panic that the invariant allows.       *)
LEMMA NextIs ==
  ASSUME IInv, Next
  PROVE  \/ \E p \in Proc : Acts(p)
         \/ \E why \in {"ialloc: no inodes", "iget: no inodes", "ilock: no type", "unlink: nlink < 1"} :
              Panic(why)
BY DEF Next, Acts, Ops, Iput, IallocPanics, IlockPanics, IgetPanics, Unlinks

-----------------------------------------------------------------------------
(* The slots of p: types, shape and references                             *)

(* What holds of the slots of a process, as a function of their values.    *)
Typed(l, o, a, x, n, s, g, c, f) ==
  /\ l \in Pcs /\ o \in Ops \cup {None} /\ a \in Inum \cup {None} /\ x \in Inum \cup {None}
  /\ n \in Names \cup {None} /\ s \in Seq(Inum) /\ g \in Stages
  /\ c \in Inum /\ f \in Inum \cup {None}
Shaped(l, o, a, x, n, s, g) ==
  /\ l = "out" => a = None /\ x = None
  /\ l = "walk" => a # None /\ (x # None => o = "link")
  /\ l = "found" => a # None /\ x = None /\ o \notin Parent
  /\ l = "parent" => a # None /\ n # None /\ (o = "link" <=> x # None)
  /\ l \in {"gone", "made"} => a # None /\ x # None /\ n # None /\ s = <<>>
  /\ l = "gone" => n \in Name
  /\ l = "held" => a # None
  /\ l \in {"cut", "old", "undo"} => a = None /\ x # None
  /\ Len(s) <= 2
  /\ g # "no" => s # <<>>
Moves(p, l, o, a, x, n, s, g, c, f) ==
  /\ After(p, l, o, a, x, n)
  /\ puts' = [puts EXCEPT ![p] = s] /\ stage' = [stage EXCEPT ![p] = g]
  /\ cwd' = [cwd EXCEPT ![p] = c] /\ fd' = [fd EXCEPT ![p] = f]
Counts(p, c, f, a, x, s) ==
  \A i \in Inum : ref'[i] - Mine(c, f, a, x, s, i)
                = ref[i] - Mine(cwd[p], fd[p], at[p], ip[p], puts[p], i)

(* A step of p leaves the slots of the others alone.                       *)
Others(p) ==
  \A q \in Proc \ {p} :
    /\ pc'[q] = pc[q] /\ op'[q] = op[q] /\ at'[q] = at[q] /\ ip'[q] = ip[q]
    /\ name'[q] = name[q] /\ puts'[q] = puts[q] /\ stage'[q] = stage[q]
    /\ cwd'[q] = cwd[q] /\ fd'[q] = fd[q]

LEMMA MovesIs ==
  ASSUME Types, NEW p \in Proc, NEW l, NEW o, NEW a, NEW x, NEW n, NEW s, NEW g, NEW c, NEW f,
         Typed(l, o, a, x, n, s, g, c, f), Moves(p, l, o, a, x, n, s, g, c, f)
  PROVE  /\ Calls' /\ Others(p)
         /\ pc'[p] = l /\ op'[p] = o /\ at'[p] = a /\ ip'[p] = x /\ name'[p] = n
         /\ puts'[p] = s /\ stage'[p] = g /\ cwd'[p] = c /\ fd'[p] = f
<1>1. Calls'
  BY DEF Typed, Moves, After, Types, Calls
<1>2. Others(p)
  BY DEF Moves, After, Types, Calls, Others
<1>3. /\ pc'[p] = l /\ op'[p] = o /\ at'[p] = a /\ ip'[p] = x /\ name'[p] = n
      /\ puts'[p] = s /\ stage'[p] = g /\ cwd'[p] = c /\ fd'[p] = f
  BY DEF Moves, After, Types, Calls
<1> QED BY <1>1, <1>2, <1>3

LEMMA MovesKeep ==
  ASSUME IInv, Store', NEW p \in Proc,
         NEW l, NEW o, NEW a, NEW x, NEW n, NEW s, NEW g, NEW c, NEW f,
         Typed(l, o, a, x, n, s, g, c, f), Moves(p, l, o, a, x, n, s, g, c, f),
         Shaped(l, o, a, x, n, s, g), Counts(p, c, f, a, x, s)
  PROVE  Types' /\ Shape' /\ RefsExact' /\ Others(p)
<1>0. Types /\ Shape /\ RefsExact
  BY DEF IInv
<1>1. /\ Calls' /\ Others(p)
      /\ pc'[p] = l /\ op'[p] = o /\ at'[p] = a /\ ip'[p] = x /\ name'[p] = n
      /\ puts'[p] = s /\ stage'[p] = g /\ cwd'[p] = c /\ fd'[p] = f
  BY <1>0, MovesIs
<1>2. Types'
  BY <1>1 DEF Types
<1>3. Shape'
  <2> SUFFICES ASSUME NEW q \in Proc
               PROVE  Shaped(pc'[q], op'[q], at'[q], ip'[q], name'[q], puts'[q], stage'[q])
    BY DEF Shape, Shaped
  <2>1. CASE q = p
    BY <1>1, <2>1
  <2>2. CASE q # p
    <3>1. Shaped(pc[q], op[q], at[q], ip[q], name[q], puts[q], stage[q])
      BY <1>0 DEF Shape, Shaped
    <3> QED BY <1>1, <2>2, <3>1 DEF Others
  <2> QED BY <2>1, <2>2
<1>4. RefsExact'
  <2>1. Len(puts[p]) <= 2 /\ Len(puts'[p]) <= 2
    BY <1>0, <1>1 DEF Shape, Shaped
  <2>2. \A q \in Proc \ {p} :
          /\ cwd'[q] = cwd[q] /\ fd'[q] = fd[q] /\ at'[q] = at[q] /\ ip'[q] = ip[q]
          /\ puts'[q] = puts[q]
    BY <1>1 DEF Others
  <2>3. \A i \in Inum : ref'[i] - Mine(cwd'[p], fd'[p], at'[p], ip'[p], puts'[p], i)
                      = ref[i] - Mine(cwd[p], fd[p], at[p], ip[p], puts[p], i)
    BY <1>1 DEF Counts
  <2> QED BY <1>0, <1>2, <2>1, <2>2, <2>3, RefsStep
<1> QED BY <1>1, <1>2, <1>3, <1>4

(* References in numbers.                                                  *)
Four(c, f, a, x, i) == Bit(c = i) + Bit(f = i) + Bit(a = i) + Bit(x = i)
LEMMA MineOf ==
  ASSUME NEW c, NEW f, NEW a, NEW x, NEW i
  PROVE  /\ Mine(c, f, a, x, <<>>, i) = Four(c, f, a, x, i)
         /\ \A u \in Inum : Mine(c, f, a, x, <<u>>, i) = Four(c, f, a, x, i) + Bit(u = i)
         /\ \A u, v \in Inum :
              Mine(c, f, a, x, <<u, v>>, i) = Four(c, f, a, x, i) + Bit(u = i) + Bit(v = i)
<1>1. Mine(c, f, a, x, <<>>, i) = Four(c, f, a, x, i)
  BY SeqFacts DEF Mine, Four, Bit
<1>2. ASSUME NEW u \in Inum
      PROVE  Mine(c, f, a, x, <<u>>, i) = Four(c, f, a, x, i) + Bit(u = i)
  BY SeqFacts DEF Mine, Four, Bit
<1>3. ASSUME NEW u \in Inum, NEW v \in Inum
      PROVE  Mine(c, f, a, x, <<u, v>>, i) = Four(c, f, a, x, i) + Bit(u = i) + Bit(v = i)
  BY SeqFacts DEF Mine, Four, Bit
<1> QED BY <1>1, <1>2, <1>3

LEMMA MineTail ==
  ASSUME NEW c, NEW f, NEW a, NEW x, NEW i, NEW s \in Seq(Inum), s # <<>>, Len(s) <= 2
  PROVE  /\ Mine(c, f, a, x, Tail(s), i) = Mine(c, f, a, x, s, i) - Bit(Head(s) = i)
         /\ Mine(c, f, a, x, s, i) \in Int
<1>0. Len(s) = 1 \/ Len(s) = 2
  <2>1. PICK k \in Nat : k = Len(s) /\ k # 0 /\ k <= 2
    OBVIOUS
  <2>2. k = 1 \/ k = 2
    BY <2>1
  <2> QED BY <2>1, <2>2
<1>1. /\ Tail(s) \in Seq(Inum) /\ Len(Tail(s)) = Len(s) - 1 /\ Head(s) = s[1]
  BY <1>0
<1>2. Len(s) = 2 => Tail(s)[1] = s[2]
  OBVIOUS
<1>3. CASE Len(s) = 1
  BY <1>1, <1>3 DEF Mine, Bit
<1>4. CASE Len(s) = 2
  <2>1. Len(Tail(s)) = 1
    BY <1>1, <1>4
  <2> DEFINE t == Tail(s)
  <2>2. Len(t) = 1 /\ t[1] = s[2]
    BY <1>2, <1>4, <2>1
  <2> HIDE DEF t
  <2>3. Mine(c, f, a, x, t, i) = Four(c, f, a, x, i) + Bit(s[2] = i)
    BY <2>2 DEF Mine, Four, Bit
  <2>4. Mine(c, f, a, x, s, i) = Four(c, f, a, x, i) + Bit(s[1] = i) + Bit(s[2] = i)
    BY <1>4 DEF Mine, Four, Bit
  <2>5. Head(s) = s[1]
    BY <1>1
  <2> QED BY <2>3, <2>4, <2>5 DEF Four, Bit, t
<1> QED BY <1>0, <1>3, <1>4

LEMMA CountingType ==
  ASSUME Types, NEW i \in Inum, NEW d \in Int
  PROVE  /\ Counting(i, d) \in Inode /\ Counting(i, d).type = disk[i].type
         /\ Counting(i, d).nlink = disk[i].nlink + d
<1>1. disk[i] \in Inode /\ disk[i].nlink \in Int
  BY DEF Types, Store, Inode
<1>2. disk[i].nlink + d \in Int
  BY <1>1
<1> QED BY <1>1, <1>2 DEF Counting, Inode

LEMMA FirstLinkType ==
  ASSUME Types, NEW i \in Inum
  PROVE  /\ [disk[i] EXCEPT !.nlink = 1] \in Inode
         /\ [disk[i] EXCEPT !.nlink = 1].type = disk[i].type
         /\ [disk[i] EXCEPT !.nlink = 1].nlink = 1
<1>1. disk[i] \in Inode
  BY DEF Types, Store
<1> QED BY <1>1 DEF Inode

LEMMA ExceptType ==
  ASSUME NEW S, NEW T, NEW f \in [S -> T], NEW a \in S, NEW b \in S, NEW u \in T, NEW v \in T
  PROVE  /\ [f EXCEPT ![a] = u] \in [S -> T]
         /\ [f EXCEPT ![a] = u, ![b] = v] \in [S -> T]
OBVIOUS

LEMMA EntryType ==
  ASSUME Types, NEW d \in Inum, NEW n \in Names, NEW j \in Inum \cup {None}
  PROVE  [ents EXCEPT ![d][n] = j] \in [Inum -> [Names -> Inum \cup {None}]]
<1> DEFINE g == [ents[d] EXCEPT ![n] = j]
<1>1. g \in [Names -> Inum \cup {None}]
  BY DEF Types, Store
<1>2. ents \in [Inum -> [Names -> Inum \cup {None}]]
  BY DEF Types, Store
<1>3. [ents EXCEPT ![d][n] = j] = [ents EXCEPT ![d] = g]
  BY <1>2
<1> HIDE DEF g
<1>4. [ents EXCEPT ![d] = g] \in [Inum -> [Names -> Inum \cup {None}]]
  BY <1>1, <1>2
<1> QED BY <1>3, <1>4

LEMMA EntriesType ==
  ASSUME Types, NEW d \in Inum, NEW n \in Names, NEW j \in Inum \cup {None}, NEW i \in Inum,
         NEW e \in [Names -> Inum \cup {None}]
  PROVE  [ents EXCEPT ![d][n] = j, ![i] = e] \in [Inum -> [Names -> Inum \cup {None}]]
BY EntryType

(* Every action keeps the types.                                           *)
LEMMA CopiesType ==
  ASSUME Types, NEW i \in Inum,
         Reads(i) \/ \E r \in Inode : Writes(i, r)
  PROVE  /\ disk' \in [Inum -> Inode] /\ mem' \in [Inum -> Inode]
         /\ valid' \in [Inum -> BOOLEAN]
<1>1. CASE Reads(i)
  BY <1>1 DEF Types, Store, Reads
<1>2. CASE \E r \in Inode : Writes(i, r)
  BY <1>2 DEF Types, Store, Writes
<1> QED BY <1>1, <1>2

LEMMA DropsType ==
  ASSUME Types, NEW p \in Proc, NEW i \in Inum, Drops(p, i)
  PROVE  /\ disk' \in [Inum -> Inode] /\ mem' \in [Inum -> Inode]
         /\ valid' \in [Inum -> BOOLEAN] /\ ref' \in [Inum -> Int]
<1>1. /\ Free \in Inode /\ mem \in [Inum -> Inode] /\ valid \in [Inum -> BOOLEAN]
      /\ ref \in [Inum -> Int] /\ disk \in [Inum -> Inode]
  BY DEF Types, Store, Inode, Free
<1>2. disk' \in [Inum -> Inode] /\ ref' \in [Inum -> Int]
  BY <1>1 DEF Drops
<1>3. mem' \in [Inum -> Inode]
  BY <1>1 DEF Drops
<1>4. valid' \in [Inum -> BOOLEAN]
  <2>1. valid' = [valid EXCEPT ![i] = valid[i] /\ ref[i] > 1]
    BY DEF Drops
  <2>2. (valid[i] /\ ref[i] > 1) \in BOOLEAN
    OBVIOUS
  <2> QED BY <1>1, <2>1, <2>2
<1> QED BY <1>2, <1>3, <1>4

LEMMA CopiesStep ==
  ASSUME IInv, NEW p \in Proc, Acts(p)
  PROVE  /\ disk' \in [Inum -> Inode] /\ mem' \in [Inum -> Inode]
         /\ valid' \in [Inum -> BOOLEAN]
<1>0. Store /\ Types /\ Shape /\ Free \in Inode
  BY DEF IInv, Types, Free, Inode
<1>1. CASE \E o \in Ops, s \in Inum : Call(p, o, s)
  BY <1>0, <1>1, CallIs DEF Store
<1>2. CASE WalkNothing(p)
  BY <1>0, <1>2, WalkNothingIs DEF Store
<1>3. CASE \E n \in Names : WalkFails(p, n)
  <2>1. Reads(at[p]) /\ at[p] \in Inum
    BY <1>3, WalkFailsIs
  <2> QED BY <1>0, <2>1, CopiesType
<1>4. CASE \E n \in Names, last \in BOOLEAN : WalkInto(p, n, last)
  <2>1. Reads(at[p]) /\ at[p] \in Inum
    BY <1>4, WalkIntoIs
  <2> QED BY <1>0, <2>1, CopiesType
<1>5. CASE \E n \in Names : WalkParent(p, n)
  <2>1. Reads(at[p]) /\ at[p] \in Inum
    BY <1>5, WalkParentIs
  <2> QED BY <1>0, <2>1, CopiesType
<1>6. CASE Open(p)
  <2>1. Reads(at[p]) /\ at[p] \in Inum
    BY <1>6, OpenIs
  <2> QED BY <1>0, <2>1, CopiesType
<1>7. CASE Chdir(p)
  <2>1. Reads(at[p]) /\ at[p] \in Inum
    BY <1>7, ChdirIs
  <2> QED BY <1>0, <2>1, CopiesType
<1>8. CASE Close(p)
  BY <1>0, <1>8, CloseIs DEF Store
<1>9. CASE \E s \in Inum : LinkFound(p, s)
  <2>1. Reads(at[p]) \/ Writes(at[p], Counting(at[p], 1))
    BY <1>9, LinkFoundIs
  <2>2. at[p] \in Inum
    BY <1>9, LinkFoundIs
  <2>3. Counting(at[p], 1) \in Inode
    BY <1>0, <2>2, CountingType
  <2> QED BY <1>0, <2>1, <2>2, <2>3, CopiesType
<1>10. CASE Link(p)
  <2>1. Reads(at[p]) /\ at[p] \in Inum
    BY <1>10, LinkIs
  <2> QED BY <1>0, <2>1, CopiesType
<1>11. CASE LinkUndo(p)
  <2>1. Writes(ip[p], Counting(ip[p], -1)) /\ ip[p] \in Inum
    BY <1>11, LinkUndoIs
  <2>2. Counting(ip[p], -1) \in Inode
    BY <1>0, <2>1, CountingType
  <2> QED BY <1>0, <2>1, <2>2, CopiesType
<1>12. CASE UnlinkLook(p)
  <2>1. Reads(at[p]) /\ at[p] \in Inum
    BY <1>12, UnlinkLookIs
  <2> QED BY <1>0, <2>1, CopiesType
<1>13. CASE Unlinks(p)
  <2> DEFINE r == Counting(at[p], IF disk[ip[p]].type = "dir" THEN -1 ELSE 0)
  <2>1. at[p] \in Inum /\ ip[p] \in Inum
    BY <1>13, UnlinksIs
  <2>2. r \in Inode /\ disk[ip[p]] \in Inode
    BY <1>0, <2>1, CountingType DEF Store
  <2>3. \/ Reads(ip[p])
        \/ /\ disk' = [disk EXCEPT ![at[p]] = r]
           /\ mem' = [mem EXCEPT ![at[p]] = r, ![ip[p]] = disk[ip[p]]]
           /\ valid' = [valid EXCEPT ![ip[p]] = TRUE]
    BY <1>13, UnlinksIs
  <2> HIDE DEF r
  <2>4. CASE Reads(ip[p])
    BY <1>0, <2>1, <2>4, CopiesType
  <2>5. CASE ~Reads(ip[p])
    <3>1. /\ disk \in [Inum -> Inode] /\ mem \in [Inum -> Inode] /\ valid \in [Inum -> BOOLEAN]
          /\ TRUE \in BOOLEAN
      BY <1>0 DEF Store
    <3>2. disk' \in [Inum -> Inode]
      BY <2>1, <2>2, <2>3, <2>5, <3>1
    <3>3. [mem EXCEPT ![at[p]] = r, ![ip[p]] = disk[ip[p]]] \in [Inum -> Inode]
      BY <2>1, <2>2, <3>1, ExceptType
    <3>4. valid' \in [Inum -> BOOLEAN]
      BY <2>1, <2>3, <2>5, <3>1
    <3> QED BY <2>3, <2>5, <3>2, <3>3, <3>4
  <2> QED BY <2>4, <2>5
<1>14. CASE UnlinkCut(p)
  <2>1. Writes(ip[p], Counting(ip[p], -1)) /\ ip[p] \in Inum
    BY <1>14, UnlinkCutIs
  <2>2. Counting(ip[p], -1) \in Inode
    BY <1>0, <2>1, CountingType
  <2> QED BY <1>0, <2>1, <2>2, CopiesType
<1>15. CASE CreateFound(p)
  <2>1. Reads(at[p]) /\ at[p] \in Inum
    BY <1>15, CreateFoundIs
  <2> QED BY <1>0, <2>1, CopiesType
<1>16. CASE CreateOld(p)
  <2>1. Reads(ip[p]) /\ ip[p] \in Inum
    BY <1>16, CreateOldIs
  <2> QED BY <1>0, <2>1, CopiesType
<1>17. CASE \E i \in Inum : CreateAlloc(p, i)
  <2>1. PICK i \in Inum : CreateAlloc(p, i)
    BY <1>17
  <2>2. PICK t \in {"dir", "file"} : disk' = [disk EXCEPT ![i] = [type |-> t, nlink |-> 0]]
                                    /\ (t = "dir" <=> op[p] = "mkdir")
    BY <2>1, CreateAllocIs, Zenon
  <2>3. [type |-> t, nlink |-> 0] \in Inode /\ disk[at[p]] \in Inode
    BY <1>0, <2>1, CreateAllocIs DEF Store, Inode
  <2>4. valid' = [valid EXCEPT ![at[p]] = TRUE] /\ mem' = [mem EXCEPT ![at[p]] = disk[at[p]]]
    BY <2>1, CreateAllocIs
  <2>5. disk' = [disk EXCEPT ![i] = [type |-> t, nlink |-> 0]]
    BY <2>2
  <2> QED BY <1>0, <2>3, <2>4, <2>5 DEF Store
<1>18. CASE CreateMade(p)
  <2> DEFINE r == [disk[ip[p]] EXCEPT !.nlink = 1]
             c == Counting(at[p], 1)
  <2>1. at[p] \in Inum /\ ip[p] \in Inum
    BY <1>18, CreateMadeIs
  <2>2. r \in Inode /\ c \in Inode
    BY <1>0, <2>1, CountingType, FirstLinkType
  <2>3. \/ Writes(ip[p], r)
        \/ /\ disk' = [disk EXCEPT ![ip[p]] = r, ![at[p]] = c]
           /\ mem' = [mem EXCEPT ![ip[p]] = r, ![at[p]] = c]
           /\ valid' = [valid EXCEPT ![ip[p]] = TRUE]
    BY <1>18, CreateMadeIs
  <2> HIDE DEF r, c
  <2>4. CASE Writes(ip[p], r)
    BY <1>0, <2>1, <2>2, <2>4, CopiesType
  <2>5. CASE ~Writes(ip[p], r)
    <3>1. /\ disk \in [Inum -> Inode] /\ mem \in [Inum -> Inode] /\ valid \in [Inum -> BOOLEAN]
      BY <1>0 DEF Store
    <3>2. /\ [disk EXCEPT ![ip[p]] = r, ![at[p]] = c] \in [Inum -> Inode]
          /\ [mem EXCEPT ![ip[p]] = r, ![at[p]] = c] \in [Inum -> Inode]
      BY <2>1, <2>2, <3>1, ExceptType
    <3>3. valid' \in [Inum -> BOOLEAN]
      BY <2>1, <2>3, <2>5, <3>1
    <3> QED BY <2>3, <2>5, <3>2, <3>3
  <2> QED BY <2>4, <2>5
<1>19. CASE IputRef(p)
  <2>1. Drops(p, Head(puts[p])) /\ Head(puts[p]) \in Inum
    BY <1>0, <1>19, IputRefIs, PutsOf
  <2> QED BY <1>0, <2>1, DropsType
<1>20. CASE IputLast(p)
  BY <1>0, <1>20, IputLastIs DEF Store
<1>21. CASE IputFree(p)
  <2>1. /\ disk' = [disk EXCEPT ![Head(puts[p])] = Free] /\ valid' = valid
        /\ mem' = [mem EXCEPT ![Head(puts[p])] = Free]
    BY <1>21, IputFreeIs
  <2> QED BY <1>0, <2>1 DEF Store
<1>22. CASE IputInvalid(p)
  BY <1>0, <1>22, IputInvalidIs DEF Store
<1>23. CASE IputDrop(p)
  <2>1. Drops(p, Head(puts[p])) /\ Head(puts[p]) \in Inum
    BY <1>0, <1>23, IputDropIs, PutsOf
  <2> QED BY <1>0, <2>1, DropsType
<1>24. CASE LinkTaken(p)
  <2>1. Reads(at[p]) /\ at[p] \in Inum
    BY <1>24, LinkTakenIs
  <2> QED BY <1>0, <2>1, CopiesType
<1>25. CASE Refuse(p)
  BY <1>0, <1>25, RefuseIs DEF Store
<1> QED
  BY <1>1, <1>2, <1>3, <1>4, <1>5, <1>6, <1>7, <1>8, <1>9, <1>10, <1>11, <1>12,
     <1>13, <1>14, <1>15, <1>16, <1>17, <1>18, <1>19, <1>20, <1>21, <1>22, <1>23,
     <1>24, <1>25 DEF Acts

LEMMA CacheStep ==
  ASSUME IInv, NEW p \in Proc, Acts(p)
  PROVE  /\ ents' \in [Inum -> [Names -> Inum \cup {None}]] /\ ref' \in [Inum -> Int]
         /\ lock' \in [Inum -> Proc \cup {None}]
<1>0. Store /\ Types /\ Shape
  BY DEF IInv, Types
<1>1. CASE \E o \in Ops, s \in Inum : Call(p, o, s)
  BY <1>0, <1>1, CallIs, ConstFacts DEF Store, Empty
<1>2. CASE WalkNothing(p)
  BY <1>0, <1>2, WalkNothingIs, ConstFacts DEF Store, Empty
<1>3. CASE \E n \in Names : WalkFails(p, n)
  BY <1>0, <1>3, WalkFailsIs, ConstFacts DEF Store, Empty
<1>4. CASE \E n \in Names, last \in BOOLEAN : WalkInto(p, n, last)
  BY <1>0, <1>4, WalkIntoIs, ConstFacts DEF Store, Empty
<1>5. CASE \E n \in Names : WalkParent(p, n)
  BY <1>0, <1>5, WalkParentIs, ConstFacts DEF Store, Empty
<1>6. CASE Open(p)
  BY <1>0, <1>6, OpenIs, ConstFacts DEF Store, Empty
<1>7. CASE Chdir(p)
  BY <1>0, <1>7, ChdirIs, ConstFacts DEF Store, Empty
<1>8. CASE Close(p)
  BY <1>0, <1>8, CloseIs, ConstFacts DEF Store, Empty
<1>9. CASE \E s \in Inum : LinkFound(p, s)
  BY <1>0, <1>9, LinkFoundIs, ConstFacts DEF Store, Empty
<1>10. CASE Link(p)
  <2>1. at[p] \in Inum /\ ip[p] \in Inum /\ name[p] \in Names
    BY <1>10, LinkIs
  <2>2. ents' = [ents EXCEPT ![at[p]][name[p]] = ip[p]]
    BY <1>10, LinkIs
  <2>3. ref' = ref /\ lock' = lock
    BY <1>10, LinkIs
  <2>4. [ents EXCEPT ![at[p]][name[p]] = ip[p]] \in [Inum -> [Names -> Inum \cup {None}]]
    BY <1>0, <2>1, EntryType
  <2> QED BY <1>0, <2>2, <2>3, <2>4 DEF Store
<1>11. CASE LinkUndo(p)
  BY <1>0, <1>11, LinkUndoIs, ConstFacts DEF Store, Empty
<1>12. CASE UnlinkLook(p)
  BY <1>0, <1>12, UnlinkLookIs, ConstFacts DEF Store, Empty
<1>13. CASE Unlinks(p)
  <2>1. at[p] \in Inum /\ ip[p] \in Inum /\ name[p] \in Names
    BY <1>13, UnlinksIs, ConstFacts
  <2>2. ents' = ents \/ ents' = [ents EXCEPT ![at[p]][name[p]] = None]
    BY <1>13, UnlinksIs
  <2>3. /\ ref' = ref
        /\ lock' = lock \/ lock' = [lock EXCEPT ![at[p]] = None, ![ip[p]] = p]
    BY <1>13, UnlinksIs
  <2>4. None \in Inum \cup {None}
    OBVIOUS
  <2>5. [ents EXCEPT ![at[p]][name[p]] = None] \in [Inum -> [Names -> Inum \cup {None}]]
    BY <1>0, <2>1, <2>4, EntryType
  <2>6. lock' \in [Inum -> Proc \cup {None}]
    BY <1>0, <2>3 DEF Store
  <2> QED BY <1>0, <2>2, <2>3, <2>5, <2>6 DEF Store
<1>14. CASE UnlinkCut(p)
  BY <1>0, <1>14, UnlinkCutIs, ConstFacts DEF Store, Empty
<1>15. CASE CreateFound(p)
  BY <1>0, <1>15, CreateFoundIs, ConstFacts DEF Store, Empty
<1>16. CASE CreateOld(p)
  BY <1>0, <1>16, CreateOldIs, ConstFacts DEF Store, Empty
<1>17. CASE \E i \in Inum : CreateAlloc(p, i)
  <2>1. PICK i \in Inum : CreateAlloc(p, i)
    BY <1>17
  <2>2. /\ ents' = ents /\ ref' = [ref EXCEPT ![i] = @ + 1]
        /\ lock' = [lock EXCEPT ![at[p]] = p]
    BY <2>1, CreateAllocIs
  <2>3. ref' \in [Inum -> Int]
    BY <1>0, <2>2 DEF Store
  <2>4. lock' \in [Inum -> Proc \cup {None}]
    BY <1>0, <2>2 DEF Store
  <2> QED BY <1>0, <2>2, <2>3, <2>4 DEF Store
<1>18. CASE CreateMade(p)
  <2>1. at[p] \in Inum /\ ip[p] \in Inum /\ name[p] \in Names
    BY <1>18, CreateMadeIs
  <2>2. Dots(at[p]) \in [Names -> Inum \cup {None}]
    BY <2>1 DEF Dots, Empty
  <2>3. \/ ents' = [ents EXCEPT ![at[p]][name[p]] = ip[p]]
        \/ ents' = [ents EXCEPT ![at[p]][name[p]] = ip[p], ![ip[p]] = Dots(at[p])]
    BY <1>18, CreateMadeIs
  <2>4. ref' = ref /\ lock' = [lock EXCEPT ![at[p]] = None]
    BY <1>18, CreateMadeIs
  <2> HIDE DEF Dots
  <2>5. ents' \in [Inum -> [Names -> Inum \cup {None}]]
    <3>1. /\ [ents EXCEPT ![at[p]][name[p]] = ip[p]] \in [Inum -> [Names -> Inum \cup {None}]]
          /\ [ents EXCEPT ![at[p]][name[p]] = ip[p], ![ip[p]] = Dots(at[p])]
               \in [Inum -> [Names -> Inum \cup {None}]]
      BY <1>0, <2>1, <2>2, EntryType, EntriesType
    <3> QED BY <2>3, <3>1
  <2> QED BY <1>0, <2>4, <2>5 DEF Store
<1>19. CASE IputRef(p)
  <2>1. Drops(p, Head(puts[p])) /\ Head(puts[p]) \in Inum
    BY <1>0, <1>19, IputRefIs, PutsOf
  <2> QED BY <1>0, <2>1, DropsType DEF Drops, Store
<1>20. CASE IputLast(p)
  BY <1>0, <1>20, IputLastIs, ConstFacts DEF Store, Empty
<1>21. CASE IputFree(p)
  BY <1>0, <1>21, IputFreeIs, ConstFacts DEF Store, Empty
<1>22. CASE IputInvalid(p)
  BY <1>0, <1>22, IputInvalidIs, ConstFacts DEF Store, Empty
<1>23. CASE IputDrop(p)
  <2>1. Drops(p, Head(puts[p])) /\ Head(puts[p]) \in Inum
    BY <1>0, <1>23, IputDropIs, PutsOf
  <2> QED BY <1>0, <2>1, DropsType DEF Drops, Store
<1>24. CASE LinkTaken(p)
  BY <1>0, <1>24, LinkTakenIs, ConstFacts DEF Store, Empty
<1>25. CASE Refuse(p)
  BY <1>0, <1>25, RefuseIs, ConstFacts DEF Store, Empty
<1> QED
  BY <1>1, <1>2, <1>3, <1>4, <1>5, <1>6, <1>7, <1>8, <1>9, <1>10, <1>11, <1>12,
     <1>13, <1>14, <1>15, <1>16, <1>17, <1>18, <1>19, <1>20, <1>21, <1>22, <1>23,
     <1>24, <1>25 DEF Acts

LEMMA StoreStep ==
  ASSUME IInv, NEW p \in Proc, Acts(p)
  PROVE  Store'
BY CopiesStep, CacheStep DEF Store

(* p, in whose puts is nothing, changes its slots, and gets one reference  *)
(* to k if that is an inode; u and v are its new puts.                     *)
More(k) == \A i \in Inum : ref'[i] = ref[i] + Bit(k = i)
Balance(p, c, f, a, x, u, v, k) ==
  \A i \in Inum : Four(c, f, a, x, i) + Bit(u = i) + Bit(v = i)
                  = Four(cwd[p], fd[p], at[p], ip[p], i) + Bit(k = i)

LEMMA NoMore ==
  ASSUME Types, ref' = ref
  PROVE  More(None)
BY ConstFacts DEF More, Bit, Types, Store

LEMMA OneMore ==
  ASSUME Types, NEW k \in Inum, ref' = [ref EXCEPT ![k] = @ + 1]
  PROVE  More(k)
BY DEF More, Bit, Types, Store

LEMMA CountsIs ==
  ASSUME Types, NEW p \in Proc, puts[p] = <<>>, NEW c, NEW f, NEW a, NEW x, NEW u, NEW v, NEW k,
         More(k), Balance(p, c, f, a, x, u, v, k)
  PROVE  /\ u = None /\ v = None => Counts(p, c, f, a, x, <<>>)
         /\ u \in Inum /\ v = None => Counts(p, c, f, a, x, <<u>>)
         /\ u \in Inum /\ v \in Inum => Counts(p, c, f, a, x, <<u, v>>)
<1>1. ASSUME NEW s, NEW i \in Inum,
             Mine(c, f, a, x, s, i) = Four(c, f, a, x, i) + Bit(u = i) + Bit(v = i)
      PROVE  ref'[i] - Mine(c, f, a, x, s, i)
             = ref[i] - Mine(cwd[p], fd[p], at[p], ip[p], puts[p], i)
  <2>1. PICK r \in Int, o \in Int, b \in Int :
          r = ref[i] /\ o = Four(cwd[p], fd[p], at[p], ip[p], i) /\ b = Bit(k = i)
    BY DEF Types, Store, Four, Bit
  <2>2. Mine(cwd[p], fd[p], at[p], ip[p], puts[p], i) = o
    BY <2>1, MineOf
  <2>3. ref'[i] = r + b /\ Mine(c, f, a, x, s, i) = o + b
    BY <1>1, <2>1 DEF More, Balance
  <2> QED BY <2>1, <2>2, <2>3
<1>2. None \notin Inum
  BY ConstFacts
<1>3. \A i : Four(c, f, a, x, i) \in Int
  BY DEF Four, Bit
<1>4. u = None /\ v = None => Counts(p, c, f, a, x, <<>>)
  <2> SUFFICES ASSUME u = None, v = None, NEW i \in Inum
               PROVE  Mine(c, f, a, x, <<>>, i) = Four(c, f, a, x, i) + Bit(u = i) + Bit(v = i)
    BY <1>1 DEF Counts
  <2> QED BY <1>2, <1>3, MineOf DEF Bit
<1>5. u \in Inum /\ v = None => Counts(p, c, f, a, x, <<u>>)
  <2> SUFFICES ASSUME u \in Inum, v = None, NEW i \in Inum
               PROVE  Mine(c, f, a, x, <<u>>, i) = Four(c, f, a, x, i) + Bit(u = i) + Bit(v = i)
    BY <1>1 DEF Counts
  <2> QED BY <1>2, <1>3, MineOf DEF Bit
<1>6. u \in Inum /\ v \in Inum => Counts(p, c, f, a, x, <<u, v>>)
  <2> SUFFICES ASSUME u \in Inum, v \in Inum, NEW i \in Inum
               PROVE  Mine(c, f, a, x, <<u, v>>, i) = Four(c, f, a, x, i) + Bit(u = i) + Bit(v = i)
    BY <1>1 DEF Counts
  <2> QED BY MineOf
<1> QED BY <1>4, <1>5, <1>6

(* What a step keeps of the calls.                                         *)
Keeps(p) == Types' /\ Shape' /\ RefsExact' /\ Others(p)

LEMMA CallSlots ==
  ASSUME IInv, NEW p \in Proc, NEW o \in Ops, NEW s \in Inum, Call(p, o, s)
  PROVE  Keeps(p)
<1>0. Types /\ Store /\ Calls /\ Shape /\ Store'
  BY StoreStep DEF IInv, Types, Acts
<1>1. puts[p] = <<>> /\ at[p] = None /\ ip[p] = None /\ ref' = [ref EXCEPT ![s] = @ + 1]
  BY CallIs
<1>2. Moves(p, "walk", o, s, None, name[p], <<>>, "no", cwd[p], fd[p])
  BY <1>0, <1>1, CallIs, Same DEF Moves
<1>3. Typed("walk", o, s, None, name[p], <<>>, "no", cwd[p], fd[p])
  BY <1>0, <1>1, CallIs, ConstFacts, SeqFacts DEF Typed, Pcs, Ops, Stages, Calls
<1>4. Shaped("walk", o, s, None, name[p], <<>>, "no")
  BY <1>0, <1>1, CallIs, ConstFacts, SeqFacts DEF Shaped, Shape, Ops, Parent
<1>5. Counts(p, cwd[p], fd[p], s, None, <<>>)
  <2>1. More(s)
    BY <1>0, <1>1, OneMore
  <2>2. Balance(p, cwd[p], fd[p], s, None, None, None, s)
    BY <1>1, ConstFacts DEF Balance, Four, Bit
  <2> QED BY <1>0, <1>1, <2>1, <2>2, ConstFacts, CountsIs
<1> QED BY <1>0, <1>2, <1>3, <1>4, <1>5, MovesKeep DEF Keeps

LEMMA WalkNothingSlots ==
  ASSUME IInv, NEW p \in Proc, WalkNothing(p)
  PROVE  Keeps(p)
<1>0. Types /\ Store /\ Calls /\ Shape /\ Store'
  BY StoreStep DEF IInv, Types, Acts
<1>1. puts[p] = <<>> /\ at[p] \in Inum /\ ref' = ref
  BY WalkNothingIs
<1>2. CASE /\ ip[p] = None /\ After(p, "out", None, None, None, None)
               /\ puts' = [puts EXCEPT ![p] = <<at[p]>>]
  <2>1. Moves(p, "out", None, None, None, None, <<at[p]>>, "no", cwd[p], fd[p])
    BY <1>0, <1>1, <1>2, WalkNothingIs, Same DEF Moves
  <2>2. Typed("out", None, None, None, None, <<at[p]>>, "no", cwd[p], fd[p])
    BY <1>0, <1>1, <1>2, WalkNothingIs, ConstFacts, SeqFacts DEF Typed, Pcs, Ops, Stages, Calls
  <2>3. Shaped("out", None, None, None, None, <<at[p]>>, "no")
    BY <1>0, <1>1, <1>2, ConstFacts, SeqFacts DEF Shaped
  <2>4. Counts(p, cwd[p], fd[p], None, None, <<at[p]>>)
    <3>1. More(None)
      BY <1>0, <1>1, NoMore
    <3>2. Balance(p, cwd[p], fd[p], None, None, at[p], None, None)
      BY <1>1, <1>2, ConstFacts DEF Balance, Four, Bit
    <3> QED BY <1>0, <1>1, <3>1, <3>2, ConstFacts, CountsIs
  <2> QED BY <1>0, <2>1, <2>2, <2>3, <2>4, MovesKeep DEF Keeps
<1>3. CASE /\ ip[p] # None /\ After(p, "undo", op[p], None, ip[p], None)
               /\ puts' = [puts EXCEPT ![p] = <<at[p]>>]
  <2>1. Moves(p, "undo", op[p], None, ip[p], None, <<at[p]>>, "no", cwd[p], fd[p])
    BY <1>0, <1>1, <1>3, WalkNothingIs, Same DEF Moves
  <2>2. Typed("undo", op[p], None, ip[p], None, <<at[p]>>, "no", cwd[p], fd[p])
    BY <1>0, <1>1, <1>3, WalkNothingIs, ConstFacts, SeqFacts DEF Typed, Pcs, Ops, Stages, Calls
  <2>3. Shaped("undo", op[p], None, ip[p], None, <<at[p]>>, "no")
    BY <1>0, <1>1, <1>3, ConstFacts, SeqFacts DEF Shaped
  <2>4. Counts(p, cwd[p], fd[p], None, ip[p], <<at[p]>>)
    <3>1. More(None)
      BY <1>0, <1>1, NoMore
    <3>2. Balance(p, cwd[p], fd[p], None, ip[p], at[p], None, None)
      BY <1>1, <1>3, ConstFacts DEF Balance, Four, Bit
    <3> QED BY <1>0, <1>1, <3>1, <3>2, ConstFacts, CountsIs
  <2> QED BY <1>0, <2>1, <2>2, <2>3, <2>4, MovesKeep DEF Keeps
<1>4. CASE /\ ip[p] = None /\ op[p] \notin Parent
               /\ After(p, "found", op[p], at[p], None, name[p]) /\ puts' = puts
  <2>1. Moves(p, "found", op[p], at[p], None, name[p], <<>>, "no", cwd[p], fd[p])
    BY <1>0, <1>1, <1>4, WalkNothingIs, Same DEF Moves
  <2>2. Typed("found", op[p], at[p], None, name[p], <<>>, "no", cwd[p], fd[p])
    BY <1>0, <1>1, <1>4, WalkNothingIs, ConstFacts, SeqFacts DEF Typed, Pcs, Ops, Stages, Calls
  <2>3. Shaped("found", op[p], at[p], None, name[p], <<>>, "no")
    BY <1>0, <1>1, <1>4, WalkNothingIs, ConstFacts, SeqFacts DEF Shaped, Shape, Ops, Parent
  <2>4. Counts(p, cwd[p], fd[p], at[p], None, <<>>)
    <3>1. More(None)
      BY <1>0, <1>1, NoMore
    <3>2. Balance(p, cwd[p], fd[p], at[p], None, None, None, None)
      BY <1>1, <1>4, ConstFacts DEF Balance, Four, Bit
    <3> QED BY <1>0, <1>1, <3>1, <3>2, ConstFacts, CountsIs
  <2> QED BY <1>0, <2>1, <2>2, <2>3, <2>4, MovesKeep DEF Keeps
<1> QED BY <1>2, <1>3, <1>4, WalkNothingIs

LEMMA WalkFailsSlots ==
  ASSUME IInv, NEW p \in Proc, NEW n \in Names, WalkFails(p, n)
  PROVE  Keeps(p)
<1>0. Types /\ Store /\ Calls /\ Shape /\ Store'
  BY StoreStep DEF IInv, Types, Acts
<1>1. puts[p] = <<>> /\ at[p] \in Inum /\ ref' = ref
  BY WalkFailsIs
<1>2. CASE ip[p] = None /\ After(p, "out", None, None, None, None)
  <2>1. Moves(p, "out", None, None, None, None, <<at[p]>>, "no", cwd[p], fd[p])
    BY <1>0, <1>1, <1>2, WalkFailsIs, Same DEF Moves
  <2>2. Typed("out", None, None, None, None, <<at[p]>>, "no", cwd[p], fd[p])
    BY <1>0, <1>1, <1>2, WalkFailsIs, ConstFacts, SeqFacts DEF Typed, Pcs, Ops, Stages, Calls
  <2>3. Shaped("out", None, None, None, None, <<at[p]>>, "no")
    BY <1>0, <1>1, <1>2, ConstFacts, SeqFacts DEF Shaped
  <2>4. Counts(p, cwd[p], fd[p], None, None, <<at[p]>>)
    <3>1. More(None)
      BY <1>0, <1>1, NoMore
    <3>2. Balance(p, cwd[p], fd[p], None, None, at[p], None, None)
      BY <1>1, <1>2, ConstFacts DEF Balance, Four, Bit
    <3> QED BY <1>0, <1>1, <3>1, <3>2, ConstFacts, CountsIs
  <2> QED BY <1>0, <2>1, <2>2, <2>3, <2>4, MovesKeep DEF Keeps
<1>3. CASE ip[p] # None /\ After(p, "undo", op[p], None, ip[p], None)
  <2>1. Moves(p, "undo", op[p], None, ip[p], None, <<at[p]>>, "no", cwd[p], fd[p])
    BY <1>0, <1>1, <1>3, WalkFailsIs, Same DEF Moves
  <2>2. Typed("undo", op[p], None, ip[p], None, <<at[p]>>, "no", cwd[p], fd[p])
    BY <1>0, <1>1, <1>3, WalkFailsIs, ConstFacts, SeqFacts DEF Typed, Pcs, Ops, Stages, Calls
  <2>3. Shaped("undo", op[p], None, ip[p], None, <<at[p]>>, "no")
    BY <1>0, <1>1, <1>3, ConstFacts, SeqFacts DEF Shaped
  <2>4. Counts(p, cwd[p], fd[p], None, ip[p], <<at[p]>>)
    <3>1. More(None)
      BY <1>0, <1>1, NoMore
    <3>2. Balance(p, cwd[p], fd[p], None, ip[p], at[p], None, None)
      BY <1>1, <1>3, ConstFacts DEF Balance, Four, Bit
    <3> QED BY <1>0, <1>1, <3>1, <3>2, ConstFacts, CountsIs
  <2> QED BY <1>0, <2>1, <2>2, <2>3, <2>4, MovesKeep DEF Keeps
<1> QED BY <1>2, <1>3, WalkFailsIs

LEMMA WalkIntoSlots ==
  ASSUME IInv, NEW p \in Proc, NEW n \in Names, NEW last \in BOOLEAN, WalkInto(p, n, last)
  PROVE  Keeps(p)
<1>0. Types /\ Store /\ Calls /\ Shape /\ Store'
  BY StoreStep DEF IInv, Types, Acts
<1>1. /\ puts[p] = <<>> /\ pc[p] = "walk" /\ at[p] \in Inum /\ ents[at[p]][n] \in Inum /\ stage[p] = "no"
      /\ puts' = [puts EXCEPT ![p] = <<at[p]>>] /\ UNCHANGED <<stage, cwd, fd>>
      /\ ref' = [ref EXCEPT ![ents[at[p]][n]] = @ + 1]
  BY WalkIntoIs
<1>2. CASE After(p, "walk", op[p], ents[at[p]][n], ip[p], name[p])
  <2>1. Moves(p, "walk", op[p], ents[at[p]][n], ip[p], name[p], <<at[p]>>, "no", cwd[p], fd[p])
    BY <1>0, <1>1, <1>2, Same DEF Moves
  <2>2. Typed("walk", op[p], ents[at[p]][n], ip[p], name[p], <<at[p]>>, "no", cwd[p], fd[p])
    BY <1>0, <1>1, <1>2, WalkIntoIs, ConstFacts, SeqFacts DEF Typed, Pcs, Ops, Stages, Calls
  <2>3. Shaped("walk", op[p], ents[at[p]][n], ip[p], name[p], <<at[p]>>, "no")
    BY <1>0, <1>1, <1>2, ConstFacts, SeqFacts DEF Shaped, Shape, Ops, Parent
  <2>4. Counts(p, cwd[p], fd[p], ents[at[p]][n], ip[p], <<at[p]>>)
    <3>1. More(ents[at[p]][n])
      BY <1>0, <1>1, OneMore
    <3>2. Balance(p, cwd[p], fd[p], ents[at[p]][n], ip[p], at[p], None, ents[at[p]][n])
      BY <1>1, <1>2, ConstFacts DEF Balance, Four, Bit
    <3> QED BY <1>0, <1>1, <3>1, <3>2, ConstFacts, CountsIs
  <2> QED BY <1>0, <2>1, <2>2, <2>3, <2>4, MovesKeep DEF Keeps
<1>3. CASE /\ ip[p] = None /\ op[p] \notin Parent
               /\ After(p, "found", op[p], ents[at[p]][n], None, name[p])
  <2>1. Moves(p, "found", op[p], ents[at[p]][n], None, name[p], <<at[p]>>, "no", cwd[p], fd[p])
    BY <1>0, <1>1, <1>3, Same DEF Moves
  <2>2. Typed("found", op[p], ents[at[p]][n], None, name[p], <<at[p]>>, "no", cwd[p], fd[p])
    BY <1>0, <1>1, <1>3, WalkIntoIs, ConstFacts, SeqFacts DEF Typed, Pcs, Ops, Stages, Calls
  <2>3. Shaped("found", op[p], ents[at[p]][n], None, name[p], <<at[p]>>, "no")
    BY <1>0, <1>1, <1>3, ConstFacts, SeqFacts DEF Shaped, Shape, Ops, Parent
  <2>4. Counts(p, cwd[p], fd[p], ents[at[p]][n], None, <<at[p]>>)
    <3>1. More(ents[at[p]][n])
      BY <1>0, <1>1, OneMore
    <3>2. Balance(p, cwd[p], fd[p], ents[at[p]][n], None, at[p], None, ents[at[p]][n])
      BY <1>1, <1>3, ConstFacts DEF Balance, Four, Bit
    <3> QED BY <1>0, <1>1, <3>1, <3>2, ConstFacts, CountsIs
  <2> QED BY <1>0, <2>1, <2>2, <2>3, <2>4, MovesKeep DEF Keeps
<1> QED BY <1>2, <1>3, WalkIntoIs

LEMMA WalkParentSlots ==
  ASSUME IInv, NEW p \in Proc, NEW n \in Names, WalkParent(p, n)
  PROVE  Keeps(p)
<1>0. Types /\ Store /\ Calls /\ Shape /\ Store'
  BY StoreStep DEF IInv, Types, Acts
<1>1. puts[p] = <<>> /\ at[p] \in Inum /\ ref' = ref
  BY WalkParentIs
<1>2. Moves(p, "parent", op[p], at[p], ip[p], n, <<>>, "no", cwd[p], fd[p])
  BY <1>0, <1>1, WalkParentIs, Same DEF Moves
<1>3. Typed("parent", op[p], at[p], ip[p], n, <<>>, "no", cwd[p], fd[p])
  BY <1>0, <1>1, WalkParentIs, ConstFacts, SeqFacts DEF Typed, Pcs, Ops, Stages, Calls
<1>4. Shaped("parent", op[p], at[p], ip[p], n, <<>>, "no")
  BY <1>0, <1>1, WalkParentIs, ConstFacts, SeqFacts DEF Shaped, Shape, Ops, Parent
<1>5. Counts(p, cwd[p], fd[p], at[p], ip[p], <<>>)
  <2>1. More(None)
    BY <1>0, <1>1, NoMore
  <2>2. Balance(p, cwd[p], fd[p], at[p], ip[p], None, None, None)
    BY <1>1, ConstFacts DEF Balance, Four, Bit
  <2> QED BY <1>0, <1>1, <2>1, <2>2, ConstFacts, CountsIs
<1> QED BY <1>0, <1>2, <1>3, <1>4, <1>5, MovesKeep DEF Keeps

LEMMA OpenSlots ==
  ASSUME IInv, NEW p \in Proc, Open(p)
  PROVE  Keeps(p)
<1>0. Types /\ Store /\ Calls /\ Shape /\ Store'
  BY StoreStep DEF IInv, Types, Acts
<1>1. puts[p] = <<>> /\ at[p] \in Inum /\ ip[p] = None /\ ref' = ref
  BY OpenIs
<1>2. CASE fd[p] = None /\ fd' = [fd EXCEPT ![p] = at[p]] /\ puts' = [puts EXCEPT ![p] = <<>>]
  <2>1. Moves(p, "out", None, None, None, None, <<>>, "no", cwd[p], at[p])
    BY <1>0, <1>1, <1>2, OpenIs, Same DEF Moves
  <2>2. Typed("out", None, None, None, None, <<>>, "no", cwd[p], at[p])
    BY <1>0, <1>1, <1>2, OpenIs, ConstFacts, SeqFacts DEF Typed, Pcs, Ops, Stages, Calls
  <2>3. Shaped("out", None, None, None, None, <<>>, "no")
    BY <1>0, <1>1, <1>2, ConstFacts, SeqFacts DEF Shaped
  <2>4. Counts(p, cwd[p], at[p], None, None, <<>>)
    <3>1. More(None)
      BY <1>0, <1>1, NoMore
    <3>2. Balance(p, cwd[p], at[p], None, None, None, None, None)
      BY <1>1, <1>2, ConstFacts DEF Balance, Four, Bit
    <3> QED BY <1>0, <1>1, <3>1, <3>2, ConstFacts, CountsIs
  <2> QED BY <1>0, <2>1, <2>2, <2>3, <2>4, MovesKeep DEF Keeps
<1>3. CASE fd' = fd /\ puts' = [puts EXCEPT ![p] = <<at[p]>>]
  <2>1. Moves(p, "out", None, None, None, None, <<at[p]>>, "no", cwd[p], fd[p])
    BY <1>0, <1>1, <1>3, OpenIs, Same DEF Moves
  <2>2. Typed("out", None, None, None, None, <<at[p]>>, "no", cwd[p], fd[p])
    BY <1>0, <1>1, <1>3, OpenIs, ConstFacts, SeqFacts DEF Typed, Pcs, Ops, Stages, Calls
  <2>3. Shaped("out", None, None, None, None, <<at[p]>>, "no")
    BY <1>0, <1>1, <1>3, ConstFacts, SeqFacts DEF Shaped
  <2>4. Counts(p, cwd[p], fd[p], None, None, <<at[p]>>)
    <3>1. More(None)
      BY <1>0, <1>1, NoMore
    <3>2. Balance(p, cwd[p], fd[p], None, None, at[p], None, None)
      BY <1>1, <1>3, ConstFacts DEF Balance, Four, Bit
    <3> QED BY <1>0, <1>1, <3>1, <3>2, ConstFacts, CountsIs
  <2> QED BY <1>0, <2>1, <2>2, <2>3, <2>4, MovesKeep DEF Keeps
<1> QED BY <1>2, <1>3, OpenIs DEF OpensOrPuts

LEMMA ChdirSlots ==
  ASSUME IInv, NEW p \in Proc, Chdir(p)
  PROVE  Keeps(p)
<1>0. Types /\ Store /\ Calls /\ Shape /\ Store'
  BY StoreStep DEF IInv, Types, Acts
<1>1. puts[p] = <<>> /\ at[p] \in Inum /\ ip[p] = None /\ ref' = ref
  BY ChdirIs
<1>2. CASE cwd' = [cwd EXCEPT ![p] = at[p]] /\ puts' = [puts EXCEPT ![p] = <<cwd[p]>>]
  <2>1. Moves(p, "out", None, None, None, None, <<cwd[p]>>, "no", at[p], fd[p])
    BY <1>0, <1>1, <1>2, ChdirIs, Same DEF Moves
  <2>2. Typed("out", None, None, None, None, <<cwd[p]>>, "no", at[p], fd[p])
    BY <1>0, <1>1, <1>2, ChdirIs, ConstFacts, SeqFacts DEF Typed, Pcs, Ops, Stages, Calls
  <2>3. Shaped("out", None, None, None, None, <<cwd[p]>>, "no")
    BY <1>0, <1>1, <1>2, ConstFacts, SeqFacts DEF Shaped
  <2>4. Counts(p, at[p], fd[p], None, None, <<cwd[p]>>)
    <3>1. More(None)
      BY <1>0, <1>1, NoMore
    <3>2. Balance(p, at[p], fd[p], None, None, cwd[p], None, None)
      BY <1>1, <1>2, ConstFacts DEF Balance, Four, Bit
    <3> QED BY <1>0, <1>1, <3>1, <3>2, ConstFacts, CountsIs DEF Calls
  <2> QED BY <1>0, <2>1, <2>2, <2>3, <2>4, MovesKeep DEF Keeps
<1>3. CASE cwd' = cwd /\ puts' = [puts EXCEPT ![p] = <<at[p]>>]
  <2>1. Moves(p, "out", None, None, None, None, <<at[p]>>, "no", cwd[p], fd[p])
    BY <1>0, <1>1, <1>3, ChdirIs, Same DEF Moves
  <2>2. Typed("out", None, None, None, None, <<at[p]>>, "no", cwd[p], fd[p])
    BY <1>0, <1>1, <1>3, ChdirIs, ConstFacts, SeqFacts DEF Typed, Pcs, Ops, Stages, Calls
  <2>3. Shaped("out", None, None, None, None, <<at[p]>>, "no")
    BY <1>0, <1>1, <1>3, ConstFacts, SeqFacts DEF Shaped
  <2>4. Counts(p, cwd[p], fd[p], None, None, <<at[p]>>)
    <3>1. More(None)
      BY <1>0, <1>1, NoMore
    <3>2. Balance(p, cwd[p], fd[p], None, None, at[p], None, None)
      BY <1>1, <1>3, ConstFacts DEF Balance, Four, Bit
    <3> QED BY <1>0, <1>1, <3>1, <3>2, ConstFacts, CountsIs
  <2> QED BY <1>0, <2>1, <2>2, <2>3, <2>4, MovesKeep DEF Keeps
<1> QED BY <1>2, <1>3, ChdirIs

LEMMA CloseSlots ==
  ASSUME IInv, NEW p \in Proc, Close(p)
  PROVE  Keeps(p)
<1>0. Types /\ Store /\ Calls /\ Shape /\ Store'
  BY StoreStep DEF IInv, Types, Acts
<1>1. puts[p] = <<>> /\ fd[p] \in Inum /\ ref' = ref
  BY CloseIs
<1>2. Moves(p, "out", op[p], at[p], ip[p], name[p], <<fd[p]>>, "no", cwd[p], None)
  BY <1>0, <1>1, CloseIs, Same DEF Moves
<1>3. Typed("out", op[p], at[p], ip[p], name[p], <<fd[p]>>, "no", cwd[p], None)
  BY <1>0, <1>1, CloseIs, ConstFacts, SeqFacts DEF Typed, Pcs, Ops, Stages, Calls
<1>4. Shaped("out", op[p], at[p], ip[p], name[p], <<fd[p]>>, "no")
  BY <1>0, <1>1, CloseIs, ConstFacts, SeqFacts DEF Shaped, Shape, Ops, Parent
<1>5. Counts(p, cwd[p], None, at[p], ip[p], <<fd[p]>>)
  <2>1. More(None)
    BY <1>0, <1>1, NoMore
  <2>2. Balance(p, cwd[p], None, at[p], ip[p], fd[p], None, None)
    BY <1>1, ConstFacts DEF Balance, Four, Bit
  <2> QED BY <1>0, <1>1, <2>1, <2>2, ConstFacts, CountsIs
<1> QED BY <1>0, <1>2, <1>3, <1>4, <1>5, MovesKeep DEF Keeps

LEMMA LinkFoundSlots ==
  ASSUME IInv, NEW p \in Proc, NEW s \in Inum, LinkFound(p, s)
  PROVE  Keeps(p)
<1>0. Types /\ Store /\ Calls /\ Shape /\ Store'
  BY StoreStep DEF IInv, Types, Acts
<1>1. puts[p] = <<>> /\ at[p] \in Inum /\ ip[p] = None
  BY LinkFoundIs
<1>2. CASE /\ After(p, "out", None, None, None, None)
               /\ puts' = [puts EXCEPT ![p] = <<at[p]>>] /\ ref' = ref
  <2>1. Moves(p, "out", None, None, None, None, <<at[p]>>, "no", cwd[p], fd[p])
    BY <1>0, <1>1, <1>2, LinkFoundIs, Same DEF Moves
  <2>2. Typed("out", None, None, None, None, <<at[p]>>, "no", cwd[p], fd[p])
    BY <1>0, <1>1, <1>2, LinkFoundIs, ConstFacts, SeqFacts DEF Typed, Pcs, Ops, Stages, Calls
  <2>3. Shaped("out", None, None, None, None, <<at[p]>>, "no")
    BY <1>0, <1>1, <1>2, ConstFacts, SeqFacts DEF Shaped
  <2>4. Counts(p, cwd[p], fd[p], None, None, <<at[p]>>)
    <3>1. More(None)
      BY <1>0, <1>1, <1>2, NoMore
    <3>2. Balance(p, cwd[p], fd[p], None, None, at[p], None, None)
      BY <1>1, <1>2, ConstFacts DEF Balance, Four, Bit
    <3> QED BY <1>0, <1>1, <3>1, <3>2, ConstFacts, CountsIs
  <2> QED BY <1>0, <2>1, <2>2, <2>3, <2>4, MovesKeep DEF Keeps
<1>3. CASE /\ op[p] = "link" /\ After(p, "walk", op[p], s, at[p], name[p])
               /\ puts' = puts /\ ref' = [ref EXCEPT ![s] = @ + 1]
  <2>1. Moves(p, "walk", op[p], s, at[p], name[p], <<>>, "no", cwd[p], fd[p])
    BY <1>0, <1>1, <1>3, LinkFoundIs, Same DEF Moves
  <2>2. Typed("walk", op[p], s, at[p], name[p], <<>>, "no", cwd[p], fd[p])
    BY <1>0, <1>1, <1>3, LinkFoundIs, ConstFacts, SeqFacts DEF Typed, Pcs, Ops, Stages, Calls
  <2>3. Shaped("walk", op[p], s, at[p], name[p], <<>>, "no")
    BY <1>0, <1>1, <1>3, LinkFoundIs, ConstFacts, SeqFacts DEF Shaped, Shape, Ops, Parent
  <2>4. Counts(p, cwd[p], fd[p], s, at[p], <<>>)
    <3>1. More(s)
      BY <1>0, <1>1, <1>3, OneMore
    <3>2. Balance(p, cwd[p], fd[p], s, at[p], None, None, s)
      BY <1>1, <1>3, ConstFacts DEF Balance, Four, Bit
    <3> QED BY <1>0, <1>1, <3>1, <3>2, ConstFacts, CountsIs
  <2> QED BY <1>0, <2>1, <2>2, <2>3, <2>4, MovesKeep DEF Keeps
<1> QED BY <1>2, <1>3, LinkFoundIs

LEMMA LinkSlots ==
  ASSUME IInv, NEW p \in Proc, Link(p)
  PROVE  Keeps(p)
<1>0. Types /\ Store /\ Calls /\ Shape /\ Store'
  BY StoreStep DEF IInv, Types, Acts
<1>1. puts[p] = <<>> /\ at[p] \in Inum /\ ip[p] \in Inum /\ ref' = ref
  BY LinkIs
<1>2. Moves(p, "out", None, None, None, None, <<at[p], ip[p]>>, "no", cwd[p], fd[p])
  BY <1>0, <1>1, LinkIs, Same DEF Moves
<1>3. Typed("out", None, None, None, None, <<at[p], ip[p]>>, "no", cwd[p], fd[p])
  BY <1>0, <1>1, LinkIs, ConstFacts, SeqFacts DEF Typed, Pcs, Ops, Stages, Calls
<1>4. Shaped("out", None, None, None, None, <<at[p], ip[p]>>, "no")
  BY <1>0, <1>1, ConstFacts, SeqFacts DEF Shaped
<1>5. Counts(p, cwd[p], fd[p], None, None, <<at[p], ip[p]>>)
  <2>1. More(None)
    BY <1>0, <1>1, NoMore
  <2>2. Balance(p, cwd[p], fd[p], None, None, at[p], ip[p], None)
    BY <1>1, ConstFacts DEF Balance, Four, Bit
  <2> QED BY <1>0, <1>1, <2>1, <2>2, ConstFacts, CountsIs
<1> QED BY <1>0, <1>2, <1>3, <1>4, <1>5, MovesKeep DEF Keeps

LEMMA LinkTakenSlots ==
  ASSUME IInv, NEW p \in Proc, LinkTaken(p)
  PROVE  Keeps(p)
<1> DEFINE e == ents[at[p]][name[p]]
<1>0. Types /\ Store /\ Calls /\ Shape /\ Store'
  BY StoreStep DEF IInv, Types, Acts
<1>1. /\ puts[p] = <<>> /\ at[p] \in Inum /\ ip[p] \in Inum /\ e \in Inum
      /\ ref' = [ref EXCEPT ![e] = @ + 1]
  BY LinkTakenIs
<1>2. Moves(p, "held", op[p], at[p], ip[p], None, <<e>>, "no", cwd[p], fd[p])
  BY <1>0, <1>1, LinkTakenIs, Same DEF Moves
<1>3. Typed("held", op[p], at[p], ip[p], None, <<e>>, "no", cwd[p], fd[p])
  BY <1>0, <1>1, LinkTakenIs, ConstFacts, SeqFacts DEF Typed, Pcs, Ops, Stages, Calls
<1>4. Shaped("held", op[p], at[p], ip[p], None, <<e>>, "no")
  BY <1>0, <1>1, ConstFacts, SeqFacts DEF Shaped
<1>5. Counts(p, cwd[p], fd[p], at[p], ip[p], <<e>>)
  <2>1. More(e)
    BY <1>0, <1>1, OneMore
  <2>2. Balance(p, cwd[p], fd[p], at[p], ip[p], e, None, e)
    BY <1>1, ConstFacts DEF Balance, Four, Bit
  <2> QED BY <1>0, <1>1, <2>1, <2>2, ConstFacts, CountsIs
<1> QED BY <1>0, <1>2, <1>3, <1>4, <1>5, MovesKeep DEF Keeps

LEMMA RefuseSlots ==
  ASSUME IInv, NEW p \in Proc, Refuse(p)
  PROVE  Keeps(p)
<1>0. Types /\ Store /\ Calls /\ Shape /\ Store'
  BY StoreStep DEF IInv, Types, Acts
<1>1. puts[p] = <<>> /\ at[p] \in Inum /\ ref' = ref
  BY RefuseIs
<1>2. CASE ip[p] = None /\ After(p, "out", None, None, None, None)
  <2>1. Moves(p, "out", None, None, None, None, <<at[p]>>, "no", cwd[p], fd[p])
    BY <1>0, <1>1, <1>2, RefuseIs, Same DEF Moves
  <2>2. Typed("out", None, None, None, None, <<at[p]>>, "no", cwd[p], fd[p])
    BY <1>0, <1>1, <1>2, RefuseIs, ConstFacts, SeqFacts DEF Typed, Pcs, Ops, Stages, Calls
  <2>3. Shaped("out", None, None, None, None, <<at[p]>>, "no")
    BY <1>0, <1>1, <1>2, ConstFacts, SeqFacts DEF Shaped
  <2>4. Counts(p, cwd[p], fd[p], None, None, <<at[p]>>)
    <3>1. More(None)
      BY <1>0, <1>1, NoMore
    <3>2. Balance(p, cwd[p], fd[p], None, None, at[p], None, None)
      BY <1>1, <1>2, ConstFacts DEF Balance, Four, Bit
    <3> QED BY <1>0, <1>1, <3>1, <3>2, ConstFacts, CountsIs
  <2> QED BY <1>0, <2>1, <2>2, <2>3, <2>4, MovesKeep DEF Keeps
<1>3. CASE ip[p] # None /\ After(p, "undo", op[p], None, ip[p], None)
  <2>1. Moves(p, "undo", op[p], None, ip[p], None, <<at[p]>>, "no", cwd[p], fd[p])
    BY <1>0, <1>1, <1>3, RefuseIs, Same DEF Moves
  <2>2. Typed("undo", op[p], None, ip[p], None, <<at[p]>>, "no", cwd[p], fd[p])
    BY <1>0, <1>1, <1>3, RefuseIs, ConstFacts, SeqFacts DEF Typed, Pcs, Ops, Stages, Calls
  <2>3. Shaped("undo", op[p], None, ip[p], None, <<at[p]>>, "no")
    BY <1>0, <1>1, <1>3, ConstFacts, SeqFacts DEF Shaped
  <2>4. Counts(p, cwd[p], fd[p], None, ip[p], <<at[p]>>)
    <3>1. More(None)
      BY <1>0, <1>1, NoMore
    <3>2. Balance(p, cwd[p], fd[p], None, ip[p], at[p], None, None)
      BY <1>1, <1>3, ConstFacts DEF Balance, Four, Bit
    <3> QED BY <1>0, <1>1, <3>1, <3>2, ConstFacts, CountsIs
  <2> QED BY <1>0, <2>1, <2>2, <2>3, <2>4, MovesKeep DEF Keeps
<1> QED BY <1>2, <1>3, RefuseIs

LEMMA LinkUndoSlots ==
  ASSUME IInv, NEW p \in Proc, LinkUndo(p)
  PROVE  Keeps(p)
<1>0. Types /\ Store /\ Calls /\ Shape /\ Store'
  BY StoreStep DEF IInv, Types, Acts
<1>1. puts[p] = <<>> /\ at[p] = None /\ ip[p] \in Inum /\ ref' = ref
  BY LinkUndoIs
<1>2. Moves(p, "out", None, None, None, None, <<ip[p]>>, "no", cwd[p], fd[p])
  BY <1>0, <1>1, LinkUndoIs, Same DEF Moves
<1>3. Typed("out", None, None, None, None, <<ip[p]>>, "no", cwd[p], fd[p])
  BY <1>0, <1>1, LinkUndoIs, ConstFacts, SeqFacts DEF Typed, Pcs, Ops, Stages, Calls
<1>4. Shaped("out", None, None, None, None, <<ip[p]>>, "no")
  BY <1>0, <1>1, LinkUndoIs, ConstFacts, SeqFacts DEF Shaped, Shape, Ops, Parent
<1>5. Counts(p, cwd[p], fd[p], None, None, <<ip[p]>>)
  <2>1. More(None)
    BY <1>0, <1>1, NoMore
  <2>2. Balance(p, cwd[p], fd[p], None, None, ip[p], None, None)
    BY <1>1, ConstFacts DEF Balance, Four, Bit
  <2> QED BY <1>0, <1>1, <2>1, <2>2, ConstFacts, CountsIs
<1> QED BY <1>0, <1>2, <1>3, <1>4, <1>5, MovesKeep DEF Keeps

LEMMA UnlinkLookSlots ==
  ASSUME IInv, NEW p \in Proc, UnlinkLook(p)
  PROVE  Keeps(p)
<1>0. Types /\ Store /\ Calls /\ Shape /\ Store'
  BY StoreStep DEF IInv, Types, Acts
<1>1. puts[p] = <<>> /\ at[p] \in Inum /\ ip[p] = None
  BY UnlinkLookIs
<1>2. CASE /\ After(p, "out", None, None, None, None)
               /\ puts' = [puts EXCEPT ![p] = <<at[p]>>] /\ ref' = ref
  <2>1. Moves(p, "out", None, None, None, None, <<at[p]>>, "no", cwd[p], fd[p])
    <3>1. UNCHANGED <<stage, cwd, fd>> /\ stage[p] = "no"
      BY UnlinkLookIs
    <3>2. stage' = [stage EXCEPT ![p] = "no"] /\ cwd' = [cwd EXCEPT ![p] = cwd[p]]
          /\ fd' = [fd EXCEPT ![p] = fd[p]]
      BY <1>0, <3>1, Same
    <3> QED BY <1>2, <3>2 DEF Moves
  <2>2. Typed("out", None, None, None, None, <<at[p]>>, "no", cwd[p], fd[p])
    BY <1>0, <1>1, <1>2, UnlinkLookIs, ConstFacts, SeqFacts DEF Typed, Pcs, Ops, Stages, Calls
  <2>3. Shaped("out", None, None, None, None, <<at[p]>>, "no")
    BY <1>0, <1>1, <1>2, ConstFacts, SeqFacts DEF Shaped
  <2>4. Counts(p, cwd[p], fd[p], None, None, <<at[p]>>)
    <3>1. More(None)
      BY <1>0, <1>1, <1>2, NoMore
    <3>2. Balance(p, cwd[p], fd[p], None, None, at[p], None, None)
      BY <1>1, <1>2, ConstFacts DEF Balance, Four, Bit
    <3> QED BY <1>0, <1>1, <3>1, <3>2, ConstFacts, CountsIs
  <2> QED BY <1>0, <2>1, <2>2, <2>3, <2>4, MovesKeep DEF Keeps
<1>3. CASE /\ name[p] \in Name /\ ents[at[p]][name[p]] \in Inum
               /\ After(p, "gone", op[p], at[p], ents[at[p]][name[p]], name[p])
               /\ puts' = puts /\ ref' = [ref EXCEPT ![ents[at[p]][name[p]]] = @ + 1]
  <2>1. Moves(p, "gone", op[p], at[p], ents[at[p]][name[p]], name[p], <<>>, "no", cwd[p], fd[p])
    BY <1>0, <1>1, <1>3, UnlinkLookIs, Same DEF Moves
  <2>2. Typed("gone", op[p], at[p], ents[at[p]][name[p]], name[p], <<>>, "no", cwd[p], fd[p])
    BY <1>0, <1>1, <1>3, UnlinkLookIs, ConstFacts, SeqFacts DEF Typed, Pcs, Ops, Stages, Calls
  <2>3. Shaped("gone", op[p], at[p], ents[at[p]][name[p]], name[p], <<>>, "no")
    BY <1>0, <1>1, <1>3, UnlinkLookIs, ConstFacts, SeqFacts DEF Shaped, Shape, Ops, Parent
  <2>4. Counts(p, cwd[p], fd[p], at[p], ents[at[p]][name[p]], <<>>)
    <3>1. More(ents[at[p]][name[p]])
      BY <1>0, <1>1, <1>3, OneMore
    <3>2. Balance(p, cwd[p], fd[p], at[p], ents[at[p]][name[p]], None, None,
                 ents[at[p]][name[p]])
      BY <1>1, <1>3, ConstFacts DEF Balance, Four, Bit
    <3> QED BY <1>0, <1>1, <3>1, <3>2, ConstFacts, CountsIs
  <2> QED BY <1>0, <2>1, <2>2, <2>3, <2>4, MovesKeep DEF Keeps
<1> QED BY <1>2, <1>3, UnlinkLookIs

LEMMA UnlinksSlots ==
  ASSUME IInv, NEW p \in Proc, Unlinks(p)
  PROVE  Keeps(p)
<1>0. Types /\ Store /\ Calls /\ Shape /\ Store'
  BY StoreStep DEF IInv, Types, Acts
<1>1. puts[p] = <<>> /\ at[p] \in Inum /\ ip[p] \in Inum /\ ref' = ref
  BY UnlinksIs
<1>2. CASE /\ After(p, "held", op[p], at[p], None, None)
               /\ puts' = [puts EXCEPT ![p] = <<ip[p]>>]
  <2>1. Moves(p, "held", op[p], at[p], None, None, <<ip[p]>>, "no", cwd[p], fd[p])
    BY <1>0, <1>1, <1>2, UnlinksIs, Same DEF Moves
  <2>2. Typed("held", op[p], at[p], None, None, <<ip[p]>>, "no", cwd[p], fd[p])
    BY <1>0, <1>1, <1>2, UnlinksIs, ConstFacts, SeqFacts DEF Typed, Pcs, Ops, Stages, Calls
  <2>3. Shaped("held", op[p], at[p], None, None, <<ip[p]>>, "no")
    BY <1>0, <1>1, <1>2, ConstFacts, SeqFacts DEF Shaped
  <2>4. Counts(p, cwd[p], fd[p], at[p], None, <<ip[p]>>)
    <3>1. More(None)
      BY <1>0, <1>1, NoMore
    <3>2. Balance(p, cwd[p], fd[p], at[p], None, ip[p], None, None)
      BY <1>1, <1>2, ConstFacts DEF Balance, Four, Bit
    <3> QED BY <1>0, <1>1, <3>1, <3>2, ConstFacts, CountsIs
  <2> QED BY <1>0, <2>1, <2>2, <2>3, <2>4, MovesKeep DEF Keeps
<1>3. CASE /\ After(p, "cut", op[p], None, ip[p], None)
               /\ puts' = [puts EXCEPT ![p] = <<at[p]>>]
  <2>1. Moves(p, "cut", op[p], None, ip[p], None, <<at[p]>>, "no", cwd[p], fd[p])
    BY <1>0, <1>1, <1>3, UnlinksIs, Same DEF Moves
  <2>2. Typed("cut", op[p], None, ip[p], None, <<at[p]>>, "no", cwd[p], fd[p])
    BY <1>0, <1>1, <1>3, UnlinksIs, ConstFacts, SeqFacts DEF Typed, Pcs, Ops, Stages, Calls
  <2>3. Shaped("cut", op[p], None, ip[p], None, <<at[p]>>, "no")
    BY <1>0, <1>1, <1>3, ConstFacts, SeqFacts DEF Shaped
  <2>4. Counts(p, cwd[p], fd[p], None, ip[p], <<at[p]>>)
    <3>1. More(None)
      BY <1>0, <1>1, NoMore
    <3>2. Balance(p, cwd[p], fd[p], None, ip[p], at[p], None, None)
      BY <1>1, <1>3, ConstFacts DEF Balance, Four, Bit
    <3> QED BY <1>0, <1>1, <3>1, <3>2, ConstFacts, CountsIs
  <2> QED BY <1>0, <2>1, <2>2, <2>3, <2>4, MovesKeep DEF Keeps
<1> QED BY <1>2, <1>3, UnlinksIs

LEMMA UnlinkCutSlots ==
  ASSUME IInv, NEW p \in Proc, UnlinkCut(p)
  PROVE  Keeps(p)
<1>0. Types /\ Store /\ Calls /\ Shape /\ Store'
  BY StoreStep DEF IInv, Types, Acts
<1>1. puts[p] = <<>> /\ at[p] = None /\ ip[p] \in Inum /\ ref' = ref
  BY UnlinkCutIs
<1>2. Moves(p, "out", None, None, None, None, <<ip[p]>>, "no", cwd[p], fd[p])
  BY <1>0, <1>1, UnlinkCutIs, Same DEF Moves
<1>3. Typed("out", None, None, None, None, <<ip[p]>>, "no", cwd[p], fd[p])
  BY <1>0, <1>1, UnlinkCutIs, ConstFacts, SeqFacts DEF Typed, Pcs, Ops, Stages, Calls
<1>4. Shaped("out", None, None, None, None, <<ip[p]>>, "no")
  BY <1>0, <1>1, UnlinkCutIs, ConstFacts, SeqFacts DEF Shaped, Shape, Ops, Parent
<1>5. Counts(p, cwd[p], fd[p], None, None, <<ip[p]>>)
  <2>1. More(None)
    BY <1>0, <1>1, NoMore
  <2>2. Balance(p, cwd[p], fd[p], None, None, ip[p], None, None)
    BY <1>1, ConstFacts DEF Balance, Four, Bit
  <2> QED BY <1>0, <1>1, <2>1, <2>2, ConstFacts, CountsIs
<1> QED BY <1>0, <1>2, <1>3, <1>4, <1>5, MovesKeep DEF Keeps

LEMMA CreateFoundSlots ==
  ASSUME IInv, NEW p \in Proc, CreateFound(p)
  PROVE  Keeps(p)
<1>0. Types /\ Store /\ Calls /\ Shape /\ Store'
  BY StoreStep DEF IInv, Types, Acts
<1>1. /\ puts[p] = <<>> /\ at[p] \in Inum /\ ip[p] = None /\ ents[at[p]][name[p]] \in Inum
      /\ ref' = [ref EXCEPT ![ents[at[p]][name[p]]] = @ + 1]
  BY CreateFoundIs
<1>2. Moves(p, "old", op[p], None, ents[at[p]][name[p]], None, <<at[p]>>, "no", cwd[p], fd[p])
  BY <1>0, <1>1, CreateFoundIs, Same DEF Moves
<1>3. Typed("old", op[p], None, ents[at[p]][name[p]], None, <<at[p]>>, "no", cwd[p], fd[p])
  BY <1>0, <1>1, CreateFoundIs, ConstFacts, SeqFacts DEF Typed, Pcs, Ops, Stages, Calls
<1>4. Shaped("old", op[p], None, ents[at[p]][name[p]], None, <<at[p]>>, "no")
  BY <1>0, <1>1, CreateFoundIs, ConstFacts, SeqFacts DEF Shaped, Shape, Ops, Parent
<1>5. Counts(p, cwd[p], fd[p], None, ents[at[p]][name[p]], <<at[p]>>)
  <2>1. More(ents[at[p]][name[p]])
    BY <1>0, <1>1, OneMore
  <2>2. Balance(p, cwd[p], fd[p], None, ents[at[p]][name[p]], at[p], None, ents[at[p]][name[p]])
    BY <1>1, ConstFacts DEF Balance, Four, Bit
  <2> QED BY <1>0, <1>1, <2>1, <2>2, ConstFacts, CountsIs
<1> QED BY <1>0, <1>2, <1>3, <1>4, <1>5, MovesKeep DEF Keeps

LEMMA CreateOldSlots ==
  ASSUME IInv, NEW p \in Proc, CreateOld(p)
  PROVE  Keeps(p)
<1>0. Types /\ Store /\ Calls /\ Shape /\ Store'
  BY StoreStep DEF IInv, Types, Acts
<1>1. puts[p] = <<>> /\ at[p] = None /\ ip[p] \in Inum /\ ref' = ref
  BY CreateOldIs
<1>2. CASE fd[p] = None /\ fd' = [fd EXCEPT ![p] = ip[p]] /\ puts' = [puts EXCEPT ![p] = <<>>]
  <2>1. Moves(p, "out", None, None, None, None, <<>>, "no", cwd[p], ip[p])
    BY <1>0, <1>1, <1>2, CreateOldIs, Same DEF Moves
  <2>2. Typed("out", None, None, None, None, <<>>, "no", cwd[p], ip[p])
    BY <1>0, <1>1, <1>2, CreateOldIs, ConstFacts, SeqFacts DEF Typed, Pcs, Ops, Stages, Calls
  <2>3. Shaped("out", None, None, None, None, <<>>, "no")
    BY <1>0, <1>1, <1>2, ConstFacts, SeqFacts DEF Shaped
  <2>4. Counts(p, cwd[p], ip[p], None, None, <<>>)
    <3>1. More(None)
      BY <1>0, <1>1, NoMore
    <3>2. Balance(p, cwd[p], ip[p], None, None, None, None, None)
      BY <1>1, <1>2, ConstFacts DEF Balance, Four, Bit
    <3> QED BY <1>0, <1>1, <3>1, <3>2, ConstFacts, CountsIs
  <2> QED BY <1>0, <2>1, <2>2, <2>3, <2>4, MovesKeep DEF Keeps
<1>3. CASE fd' = fd /\ puts' = [puts EXCEPT ![p] = <<ip[p]>>]
  <2>1. Moves(p, "out", None, None, None, None, <<ip[p]>>, "no", cwd[p], fd[p])
    BY <1>0, <1>1, <1>3, CreateOldIs, Same DEF Moves
  <2>2. Typed("out", None, None, None, None, <<ip[p]>>, "no", cwd[p], fd[p])
    BY <1>0, <1>1, <1>3, CreateOldIs, ConstFacts, SeqFacts DEF Typed, Pcs, Ops, Stages, Calls
  <2>3. Shaped("out", None, None, None, None, <<ip[p]>>, "no")
    BY <1>0, <1>1, <1>3, ConstFacts, SeqFacts DEF Shaped
  <2>4. Counts(p, cwd[p], fd[p], None, None, <<ip[p]>>)
    <3>1. More(None)
      BY <1>0, <1>1, NoMore
    <3>2. Balance(p, cwd[p], fd[p], None, None, ip[p], None, None)
      BY <1>1, <1>3, ConstFacts DEF Balance, Four, Bit
    <3> QED BY <1>0, <1>1, <3>1, <3>2, ConstFacts, CountsIs
  <2> QED BY <1>0, <2>1, <2>2, <2>3, <2>4, MovesKeep DEF Keeps
<1> QED BY <1>2, <1>3, CreateOldIs DEF OpensOrPuts

LEMMA CreateAllocSlots ==
  ASSUME IInv, NEW p \in Proc, NEW i \in Inum, CreateAlloc(p, i)
  PROVE  Keeps(p)
<1>0. Types /\ Store /\ Calls /\ Shape /\ Store'
  BY StoreStep DEF IInv, Types, Acts
<1>1. /\ puts[p] = <<>> /\ at[p] \in Inum /\ ip[p] = None /\ stage[p] = "no"
      /\ After(p, "made", op[p], at[p], i, name[p]) /\ UNCHANGED <<puts, stage, cwd, fd>>
      /\ ref' = [ref EXCEPT ![i] = @ + 1]
  BY CreateAllocIs
<1>2. Moves(p, "made", op[p], at[p], i, name[p], <<>>, "no", cwd[p], fd[p])
  BY <1>0, <1>1, Same DEF Moves
<1>3. Typed("made", op[p], at[p], i, name[p], <<>>, "no", cwd[p], fd[p])
  BY <1>0, <1>1, CreateAllocIs, ConstFacts, SeqFacts DEF Typed, Pcs, Ops, Stages, Calls
<1>4. Shaped("made", op[p], at[p], i, name[p], <<>>, "no")
  BY <1>0, <1>1, CreateAllocIs, ConstFacts, SeqFacts DEF Shaped, Shape, Ops, Parent
<1>5. Counts(p, cwd[p], fd[p], at[p], i, <<>>)
  <2>1. More(i)
    BY <1>0, <1>1, OneMore
  <2>2. Balance(p, cwd[p], fd[p], at[p], i, None, None, i)
    BY <1>1, ConstFacts DEF Balance, Four, Bit
  <2> QED BY <1>0, <1>1, <2>1, <2>2, ConstFacts, CountsIs
<1> QED BY <1>0, <1>2, <1>3, <1>4, <1>5, MovesKeep DEF Keeps

LEMMA CreateMadeSlots ==
  ASSUME IInv, NEW p \in Proc, CreateMade(p)
  PROVE  Keeps(p)
<1>0. Types /\ Store /\ Calls /\ Shape /\ Store'
  BY StoreStep DEF IInv, Types, Acts
<1>1. puts[p] = <<>> /\ at[p] \in Inum /\ ip[p] \in Inum /\ ref' = ref
  BY CreateMadeIs
<1>2. CASE fd[p] = None /\ fd' = [fd EXCEPT ![p] = ip[p]] /\ puts' = [puts EXCEPT ![p] = <<at[p]>>]
  <2>1. Moves(p, "out", None, None, None, None, <<at[p]>>, "no", cwd[p], ip[p])
    BY <1>0, <1>1, <1>2, CreateMadeIs, Same DEF Moves
  <2>2. Typed("out", None, None, None, None, <<at[p]>>, "no", cwd[p], ip[p])
    BY <1>0, <1>1, <1>2, CreateMadeIs, ConstFacts, SeqFacts DEF Typed, Pcs, Ops, Stages, Calls
  <2>3. Shaped("out", None, None, None, None, <<at[p]>>, "no")
    BY <1>0, <1>1, <1>2, ConstFacts, SeqFacts DEF Shaped
  <2>4. Counts(p, cwd[p], ip[p], None, None, <<at[p]>>)
    <3>1. More(None)
      BY <1>0, <1>1, NoMore
    <3>2. Balance(p, cwd[p], ip[p], None, None, at[p], None, None)
      BY <1>1, <1>2, ConstFacts DEF Balance, Four, Bit
    <3> QED BY <1>0, <1>1, <3>1, <3>2, ConstFacts, CountsIs
  <2> QED BY <1>0, <2>1, <2>2, <2>3, <2>4, MovesKeep DEF Keeps
<1>3. CASE fd' = fd /\ puts' = [puts EXCEPT ![p] = <<at[p], ip[p]>>]
  <2>1. Moves(p, "out", None, None, None, None, <<at[p], ip[p]>>, "no", cwd[p], fd[p])
    BY <1>0, <1>1, <1>3, CreateMadeIs, Same DEF Moves
  <2>2. Typed("out", None, None, None, None, <<at[p], ip[p]>>, "no", cwd[p], fd[p])
    BY <1>0, <1>1, <1>3, CreateMadeIs, ConstFacts, SeqFacts DEF Typed, Pcs, Ops, Stages, Calls
  <2>3. Shaped("out", None, None, None, None, <<at[p], ip[p]>>, "no")
    BY <1>0, <1>1, <1>3, ConstFacts, SeqFacts DEF Shaped
  <2>4. Counts(p, cwd[p], fd[p], None, None, <<at[p], ip[p]>>)
    <3>1. More(None)
      BY <1>0, <1>1, NoMore
    <3>2. Balance(p, cwd[p], fd[p], None, None, at[p], ip[p], None)
      BY <1>1, <1>3, ConstFacts DEF Balance, Four, Bit
    <3> QED BY <1>0, <1>1, <3>1, <3>2, ConstFacts, CountsIs
  <2> QED BY <1>0, <2>1, <2>2, <2>3, <2>4, MovesKeep DEF Keeps
<1> QED BY <1>2, <1>3, CreateMadeIs DEF OpensOrPuts

LEMMA DropSlots ==
  ASSUME IInv, NEW p \in Proc, puts[p] # <<>>, Drops(p, Head(puts[p]))
  PROVE  Keeps(p)
<1> DEFINE s == puts[p]
           t == Tail(puts[p])
           h == Head(puts[p])
<1>0. Types /\ Store /\ Calls /\ Shape
  BY DEF IInv, Types
<1>1. h \in Inum /\ t \in Seq(Inum) /\ Len(t) = Len(s) - 1 /\ Len(s) \in 1 .. 2 /\ s \in Seq(Inum)
  BY <1>0, PutsOf DEF Calls
<1>2. Store'
  BY <1>0, <1>1, DropsType DEF Drops, Store
<1>3. Typed(pc[p], op[p], at[p], ip[p], name[p], t, "no", cwd[p], fd[p])
  BY <1>0, <1>1 DEF Typed, Stages, Calls
<1> HIDE DEF t
<1>4. Shaped(pc[p], op[p], at[p], ip[p], name[p], t, "no")
  <2>1. Shaped(pc[p], op[p], at[p], ip[p], name[p], s, stage[p])
    BY <1>0 DEF Shape, Shaped
  <2>2. Len(t) <= 2
    BY <1>1
  <2> QED BY <2>1, <2>2 DEF Shaped
<1>5. Moves(p, pc[p], op[p], at[p], ip[p], name[p], t, "no", cwd[p], fd[p])
  BY <1>0, Same DEF Moves, Drops, t
<1>6. Counts(p, cwd[p], fd[p], at[p], ip[p], t)
  <2> SUFFICES ASSUME NEW i \in Inum
               PROVE  ref'[i] - Mine(cwd[p], fd[p], at[p], ip[p], t, i)
                      = ref[i] - Mine(cwd[p], fd[p], at[p], ip[p], s, i)
    BY DEF Counts
  <2>1. /\ Mine(cwd[p], fd[p], at[p], ip[p], t, i)
           = Mine(cwd[p], fd[p], at[p], ip[p], s, i) - Bit(h = i)
        /\ Mine(cwd[p], fd[p], at[p], ip[p], s, i) \in Int
    <3>1. Len(s) <= 2
      BY <1>1
    <3> QED BY <1>1, <3>1, MineTail DEF t
  <2>2. ref'[i] = ref[i] - Bit(h = i) /\ ref[i] \in Int
    <3>1. ref' = [ref EXCEPT ![h] = @ - 1] /\ ref \in [Inum -> Int]
      BY <1>0 DEF Drops, Store
    <3> QED BY <1>1, <3>1 DEF Bit
  <2>3. Bit(h = i) \in Int
    BY DEF Bit
  <2> QED BY <2>1, <2>2, <2>3
<1> QED BY <1>2, <1>3, <1>4, <1>5, <1>6, MovesKeep DEF Keeps

LEMMA StageSlots ==
  ASSUME IInv, Store', NEW p \in Proc, NEW g \in Stages, puts[p] # <<>>,
         After(p, pc[p], op[p], at[p], ip[p], name[p]), stage' = [stage EXCEPT ![p] = g],
         UNCHANGED <<ref, puts, cwd, fd>>
  PROVE  Keeps(p)
<1>0. Types /\ Store /\ Calls /\ Shape
  BY DEF IInv, Types
<1>1. Typed(pc[p], op[p], at[p], ip[p], name[p], puts[p], g, cwd[p], fd[p])
  BY <1>0 DEF Typed, Calls
<1>2. Shaped(pc[p], op[p], at[p], ip[p], name[p], puts[p], g)
  BY <1>0 DEF Shape, Shaped
<1>3. Moves(p, pc[p], op[p], at[p], ip[p], name[p], puts[p], g, cwd[p], fd[p])
  BY <1>0, Same DEF Moves
<1>4. Counts(p, cwd[p], fd[p], at[p], ip[p], puts[p])
  BY DEF Counts
<1> QED BY <1>1, <1>2, <1>3, <1>4, MovesKeep DEF Keeps

LEMMA SlotsStep ==
  ASSUME IInv, NEW p \in Proc, Acts(p)
  PROVE  Keeps(p)
<1>0. Store'
  BY StoreStep
<1>1. CASE \E o \in Ops, s \in Inum : Call(p, o, s)
  BY <1>1, CallSlots
<1>2. CASE WalkNothing(p)
  BY <1>2, WalkNothingSlots
<1>3. CASE \E n \in Names : WalkFails(p, n)
  BY <1>3, WalkFailsSlots
<1>4. CASE \E n \in Names, last \in BOOLEAN : WalkInto(p, n, last)
  BY <1>4, WalkIntoSlots
<1>5. CASE \E n \in Names : WalkParent(p, n)
  BY <1>5, WalkParentSlots
<1>6. CASE Open(p)
  BY <1>6, OpenSlots
<1>7. CASE Chdir(p)
  BY <1>7, ChdirSlots
<1>8. CASE Close(p)
  BY <1>8, CloseSlots
<1>9. CASE \E s \in Inum : LinkFound(p, s)
  BY <1>9, LinkFoundSlots
<1>10. CASE Link(p)
  BY <1>10, LinkSlots
<1>11. CASE LinkUndo(p)
  BY <1>11, LinkUndoSlots
<1>12. CASE UnlinkLook(p)
  BY <1>12, UnlinkLookSlots
<1>13. CASE Unlinks(p)
  BY <1>13, UnlinksSlots
<1>14. CASE UnlinkCut(p)
  BY <1>14, UnlinkCutSlots
<1>15. CASE CreateFound(p)
  BY <1>15, CreateFoundSlots
<1>16. CASE CreateOld(p)
  BY <1>16, CreateOldSlots
<1>17. CASE \E i \in Inum : CreateAlloc(p, i)
  BY <1>17, CreateAllocSlots
<1>18. CASE CreateMade(p)
  BY <1>18, CreateMadeSlots
<1>19. CASE IputRef(p)
  BY <1>19, IputRefIs, DropSlots
<1>20. CASE IputLast(p)
  <2>1. /\ puts[p] # <<>> /\ After(p, pc[p], op[p], at[p], ip[p], name[p])
        /\ stage' = [stage EXCEPT ![p] = "trunc"] /\ UNCHANGED <<ref, puts, cwd, fd>>
    BY <1>20, IputLastIs
  <2>2. "trunc" \in Stages
    BY DEF Stages
  <2> QED BY <1>0, <2>1, <2>2, StageSlots
<1>21. CASE IputFree(p)
  <2>1. /\ puts[p] # <<>> /\ After(p, pc[p], op[p], at[p], ip[p], name[p])
        /\ stage' = [stage EXCEPT ![p] = "free"] /\ UNCHANGED <<ref, puts, cwd, fd>>
    BY <1>21, IputFreeIs
  <2>2. "free" \in Stages
    BY DEF Stages
  <2> QED BY <1>0, <2>1, <2>2, StageSlots
<1>22. CASE IputInvalid(p)
  <2>1. /\ puts[p] # <<>> /\ After(p, pc[p], op[p], at[p], ip[p], name[p])
        /\ stage' = [stage EXCEPT ![p] = "drop"] /\ UNCHANGED <<ref, puts, cwd, fd>>
    BY <1>22, IputInvalidIs
  <2>2. "drop" \in Stages
    BY DEF Stages
  <2> QED BY <1>0, <2>1, <2>2, StageSlots
<1>23. CASE IputDrop(p)
  BY <1>23, IputDropIs, DropSlots
<1>24. CASE LinkTaken(p)
  BY <1>24, LinkTakenSlots
<1>25. CASE Refuse(p)
  BY <1>25, RefuseSlots
<1> QED
  BY <1>1, <1>2, <1>3, <1>4, <1>5, <1>6, <1>7, <1>8, <1>9, <1>10, <1>11, <1>12,
     <1>13, <1>14, <1>15, <1>16, <1>17, <1>18, <1>19, <1>20, <1>21, <1>22, <1>23,
     <1>24, <1>25 DEF Acts

-----------------------------------------------------------------------------
(* Locks, copies and what calls have seen: what p has to see to            *)

LocksOf(p) ==
  /\ \A i \in Inum : lock'[i] = p <=> Holds(p, i)'
  /\ \A i \in Inum : lock'[i] # lock[i] => {lock[i], lock'[i]} \subseteq {None, p}
  /\ \A i \in Inum : Holds(p, i)' => valid'[i]
  /\ \A i \in Inum : valid[i] /\ ~valid'[i] => \A q \in Proc \ {p} : ~Holds(q, i)
  /\ pc'[p] = "cut" => ~Emptying(p, ip[p])'
  /\ pc'[p] = "held" => ~Emptying(p, at[p])'
CachedOf(p) ==
  \A i \in Inum : valid'[i] =>
    \/ valid[i] /\ mem'[i] = mem[i] /\ disk'[i] = disk[i] /\ ~Freeing(p, i)
    \/ mem'[i] = disk'[i] /\ disk'[i].type # "free"
    \/ \E q \in Proc : Freeing(q, i)'
SettledOf(p) ==
  /\ pc'[p] \in {"parent", "gone", "made"} =>
       disk'[at'[p]].type = "dir" /\ \A q \in Proc : ~Emptying(q, at[p])'
  /\ \A i \in Inum : disk[i].type = "dir" /\ disk'[i].type # "dir" => Emptying(p, i)
  /\ \A i \in Inum : Emptying(p, i)' => Emptying(p, i) \/ \A q \in Proc \ {p} : at[q] # i
SeenOf(p) ==
  /\ pc'[p] = "gone" => ents'[at'[p]][name'[p]] = ip'[p]
  /\ pc'[p] = "made" => ents'[at'[p]][name'[p]] = None
  /\ \A i \in Inum : ents'[i] # ents[i] => \A q \in Proc \ {p} : ~Holds(q, i)

LEMMA OthersHold ==
  ASSUME NEW p \in Proc, Others(p)
  PROVE  \A q \in Proc \ {p} : \A i :
           /\ Holds(q, i)' <=> Holds(q, i)
           /\ Emptying(q, i)' <=> Emptying(q, i)
           /\ Freeing(q, i)' <=> Freeing(q, i)
BY DEF Others, Holds, Emptying, Freeing

LEMMA LocksStep ==
  ASSUME IInv, NEW p \in Proc, Keeps(p), LocksOf(p)
  PROVE  Locks'
<1>0. Types /\ Locks /\ Types' /\ Others(p)
  BY DEF IInv, Keeps
<1>1. ASSUME NEW q \in Proc, NEW i \in Inum
      PROVE  lock'[i] = q <=> Holds(q, i)'
  <2>1. CASE q = p
    BY <2>1 DEF LocksOf
  <2>2. CASE q # p
    <3>1. lock[i] = q <=> Holds(q, i)
      BY <1>0 DEF Locks
    <3>2. Holds(q, i)' <=> Holds(q, i)
      BY <1>0, <2>2, OthersHold
    <3>3. lock'[i] = q <=> lock[i] = q
      BY <2>2, ConstFacts DEF LocksOf
    <3> QED BY <3>1, <3>2, <3>3
  <2> QED BY <2>1, <2>2
<1>2. ASSUME NEW q \in Proc, NEW i \in Inum, Holds(q, i)'
      PROVE  valid'[i]
  <2>1. CASE q = p
    BY <1>2, <2>1 DEF LocksOf
  <2>2. CASE q # p
    <3>1. Holds(q, i)
      BY <1>0, <1>2, <2>2, OthersHold
    <3>2. valid[i]
      BY <1>0, <3>1 DEF Locks
    <3> QED BY <2>2, <3>1, <3>2 DEF LocksOf
  <2> QED BY <2>1, <2>2
<1>3. ASSUME NEW q \in Proc, pc'[q] = "cut"
      PROVE  ~Emptying(q, ip[q])'
  <2>1. CASE q = p
    BY <1>3, <2>1 DEF LocksOf
  <2>2. CASE q # p
    <3>1. pc[q] = "cut" /\ ~Emptying(q, ip[q])
      BY <1>0, <1>3, <2>2 DEF Others, Locks
    <3> QED BY <1>0, <2>2, <3>1 DEF Others, Emptying
  <2> QED BY <2>1, <2>2
<1>4. ASSUME NEW q \in Proc, pc'[q] = "held"
      PROVE  ~Emptying(q, at[q])'
  <2>1. CASE q = p
    BY <1>4, <2>1 DEF LocksOf
  <2>2. CASE q # p
    <3>1. pc[q] = "held" /\ ~Emptying(q, at[q])
      BY <1>0, <1>4, <2>2 DEF Others, Locks
    <3> QED BY <1>0, <2>2, <3>1 DEF Others, Emptying
  <2> QED BY <2>1, <2>2
<1> QED BY <1>1, <1>2, <1>3, <1>4 DEF Locks

LEMMA CachedStep ==
  ASSUME IInv, NEW p \in Proc, Keeps(p), CachedOf(p)
  PROVE  Cached'
<1>0. Types /\ Cached /\ Others(p)
  BY DEF IInv, Keeps
<1> SUFFICES ASSUME NEW i \in Inum, valid'[i]
             PROVE  \/ mem'[i] = disk'[i] /\ disk'[i].type # "free"
                    \/ \E q \in Proc : Freeing(q, i)'
  BY DEF Cached
<1>1. CASE valid[i] /\ mem'[i] = mem[i] /\ disk'[i] = disk[i] /\ ~Freeing(p, i)
  <2>1. CASE mem[i] = disk[i] /\ disk[i].type # "free"
    BY <1>1, <2>1
  <2>2. CASE \E q \in Proc : Freeing(q, i)
    <3>1. PICK q \in Proc : Freeing(q, i)
      BY <2>2
    <3>2. q # p
      BY <1>1, <3>1
    <3> QED BY <1>0, <3>1, <3>2, OthersHold
  <2> QED BY <1>0, <1>1, <2>1, <2>2 DEF Cached
<1> QED BY <1>1 DEF CachedOf

LEMMA SettledStep ==
  ASSUME IInv, NEW p \in Proc, Keeps(p), SettledOf(p)
  PROVE  Settled'
<1>0. Types /\ Shape /\ Settled /\ Others(p)
  BY DEF IInv, Keeps
<1> SUFFICES ASSUME NEW q \in Proc, pc'[q] \in {"parent", "gone", "made"}
             PROVE  disk'[at'[q]].type = "dir" /\ \A r \in Proc : ~Emptying(r, at[q])'
  BY DEF Settled
<1>1. CASE q = p
  BY <1>1 DEF SettledOf
<1>2. CASE q # p
  <2>1. pc[q] \in {"parent", "gone", "made"} /\ at'[q] = at[q] /\ at[q] \in Inum
    BY <1>0, <1>2 DEF Others, Shape, Types, Calls
  <2>2. disk[at[q]].type = "dir" /\ \A r \in Proc : ~Emptying(r, at[q])
    BY <1>0, <2>1 DEF Settled
  <2>3. disk'[at[q]].type = "dir"
    BY <2>1, <2>2 DEF SettledOf
  <2>4. ASSUME NEW r \in Proc, Emptying(r, at[q])'
        PROVE  FALSE
    <3>1. CASE r = p
      <4>1. stage'[p] \in {"trunc", "free"} /\ Head(puts'[p]) = at[q]
        BY <2>1, <2>4, <3>1 DEF Emptying
      <4>2. \A i \in Inum : Emptying(p, i)' <=> stage'[p] \in {"trunc", "free"} /\ Head(puts'[p]) = i
        BY DEF Emptying
      <4> QED BY <1>2, <2>1, <2>2, <4>1, <4>2 DEF SettledOf
    <3>2. CASE r # p
      <4>1. Emptying(r, at[q])
        BY <1>0, <2>1, <2>4, <3>2 DEF Others, Emptying
      <4> QED BY <2>2, <4>1
    <3> QED BY <3>1, <3>2
  <2> QED BY <2>1, <2>3, <2>4
<1> QED BY <1>1, <1>2

LEMMA SeenStep ==
  ASSUME IInv, NEW p \in Proc, Keeps(p), SeenOf(p)
  PROVE  Seen'
<1>0. Types /\ Shape /\ Seen /\ Others(p)
  BY DEF IInv, Keeps
<1> SUFFICES ASSUME NEW q \in Proc
             PROVE  /\ pc'[q] = "gone" => ents'[at'[q]][name'[q]] = ip'[q]
                    /\ pc'[q] = "made" => ents'[at'[q]][name'[q]] = None
  BY DEF Seen
<1>1. CASE q = p
  BY <1>1 DEF SeenOf
<1>2. CASE q # p
  <2>1. /\ pc'[q] = pc[q] /\ at'[q] = at[q] /\ ip'[q] = ip[q] /\ name'[q] = name[q]
    BY <1>0, <1>2 DEF Others
  <2>2. CASE pc[q] \in {"gone", "made"}
    <3>1. Holds(q, at[q]) /\ at[q] \in Inum
      BY <1>0, <2>2 DEF Holds, Shape, Types, Calls
    <3>2. ents'[at[q]] = ents[at[q]]
      BY <1>2, <3>1 DEF SeenOf
    <3> QED BY <1>0, <2>1, <2>2, <3>2 DEF Seen
  <2> QED BY <2>1, <2>2
<1> QED BY <1>1, <1>2

(* Most steps leave all locks alone, and what they read and write is not   *)
(* locked.                                                                 *)
Quiet(i) ==
  \/ disk'[i] = disk[i] /\ mem'[i] = mem[i] /\ valid'[i] = valid[i]
  \/ Unlocked(i) /\ valid'[i] /\ mem'[i] = disk'[i] /\ disk'[i].type = disk[i].type
Plain(p) ==
  /\ stage[p] = "no" /\ UNCHANGED <<lock, stage, panicked>>
  /\ pc[p] \notin {"gone", "cut", "held", "made"} /\ pc'[p] \notin {"gone", "cut", "held", "made"}
  /\ \A i \in Inum : Quiet(i)
  /\ \A i \in Inum : ents'[i] = ents[i] \/ Unlocked(i)
  /\ pc'[p] = "parent" =>
       at'[p] \in Inum /\ disk[at'[p]].type = "dir" /\ Unlocked(at'[p])

LEMMA PlainKeeps ==
  ASSUME IInv, NEW p \in Proc, Keeps(p), Plain(p)
  PROVE  LocksOf(p) /\ CachedOf(p) /\ SettledOf(p) /\ SeenOf(p)
<1>0. Types /\ Locks /\ Types' /\ Others(p)
  BY DEF IInv, Keeps
<1>1. stage'[p] = "no" /\ stage[p] = "no" /\ lock' = lock
  BY DEF Plain
<1>2. \A i \in Inum : ~Holds(p, i) /\ ~Holds(p, i)' /\ ~Emptying(p, i)' /\ ~Freeing(p, i)
  BY <1>1 DEF Plain, Holds, Emptying, Freeing
<1>3. LocksOf(p)
  <2>1. ASSUME NEW i \in Inum
        PROVE  /\ lock'[i] = p <=> Holds(p, i)'
               /\ lock'[i] # lock[i] => {lock[i], lock'[i]} \subseteq {None, p}
               /\ Holds(p, i)' => valid'[i]
               /\ valid[i] /\ ~valid'[i] => \A q \in Proc \ {p} : ~Holds(q, i)
    <3>1. lock[i] = p <=> Holds(p, i)
      BY <1>0 DEF Locks
    <3>2. Quiet(i)
      BY DEF Plain
    <3> QED BY <1>1, <1>2, <3>1, <3>2 DEF Quiet
  <2>2. pc'[p] \notin {"cut", "held"}
    BY DEF Plain
  <2> QED BY <2>1, <2>2 DEF LocksOf
<1>4. CachedOf(p)
  <2> SUFFICES ASSUME NEW i \in Inum, valid'[i]
               PROVE  \/ valid[i] /\ mem'[i] = mem[i] /\ disk'[i] = disk[i] /\ ~Freeing(p, i)
                      \/ mem'[i] = disk'[i] /\ disk'[i].type # "free"
    BY DEF CachedOf
  <2>1. Quiet(i)
    BY DEF Plain
  <2> QED BY <1>2, <2>1 DEF Quiet, Unlocked
<1>5. SettledOf(p)
  <2>1. ASSUME pc'[p] \in {"parent", "gone", "made"}
        PROVE  disk'[at'[p]].type = "dir" /\ \A q \in Proc : ~Emptying(q, at[p])'
    <3>1. at'[p] \in Inum /\ disk[at'[p]].type = "dir" /\ Unlocked(at'[p])
      BY <2>1 DEF Plain
    <3>2. Quiet(at'[p])
      BY <3>1 DEF Plain
    <3>3. disk'[at'[p]].type = "dir"
      BY <3>1, <3>2 DEF Quiet
    <3>4. ASSUME NEW q \in Proc, Emptying(q, at[p])'
          PROVE  FALSE
      <4>1. q # p
        BY <1>1, <3>4 DEF Emptying
      <4>2. Emptying(q, at'[p])
        BY <1>0, <3>4, <4>1 DEF Others, Emptying
      <4> QED BY <3>1, <4>2 DEF Unlocked, Holds
    <3> QED BY <3>3, <3>4
  <2>2. ASSUME NEW i \in Inum, disk[i].type = "dir"
        PROVE  disk'[i].type = "dir"
    <3>1. Quiet(i)
      BY DEF Plain
    <3> QED BY <2>2, <3>1 DEF Quiet
  <2> QED BY <1>2, <2>1, <2>2 DEF SettledOf
<1>6. SeenOf(p)
  BY DEF Plain, SeenOf, Unlocked
<1> QED BY <1>3, <1>4, <1>5, <1>6

LEMMA ReadsQuiet ==
  ASSUME Types, NEW i \in Inum, Reads(i)
  PROVE  \A j \in Inum : Quiet(j)
BY DEF Types, Store, Reads, Quiet, Unlocked

LEMMA WritesQuiet ==
  ASSUME Types, NEW i \in Inum, Unlocked(i), NEW d \in Int, Writes(i, Counting(i, d))
  PROVE  \A j \in Inum : Quiet(j)
<1>1. Counting(i, d).type = disk[i].type
  BY CountingType
<1> QED BY <1>1 DEF Types, Store, Writes, Quiet

LEMMA SameQuiet ==
  ASSUME UNCHANGED <<disk, mem, valid>>
  PROVE  \A j \in Inum : Quiet(j)
BY DEF Quiet

LEMMA CallPlain ==
  ASSUME IInv, NEW p \in Proc, NEW o \in Ops, NEW s \in Inum, Call(p, o, s)
  PROVE  Plain(p)
<1>0. Types
  BY DEF IInv
<1>1. stage[p] = "no" /\ UNCHANGED <<lock, stage, panicked>>
      /\ pc[p] \notin {"gone", "cut", "held", "made"}
  BY CallIs
<1>2. pc'[p] \notin {"gone", "cut", "held", "made"} /\ pc'[p] # "parent"
  BY <1>0, CallIs DEF After, Types, Calls
<1>3. \A i \in Inum : Quiet(i)
  <2>1. UNCHANGED <<disk, mem, valid>>
    BY CallIs
  <2> QED BY <2>1, SameQuiet
<1>4. \A i \in Inum : ents'[i] = ents[i] \/ Unlocked(i)
  BY CallIs
<1> QED BY <1>1, <1>2, <1>3, <1>4 DEF Plain

LEMMA WalkNothingPlain ==
  ASSUME IInv, NEW p \in Proc, WalkNothing(p)
  PROVE  Plain(p)
<1>0. Types
  BY DEF IInv
<1>1. stage[p] = "no" /\ UNCHANGED <<lock, stage, panicked>>
      /\ pc[p] \notin {"gone", "cut", "held", "made"}
  BY WalkNothingIs
<1>2. pc'[p] \notin {"gone", "cut", "held", "made"} /\ pc'[p] # "parent"
  <2>1. \E l \in {"out", "undo", "found"} : pc' = [pc EXCEPT ![p] = l]
    BY WalkNothingIs DEF After
  <2>2. pc'[p] \in {"out", "undo", "found"}
    BY <1>0, <2>1 DEF Types, Calls
  <2> QED BY <2>2
<1>3. \A i \in Inum : Quiet(i)
  <2>1. UNCHANGED <<disk, mem, valid>>
    BY WalkNothingIs
  <2> QED BY <2>1, SameQuiet
<1>4. \A i \in Inum : ents'[i] = ents[i] \/ Unlocked(i)
  BY WalkNothingIs
<1> QED BY <1>1, <1>2, <1>3, <1>4 DEF Plain

LEMMA WalkFailsPlain ==
  ASSUME IInv, NEW p \in Proc, NEW n \in Names, WalkFails(p, n)
  PROVE  Plain(p)
<1>0. Types
  BY DEF IInv
<1>1. stage[p] = "no" /\ UNCHANGED <<lock, stage, panicked>>
      /\ pc[p] \notin {"gone", "cut", "held", "made"}
  BY WalkFailsIs
<1>2. pc'[p] \notin {"gone", "cut", "held", "made"} /\ pc'[p] # "parent"
  BY <1>0, WalkFailsIs DEF After, Types, Calls
<1>3. \A i \in Inum : Quiet(i)
  <2>1. at[p] \in Inum /\ Reads(at[p])
    BY WalkFailsIs
  <2> QED BY <1>0, <2>1, ReadsQuiet
<1>4. \A i \in Inum : ents'[i] = ents[i] \/ Unlocked(i)
  BY WalkFailsIs
<1> QED BY <1>1, <1>2, <1>3, <1>4 DEF Plain

LEMMA WalkIntoPlain ==
  ASSUME IInv, NEW p \in Proc, NEW n \in Names, NEW last \in BOOLEAN,
         WalkInto(p, n, last)
  PROVE  Plain(p)
<1>0. Types
  BY DEF IInv
<1>1. stage[p] = "no" /\ UNCHANGED <<lock, stage, panicked>>
      /\ pc[p] \notin {"gone", "cut", "held", "made"}
  BY WalkIntoIs
<1>2. pc'[p] \notin {"gone", "cut", "held", "made"} /\ pc'[p] # "parent"
  <2>1. pc' = [pc EXCEPT ![p] = "walk"] \/ pc' = [pc EXCEPT ![p] = "found"]
    BY WalkIntoIs DEF After
  <2> QED BY <1>0, <2>1 DEF Types, Calls
<1>3. \A i \in Inum : Quiet(i)
  <2>1. at[p] \in Inum /\ Reads(at[p])
    BY WalkIntoIs
  <2> QED BY <1>0, <2>1, ReadsQuiet
<1>4. \A i \in Inum : ents'[i] = ents[i] \/ Unlocked(i)
  BY WalkIntoIs
<1> QED BY <1>1, <1>2, <1>3, <1>4 DEF Plain

LEMMA WalkParentPlain ==
  ASSUME IInv, NEW p \in Proc, NEW n \in Names, WalkParent(p, n)
  PROVE  Plain(p)
<1>0. Types
  BY DEF IInv
<1>1. stage[p] = "no" /\ UNCHANGED <<lock, stage, panicked>>
      /\ pc[p] \notin {"gone", "cut", "held", "made"}
  BY WalkParentIs
<1>2. pc'[p] \notin {"gone", "cut", "held", "made"}
  BY <1>0, WalkParentIs DEF After, Types, Calls
<1>3. \A i \in Inum : Quiet(i)
  <2>1. at[p] \in Inum /\ Reads(at[p])
    BY WalkParentIs
  <2> QED BY <1>0, <2>1, ReadsQuiet
<1>4. \A i \in Inum : ents'[i] = ents[i] \/ Unlocked(i)
  BY WalkParentIs
<1>5. at'[p] \in Inum /\ disk[at'[p]].type = "dir" /\ Unlocked(at'[p])
  BY <1>0, WalkParentIs DEF After, Types, Calls, Reads
<1> QED BY <1>1, <1>2, <1>3, <1>4, <1>5 DEF Plain

LEMMA OpenPlain ==
  ASSUME IInv, NEW p \in Proc, Open(p)
  PROVE  Plain(p)
<1>0. Types
  BY DEF IInv
<1>1. stage[p] = "no" /\ UNCHANGED <<lock, stage, panicked>>
      /\ pc[p] \notin {"gone", "cut", "held", "made"}
  BY OpenIs
<1>2. pc'[p] \notin {"gone", "cut", "held", "made"} /\ pc'[p] # "parent"
  BY <1>0, OpenIs DEF After, Types, Calls
<1>3. \A i \in Inum : Quiet(i)
  <2>1. at[p] \in Inum /\ Reads(at[p])
    BY OpenIs
  <2> QED BY <1>0, <2>1, ReadsQuiet
<1>4. \A i \in Inum : ents'[i] = ents[i] \/ Unlocked(i)
  BY OpenIs
<1> QED BY <1>1, <1>2, <1>3, <1>4 DEF Plain

LEMMA ChdirPlain ==
  ASSUME IInv, NEW p \in Proc, Chdir(p)
  PROVE  Plain(p)
<1>0. Types
  BY DEF IInv
<1>1. stage[p] = "no" /\ UNCHANGED <<lock, stage, panicked>>
      /\ pc[p] \notin {"gone", "cut", "held", "made"}
  BY ChdirIs
<1>2. pc'[p] \notin {"gone", "cut", "held", "made"} /\ pc'[p] # "parent"
  BY <1>0, ChdirIs DEF After, Types, Calls
<1>3. \A i \in Inum : Quiet(i)
  <2>1. at[p] \in Inum /\ Reads(at[p])
    BY ChdirIs
  <2> QED BY <1>0, <2>1, ReadsQuiet
<1>4. \A i \in Inum : ents'[i] = ents[i] \/ Unlocked(i)
  BY ChdirIs
<1> QED BY <1>1, <1>2, <1>3, <1>4 DEF Plain

LEMMA ClosePlain ==
  ASSUME IInv, NEW p \in Proc, Close(p)
  PROVE  Plain(p)
<1>0. Types
  BY DEF IInv
<1>1. stage[p] = "no" /\ UNCHANGED <<lock, stage, panicked>>
      /\ pc[p] \notin {"gone", "cut", "held", "made"}
  BY CloseIs
<1>2. pc'[p] \notin {"gone", "cut", "held", "made"} /\ pc'[p] # "parent"
  BY <1>0, CloseIs DEF After, Types, Calls
<1>3. \A i \in Inum : Quiet(i)
  <2>1. UNCHANGED <<disk, mem, valid>>
    BY CloseIs
  <2> QED BY <2>1, SameQuiet
<1>4. \A i \in Inum : ents'[i] = ents[i] \/ Unlocked(i)
  BY CloseIs
<1> QED BY <1>1, <1>2, <1>3, <1>4 DEF Plain

LEMMA LinkFoundPlain ==
  ASSUME IInv, NEW p \in Proc, NEW s \in Inum, LinkFound(p, s)
  PROVE  Plain(p)
<1>0. Types
  BY DEF IInv
<1>1. stage[p] = "no" /\ UNCHANGED <<lock, stage, panicked>>
      /\ pc[p] \notin {"gone", "cut", "held", "made"}
  BY LinkFoundIs
<1>2. pc'[p] \notin {"gone", "cut", "held", "made"} /\ pc'[p] # "parent"
  BY <1>0, LinkFoundIs DEF After, Types, Calls
<1>3. \A i \in Inum : Quiet(i)
  <2>1. at[p] \in Inum /\ Unlocked(at[p])
        /\ (Reads(at[p]) \/ Writes(at[p], Counting(at[p], 1)))
    BY LinkFoundIs
  <2> QED BY <1>0, <2>1, ReadsQuiet, WritesQuiet
<1>4. \A i \in Inum : ents'[i] = ents[i] \/ Unlocked(i)
  BY LinkFoundIs
<1> QED BY <1>1, <1>2, <1>3, <1>4 DEF Plain

LEMMA LinkPlain ==
  ASSUME IInv, NEW p \in Proc, Link(p)
  PROVE  Plain(p)
<1>0. Types
  BY DEF IInv
<1>1. stage[p] = "no" /\ UNCHANGED <<lock, stage, panicked>>
      /\ pc[p] \notin {"gone", "cut", "held", "made"}
  BY LinkIs
<1>2. pc'[p] \notin {"gone", "cut", "held", "made"} /\ pc'[p] # "parent"
  BY <1>0, LinkIs DEF After, Types, Calls
<1>3. \A i \in Inum : Quiet(i)
  <2>1. at[p] \in Inum /\ Reads(at[p])
    BY LinkIs
  <2> QED BY <1>0, <2>1, ReadsQuiet
<1>4. \A i \in Inum : ents'[i] = ents[i] \/ Unlocked(i)
  <2>1. at[p] \in Inum /\ Unlocked(at[p])
        /\ ents' = [ents EXCEPT ![at[p]][name[p]] = ip[p]]
    BY LinkIs DEF Reads
  <2> QED BY <1>0, <2>1 DEF Types, Store
<1> QED BY <1>1, <1>2, <1>3, <1>4 DEF Plain

LEMMA LinkUndoPlain ==
  ASSUME IInv, NEW p \in Proc, LinkUndo(p)
  PROVE  Plain(p)
<1>0. Types
  BY DEF IInv
<1>1. stage[p] = "no" /\ UNCHANGED <<lock, stage, panicked>>
      /\ pc[p] \notin {"gone", "cut", "held", "made"}
  BY LinkUndoIs
<1>2. pc'[p] \notin {"gone", "cut", "held", "made"} /\ pc'[p] # "parent"
  BY <1>0, LinkUndoIs DEF After, Types, Calls
<1>3. \A i \in Inum : Quiet(i)
  <2>1. ip[p] \in Inum /\ Unlocked(ip[p]) /\ Writes(ip[p], Counting(ip[p], -1)) /\ -1 \in Int
    BY LinkUndoIs
  <2> QED BY <1>0, <2>1, WritesQuiet
<1>4. \A i \in Inum : ents'[i] = ents[i] \/ Unlocked(i)
  BY LinkUndoIs
<1> QED BY <1>1, <1>2, <1>3, <1>4 DEF Plain

LEMMA CreateFoundPlain ==
  ASSUME IInv, NEW p \in Proc, CreateFound(p)
  PROVE  Plain(p)
<1>0. Types
  BY DEF IInv
<1>1. stage[p] = "no" /\ UNCHANGED <<lock, stage, panicked>>
      /\ pc[p] \notin {"gone", "cut", "held", "made"}
  BY CreateFoundIs
<1>2. pc'[p] \notin {"gone", "cut", "held", "made"} /\ pc'[p] # "parent"
  BY <1>0, CreateFoundIs DEF After, Types, Calls
<1>3. \A i \in Inum : Quiet(i)
  <2>1. at[p] \in Inum /\ Reads(at[p])
    BY CreateFoundIs
  <2> QED BY <1>0, <2>1, ReadsQuiet
<1>4. \A i \in Inum : ents'[i] = ents[i] \/ Unlocked(i)
  BY CreateFoundIs
<1> QED BY <1>1, <1>2, <1>3, <1>4 DEF Plain

LEMMA CreateOldPlain ==
  ASSUME IInv, NEW p \in Proc, CreateOld(p)
  PROVE  Plain(p)
<1>0. Types
  BY DEF IInv
<1>1. stage[p] = "no" /\ UNCHANGED <<lock, stage, panicked>>
      /\ pc[p] \notin {"gone", "cut", "held", "made"}
  BY CreateOldIs
<1>2. pc'[p] \notin {"gone", "cut", "held", "made"} /\ pc'[p] # "parent"
  BY <1>0, CreateOldIs DEF After, Types, Calls
<1>3. \A i \in Inum : Quiet(i)
  <2>1. ip[p] \in Inum /\ Reads(ip[p])
    BY CreateOldIs
  <2> QED BY <1>0, <2>1, ReadsQuiet
<1>4. \A i \in Inum : ents'[i] = ents[i] \/ Unlocked(i)
  BY CreateOldIs
<1> QED BY <1>1, <1>2, <1>3, <1>4 DEF Plain

-----------------------------------------------------------------------------
(* The steps that take or release locks, or change the names a call has    *)
(* seen                                                                    *)
Rest(p) == LocksOf(p) /\ CachedOf(p) /\ SettledOf(p) /\ SeenOf(p)

(* What a step leaves of p, but for names.                                 *)
Left(p, l, a, x, n, g) ==
  pc'[p] = l /\ at'[p] = a /\ ip'[p] = x /\ name'[p] = n /\ stage'[p] = g

LEMMA LeftIs ==
  ASSUME Types, NEW p \in Proc, NEW l, NEW o, NEW a, NEW x, NEW n, After(p, l, o, a, x, n)
  PROVE  Left(p, l, a, x, n, stage'[p])
BY DEF Types, Calls, After, Left

(* A call that is not in an iput does not empty an inode.                  *)
LEMMA NotInIput ==
  ASSUME NEW p \in Proc, stage[p] = "no", stage'[p] = "no"
  PROVE  \A i : ~Emptying(p, i) /\ ~Freeing(p, i) /\ ~Emptying(p, i)' /\ ~Freeing(p, i)'
BY DEF Emptying, Freeing

LEMMA UnlinkLookRest ==
  ASSUME IInv, NEW p \in Proc, Keeps(p), UnlinkLook(p)
  PROVE  Rest(p)
<1> DEFINE d == at[p]
           i == ents[d][name[p]]
<1>0. Types /\ Locks /\ Types' /\ Others(p)
  BY DEF IInv, Keeps
<1>1. /\ pc[p] = "parent" /\ stage[p] = "no" /\ d \in Inum
      /\ Reads(d) /\ disk[d].type = "dir" /\ UNCHANGED <<ents, panicked, stage>>
  BY UnlinkLookIs
<1>2. /\ \A j \in Inum : Quiet(j)
      /\ Unlocked(d) /\ disk' = disk
  BY <1>0, <1>1, ReadsQuiet DEF Reads
<1>3. CASE After(p, "out", None, None, None, None) /\ lock' = lock
  <2>1. pc'[p] = "out"
    BY <1>0, <1>3, LeftIs DEF Left
  <2>2. Plain(p)
    BY <1>1, <1>2, <1>3, <2>1 DEF Plain
  <2> QED BY <2>2, PlainKeeps DEF Rest
<1>4. CASE After(p, "gone", op[p], d, i, name[p]) /\ lock' = [lock EXCEPT ![d] = p]
  <2>1. Left(p, "gone", d, i, name[p], "no")
    BY <1>0, <1>1, <1>4, LeftIs
  <2>2. \A j : ~Emptying(p, j) /\ ~Freeing(p, j) /\ ~Emptying(p, j)' /\ ~Freeing(p, j)'
    BY <1>1, <2>1, NotInIput DEF Left
  <2>3. \A j \in Inum : ~Holds(p, j) /\ (Holds(p, j)' <=> j = d)
    BY <1>1, <2>1, <2>2 DEF Left, Holds
  <2>4. LocksOf(p)
    <3>1. \A j \in Inum : lock[j] # p /\ lock'[j] = IF j = d THEN p ELSE lock[j]
      BY <1>0, <1>4, <2>3 DEF Locks, Types, Store
    <3>2. \A j \in Inum : valid'[j] <=> (j = d \/ valid[j])
      BY <1>0, <1>1 DEF Reads, Types, Store
    <3>3. lock[d] = None
      BY <1>2 DEF Unlocked
    <3>4. \A j \in Inum : lock'[j] # lock[j] => {lock[j], lock'[j]} \subseteq {None, p}
      BY <3>1, <3>3
    <3>5. pc'[p] \notin {"cut", "held"}
      BY <2>1 DEF Left
    <3> QED BY <2>3, <3>1, <3>2, <3>4, <3>5 DEF LocksOf
  <2>5. CachedOf(p)
    BY <1>2, <2>2 DEF CachedOf, Quiet, Unlocked
  <2>6. SettledOf(p)
    <3>1. \A j \in Inum : \A q \in Proc \ {p} : Emptying(q, j)' => Holds(q, j)
      BY <1>0, OthersHold DEF Holds
    <3>2. at'[p] = d
      BY <2>1 DEF Left
    <3>3. \A q \in Proc : ~Emptying(q, at[p])'
      BY <1>1, <1>2, <2>2, <3>1, <3>2 DEF Unlocked, Emptying
    <3> QED BY <1>1, <1>2, <2>2, <3>2, <3>3 DEF SettledOf
  <2>7. SeenOf(p)
    BY <1>1, <2>1 DEF Left, SeenOf
  <2> QED BY <2>4, <2>5, <2>6, <2>7 DEF Rest
<1> QED BY <1>3, <1>4, UnlinkLookIs

LEMMA LinkTakenRest ==
  ASSUME IInv, NEW p \in Proc, Keeps(p), LinkTaken(p)
  PROVE  Rest(p)
<1> DEFINE d == at[p]
<1>0. Types /\ Locks /\ Types' /\ Others(p)
  BY DEF IInv, Keeps
<1>1. /\ pc[p] = "parent" /\ stage[p] = "no" /\ d \in Inum /\ Reads(d)
      /\ After(p, "held", op[p], d, ip[p], None) /\ lock' = [lock EXCEPT ![d] = p]
      /\ UNCHANGED <<ents, stage>> /\ stage'[p] = "no"
  BY LinkTakenIs
<1>2. /\ \A j \in Inum : Quiet(j)
      /\ lock[d] = None /\ disk' = disk
  BY <1>0, <1>1, ReadsQuiet DEF Reads, Unlocked
<1>3. Left(p, "held", d, ip[p], None, "no")
  BY <1>0, <1>1, LeftIs
<1>4. \A j : ~Emptying(p, j) /\ ~Freeing(p, j) /\ ~Emptying(p, j)' /\ ~Freeing(p, j)'
  BY <1>1, NotInIput
<1>5. \A j \in Inum : ~Holds(p, j) /\ (Holds(p, j)' <=> j = d)
  BY <1>1, <1>3, <1>4 DEF Left, Holds
<1>6. LocksOf(p)
  <2>1. \A j \in Inum : lock[j] # p /\ lock'[j] = IF j = d THEN p ELSE lock[j]
    BY <1>0, <1>1, <1>5 DEF Locks, Types, Store
  <2>2. \A j \in Inum : valid'[j] <=> (j = d \/ valid[j])
    BY <1>0, <1>1 DEF Reads, Types, Store
  <2>3. \A j \in Inum : lock'[j] # lock[j] => {lock[j], lock'[j]} \subseteq {None, p}
    BY <1>2, <2>1
  <2>4. ~Emptying(p, ip[p])' /\ ~Emptying(p, at[p])'
    BY <1>1 DEF Emptying
  <2> QED BY <1>5, <2>1, <2>2, <2>3, <2>4 DEF LocksOf
<1>7. CachedOf(p)
  BY <1>2, <1>4 DEF CachedOf, Quiet, Unlocked
<1>8. SettledOf(p)
  BY <1>2, <1>3, <1>4 DEF SettledOf, Left
<1>9. SeenOf(p)
  BY <1>1, <1>3 DEF Left, SeenOf
<1> QED BY <1>6, <1>7, <1>8, <1>9 DEF Rest

LEMMA RefuseRest ==
  ASSUME IInv, NEW p \in Proc, Keeps(p), Refuse(p)
  PROVE  Rest(p)
<1> DEFINE d == at[p]
<1>0. Types /\ Locks /\ Types' /\ Others(p)
  BY DEF IInv, Keeps
<1>1. /\ pc[p] = "held" /\ stage[p] = "no" /\ d \in Inum /\ lock' = [lock EXCEPT ![d] = None]
      /\ UNCHANGED <<disk, ents, valid, mem, stage>> /\ stage'[p] = "no"
  BY RefuseIs
<1>2. pc'[p] \in {"out", "undo"}
  <2>1. pc' = [pc EXCEPT ![p] = "out"] \/ pc' = [pc EXCEPT ![p] = "undo"]
    BY RefuseIs DEF After
  <2> QED BY <1>0, <2>1 DEF Types, Calls
<1>3. \A j : ~Emptying(p, j) /\ ~Freeing(p, j) /\ ~Emptying(p, j)' /\ ~Freeing(p, j)'
  BY <1>1, NotInIput
<1>4. \A j \in Inum : (Holds(p, j) <=> j = d) /\ ~Holds(p, j)' /\ (lock[j] = p <=> j = d)
  BY <1>0, <1>1, <1>2, <1>3 DEF Holds, Locks
<1>5. \A j \in Inum : lock'[j] = IF j = d THEN None ELSE lock[j]
  BY <1>0, <1>1 DEF Types, Store
<1>6. LocksOf(p)
  BY <1>1, <1>2, <1>4, <1>5, ConstFacts DEF LocksOf
<1>7. CachedOf(p)
  BY <1>1, <1>3 DEF CachedOf
<1>8. SettledOf(p)
  BY <1>1, <1>2, <1>3 DEF SettledOf
<1>9. SeenOf(p)
  BY <1>1, <1>2 DEF SeenOf
<1> QED BY <1>6, <1>7, <1>8, <1>9 DEF Rest

LEMMA UnlinksRest ==
  ASSUME IInv, NEW p \in Proc, Keeps(p), Unlinks(p)
  PROVE  Rest(p)
<1> DEFINE d == at[p]
           i == ip[p]
<1>0. Types /\ Locks /\ Cached /\ Types' /\ Others(p)
  BY DEF IInv, Keeps
<1>1. /\ pc[p] = "gone" /\ stage[p] = "no" /\ d \in Inum /\ i \in Inum /\ d # i
      /\ Unlocked(i) /\ Holds(p, d) /\ stage' = stage /\ stage'[p] = "no"
  BY UnlinksIs
<1>2. \A j : ~Emptying(p, j) /\ ~Freeing(p, j) /\ ~Emptying(p, j)' /\ ~Freeing(p, j)'
  BY <1>1, NotInIput
<1>3. /\ \A j \in Inum : Holds(p, j) <=> j = d
      /\ \A q \in Proc \ {p} : ~Holds(q, d) /\ ~Holds(q, i)
      /\ lock[d] = p /\ valid[d] /\ mem[d] = disk[d] /\ disk[d].type # "free"
      /\ \A j \in Inum : lock[j] = p <=> j = d
  BY <1>0, <1>1, <1>2, HeldIs DEF Holds, Unlocked, Locks
<1>4. CASE Reads(i) /\ ents' = ents /\ lock' = lock /\ After(p, "held", op[p], d, None, None)
  <2>1. Left(p, "held", d, None, None, "no")
    BY <1>0, <1>1, <1>4, LeftIs
  <2>2. \A j \in Inum : Holds(p, j)' <=> j = d
    BY <1>2, <2>1 DEF Left, Holds
  <2>3. \A j \in Inum : Quiet(j)
    BY <1>0, <1>1, <1>4, ReadsQuiet
  <2>4. LocksOf(p)
    <3>1. \A j \in Inum : valid'[j] <=> (j = i \/ valid[j])
      BY <1>0, <1>4 DEF Reads, Types, Store
    <3>2. ~Emptying(p, ip[p])' /\ ~Emptying(p, at[p])'
      BY <1>1 DEF Emptying
    <3> QED BY <1>3, <1>4, <2>2, <3>1, <3>2 DEF LocksOf
  <2>5. CachedOf(p)
    BY <1>2, <2>3 DEF CachedOf, Quiet, Unlocked
  <2>6. SettledOf(p)
    BY <1>2, <1>4, <2>1 DEF SettledOf, Left, Reads
  <2>7. SeenOf(p)
    BY <1>4, <2>1 DEF SeenOf, Left
  <2> QED BY <2>4, <2>5, <2>6, <2>7 DEF Rest
<1>5. CASE LET r == Counting(d, IF disk[i].type = "dir" THEN -1 ELSE 0) IN
           /\ disk' = [disk EXCEPT ![d] = r]
           /\ mem' = [mem EXCEPT ![d] = r, ![i] = disk[i]]
           /\ valid' = [valid EXCEPT ![i] = TRUE]
           /\ ents' = [ents EXCEPT ![d][name[p]] = None]
           /\ lock' = [lock EXCEPT ![d] = None, ![i] = p]
           /\ After(p, "cut", op[p], None, i, None)
  <2> DEFINE r == Counting(d, IF disk[i].type = "dir" THEN -1 ELSE 0)
  <2>1. Left(p, "cut", None, i, None, "no")
    BY <1>0, <1>1, <1>5, LeftIs
  <2>2. \A j \in Inum : Holds(p, j)' <=> j = i
    BY <1>2, <2>1 DEF Left, Holds
  <2>3. /\ \A j \in Inum : valid'[j] <=> (j = i \/ valid[j])
        /\ \A j \in Inum : lock'[j] = IF j = i THEN p ELSE IF j = d THEN None ELSE lock[j]
        /\ \A j \in Inum : ents'[j] # ents[j] => j = d
    BY <1>0, <1>1, <1>5 DEF Types, Store
  <2>4. /\ r.type = disk[d].type
        /\ \A j \in Inum : disk'[j] = IF j = d THEN r ELSE disk[j]
        /\ \A j \in Inum : mem'[j] = IF j = i THEN disk[i] ELSE IF j = d THEN r ELSE mem[j]
    <3>1. (IF disk[i].type = "dir" THEN -1 ELSE 0) \in Int
      OBVIOUS
    <3>2. r.type = disk[d].type
      BY <1>0, <1>1, <3>1, CountingType
    <3> HIDE DEF r
    <3>3. disk' = [disk EXCEPT ![d] = r] /\ mem' = [mem EXCEPT ![d] = r, ![i] = disk[i]]
      BY <1>5 DEF r
    <3> QED BY <1>0, <1>1, <3>2, <3>3 DEF Types, Store
  <2> HIDE DEF r
  <2>5. LocksOf(p)
    <3>1. \A j \in Inum : lock'[j] = p <=> Holds(p, j)'
      BY <1>3, <2>2, <2>3, ConstFacts
    <3>2. \A j \in Inum : lock'[j] # lock[j] => {lock[j], lock'[j]} \subseteq {None, p}
      BY <1>1, <1>3, <2>3 DEF Unlocked
    <3>3. ~Emptying(p, ip[p])'
      BY <1>1 DEF Emptying
    <3> QED BY <2>1, <2>2, <2>3, <3>1, <3>2, <3>3 DEF LocksOf, Left
  <2>6. CachedOf(p)
    <3> SUFFICES ASSUME NEW j \in Inum, valid'[j]
                 PROVE  \/ valid[j] /\ mem'[j] = mem[j] /\ disk'[j] = disk[j] /\ ~Freeing(p, j)
                        \/ mem'[j] = disk'[j] /\ disk'[j].type # "free"
      BY DEF CachedOf
    <3>1. CASE j = i
      BY <1>1, <2>4, <3>1 DEF Unlocked
    <3>2. CASE j = d
      BY <1>1, <1>3, <2>4, <3>2
    <3>3. CASE j # i /\ j # d
      BY <1>2, <2>3, <2>4, <3>3
    <3> QED BY <3>1, <3>2, <3>3
  <2>7. SettledOf(p)
    BY <1>2, <2>1, <2>4 DEF SettledOf, Left
  <2>8. SeenOf(p)
    BY <1>3, <2>1, <2>3 DEF SeenOf, Left
  <2> QED BY <2>5, <2>6, <2>7, <2>8 DEF Rest
<1> QED BY <1>4, <1>5, UnlinksIs

LEMMA UnlinkCutRest ==
  ASSUME IInv, NEW p \in Proc, Keeps(p), UnlinkCut(p)
  PROVE  Rest(p)
<1> DEFINE i == ip[p]
<1>0. Types /\ Locks /\ Cached /\ Types' /\ Others(p)
  BY DEF IInv, Keeps
<1>1. /\ pc[p] = "cut" /\ stage[p] = "no" /\ i \in Inum /\ disk[i].type # "free"
      /\ Writes(i, Counting(i, -1)) /\ lock' = [lock EXCEPT ![i] = None]
      /\ After(p, "out", None, None, None, None)
      /\ UNCHANGED <<ents, stage>> /\ stage'[p] = "no"
  BY UnlinkCutIs
<1>2. \A j : ~Emptying(p, j) /\ ~Freeing(p, j) /\ ~Emptying(p, j)' /\ ~Freeing(p, j)'
  BY <1>1, NotInIput
<1>3. Left(p, "out", None, None, None, "no")
  BY <1>0, <1>1, LeftIs
<1>4. \A j \in Inum : (Holds(p, j) <=> j = i) /\ ~Holds(p, j)' /\ (lock[j] = p <=> j = i)
  BY <1>0, <1>1, <1>2, <1>3 DEF Left, Holds, Locks
<1>5. /\ \A j \in Inum : valid'[j] <=> (j = i \/ valid[j])
      /\ \A j \in Inum : lock'[j] = IF j = i THEN None ELSE lock[j]
  BY <1>0, <1>1 DEF Writes, Types, Store
<1>6. /\ Counting(i, -1).type = disk[i].type
      /\ \A j \in Inum : disk'[j] = IF j = i THEN Counting(i, -1) ELSE disk[j]
      /\ \A j \in Inum : mem'[j] = IF j = i THEN Counting(i, -1) ELSE mem[j]
  <2>1. -1 \in Int
    OBVIOUS
  <2> QED BY <1>0, <1>1, <2>1, CountingType DEF Writes, Types, Store
<1>7. LocksOf(p)
  BY <1>3, <1>4, <1>5, ConstFacts DEF LocksOf, Left
<1>8. CachedOf(p)
  BY <1>1, <1>2, <1>5, <1>6 DEF CachedOf
<1>9. SettledOf(p)
  BY <1>2, <1>3, <1>6 DEF SettledOf, Left
<1>10. SeenOf(p)
  BY <1>1, <1>3 DEF SeenOf, Left
<1> QED BY <1>7, <1>8, <1>9, <1>10 DEF Rest

LEMMA CreateAllocRest ==
  ASSUME IInv, NEW p \in Proc, Keeps(p), NEW i \in Inum, CreateAlloc(p, i)
  PROVE  Rest(p)
<1> DEFINE d == at[p]
<1>0. Types /\ Locks /\ Cached /\ Types' /\ Others(p)
  BY DEF IInv, Keeps
<1>1. /\ pc[p] = "parent" /\ stage[p] = "no" /\ d \in Inum
      /\ disk[d].type = "dir" /\ Unlocked(d) /\ disk[i].type = "free" /\ d # i
      /\ ents[d][name[p]] = None /\ After(p, "made", op[p], d, i, name[p])
      /\ UNCHANGED <<ents, stage>> /\ stage'[p] = "no"
      /\ lock' = [lock EXCEPT ![d] = p] /\ valid' = [valid EXCEPT ![d] = TRUE]
      /\ mem' = [mem EXCEPT ![d] = disk[d]]
      /\ \E t \in {"dir", "file"} : disk' = [disk EXCEPT ![i] = [type |-> t, nlink |-> 0]]
                                  /\ (t = "dir" <=> op[p] = "mkdir")
  BY CreateAllocIs
<1>2. \A j : ~Emptying(p, j) /\ ~Freeing(p, j) /\ ~Emptying(p, j)' /\ ~Freeing(p, j)'
  BY <1>1, NotInIput
<1>3. Left(p, "made", d, i, name[p], "no")
  BY <1>0, <1>1, LeftIs
<1>4. \A j \in Inum : ~Holds(p, j) /\ (Holds(p, j)' <=> j = d) /\ lock[j] # p
  BY <1>0, <1>1, <1>2, <1>3 DEF Left, Holds, Locks
<1>5. /\ \A j \in Inum : valid'[j] <=> (j = d \/ valid[j])
      /\ \A j \in Inum : lock'[j] = IF j = d THEN p ELSE lock[j]
      /\ \A j \in Inum : mem'[j] = IF j = d THEN disk[d] ELSE mem[j]
      /\ \A j \in Inum : j # i => disk'[j] = disk[j]
  <2>1. PICK r : disk' = [disk EXCEPT ![i] = r]
    BY <1>1
  <2>2. /\ lock' = [lock EXCEPT ![d] = p] /\ valid' = [valid EXCEPT ![d] = TRUE]
        /\ mem' = [mem EXCEPT ![d] = disk[d]]
    BY <1>1
  <2> QED BY <1>0, <1>1, <2>1, <2>2 DEF Types, Store
<1>6. LocksOf(p)
  <2>1. \A j \in Inum : lock'[j] # lock[j] => {lock[j], lock'[j]} \subseteq {None, p}
    BY <1>1, <1>5 DEF Unlocked
  <2> QED BY <1>3, <1>4, <1>5, <2>1 DEF LocksOf, Left
<1>7. CachedOf(p)
  <2> SUFFICES ASSUME NEW j \in Inum, valid'[j]
               PROVE  \/ valid[j] /\ mem'[j] = mem[j] /\ disk'[j] = disk[j] /\ ~Freeing(p, j)
                      \/ mem'[j] = disk'[j] /\ disk'[j].type # "free"
                      \/ \E q \in Proc : Freeing(q, j)'
    BY DEF CachedOf
  <2>1. CASE j = d
    BY <1>1, <1>5, <2>1
  <2>2. CASE j = i
    <3>1. PICK q \in Proc : Freeing(q, i)
      BY <1>0, <1>1, <1>5, <2>2 DEF Cached
    <3>2. q # p
      BY <1>2, <3>1
    <3> QED BY <1>0, <2>2, <3>1, <3>2, OthersHold
  <2>3. CASE j # d /\ j # i
    BY <1>2, <1>5, <2>3
  <2> QED BY <2>1, <2>2, <2>3
<1>8. SettledOf(p)
  <2>1. \A j \in Inum : \A q \in Proc \ {p} : Emptying(q, j)' => Holds(q, j)
    BY <1>0, OthersHold DEF Holds
  <2>2. at'[p] = d
    BY <1>3 DEF Left
  <2>3. \A q \in Proc : ~Emptying(q, at[p])'
    BY <1>1, <1>2, <2>1, <2>2 DEF Unlocked, Emptying
  <2> QED BY <1>1, <1>2, <1>5, <2>2, <2>3 DEF SettledOf
<1>9. SeenOf(p)
  BY <1>1, <1>3 DEF SeenOf, Left
<1> QED BY <1>6, <1>7, <1>8, <1>9 DEF Rest

LEMMA CreateMadeRest ==
  ASSUME IInv, NEW p \in Proc, Keeps(p), CreateMade(p)
  PROVE  Rest(p)
<1> DEFINE d == at[p]
           i == ip[p]
           r == [disk[i] EXCEPT !.nlink = 1]
           c == Counting(d, 1)
<1>0. Types /\ Locks /\ Cached /\ Types' /\ Others(p)
  BY DEF IInv, Keeps
<1>1. /\ pc[p] = "made" /\ stage[p] = "no" /\ d \in Inum /\ i \in Inum /\ d # i
      /\ Unlocked(i) /\ Holds(p, d) /\ lock' = [lock EXCEPT ![d] = None]
      /\ After(p, "out", None, None, None, None) /\ stage' = stage /\ stage'[p] = "no"
  BY CreateMadeIs
<1>2. \A j : ~Emptying(p, j) /\ ~Freeing(p, j) /\ ~Emptying(p, j)' /\ ~Freeing(p, j)'
  BY <1>1, NotInIput
<1>3. Left(p, "out", None, None, None, "no")
  BY <1>0, <1>1, LeftIs
<1>4. /\ \A j \in Inum : (Holds(p, j) <=> j = d) /\ ~Holds(p, j)' /\ (lock[j] = p <=> j = d)
      /\ \A q \in Proc \ {p} : ~Holds(q, d) /\ ~Holds(q, i)
      /\ valid[d] /\ mem[d] = disk[d] /\ disk[d].type # "free"
  BY <1>0, <1>1, <1>2, <1>3, HeldIs DEF Left, Holds, Unlocked, Locks
<1>5. r.type = disk[i].type /\ c.type = disk[d].type
  BY <1>0, <1>1, FirstLinkType, CountingType
<1>6. \/ /\ ents' = [ents EXCEPT ![d][name[p]] = i] /\ Writes(i, r)
      \/ /\ ents' = [ents EXCEPT ![d][name[p]] = i, ![i] = Dots(d)]
         /\ disk' = [disk EXCEPT ![i] = r, ![d] = c]
         /\ mem' = [mem EXCEPT ![i] = r, ![d] = c]
         /\ valid' = [valid EXCEPT ![i] = TRUE]
  BY CreateMadeIs, Zenon
<1> HIDE DEF r, c
<1>7. /\ \A j \in Inum : valid'[j] <=> (j = i \/ valid[j])
      /\ \A j \in Inum : lock'[j] = IF j = d THEN None ELSE lock[j]
      /\ \A j \in Inum : ents'[j] # ents[j] => j \in {d, i}
  BY <1>0, <1>1, <1>6 DEF Writes, Types, Store
<1>8. \A j \in Inum : /\ j \notin {d, i} => disk'[j] = disk[j] /\ mem'[j] = mem[j]
                      /\ j \in {d, i} => mem'[j] = disk'[j]
                      /\ disk'[j].type = disk[j].type
  BY <1>0, <1>1, <1>4, <1>5, <1>6 DEF Writes, Types, Store
<1>9. LocksOf(p)
  BY <1>3, <1>4, <1>7, ConstFacts DEF LocksOf, Left
<1>10. CachedOf(p)
  BY <1>1, <1>2, <1>4, <1>7, <1>8 DEF CachedOf, Unlocked
<1>11. SettledOf(p)
  BY <1>2, <1>3, <1>8 DEF SettledOf, Left
<1>12. SeenOf(p)
  BY <1>3, <1>4, <1>7 DEF SeenOf, Left
<1> QED BY <1>9, <1>10, <1>11, <1>12 DEF Rest

LEMMA DropRest ==
  ASSUME IInv, NEW p \in Proc, Keeps(p), puts[p] # <<>>, stage[p] \in {"no", "drop"},
         Drops(p, Head(puts[p]))
  PROVE  Rest(p)
<1> DEFINE i == Head(puts[p])
<1>0. Types /\ Shape /\ RefsExact /\ Locks /\ Settled /\ Seen /\ Types' /\ Others(p)
  BY DEF IInv, Keeps
<1>1. /\ i \in Inum /\ UNCHANGED <<disk, ents, lock>>
      /\ Left(p, pc[p], at[p], ip[p], name[p], "no")
  BY <1>0, PutsOf DEF Drops, After, Left, Types, Calls
<1>2. \A j : ~Emptying(p, j) /\ ~Freeing(p, j) /\ ~Emptying(p, j)' /\ ~Freeing(p, j)'
  BY <1>1 DEF Left, Emptying, Freeing
<1>3. \A j \in Inum : Holds(p, j)' <=> Holds(p, j)
  BY <1>1, <1>2 DEF Left, Holds
<1>4. /\ \A j \in Inum : valid'[j] => valid[j]
      /\ \A j \in Inum : valid'[j] => mem'[j] = mem[j]
      /\ \A j \in Inum : valid[j] /\ ~valid'[j] => j = i /\ ~(ref[i] > 1)
  BY <1>0, <1>1 DEF Drops, Types, Store
<1>5. ASSUME ~(ref[i] > 1)
      PROVE  \A q \in Proc : ~Holds(q, i)
  <2> SUFFICES ASSUME NEW q \in Proc, Holds(q, i)
               PROVE  FALSE
    OBVIOUS
  <2>1. i \notin {cwd[q], fd[q], at[q], ip[q]}
    BY <1>0, <1>5, OnlyReference
  <2>2. Emptying(q, i)
    BY <2>1 DEF Holds
  <2>3. puts[q] # <<>> /\ stage[q] # "no"
    BY <1>0, <2>2 DEF Emptying, Shape
  <2>4. 1 \in 1 .. Len(puts[q]) /\ puts[q][1] = i
    BY <1>0, <2>2, <2>3, PutsOf DEF Emptying
  <2>5. q = p
    BY <1>0, <1>5, <2>4, OnlyReference
  <2> QED BY <1>2, <2>2, <2>5
<1>6. LocksOf(p)
  <2>1. \A j \in Inum : lock'[j] = p <=> Holds(p, j)'
    BY <1>0, <1>1, <1>3 DEF Locks
  <2>2. \A j \in Inum : Holds(p, j)' => valid'[j]
    BY <1>0, <1>3, <1>4, <1>5 DEF Locks
  <2>3. ~Emptying(p, ip[p])' /\ ~Emptying(p, at[p])'
    BY <1>1 DEF Emptying, Left
  <2> QED BY <1>1, <1>4, <1>5, <2>1, <2>2, <2>3 DEF LocksOf
<1>7. CachedOf(p)
  BY <1>1, <1>2, <1>4 DEF CachedOf
<1>8. SettledOf(p)
  <2>1. ASSUME pc[p] \in {"parent", "gone", "made"}
        PROVE  disk'[at'[p]].type = "dir" /\ \A q \in Proc : ~Emptying(q, at[p])'
    <3>1. disk[at[p]].type = "dir" /\ \A q \in Proc : ~Emptying(q, at[p])
      BY <1>0, <2>1 DEF Settled
    <3>2. at'[p] = at[p]
      BY <1>1 DEF Left
    <3>3. ASSUME NEW q \in Proc
          PROVE  ~Emptying(q, at[p])'
      <4>1. CASE q = p
        BY <1>1, <4>1 DEF Left, Emptying
      <4>2. CASE q # p
        BY <1>0, <3>1, <3>2, <4>2 DEF Others, Emptying
      <4> QED BY <4>1, <4>2
    <3> QED BY <1>1, <3>1, <3>2, <3>3
  <2> QED BY <1>1, <1>2, <2>1 DEF SettledOf, Left
<1>9. SeenOf(p)
  BY <1>0, <1>1 DEF SeenOf, Seen, Left
<1> QED BY <1>6, <1>7, <1>8, <1>9 DEF Rest

LEMMA IputLastRest ==
  ASSUME IInv, NEW p \in Proc, Keeps(p), IputLast(p)
  PROVE  Rest(p)
<1> DEFINE i == Head(puts[p])
<1>0. Types /\ Shape /\ RefsExact /\ Locks /\ Settled /\ Seen /\ Types' /\ Others(p)
  BY DEF IInv, Keeps
<1>1. /\ puts[p] # <<>> /\ stage[p] = "no" /\ i \in Inum /\ Unlocked(i)
      /\ ~(ref[i] > 1) /\ valid[i] /\ lock' = [lock EXCEPT ![i] = p]
      /\ stage' = [stage EXCEPT ![p] = "trunc"]
      /\ After(p, pc[p], op[p], at[p], ip[p], name[p])
      /\ UNCHANGED <<disk, ents, valid, mem, puts>>
  BY IputLastIs
<1>2. Left(p, pc[p], at[p], ip[p], name[p], "trunc")
  <2>1. stage'[p] = "trunc"
    BY <1>0, <1>1 DEF Types, Calls
  <2> QED BY <1>0, <1>1, <2>1, LeftIs
<1>3. \A q \in Proc : i \notin {at[q], ip[q]}
  BY <1>0, <1>1, OnlyReference
<1>4. \A j : (Emptying(p, j)' <=> j = i) /\ ~Emptying(p, j) /\ ~Freeing(p, j)
  BY <1>1, <1>2 DEF Left, Emptying, Freeing
<1>5. \A j \in Inum : Holds(p, j)' <=> Holds(p, j) \/ j = i
  BY <1>2, <1>4 DEF Left, Holds
<1>6. LocksOf(p)
  <2>1. \A j \in Inum : lock'[j] = IF j = i THEN p ELSE lock[j]
    BY <1>0, <1>1 DEF Types, Store
  <2>2. \A j \in Inum : lock'[j] = p <=> Holds(p, j)'
    BY <1>0, <1>5, <2>1 DEF Locks
  <2>3. \A j \in Inum : lock'[j] # lock[j] => {lock[j], lock'[j]} \subseteq {None, p}
    BY <1>1, <2>1 DEF Unlocked
  <2>4. \A j \in Inum : Holds(p, j)' => valid'[j]
    BY <1>0, <1>1, <1>5 DEF Locks
  <2>5. ~Emptying(p, ip[p])' /\ ~Emptying(p, at[p])'
    <3>1. ip'[p] = ip[p] /\ ip[p] # i /\ at'[p] = at[p] /\ at[p] # i
      BY <1>2, <1>3 DEF Left
    <3> QED BY <1>1, <3>1 DEF Emptying
  <2> QED BY <1>1, <2>2, <2>3, <2>4, <2>5 DEF LocksOf
<1>7. CachedOf(p)
  BY <1>1, <1>4 DEF CachedOf
<1>8. SettledOf(p)
  <2>1. ASSUME pc[p] \in {"parent", "gone", "made"}
        PROVE  disk'[at'[p]].type = "dir" /\ \A q \in Proc : ~Emptying(q, at[p])'
    <3>1. disk[at[p]].type = "dir" /\ \A q \in Proc : ~Emptying(q, at[p])
      BY <1>0, <2>1 DEF Settled
    <3>2. at'[p] = at[p] /\ at[p] # i
      BY <1>2, <1>3 DEF Left
    <3>3. ASSUME NEW q \in Proc
          PROVE  ~Emptying(q, at[p])'
      <4>1. CASE q = p
        BY <1>1, <3>2, <4>1 DEF Emptying
      <4>2. CASE q # p
        BY <1>0, <3>1, <3>2, <4>2 DEF Others, Emptying
      <4> QED BY <4>1, <4>2
    <3> QED BY <1>1, <3>1, <3>2, <3>3
  <2>2. \A j \in Inum : Emptying(p, j)' => \A q \in Proc \ {p} : at[q] # j
    BY <1>3, <1>4
  <2> QED BY <1>1, <1>2, <2>1, <2>2 DEF SettledOf, Left
<1>9. SeenOf(p)
  BY <1>0, <1>1, <1>2 DEF SeenOf, Seen, Left
<1> QED BY <1>6, <1>7, <1>8, <1>9 DEF Rest

LEMMA IputFreeRest ==
  ASSUME IInv, NEW p \in Proc, Keeps(p), IputFree(p)
  PROVE  Rest(p)
<1> DEFINE i == Head(puts[p])
<1>0. Types /\ Shape /\ Locks /\ Cached /\ Settled /\ Seen /\ Types' /\ Others(p)
  BY DEF IInv, Keeps
<1>1. /\ puts[p] # <<>> /\ stage[p] = "trunc" /\ i \in Inum /\ Holds(p, i) /\ valid[i]
      /\ ents' = [ents EXCEPT ![i] = Empty]
      /\ disk' = [disk EXCEPT ![i] = Free] /\ mem' = [mem EXCEPT ![i] = Free]
      /\ stage' = [stage EXCEPT ![p] = "free"]
      /\ After(p, pc[p], op[p], at[p], ip[p], name[p])
      /\ UNCHANGED <<valid, lock, puts>>
  BY IputFreeIs
<1>2. Left(p, pc[p], at[p], ip[p], name[p], "free")
  <2>1. stage'[p] = "free"
    BY <1>0, <1>1 DEF Types, Calls
  <2> QED BY <1>0, <1>1, <2>1, LeftIs
<1>3. \A j : (Emptying(p, j)' <=> j = i) /\ (Emptying(p, j) <=> j = i)
             /\ (Freeing(p, j)' <=> j = i) /\ ~Freeing(p, j)
  BY <1>1, <1>2 DEF Left, Emptying, Freeing
<1>4. \A j \in Inum : Holds(p, j)' <=> Holds(p, j)
  BY <1>2, <1>3 DEF Left, Holds
<1>5. \A j \in Inum : j # i => disk'[j] = disk[j] /\ mem'[j] = mem[j] /\ ents'[j] = ents[j]
  BY <1>0, <1>1 DEF Types, Store
<1>6. \A q \in Proc \ {p} : ~Holds(q, i)
  BY <1>0, <1>1, HeldIs
<1>7. pc[p] \in {"parent", "gone", "made"} => at[p] \in Inum /\ at[p] # i
  BY <1>0, <1>3 DEF Settled, Shape, Types, Calls
<1>8. LocksOf(p)
  <2>1. (pc[p] = "cut" => ip[p] # i) /\ (pc[p] = "held" => at[p] # i)
    BY <1>0, <1>3 DEF Locks
  <2>2. /\ pc'[p] = "cut" => ~Emptying(p, ip[p])'
        /\ pc'[p] = "held" => ~Emptying(p, at[p])'
    BY <1>1, <1>2, <2>1 DEF Emptying, Left
  <2> QED BY <1>0, <1>1, <1>4, <2>2 DEF LocksOf, Locks
<1>9. CachedOf(p)
  <2> SUFFICES ASSUME NEW j \in Inum, valid'[j]
               PROVE  \/ valid[j] /\ mem'[j] = mem[j] /\ disk'[j] = disk[j] /\ ~Freeing(p, j)
                      \/ Freeing(p, j)'
    BY DEF CachedOf
  <2> QED BY <1>1, <1>3, <1>5
<1>10. SettledOf(p)
  <2>1. ASSUME pc[p] \in {"parent", "gone", "made"}
        PROVE  disk'[at'[p]].type = "dir" /\ \A q \in Proc : ~Emptying(q, at[p])'
    <3>1. disk[at[p]].type = "dir" /\ \A q \in Proc : ~Emptying(q, at[p])
      BY <1>0, <2>1 DEF Settled
    <3>2. at'[p] = at[p] /\ at[p] # i /\ at[p] \in Inum
      BY <1>2, <1>7, <2>1 DEF Left
    <3>3. ASSUME NEW q \in Proc
          PROVE  ~Emptying(q, at[p])'
      <4>1. CASE q = p
        BY <1>1, <3>2, <4>1 DEF Emptying
      <4>2. CASE q # p
        BY <1>0, <3>1, <3>2, <4>2 DEF Others, Emptying
      <4> QED BY <4>1, <4>2
    <3> QED BY <1>5, <3>1, <3>2, <3>3
  <2>2. \A j \in Inum : disk[j].type = "dir" /\ disk'[j].type # "dir" => Emptying(p, j)
    BY <1>3, <1>5
  <2>3. \A j \in Inum : Emptying(p, j)' => Emptying(p, j)
    BY <1>3
  <2> QED BY <1>2, <2>1, <2>2, <2>3 DEF SettledOf, Left
<1>11. SeenOf(p)
  <2>1. pc[p] \in {"gone", "made"} => ents'[at[p]] = ents[at[p]]
    BY <1>5, <1>7
  <2>2. \A j \in Inum : ents'[j] # ents[j] => \A q \in Proc \ {p} : ~Holds(q, j)
    BY <1>5, <1>6
  <2> QED BY <1>0, <1>2, <2>1, <2>2 DEF SeenOf, Seen, Left
<1> QED BY <1>8, <1>9, <1>10, <1>11 DEF Rest

LEMMA IputInvalidRest ==
  ASSUME IInv, NEW p \in Proc, Keeps(p), IputInvalid(p)
  PROVE  Rest(p)
<1> DEFINE i == Head(puts[p])
<1>0. Types /\ Shape /\ Locks /\ Cached /\ Settled /\ Seen /\ Types' /\ Others(p)
  BY DEF IInv, Keeps
<1>1. /\ puts[p] # <<>> /\ stage[p] = "free" /\ i \in Inum /\ Holds(p, i)
      /\ valid' = [valid EXCEPT ![i] = FALSE] /\ lock' = [lock EXCEPT ![i] = None]
      /\ stage' = [stage EXCEPT ![p] = "drop"]
      /\ After(p, pc[p], op[p], at[p], ip[p], name[p])
      /\ UNCHANGED <<disk, ents, mem, puts>>
  BY IputInvalidIs
<1>2. Left(p, pc[p], at[p], ip[p], name[p], "drop")
  <2>1. stage'[p] = "drop"
    BY <1>0, <1>1 DEF Types, Calls
  <2> QED BY <1>0, <1>1, <2>1, LeftIs
<1>3. \A j : ~Emptying(p, j)' /\ (Emptying(p, j) <=> j = i) /\ (Freeing(p, j) <=> j = i)
  BY <1>1, <1>2 DEF Left, Emptying, Freeing
<1>4. /\ pc[p] \notin {"gone", "made"} /\ (pc[p] = "cut" => ip[p] # i)
      /\ pc[p] = "held" => at[p] # i
  BY <1>0, <1>1, <1>3 DEF Shape, Locks
<1>5. \A j \in Inum : Holds(p, j)' <=> Holds(p, j) /\ j # i
  BY <1>2, <1>3, <1>4 DEF Left, Holds
<1>6. /\ lock[i] = p /\ \A q \in Proc \ {p} : ~Holds(q, i)
      /\ \A j \in Inum : lock'[j] = IF j = i THEN None ELSE lock[j]
      /\ \A j \in Inum : valid'[j] <=> j # i /\ valid[j]
  BY <1>0, <1>1, HeldIs DEF Types, Store
<1>7. LocksOf(p)
  <2>1. \A j \in Inum : lock'[j] = p <=> Holds(p, j)'
    BY <1>0, <1>5, <1>6, ConstFacts DEF Locks
  <2>2. \A j \in Inum : Holds(p, j)' => valid'[j]
    BY <1>0, <1>5, <1>6 DEF Locks
  <2>3. ~Emptying(p, ip[p])' /\ ~Emptying(p, at[p])'
    BY <1>2 DEF Emptying, Left
  <2> QED BY <1>6, <2>1, <2>2, <2>3 DEF LocksOf
<1>8. CachedOf(p)
  BY <1>1, <1>3, <1>6 DEF CachedOf
<1>9. SettledOf(p)
  <2>1. ASSUME pc[p] \in {"parent", "gone", "made"}
        PROVE  disk'[at'[p]].type = "dir" /\ \A q \in Proc : ~Emptying(q, at[p])'
    <3>1. disk[at[p]].type = "dir" /\ \A q \in Proc : ~Emptying(q, at[p])
      BY <1>0, <2>1 DEF Settled
    <3>2. at'[p] = at[p]
      BY <1>2 DEF Left
    <3>3. ASSUME NEW q \in Proc
          PROVE  ~Emptying(q, at[p])'
      <4>1. CASE q = p
        BY <1>2, <4>1 DEF Emptying, Left
      <4>2. CASE q # p
        BY <1>0, <3>1, <3>2, <4>2 DEF Others, Emptying
      <4> QED BY <4>1, <4>2
    <3> QED BY <1>1, <3>1, <3>2, <3>3
  <2> QED BY <1>1, <1>2, <1>3, <2>1 DEF SettledOf, Left
<1>10. SeenOf(p)
  BY <1>1, <1>2, <1>4 DEF SeenOf, Left
<1> QED BY <1>7, <1>8, <1>9, <1>10 DEF Rest

LEMMA RestStep ==
  ASSUME IInv, NEW p \in Proc, Acts(p)
  PROVE  Rest(p)
<1>0. Keeps(p)
  BY SlotsStep
<1>1. CASE \E o \in Ops, s \in Inum : Call(p, o, s)
  BY <1>0, <1>1, CallPlain, PlainKeeps DEF Rest
<1>2. CASE WalkNothing(p)
  BY <1>0, <1>2, WalkNothingPlain, PlainKeeps DEF Rest
<1>3. CASE \E n \in Names : WalkFails(p, n)
  BY <1>0, <1>3, WalkFailsPlain, PlainKeeps DEF Rest
<1>4. CASE \E n \in Names, last \in BOOLEAN : WalkInto(p, n, last)
  BY <1>0, <1>4, WalkIntoPlain, PlainKeeps DEF Rest
<1>5. CASE \E n \in Names : WalkParent(p, n)
  BY <1>0, <1>5, WalkParentPlain, PlainKeeps DEF Rest
<1>6. CASE Open(p)
  BY <1>0, <1>6, OpenPlain, PlainKeeps DEF Rest
<1>7. CASE Chdir(p)
  BY <1>0, <1>7, ChdirPlain, PlainKeeps DEF Rest
<1>8. CASE Close(p)
  BY <1>0, <1>8, ClosePlain, PlainKeeps DEF Rest
<1>9. CASE \E s \in Inum : LinkFound(p, s)
  BY <1>0, <1>9, LinkFoundPlain, PlainKeeps DEF Rest
<1>10. CASE Link(p)
  BY <1>0, <1>10, LinkPlain, PlainKeeps DEF Rest
<1>11. CASE LinkUndo(p)
  BY <1>0, <1>11, LinkUndoPlain, PlainKeeps DEF Rest
<1>12. CASE UnlinkLook(p)
  BY <1>0, <1>12, UnlinkLookRest
<1>13. CASE Unlinks(p)
  BY <1>0, <1>13, UnlinksRest
<1>14. CASE UnlinkCut(p)
  BY <1>0, <1>14, UnlinkCutRest
<1>15. CASE CreateFound(p)
  BY <1>0, <1>15, CreateFoundPlain, PlainKeeps DEF Rest
<1>16. CASE CreateOld(p)
  BY <1>0, <1>16, CreateOldPlain, PlainKeeps DEF Rest
<1>17. CASE \E i \in Inum : CreateAlloc(p, i)
  BY <1>0, <1>17, CreateAllocRest
<1>18. CASE CreateMade(p)
  BY <1>0, <1>18, CreateMadeRest
<1>19. CASE IputRef(p)
  BY <1>0, <1>19, IputRefIs, DropRest
<1>20. CASE IputLast(p)
  BY <1>0, <1>20, IputLastRest
<1>21. CASE IputFree(p)
  BY <1>0, <1>21, IputFreeRest
<1>22. CASE IputInvalid(p)
  BY <1>0, <1>22, IputInvalidRest
<1>23. CASE IputDrop(p)
  BY <1>0, <1>23, IputDropIs, DropRest
<1>24. CASE LinkTaken(p)
  BY <1>0, <1>24, LinkTakenRest
<1>25. CASE Refuse(p)
  BY <1>0, <1>25, RefuseRest
<1> QED
  BY <1>1, <1>2, <1>3, <1>4, <1>5, <1>6, <1>7, <1>8, <1>9, <1>10, <1>11, <1>12,
     <1>13, <1>14, <1>15, <1>16, <1>17, <1>18, <1>19, <1>20, <1>21, <1>22, <1>23,
     <1>24, <1>25 DEF Acts

LEMMA PanickedStep ==
  ASSUME IInv, NEW p \in Proc, Acts(p)
  PROVE  panicked' = panicked
<1>1. CASE \E o \in Ops, s \in Inum : Call(p, o, s)
  BY <1>1, CallIs
<1>2. CASE WalkNothing(p)
  BY <1>2, WalkNothingIs
<1>3. CASE \E n \in Names : WalkFails(p, n)
  BY <1>3, WalkFailsIs
<1>4. CASE \E n \in Names, last \in BOOLEAN : WalkInto(p, n, last)
  BY <1>4, WalkIntoIs
<1>5. CASE \E n \in Names : WalkParent(p, n)
  BY <1>5, WalkParentIs
<1>6. CASE Open(p)
  BY <1>6, OpenIs
<1>7. CASE Chdir(p)
  BY <1>7, ChdirIs
<1>8. CASE Close(p)
  BY <1>8, CloseIs
<1>9. CASE \E s \in Inum : LinkFound(p, s)
  BY <1>9, LinkFoundIs
<1>10. CASE Link(p)
  BY <1>10, LinkIs
<1>11. CASE LinkUndo(p)
  BY <1>11, LinkUndoIs
<1>12. CASE UnlinkLook(p)
  BY <1>12, UnlinkLookIs
<1>13. CASE Unlinks(p)
  BY <1>13, UnlinksIs
<1>14. CASE UnlinkCut(p)
  BY <1>14, UnlinkCutIs
<1>15. CASE CreateFound(p)
  BY <1>15, CreateFoundIs
<1>16. CASE CreateOld(p)
  BY <1>16, CreateOldIs
<1>17. CASE \E i \in Inum : CreateAlloc(p, i)
  BY <1>17, CreateAllocIs
<1>18. CASE CreateMade(p)
  BY <1>18, CreateMadeIs
<1>19. CASE IputRef(p)
  BY <1>19, IputRefIs DEF Drops
<1>20. CASE IputLast(p)
  BY <1>20, IputLastIs
<1>21. CASE IputFree(p)
  BY <1>21, IputFreeIs
<1>22. CASE IputInvalid(p)
  BY <1>22, IputInvalidIs
<1>23. CASE IputDrop(p)
  BY <1>23, IputDropIs DEF Drops
<1>24. CASE LinkTaken(p)
  BY <1>24, LinkTakenIs
<1>25. CASE Refuse(p)
  BY <1>25, RefuseIs
<1> QED
  BY <1>1, <1>2, <1>3, <1>4, <1>5, <1>6, <1>7, <1>8, <1>9, <1>10, <1>11, <1>12,
     <1>13, <1>14, <1>15, <1>16, <1>17, <1>18, <1>19, <1>20, <1>21, <1>22, <1>23,
     <1>24, <1>25 DEF Acts

LEMMA ActsKeepIInv ==
  ASSUME IInv, NEW p \in Proc, Acts(p)
  PROVE  IInv'
<1>1. Keeps(p) /\ Rest(p) /\ panicked' = panicked
  BY SlotsStep, RestStep, PanickedStep
<1>2. Types' /\ Shape' /\ RefsExact'
  BY <1>1 DEF Keeps
<1>3. Locks' /\ Cached' /\ Settled' /\ Seen'
  BY <1>1, LocksStep, CachedStep, SettledStep, SeenStep DEF Rest
<1>4. Panics'
  BY <1>1 DEF IInv, Panics
<1> QED BY <1>2, <1>3, <1>4 DEF IInv

LEMMA SameKeepsIInv ==
  ASSUME IInv, UNCHANGED <<disk, ents, ref, valid, mem, lock, pc, op, puts, stage,
                           at, ip, name, cwd, fd>>,
         panicked' \in {panicked, "ialloc: no inodes", "iget: no inodes", "ilock: no type",
                        "unlink: nlink < 1"}
  PROVE  IInv'
<1>1. Types'
  BY DEF IInv, Types, Store, Calls
<1>2. Shape'
  BY DEF IInv, Shape
<1>3. RefsExact'
  BY DEF IInv, RefsExact, References
<1>4. Locks'
  <2>1. \A p \in Proc, i \in Inum : (Holds(p, i)' <=> Holds(p, i)) /\ (Emptying(p, i)' <=> Emptying(p, i))
    BY DEF Holds, Emptying
  <2>2. \A p \in Proc : /\ Emptying(p, ip[p])' <=> Emptying(p, ip[p])
                        /\ Emptying(p, at[p])' <=> Emptying(p, at[p])
    BY DEF Emptying
  <2> QED BY <2>1, <2>2 DEF IInv, Locks
<1>5. Cached'
  BY DEF IInv, Cached, Freeing
<1>6. Settled'
  BY DEF IInv, Settled, Emptying
<1>7. Seen'
  BY DEF IInv, Seen
<1>8. Panics'
  BY DEF IInv, Panics
<1> QED BY <1>1, <1>2, <1>3, <1>4, <1>5, <1>6, <1>7, <1>8 DEF IInv

LEMMA StepKeepsIInv ==
  ASSUME IInv, [Next]_vars
  PROVE  IInv'
<1>1. CASE UNCHANGED vars
  BY <1>1, SameKeepsIInv DEF vars, cache, local
<1>2. CASE Next
  <2>1. CASE \E p \in Proc : Acts(p)
    BY <2>1, ActsKeepIInv
  <2>2. ASSUME NEW why \in {"ialloc: no inodes", "iget: no inodes", "ilock: no type",
                            "unlink: nlink < 1"},
               Panic(why)
        PROVE  IInv'
    BY <2>2, PanicIs, SameKeepsIInv
  <2> QED BY <1>2, <2>1, <2>2, NextIs
<1> QED BY <1>1, <1>2

-----------------------------------------------------------------------------
(* The initial states                                                      *)
Used(type) == {i \in Inum \ {ROOTINO} : type[i] # "free"}
Above(home, d) == IF d = ROOTINO THEN d ELSE home[d][1]
Below(type, home, i) == {j \in Used(type) : Above(home, j) = i /\ type[j] = "dir"}

(* The tree that Init chooses, as the disk shows it.                       *)
Grown(type, home) ==
  /\ type[ROOTINO] = "dir"
  /\ \A i \in Inum : type[i] \in {"free", "dir", "file"} /\ Above(home, i) \in Inum
  /\ \A i \in Used(type) : Above(home, i) < i /\ type[Above(home, i)] = "dir"
                           /\ home[i] = <<Above(home, i), home[i][2]>> /\ home[i][2] \in Name
  /\ \A i, j \in Used(type) : home[i] = home[j] => i = j
  /\ ents \in [Inum -> [Names -> Inum \cup {None}]]
  /\ \A d \in Inum : /\ type[d] # "dir" => ents[d] = Empty
                     /\ type[d] = "dir" => ents[d][".."] = Above(home, d)
  /\ \A d \in Inum, n \in Name, i \in Inum :
       type[d] = "dir" => (ents[d][n] = i <=> i \in Used(type) /\ home[i] = <<d, n>>)
  /\ disk \in [Inum -> Inode]
  /\ \A i \in Inum : /\ disk[i].type = type[i]
                     /\ type[i] = "free" => disk[i].nlink = 0
                     /\ type[i] # "free" => disk[i].nlink = 1 + Cardinality(Below(type, home, i))

LEMMA InitGrows ==
  ASSUME Init
  PROVE  \E type, home : Grown(type, home)
<1>1. PICK type \in [Inum -> {"free", "dir", "file"}], home \in [Inum \ {ROOTINO} -> Inum \X Name] :
        LET used == {i \in Inum \ {ROOTINO} : type[i] # "free"}
            Up(d) == IF d = ROOTINO THEN d ELSE home[d][1] IN
        /\ type[ROOTINO] = "dir"
        /\ \A i \in used : Up(i) < i /\ type[Up(i)] = "dir"
        /\ \A i, j \in used : home[i] = home[j] => i = j
        /\ ents = [d \in Inum |-> IF type[d] # "dir" THEN Empty ELSE [n \in Names |->
                     IF n = ".." THEN Up(d) ELSE IF <<d, n>> \notin {home[i] : i \in used} THEN None
                     ELSE CHOOSE i \in used : home[i] = <<d, n>>]]
        /\ disk = [i \in Inum |-> IF type[i] = "free" THEN Free ELSE [type |-> type[i],
                     nlink |-> 1 + Cardinality({j \in used : Up(j) = i /\ type[j] = "dir"})]]
  BY DEF Init
<1> DEFINE used == Used(type)
           up(d) == Above(home, d)
<1>2. /\ type[ROOTINO] = "dir"
      /\ \A i \in used : up(i) < i /\ type[up(i)] = "dir"
      /\ \A i, j \in used : home[i] = home[j] => i = j
  BY <1>1 DEF Used, Above
<1>3. ents = [d \in Inum |-> IF type[d] # "dir" THEN Empty ELSE [n \in Names |->
                IF n = ".." THEN up(d) ELSE IF <<d, n>> \notin {home[i] : i \in used} THEN None
                ELSE CHOOSE i \in used : home[i] = <<d, n>>]]
  BY <1>1, Zenon DEF Used, Above
<1>4. disk = [i \in Inum |-> IF type[i] = "free" THEN Free ELSE
                [type |-> type[i], nlink |-> 1 + Cardinality(Below(type, home, i))]]
  BY <1>1, Zenon DEF Used, Above, Below
<1>5. used \subseteq Inum /\ ROOTINO \notin used
  BY DEF Used
<1>6. \A i \in Inum : type[i] \in {"free", "dir", "file"} /\ up(i) \in Inum
  BY ConstFacts DEF Above
<1>7. \A i \in used : home[i] = <<up(i), home[i][2]>> /\ home[i][2] \in Name
  BY <1>5 DEF Above
<1>8. ASSUME NEW d \in Inum, NEW n \in Name, type[d] = "dir"
      PROVE  /\ ents[d][n] \in used \cup {None}
             /\ \A i \in Inum : ents[d][n] = i <=> i \in used /\ home[i] = <<d, n>>
  <2>1. ents[d][n] = IF <<d, n>> \notin {home[i] : i \in used} THEN None
                     ELSE CHOOSE i \in used : home[i] = <<d, n>>
    BY <1>3, <1>8, ConstFacts
  <2>2. CASE <<d, n>> \notin {home[i] : i \in used}
    BY <2>1, <2>2, ConstFacts
  <2>3. CASE <<d, n>> \in {home[i] : i \in used}
    <3>1. \E i \in used : home[i] = <<d, n>>
      BY <2>3
    <3>2. PICK k : k = (CHOOSE i \in used : home[i] = <<d, n>>)
      OBVIOUS
    <3>3. k \in used /\ home[k] = <<d, n>>
      BY <3>1, <3>2
    <3>4. ents[d][n] = k
      BY <2>1, <2>3, <3>2
    <3> QED BY <1>2, <3>3, <3>4
  <2> QED BY <2>2, <2>3
<1>9. ents \in [Inum -> [Names -> Inum \cup {None}]]
  <2>1. \A d \in Inum : ents[d] \in [Names -> Inum \cup {None}]
    <3> SUFFICES ASSUME NEW d \in Inum
                 PROVE  ents[d] \in [Names -> Inum \cup {None}]
      OBVIOUS
    <3>1. CASE type[d] # "dir"
      BY <1>3, <3>1 DEF Empty
    <3>2. CASE type[d] = "dir"
      <4>1. \A n \in Name : ents[d][n] \in Inum \cup {None}
        BY <1>5, <1>8, <3>2
      <4>2. ents[d][".."] \in Inum
        BY <1>3, <1>6, <3>2, ConstFacts
      <4>3. ents[d] = [n \in Names |-> ents[d][n]]
        BY <1>3, <3>2
      <4> QED BY <4>1, <4>2, <4>3, ConstFacts
    <3> QED BY <3>1, <3>2
  <2>2. ents = [d \in Inum |-> ents[d]]
    BY <1>3
  <2> QED BY <2>1, <2>2
<1>10. \A d \in Inum : /\ type[d] # "dir" => ents[d] = Empty
                       /\ type[d] = "dir" => ents[d][".."] = up(d)
  BY <1>3, ConstFacts
<1>11. \A i \in Inum : Cardinality(Below(type, home, i)) \in Nat
  <2> SUFFICES ASSUME NEW i \in Inum
               PROVE  Cardinality(Below(type, home, i)) \in Nat
    OBVIOUS
  <2>1. Below(type, home, i) \in SUBSET Inum
    BY DEF Below, Used
  <2> QED BY <2>1, ConstFacts, FS_Subset, FS_CardinalityType
<1>12. disk \in [Inum -> Inode]
  BY <1>4, <1>6, <1>11 DEF Inode, Free
<1>13. \A i \in Inum : /\ disk[i].type = type[i]
                       /\ type[i] = "free" => disk[i].nlink = 0
                       /\ type[i] # "free" => disk[i].nlink = 1 + Cardinality(Below(type, home, i))
  BY <1>4 DEF Free
<1>14. Grown(type, home)
  BY <1>2, <1>6, <1>7, <1>8, <1>9, <1>10, <1>12, <1>13 DEF Grown
<1> QED BY <1>14

(* A set has as many elements as one it is mapped onto, one to one.        *)
LEMMA SameSize ==
  ASSUME NEW S, NEW T, IsFiniteSet(S), NEW f \in [S -> T],
         \A x, y \in S : f[x] = f[y] => x = y, \A t \in T : \E x \in S : f[x] = t
  PROVE  IsFiniteSet(T) /\ Cardinality(T) = Cardinality(S)
<1>1. f \in Bijection(S, T)
  BY Fun_IsBij
<1>2. ExistsBijection(S, T)
  BY <1>1 DEF ExistsBijection
<1> QED BY <1>2, FS_Bijection

LEMMA InitIInv ==
  ASSUME Init
  PROVE  IInv
<1>0. PICK type, home : Grown(type, home)
  BY InitGrows
<1>1. /\ cwd \in [Proc -> {i \in Inum : disk[i].type = "dir"}]
      /\ ref = [i \in Inum |-> Cardinality({p \in Proc : cwd[p] = i})]
      /\ valid = [i \in Inum |-> FALSE] /\ mem = [i \in Inum |-> Free]
      /\ lock = [i \in Inum |-> None] /\ panicked = None
      /\ pc = [p \in Proc |-> "out"] /\ op = [p \in Proc |-> None]
      /\ puts = [p \in Proc |-> <<>>] /\ stage = [p \in Proc |-> "no"]
      /\ at = [p \in Proc |-> None] /\ ip = [p \in Proc |-> None]
      /\ name = [p \in Proc |-> None]
      /\ fd = [p \in Proc |-> None]
  BY DEF Init
<1>2. \A i \in Inum : IsFiniteSet({p \in Proc : cwd[p] = i})
                      /\ Cardinality({p \in Proc : cwd[p] = i}) \in Nat
  <2> SUFFICES ASSUME NEW i \in Inum
               PROVE  IsFiniteSet({p \in Proc : cwd[p] = i})
                      /\ Cardinality({p \in Proc : cwd[p] = i}) \in Nat
    OBVIOUS
  <2>1. {p \in Proc : cwd[p] = i} \in SUBSET Proc
    OBVIOUS
  <2> QED BY <2>1, ConstFacts, FS_Subset, FS_CardinalityType
<1>3. Types
  <2>1. Store
    <3>1. Free \in Inode
      BY DEF Free, Inode
    <3>2. ref \in [Inum -> Int]
      <4>1. ASSUME NEW i \in Inum
            PROVE  ref[i] \in Int
        <5> DEFINE C == {p \in Proc : cwd[p] = i}
        <5>1. ref[i] = Cardinality(C) /\ Cardinality(C) \in Nat
          BY <1>1, <1>2
        <5> HIDE DEF C
        <5> QED BY <5>1
      <4>2. ref = [i \in Inum |-> ref[i]]
        BY <1>1
      <4> QED BY <4>1, <4>2
    <3> QED BY <1>0, <1>1, <3>1, <3>2 DEF Store, Grown
  <2>2. Calls
    BY <1>1, SeqFacts DEF Calls, Pcs, Stages
  <2> QED BY <2>1, <2>2 DEF Types
<1>4. Shape
  BY <1>1, SeqFacts DEF Shape
<1>5. RefsExact
  <2> SUFFICES ASSUME NEW i \in Inum
               PROVE  ref[i] = References(i)
    BY DEF RefsExact
  <2> DEFINE C == {p \in Proc : cwd[p] = i}
             K == {e \in Proc \X (1 .. 4) : <<cwd, fd, at, ip>>[e[2]][e[1]] = i}
             O == {e \in Proc \X (1 .. 3) : e[2] <= Len(puts[e[1]]) /\ puts[e[1]][e[2]] = i}
  <2>1. O = {}
    BY <1>1, SeqFacts
  <2>2. \A e \in Proc \X (1 .. 4) : <<cwd, fd, at, ip>>[e[2]][e[1]] = i <=> e[2] = 1 /\ cwd[e[1]] = i
    <3> SUFFICES ASSUME NEW e \in Proc \X (1 .. 4)
                 PROVE  <<cwd, fd, at, ip>>[e[2]][e[1]] = i <=> e[2] = 1 /\ cwd[e[1]] = i
      OBVIOUS
    <3>1. e[2] = 1 \/ e[2] = 2 \/ e[2] = 3 \/ e[2] = 4
      OBVIOUS
    <3>2. e[1] \in Proc
      OBVIOUS
    <3> QED BY <1>1, <3>1, <3>2, ConstFacts
  <2>3. Cardinality(K) = Cardinality(C)
    <3> DEFINE f == [p \in C |-> <<p, 1>>]
    <3>1. f \in [C -> K]
      BY <2>2
    <3>2. \A x, y \in C : f[x] = f[y] => x = y
      OBVIOUS
    <3>3. \A e \in K : \E p \in C : f[p] = e
      BY <2>2
    <3>4. IsFiniteSet(C)
      BY <1>2
    <3> HIDE DEF f, C, K
    <3> QED BY <3>1, <3>2, <3>3, <3>4, SameSize
  <2>4. ref[i] = Cardinality(C) /\ Cardinality(C) \in Nat
    BY <1>1, <1>2
  <2>5. References(i) = Cardinality(K) + Cardinality(O)
    BY DEF References
  <2>6. Cardinality(O) = 0
    BY <2>1, FS_EmptySet
  <2> HIDE DEF C, K, O
  <2> QED BY <2>3, <2>4, <2>5, <2>6
<1>6. \A p \in Proc, i \in Inum : ~Holds(p, i) /\ ~Emptying(p, i)
  BY <1>1 DEF Holds, Emptying
<1>7. Locks
  BY <1>1, <1>6, ConstFacts DEF Locks
<1>8. Cached /\ Settled /\ Seen /\ Panics
  BY <1>1 DEF Cached, Settled, Seen, Panics
<1> QED BY <1>3, <1>4, <1>5, <1>7, <1>8 DEF IInv

-----------------------------------------------------------------------------
(* Until a call goes astray or not, the steps are those of Fs.             *)
LEMMA StrayIsNext ==
  ASSUME [StrayNext]_strayVars
  PROVE  [Next]_vars
<1>1. CASE StrayNext
  BY <1>1 DEF StrayNext, Next
<1>2. CASE UNCHANGED strayVars
  BY <1>2 DEF strayVars
<1> QED BY <1>1, <1>2

LEMMA Invariant == Spec => []IInv
<1>1. Init => IInv
  BY InitIInv
<1>2. IInv /\ [Next]_vars => IInv'
  BY StepKeepsIInv
<1> QED BY <1>1, <1>2, PTL DEF Spec

LEMMA IsSpec == StraySpec => Spec
<1>1. StrayInit => Init
  BY DEF StrayInit
<1>2. [StrayNext]_strayVars => [Next]_vars
  BY StrayIsNext
<1> QED BY <1>1, <1>2, PTL DEF StraySpec, Spec

(* The reference count of an inode is the number of working directories,   *)
(* open files and calls that hold on to it, on every path through namex    *)
(* and the calls, panics included (RefsExact): iget, idup and iput in      *)
(* fs.c, and their callers in sysfile.c.                                   *)
THEOREM ReferencesCounted == StraySpec => []RefsExact
<1>1. IInv => RefsExact
  BY DEF IInv
<1> QED BY <1>1, Invariant, IsSpec, PTL

(* A cached inode nobody has locked is as on the disk, also when its number*)
(* is freed by one process and allocated by another meanwhile: iupdate in  *)
(* fs.c is called before the lock is given back, and iput drops what it    *)
(* has freed.                                                              *)
THEOREM CacheWrittenThrough == StraySpec => []CacheIsWrittenThrough
<1>1. IInv => CacheIsWrittenThrough
  <2> SUFFICES ASSUME IInv, NEW i \in Inum, valid[i], lock[i] = None
               PROVE  mem[i] = disk[i]
    BY DEF CacheIsWrittenThrough
  <2>1. \A p \in Proc : ~Freeing(p, i)
    BY ConstFacts DEF IInv, Locks, Holds, Emptying, Freeing
  <2> QED BY <2>1 DEF IInv, Cached
<1> QED BY <1>1, Invariant, IsSpec, PTL

-----------------------------------------------------------------------------
(* Counting links                                                          *)

LEMMA CountsFinite ==
  ASSUME NEW i
  PROVE  /\ IsFiniteSet(LinkSet(i)) /\ IsFiniteSet(SubdirSet(i)) /\ IsFiniteSet(PendingSet(i))
         /\ Links(i) = Cardinality(LinkSet(i))
         /\ Links(i) \in Nat /\ Subdirs(i) \in Nat /\ Pending(i) \in Nat
<1>1. IsFiniteSet(Inum \X Name) /\ IsFiniteSet(Name) /\ IsFiniteSet(Proc)
  BY ConstFacts, FS_Product
<1>2. /\ LinkSet(i) \in SUBSET (Inum \X Name) /\ SubdirSet(i) \in SUBSET Name
      /\ PendingSet(i) \in SUBSET Proc
  BY DEF LinkSet, SubdirSet, PendingSet
<1>3. IsFiniteSet(LinkSet(i)) /\ IsFiniteSet(SubdirSet(i)) /\ IsFiniteSet(PendingSet(i))
  BY <1>1, <1>2, FS_Subset
<1>4. Links(i) = Cardinality(LinkSet(i))
  BY DEF Links, LinkSet
<1> QED BY <1>3, <1>4, FS_CardinalityType DEF Subdirs, Pending

LEMMA CountsFiniteNext ==
  ASSUME NEW i
  PROVE  /\ IsFiniteSet(LinkSet(i)') /\ IsFiniteSet(SubdirSet(i)') /\ IsFiniteSet(PendingSet(i)')
         /\ Links(i)' = Cardinality(LinkSet(i)')
         /\ Subdirs(i)' = Cardinality(SubdirSet(i)') /\ Pending(i)' = Cardinality(PendingSet(i)')
         /\ Links(i)' \in Nat /\ Subdirs(i)' \in Nat /\ Pending(i)' \in Nat
<1>1. IsFiniteSet(Inum \X Name) /\ IsFiniteSet(Name) /\ IsFiniteSet(Proc)
  BY ConstFacts, FS_Product
<1>2. /\ LinkSet(i)' \in SUBSET (Inum \X Name) /\ SubdirSet(i)' \in SUBSET Name
      /\ PendingSet(i)' \in SUBSET Proc
  BY DEF LinkSet, SubdirSet, PendingSet
<1>3. IsFiniteSet(LinkSet(i)') /\ IsFiniteSet(SubdirSet(i)') /\ IsFiniteSet(PendingSet(i)')
  BY <1>1, <1>2, FS_Subset
<1>4. Links(i)' = Cardinality(LinkSet(i)')
  BY DEF Links, LinkSet
<1>5. Subdirs(i)' = Cardinality(SubdirSet(i)') /\ Pending(i)' = Cardinality(PendingSet(i)')
  BY DEF Subdirs, Pending
<1> QED BY <1>3, <1>4, <1>5, FS_CardinalityType

(* A set that grows by at most one element, or loses one.                  *)
LEMMA SetGrows ==
  ASSUME NEW S, NEW T, NEW x, IsFiniteSet(S), T \subseteq S \cup {x}
  PROVE  Cardinality(T) <= Cardinality(S) + 1
<1> DEFINE U == S \cup {x}
<1>1. IsFiniteSet(U) /\ (Cardinality(U) = Cardinality(S) \/ Cardinality(U) = Cardinality(S) + 1)
  BY FS_AddElement
<1>2. T \in SUBSET U
  OBVIOUS
<1>3. Cardinality(S) \in Nat
  BY FS_CardinalityType
<1> HIDE DEF U
<1>4. IsFiniteSet(T) /\ Cardinality(T) <= Cardinality(U)
  BY <1>1, <1>2, FS_Subset
<1>5. Cardinality(T) \in Nat /\ Cardinality(U) \in Nat
  BY <1>1, <1>4, FS_CardinalityType
<1> QED BY <1>1, <1>3, <1>4, <1>5

LEMMA SetShrinks ==
  ASSUME NEW S, NEW T, NEW x \in S, IsFiniteSet(S), T \subseteq S \ {x}
  PROVE  Cardinality(T) <= Cardinality(S) - 1
<1> DEFINE U == S \ {x}
<1>1. IsFiniteSet(U) /\ Cardinality(U) = Cardinality(S) - 1
  BY FS_RemoveElement
<1>2. T \in SUBSET U
  OBVIOUS
<1> HIDE DEF U
<1>3. Cardinality(T) <= Cardinality(U)
  BY <1>1, <1>2, FS_Subset
<1> QED BY <1>1, <1>3

LEMMA SetStays ==
  ASSUME NEW S, NEW T, IsFiniteSet(S), T \subseteq S
  PROVE  Cardinality(T) <= Cardinality(S)
<1>1. T \in SUBSET S
  OBVIOUS
<1> QED BY <1>1, FS_Subset

LEMMA SetEmpty ==
  ASSUME NEW S, IsFiniteSet(S)
  PROVE  Cardinality(S) = 0 <=> S = {}
BY FS_EmptySet

(* What has an entry has a link, what has none no entry.                   *)
LEMMA EntryIsLink ==
  ASSUME IInv, Counted, NEW d \in Inum, NEW n \in Name, NEW i \in Inum, ents[d][n] = i
  PROVE  disk[i].nlink >= 1
<1>1. <<d, n>> \in LinkSet(i)
  BY DEF LinkSet
<1>2. Links(i) # 0
  BY <1>1, CountsFinite, SetEmpty
<1>3. Links(i) \in Nat /\ Subdirs(i) \in Nat /\ Pending(i) \in Nat /\ disk[i].nlink \in Int
  BY CountsFinite DEF IInv, Types, Store, Inode
<1> QED BY <1>2, <1>3 DEF Counted, CountedAt

LEMMA SubdirIsLink ==
  ASSUME IInv, Counted, NEW d \in Inum, NEW n \in Name, ents[d][n] # None,
         disk[ents[d][n]].type = "dir"
  PROVE  disk[d].nlink >= 1
<1>1. n \in SubdirSet(d)
  BY DEF SubdirSet
<1>2. Subdirs(d) # 0
  BY <1>1, CountsFinite, SetEmpty DEF Subdirs
<1>3. Links(d) \in Nat /\ Subdirs(d) \in Nat /\ Pending(d) \in Nat /\ disk[d].nlink \in Int
  BY CountsFinite DEF IInv, Types, Store, Inode
<1> QED BY <1>2, <1>3 DEF Counted, CountedAt

LEMMA RootHasLinks ==
  ASSUME IInv, Counted
  PROVE  disk[ROOTINO].nlink >= 1
<1>1. /\ Links(ROOTINO) \in Nat /\ Subdirs(ROOTINO) \in Nat /\ Pending(ROOTINO) \in Nat
      /\ disk[ROOTINO].nlink \in Int
  BY CountsFinite, ConstFacts DEF IInv, Types, Store, Inode
<1>2. disk[ROOTINO].nlink >= Links(ROOTINO) + Subdirs(ROOTINO) + Pending(ROOTINO) + 1
  BY ConstFacts DEF Counted, CountedAt
<1> QED BY <1>1, <1>2

LEMMA NoLinks ==
  ASSUME IInv, Counted, NEW i \in Inum, disk[i].nlink = 0
  PROVE  /\ i # ROOTINO
         /\ \A d \in Inum, n \in Name : ents[d][n] # i
         /\ \A n \in Name : ents[i][n] # None => disk[ents[i][n]].type # "dir"
         /\ Pending(i) = 0
<1>1. i # ROOTINO
  BY RootHasLinks
<1>2. \A d \in Inum, n \in Name : ents[d][n] # i
  BY EntryIsLink
<1>3. \A n \in Name : ents[i][n] # None => disk[ents[i][n]].type # "dir"
  BY SubdirIsLink
<1>4. Links(i) \in Nat /\ Subdirs(i) \in Nat /\ Pending(i) \in Nat
  BY CountsFinite
<1>5. Pending(i) = 0
  BY <1>1, <1>4 DEF Counted, CountedAt
<1> QED BY <1>1, <1>2, <1>3, <1>5

(* An entry that a call finds, while it has not gone astray, leads to an   *)
(* inode with links.                                                       *)
Leads(d, n) == n # ".." \/ ~Removed(d)

LEMMA Found ==
  ASSUME IInv, Counted, Tree, NEW d \in Inum, disk[d].type = "dir", NEW n \in Names,
         Leads(d, n), ents[d][n] \in Inum
  PROVE  disk[ents[d][n]].nlink >= 1
<1> DEFINE j == ents[d][n]
<1>1. CASE n \in Name
  BY <1>1, EntryIsLink
<1>2. CASE n = ".." /\ d = ROOTINO
  BY <1>2, RootHasLinks DEF Tree
<1>3. CASE n = ".." /\ d # ROOTINO
  <2>1. Links(d) # 0
    BY <1>3 DEF Leads, Removed
  <2>2. PICK e \in Inum \X Name : ents[e[1]][e[2]] = d
    <3>1. LinkSet(d) # {}
      BY <2>1, CountsFinite, SetEmpty
    <3> QED BY <3>1 DEF LinkSet
  <2>3. ents[d][".."] = e[1] /\ e[1] \in Inum /\ e[2] \in Name
    BY <2>2 DEF Tree
  <2>4. ents[e[1]][e[2]] # None
    BY <2>2, ConstFacts
  <2> QED BY <1>3, <2>2, <2>3, <2>4, SubdirIsLink
<1> QED BY <1>1, <1>2, <1>3, ConstFacts

-----------------------------------------------------------------------------
(* What is in use stays: steps that free nothing and make nothing new      *)

Of(s) == {s[k] : k \in 1 .. Len(s)}

LEMMA OfIs ==
  /\ Of(<<>>) = {}
  /\ \A a \in Inum : Of(<<a>>) = {a}
  /\ \A a, b \in Inum : Of(<<a, b>>) = {a, b}
<1>1. Of(<<>>) = {}
  BY DEF Of
<1>2. \A a \in Inum : Of(<<a>>) = {a}
  BY DEF Of
<1>3. \A a, b \in Inum : Of(<<a, b>>) = {a, b}
  <2> SUFFICES ASSUME NEW a \in Inum, NEW b \in Inum
               PROVE  Of(<<a, b>>) = {a, b}
    OBVIOUS
  <2>1. \A k \in 1 .. 2 : k = 1 \/ k = 2
    OBVIOUS
  <2>2. Of(<<a, b>>) = {<<a, b>>[k] : k \in 1 .. 2}
    BY DEF Of
  <2>3. <<a, b>>[1] = a /\ <<a, b>>[2] = b
    OBVIOUS
  <2> QED BY <2>1, <2>2, <2>3
<1> QED BY <1>1, <1>2, <1>3

LEMMA UsesFrom ==
  ASSUME NEW p \in Proc, NEW i, Uses(p, i)'
  PROVE  i \in {cwd'[p], fd'[p], at'[p], ip'[p]} \cup Of(puts'[p])
BY DEF Uses, Of

LEMMA OthersUse ==
  ASSUME NEW p \in Proc, Others(p)
  PROVE  \A q \in Proc \ {p} : \A i : Uses(q, i)' <=> Uses(q, i)
BY DEF Others, Uses

Gentle(p) ==
  /\ \A i \in Inum : disk'[i].type = disk[i].type
  /\ \A i \in Inum : disk'[i].nlink # disk[i].nlink \/ ents'[i] # ents[i] => Uses(p, i)
  /\ \A i \in Inum : Uses(p, i)' => Uses(p, i) \/ disk[i].nlink >= 1
  /\ disk[cwd'[p]].type = "dir" /\ pc'[p] # "made"
  /\ stage'[p] = "trunc" => DoomedAt(p)'
  /\ pc'[p] \in {"walk", "parent", "held", "undo"} /\ ip'[p] # None => disk[ip'[p]].type # "dir"

(* What only q uses, a gentle step of p leaves alone.                      *)
LEMMA OnlyStays ==
  ASSUME IInv, Alive, NEW p \in Proc, Keeps(p), Gentle(p), NEW q \in Proc, q # p, NEW i \in Inum,
         Only(q, i)
  PROVE  /\ disk'[i].nlink = 0 /\ \A r \in Proc \ {q} : ~Uses(r, i)'
         /\ ents'[i] = ents[i]
<1>1. ~Uses(p, i) /\ disk[i].nlink = 0
  BY DEF Only
<1>2. ~Uses(p, i)'
  BY <1>1 DEF Gentle
<1>3. Others(p)
  BY DEF Keeps
<1>4. \A r \in Proc \ {q} : ~Uses(r, i)'
  BY <1>2, <1>3, OthersUse DEF Only
<1> QED BY <1>1, <1>4 DEF Gentle

LEMMA GentleKeeps ==
  ASSUME IInv, Tame, NEW p \in Proc, Keeps(p), Gentle(p)
  PROVE  Alive' /\ Fresh' /\ Doomed' /\ LinksToFiles'
<1>0. /\ Alive /\ Fresh /\ Doomed /\ LinksToFiles /\ Others(p) /\ Types /\ Types' /\ Shape
      /\ \A i \in Inum : disk[i].nlink \in Int
  BY DEF Tame, Keeps, IInv, Types, Store, Inode
<1>1. Alive'
  <2>1. ASSUME NEW q \in Proc, NEW i \in Inum, Uses(q, i)'
        PROVE  disk'[i].type # "free"
    <3>1. CASE Uses(q, i)
      BY <1>0, <3>1 DEF Alive, Gentle
    <3>2. CASE ~Uses(q, i)
      <4>1. q = p
        BY <1>0, <2>1, <3>2, OthersUse
      <4>2. disk[i].nlink >= 1
        BY <2>1, <3>2, <4>1 DEF Gentle
      <4>3. disk[i].nlink # 0
        BY <1>0, <4>2
      <4> QED BY <1>0, <4>3 DEF Alive, Gentle
    <3> QED BY <3>1, <3>2
  <2>2. \A q \in Proc : disk'[cwd'[q]].type = "dir"
    <3> SUFFICES ASSUME NEW q \in Proc
                 PROVE  disk'[cwd'[q]].type = "dir"
      OBVIOUS
    <3>1. disk[cwd'[q]].type = "dir"
      BY <1>0 DEF Alive, Gentle, Others
    <3>2. cwd'[q] \in Inum
      BY <1>0 DEF Types, Calls
    <3> QED BY <3>1, <3>2 DEF Gentle
  <2>3. \A i \in Inum : disk'[i].type = "free" => disk'[i].nlink = 0
    <3> SUFFICES ASSUME NEW i \in Inum, disk'[i].type = "free"
                 PROVE  disk'[i].nlink = 0
      OBVIOUS
    <3>1. disk[i].type = "free"
      BY DEF Gentle
    <3>2. disk[i].nlink = 0 /\ ~Uses(p, i)
      BY <1>0, <3>1 DEF Alive
    <3> QED BY <3>2 DEF Gentle
  <2>4. disk'[ROOTINO].type = "dir"
    BY <1>0, ConstFacts DEF Alive, Gentle
  <2> QED BY <2>1, <2>2, <2>3, <2>4 DEF Alive
<1>2. Fresh'
  <2> SUFFICES ASSUME NEW q \in Proc, pc'[q] = "made"
               PROVE  /\ Only(q, ip[q])' /\ ip'[q] \notin {cwd'[q], fd'[q], at'[q]}
                      /\ ents'[ip'[q]] = Empty /\ (disk'[ip'[q]].type = "dir" <=> op'[q] = "mkdir")
    BY DEF Fresh, Empty
  <2>1. q # p
    BY DEF Gentle
  <2>2. /\ pc[q] = "made" /\ ip'[q] = ip[q] /\ cwd'[q] = cwd[q] /\ fd'[q] = fd[q]
        /\ at'[q] = at[q] /\ op'[q] = op[q]
    BY <1>0, <2>1 DEF Others
  <2>3. /\ Only(q, ip[q]) /\ ip[q] \notin {cwd[q], fd[q], at[q]} /\ ents[ip[q]] = Empty
        /\ (disk[ip[q]].type = "dir" <=> op[q] = "mkdir")
    BY <1>0, <2>2 DEF Fresh
  <2>4. ip[q] \in Inum
    BY <1>0, <2>2 DEF Shape, Types, Calls
  <2>5. /\ disk'[ip[q]].nlink = 0 /\ \A r \in Proc \ {q} : ~Uses(r, ip[q])'
        /\ ents'[ip[q]] = ents[ip[q]] /\ disk'[ip[q]].type = disk[ip[q]].type
    <3>1. PICK i \in Inum : i = ip[q]
      BY <2>4
    <3>2. /\ disk'[i].nlink = 0 /\ \A r \in Proc \ {q} : ~Uses(r, i)'
          /\ ents'[i] = ents[i]
      BY <1>0, <2>1, <2>3, <3>1, OnlyStays
    <3>3. \A r \in Proc : Uses(r, ip[q])' <=> Uses(r, i)'
      BY <2>2, <3>1 DEF Uses
    <3>4. disk'[i].type = disk[i].type
      BY DEF Gentle
    <3> QED BY <3>1, <3>2, <3>3, <3>4
  <2> QED BY <2>2, <2>3, <2>5 DEF Only
<1>3. Doomed'
  <2> SUFFICES ASSUME NEW q \in Proc, stage'[q] = "trunc"
               PROVE  DoomedAt(q)'
    BY DEF Doomed
  <2>1. CASE q = p
    BY <2>1 DEF Gentle
  <2>2. CASE q # p
    <3>1. /\ stage[q] = "trunc" /\ ip'[q] = ip[q] /\ cwd'[q] = cwd[q] /\ fd'[q] = fd[q]
          /\ at'[q] = at[q] /\ puts'[q] = puts[q]
      BY <1>0, <2>2 DEF Others
    <3>2. DoomedAt(q)
      BY <1>0, <3>1 DEF Doomed
    <3>3. PICK i \in Inum : i = Head(puts[q])
      BY <1>0, <3>1, PutsOf DEF Shape
    <3>4. Only(q, i)
      BY <3>2, <3>3 DEF DoomedAt
    <3>5. disk'[i].nlink = 0 /\ \A r \in Proc \ {q} : ~Uses(r, i)'
      BY <1>0, <2>2, <3>4, OnlyStays
    <3>6. Only(q, i)'
      BY <3>5 DEF Only
    <3>7. Only(q, Head(puts[q]))'
      BY <3>1, <3>3, <3>6 DEF Only, Uses
    <3> QED BY <3>1, <3>2, <3>7 DEF DoomedAt
  <2> QED BY <2>1, <2>2
<1>4. LinksToFiles'
  <2> SUFFICES ASSUME NEW q \in Proc, pc'[q] \in {"walk", "parent", "held", "undo"}, ip'[q] # None
               PROVE  disk'[ip'[q]].type # "dir"
    BY DEF LinksToFiles
  <2>1. ip'[q] \in Inum
    BY <1>0 DEF Types, Calls
  <2>2. disk[ip'[q]].type # "dir"
    BY <1>0 DEF LinksToFiles, Gentle, Others
  <2> QED BY <2>1, <2>2 DEF Gentle
<1> QED BY <1>1, <1>2, <1>3, <1>4

-----------------------------------------------------------------------------
(* What a step may do to the links of an inode, and their number           *)

LEMMA CountedStep ==
  ASSUME Types, Counted, NEW i \in Inum, NEW l \in Int, NEW s \in Int, NEW w \in Int,
         Links(i)' <= Links(i) + l, Subdirs(i)' <= Subdirs(i) + s, Pending(i)' <= Pending(i) + w,
         disk'[i].nlink = disk[i].nlink + l + s + w
  PROVE  CountedAt(i)'
<1>1. /\ Links(i) \in Nat /\ Subdirs(i) \in Nat /\ Pending(i) \in Nat
      /\ Links(i)' \in Nat /\ Subdirs(i)' \in Nat /\ Pending(i)' \in Nat
  BY CountsFinite, CountsFiniteNext
<1>2. disk[i].nlink \in Int
  BY DEF Types, Store, Inode
<1>3. PICK r \in Int : r = IF i = ROOTINO THEN 1 ELSE 0
  OBVIOUS
<1>4. disk[i].nlink >= Links(i) + Subdirs(i) + Pending(i) + r
  BY <1>3 DEF Counted, CountedAt
<1>5. disk'[i].nlink >= Links(i)' + Subdirs(i)' + Pending(i)' + r
  BY <1>1, <1>2, <1>4
<1> QED BY <1>3, <1>5 DEF CountedAt

Owing == {"walk", "parent", "held", "undo", "cut"}

LEMMA LinksStay ==
  ASSUME NEW i, \A d \in Inum, n \in Name : ents'[d][n] = i => ents[d][n] = i
  PROVE  Links(i)' <= Links(i) + 0
<1>1. LinkSet(i)' \subseteq LinkSet(i)
  BY DEF LinkSet
<1>2. Cardinality(LinkSet(i)') <= Cardinality(LinkSet(i))
  BY <1>1, CountsFinite, SetStays
<1> QED BY <1>2, CountsFinite, CountsFiniteNext

LEMMA SubdirsStay ==
  ASSUME NEW i,
         \A n \in Name : ents'[i][n] # None /\ disk'[ents'[i][n]].type = "dir"
                         => ents[i][n] # None /\ disk[ents[i][n]].type = "dir"
  PROVE  Subdirs(i)' <= Subdirs(i) + 0
<1>1. SubdirSet(i)' \subseteq SubdirSet(i)
  BY DEF SubdirSet
<1>2. Cardinality(SubdirSet(i)') <= Cardinality(SubdirSet(i))
  BY <1>1, CountsFinite, SetStays
<1>3. Subdirs(i) \in Nat /\ Subdirs(i) = Cardinality(SubdirSet(i))
  BY CountsFinite DEF Subdirs
<1> QED BY <1>2, <1>3, CountsFiniteNext

LEMMA PendingStays ==
  ASSUME NEW i, NEW p \in Proc, Others(p),
         ip'[p] = i /\ pc'[p] \in Owing => ip[p] = i /\ pc[p] \in Owing
  PROVE  Pending(i)' <= Pending(i) + 0
<1>1. PendingSet(i)' \subseteq PendingSet(i)
  BY DEF PendingSet, Owing, Others
<1>2. Cardinality(PendingSet(i)') <= Cardinality(PendingSet(i))
  BY <1>1, CountsFinite, SetStays
<1>3. Pending(i) \in Nat /\ Pending(i) = Cardinality(PendingSet(i))
  BY CountsFinite DEF Pending
<1> QED BY <1>2, <1>3, CountsFiniteNext

LEMMA PendingGrows ==
  ASSUME NEW i, NEW p \in Proc, Others(p)
  PROVE  Pending(i)' <= Pending(i) + 1
<1>1. PendingSet(i)' \subseteq PendingSet(i) \cup {p}
  BY DEF PendingSet, Others
<1>2. Cardinality(PendingSet(i)') <= Cardinality(PendingSet(i)) + 1
  BY <1>1, CountsFinite, SetGrows
<1> QED BY <1>2, CountsFiniteNext DEF Pending

LEMMA PendingShrinks ==
  ASSUME NEW i, NEW p \in Proc, Others(p), ip[p] = i, pc[p] \in Owing,
         ip'[p] # i \/ pc'[p] \notin Owing
  PROVE  Pending(i)' <= Pending(i) + (-1)
<1>1. p \in PendingSet(i) /\ PendingSet(i)' \subseteq PendingSet(i) \ {p}
  BY DEF PendingSet, Owing, Others
<1>2. Cardinality(PendingSet(i)') <= Cardinality(PendingSet(i)) - 1
  BY <1>1, CountsFinite, SetShrinks
<1>3. Pending(i) \in Nat /\ Pending(i) = Cardinality(PendingSet(i))
  BY CountsFinite DEF Pending
<1> QED BY <1>2, <1>3, CountsFiniteNext

LEMMA TreeStays ==
  ASSUME Types, Tree, NEW p \in Proc, Others(p), pc[p] # "made", ents' = ents,
         \A i \in Inum : disk'[i].type = disk[i].type
  PROVE  Tree'
<1>1. \A d \in Inum : New(d) => New(d)'
  BY DEF New, Others
<1>2. \A d \in Inum : disk'[d].type # "dir" => ents'[d] = Empty
  BY DEF Tree
<1>3. \A d \in Inum : disk'[d].type = "dir" /\ ~New(d)' => ents'[d][".."] # None
  BY <1>1 DEF Tree
<1>4. \A d, i \in Inum, n \in Name :
        ents'[d][n] = i /\ disk'[i].type = "dir" => ents'[i][".."] = d
  BY DEF Tree
<1>5. /\ \A d, i \in Inum, n, m \in Name : ~(ents'[d][n] = i /\ ents'[i][m] = d)
      /\ ents'[ROOTINO][".."] = ROOTINO
  BY DEF Tree
<1> QED BY <1>2, <1>3, <1>4, <1>5 DEF Tree, Empty

(* Most steps leave the disk alone.                                        *)
Calm(p) ==
  /\ disk' = disk /\ ents' = ents /\ pc[p] # "made"
  /\ ip'[p] # None /\ pc'[p] \in Owing => ip[p] = ip'[p] /\ pc[p] \in Owing

LEMMA CalmKeeps ==
  ASSUME IInv, Tame, NEW p \in Proc, Keeps(p), Calm(p)
  PROVE  Counted' /\ Tree'
<1>0. Counted /\ Tree /\ Others(p) /\ Types
  BY DEF Tame, Keeps, IInv
<1>1. Tree'
  BY <1>0, TreeStays DEF Calm
<1>2. ASSUME NEW i \in Inum
      PROVE  CountedAt(i)'
  <2>1. Links(i)' <= Links(i) + 0
    BY LinksStay DEF Calm
  <2>2. Subdirs(i)' <= Subdirs(i) + 0
    BY SubdirsStay DEF Calm
  <2>3. Pending(i)' <= Pending(i) + 0
    BY <1>0, PendingStays, ConstFacts DEF Calm
  <2>4. disk'[i].nlink = disk[i].nlink + 0 + 0 + 0
    BY <1>0 DEF Calm, Types, Store, Inode
  <2> QED BY <1>0, <2>1, <2>2, <2>3, <2>4, CountedStep
<1> QED BY <1>1, <1>2 DEF Counted

(* Steps of a call that change no inode.                                   *)
Mild(p) ==
  /\ disk' = disk /\ ents' = ents
  /\ pc[p] # "made" /\ pc'[p] \notin {"made", "cut"} /\ stage'[p] # "trunc"
  /\ \A i \in Inum : i \in {cwd'[p], fd'[p], at'[p], ip'[p]} \cup Of(puts'[p]) =>
                       i \in {cwd[p], fd[p], at[p], ip[p]} \/ disk[i].nlink >= 1
  /\ disk[cwd'[p]].type = "dir"
  /\ pc'[p] \in {"walk", "parent", "held", "undo"} /\ ip'[p] # None =>
       pc[p] \in {"walk", "parent", "held", "undo"} /\ ip[p] = ip'[p]

LEMMA MildIs ==
  ASSUME IInv, Tame, NEW p \in Proc, Mild(p)
  PROVE  Gentle(p) /\ Calm(p)
<1>1. \A i \in Inum : Uses(p, i)' => Uses(p, i) \/ disk[i].nlink >= 1
  <2> SUFFICES ASSUME NEW i \in Inum, Uses(p, i)'
               PROVE  Uses(p, i) \/ disk[i].nlink >= 1
    OBVIOUS
  <2>1. i \in {cwd[p], fd[p], at[p], ip[p]} \/ disk[i].nlink >= 1
    BY UsesFrom DEF Mild
  <2> QED BY <2>1 DEF Uses
<1>2. pc'[p] \in {"walk", "parent", "held", "undo"} /\ ip'[p] # None => disk[ip'[p]].type # "dir"
  BY DEF Mild, Tame, LinksToFiles
<1>3. Gentle(p)
  BY <1>1, <1>2 DEF Mild, Gentle
<1>4. Calm(p)
  BY DEF Mild, Calm, Owing
<1> QED BY <1>3, <1>4

LEMMA CallMild ==
  ASSUME IInv, Tame, NEW p \in Proc, NEW o \in Ops, NEW s \in Inum, Call(p, o, s)
  PROVE  Mild(p)
<1>0. Types /\ Counted /\ Alive /\ Tree
  BY DEF IInv, Tame
<1>1. pc[p] = "out" /\ stage'[p] = "no" /\ disk' = disk /\ ents' = ents
      /\ s \in {ROOTINO, cwd[p]} /\ puts[p] = <<>>
      /\ UNCHANGED <<puts, cwd, fd>>
  BY CallIs DEF Reads
<1>2. disk[ROOTINO].nlink >= 1 /\ disk[cwd[p]].type = "dir"
  BY <1>0, RootHasLinks DEF Alive
<1>3. CASE After(p, "walk", o, s, None, name[p])
  <2>1. Left(p, "walk", s, None, name[p], stage'[p])
    BY <1>0, <1>3, LeftIs
  <2>2. Of(puts'[p]) = {}
    BY <1>0, <1>1, <1>3, OfIs DEF Types, Calls
  <2>3. \A i \in Inum : i \in {cwd'[p], fd'[p], at'[p], ip'[p]} \cup Of(puts'[p]) =>
                          i \in {cwd[p], fd[p], at[p], ip[p]} \/ disk[i].nlink >= 1
    BY <1>0, <1>1, <1>2, <1>3, <2>1, <2>2, ConstFacts DEF Left, Types, Calls
  <2>4. disk[cwd'[p]].type = "dir" /\ pc'[p] \notin {"made", "cut"} /\ pc[p] # "made"
        /\ stage'[p] # "trunc"
    BY <1>0, <1>1, <1>2, <1>3, <2>1 DEF Left, Types, Calls
  <2>5. pc'[p] \in {"walk", "parent", "held", "undo"} /\ ip'[p] # None =>
          pc[p] \in {"walk", "parent", "held", "undo"} /\ ip[p] = ip'[p]
    BY <1>1, <1>3, <2>1 DEF Left
  <2> QED BY <1>1, <2>3, <2>4, <2>5 DEF Mild
<1> QED BY <1>3, CallIs

LEMMA WalkNothingMild ==
  ASSUME IInv, Tame, NEW p \in Proc, WalkNothing(p)
  PROVE  Mild(p)
<1>0. Types /\ Counted /\ Alive /\ Tree
  BY DEF IInv, Tame
<1>1. pc[p] = "walk" /\ stage'[p] = "no" /\ disk' = disk /\ ents' = ents /\ at[p] \in Inum /\ puts[p] = <<>>
      /\ UNCHANGED <<cwd, fd>>
  BY WalkNothingIs DEF Reads
<1>2. disk[ROOTINO].nlink >= 1 /\ disk[cwd[p]].type = "dir"
  BY <1>0, RootHasLinks DEF Alive
<1>3. CASE After(p, "out", None, None, None, None) /\ puts' = [puts EXCEPT ![p] = <<at[p]>>]
  <2>1. Left(p, "out", None, None, None, stage'[p])
    BY <1>0, <1>3, LeftIs
  <2>2. Of(puts'[p]) = {at[p]}
    BY <1>0, <1>1, <1>3, OfIs DEF Types, Calls
  <2>3. \A i \in Inum : i \in {cwd'[p], fd'[p], at'[p], ip'[p]} \cup Of(puts'[p]) =>
                          i \in {cwd[p], fd[p], at[p], ip[p]} \/ disk[i].nlink >= 1
    BY <1>0, <1>1, <1>2, <1>3, <2>1, <2>2, ConstFacts DEF Left, Types, Calls
  <2>4. disk[cwd'[p]].type = "dir" /\ pc'[p] \notin {"made", "cut"} /\ pc[p] # "made"
        /\ stage'[p] # "trunc"
    BY <1>0, <1>1, <1>2, <1>3, <2>1 DEF Left, Types, Calls
  <2>5. pc'[p] \in {"walk", "parent", "held", "undo"} /\ ip'[p] # None =>
          pc[p] \in {"walk", "parent", "held", "undo"} /\ ip[p] = ip'[p]
    BY <1>1, <1>3, <2>1 DEF Left
  <2> QED BY <1>1, <2>3, <2>4, <2>5 DEF Mild
<1>4. CASE After(p, "undo", op[p], None, ip[p], None) /\ puts' = [puts EXCEPT ![p] = <<at[p]>>]
  <2>1. Left(p, "undo", None, ip[p], None, stage'[p])
    BY <1>0, <1>4, LeftIs
  <2>2. Of(puts'[p]) = {at[p]}
    BY <1>0, <1>1, <1>4, OfIs DEF Types, Calls
  <2>3. \A i \in Inum : i \in {cwd'[p], fd'[p], at'[p], ip'[p]} \cup Of(puts'[p]) =>
                          i \in {cwd[p], fd[p], at[p], ip[p]} \/ disk[i].nlink >= 1
    BY <1>0, <1>1, <1>2, <1>4, <2>1, <2>2, ConstFacts DEF Left, Types, Calls
  <2>4. disk[cwd'[p]].type = "dir" /\ pc'[p] \notin {"made", "cut"} /\ pc[p] # "made"
        /\ stage'[p] # "trunc"
    BY <1>0, <1>1, <1>2, <1>4, <2>1 DEF Left, Types, Calls
  <2>5. pc'[p] \in {"walk", "parent", "held", "undo"} /\ ip'[p] # None =>
          pc[p] \in {"walk", "parent", "held", "undo"} /\ ip[p] = ip'[p]
    BY <1>1, <1>4, <2>1 DEF Left
  <2> QED BY <1>1, <2>3, <2>4, <2>5 DEF Mild
<1>5. CASE After(p, "found", op[p], at[p], None, name[p]) /\ puts' = puts
  <2>1. Left(p, "found", at[p], None, name[p], stage'[p])
    BY <1>0, <1>5, LeftIs
  <2>2. Of(puts'[p]) = {}
    BY <1>0, <1>1, <1>5, OfIs DEF Types, Calls
  <2>3. \A i \in Inum : i \in {cwd'[p], fd'[p], at'[p], ip'[p]} \cup Of(puts'[p]) =>
                          i \in {cwd[p], fd[p], at[p], ip[p]} \/ disk[i].nlink >= 1
    BY <1>0, <1>1, <1>2, <1>5, <2>1, <2>2, ConstFacts DEF Left, Types, Calls
  <2>4. disk[cwd'[p]].type = "dir" /\ pc'[p] \notin {"made", "cut"} /\ pc[p] # "made"
        /\ stage'[p] # "trunc"
    BY <1>0, <1>1, <1>2, <1>5, <2>1 DEF Left, Types, Calls
  <2>5. pc'[p] \in {"walk", "parent", "held", "undo"} /\ ip'[p] # None =>
          pc[p] \in {"walk", "parent", "held", "undo"} /\ ip[p] = ip'[p]
    BY <1>1, <1>5, <2>1 DEF Left
  <2> QED BY <1>1, <2>3, <2>4, <2>5 DEF Mild
<1> QED BY <1>3, <1>4, <1>5, WalkNothingIs

LEMMA WalkFailsMild ==
  ASSUME IInv, Tame, NEW p \in Proc, NEW n \in Names, WalkFails(p, n)
  PROVE  Mild(p)
<1>0. Types /\ Counted /\ Alive /\ Tree
  BY DEF IInv, Tame
<1>1. pc[p] = "walk" /\ stage'[p] = "no" /\ disk' = disk /\ ents' = ents /\ at[p] \in Inum
      /\ puts' = [puts EXCEPT ![p] = <<at[p]>>]
      /\ UNCHANGED <<cwd, fd>>
  BY WalkFailsIs DEF Reads
<1>2. disk[ROOTINO].nlink >= 1 /\ disk[cwd[p]].type = "dir"
  BY <1>0, RootHasLinks DEF Alive
<1>3. CASE After(p, "out", None, None, None, None)
  <2>1. Left(p, "out", None, None, None, stage'[p])
    BY <1>0, <1>3, LeftIs
  <2>2. Of(puts'[p]) = {at[p]}
    BY <1>0, <1>1, <1>3, OfIs DEF Types, Calls
  <2>3. \A i \in Inum : i \in {cwd'[p], fd'[p], at'[p], ip'[p]} \cup Of(puts'[p]) =>
                          i \in {cwd[p], fd[p], at[p], ip[p]} \/ disk[i].nlink >= 1
    BY <1>0, <1>1, <1>2, <1>3, <2>1, <2>2, ConstFacts DEF Left, Types, Calls
  <2>4. disk[cwd'[p]].type = "dir" /\ pc'[p] \notin {"made", "cut"} /\ pc[p] # "made"
        /\ stage'[p] # "trunc"
    BY <1>0, <1>1, <1>2, <1>3, <2>1 DEF Left, Types, Calls
  <2>5. pc'[p] \in {"walk", "parent", "held", "undo"} /\ ip'[p] # None =>
          pc[p] \in {"walk", "parent", "held", "undo"} /\ ip[p] = ip'[p]
    BY <1>1, <1>3, <2>1 DEF Left
  <2> QED BY <1>1, <2>3, <2>4, <2>5 DEF Mild
<1>4. CASE After(p, "undo", op[p], None, ip[p], None)
  <2>1. Left(p, "undo", None, ip[p], None, stage'[p])
    BY <1>0, <1>4, LeftIs
  <2>2. Of(puts'[p]) = {at[p]}
    BY <1>0, <1>1, <1>4, OfIs DEF Types, Calls
  <2>3. \A i \in Inum : i \in {cwd'[p], fd'[p], at'[p], ip'[p]} \cup Of(puts'[p]) =>
                          i \in {cwd[p], fd[p], at[p], ip[p]} \/ disk[i].nlink >= 1
    BY <1>0, <1>1, <1>2, <1>4, <2>1, <2>2, ConstFacts DEF Left, Types, Calls
  <2>4. disk[cwd'[p]].type = "dir" /\ pc'[p] \notin {"made", "cut"} /\ pc[p] # "made"
        /\ stage'[p] # "trunc"
    BY <1>0, <1>1, <1>2, <1>4, <2>1 DEF Left, Types, Calls
  <2>5. pc'[p] \in {"walk", "parent", "held", "undo"} /\ ip'[p] # None =>
          pc[p] \in {"walk", "parent", "held", "undo"} /\ ip[p] = ip'[p]
    BY <1>1, <1>4, <2>1 DEF Left
  <2> QED BY <1>1, <2>3, <2>4, <2>5 DEF Mild
<1> QED BY <1>3, <1>4, WalkFailsIs

LEMMA WalkIntoMild ==
  ASSUME IInv, Tame, NEW p \in Proc, NEW n \in Names, NEW last \in BOOLEAN,
         WalkInto(p, n, last), Leads(at[p], n)
  PROVE  Mild(p)
<1>0. Types /\ Counted /\ Alive /\ Tree
  BY DEF IInv, Tame
<1>1. pc[p] = "walk" /\ stage'[p] = "no" /\ disk' = disk /\ ents' = ents /\ at[p] \in Inum
      /\ disk[at[p]].type = "dir" /\ ents[at[p]][n] \in Inum
      /\ puts' = [puts EXCEPT ![p] = <<at[p]>>]
      /\ UNCHANGED <<cwd, fd>>
  BY WalkIntoIs DEF Reads
<1>2. disk[ROOTINO].nlink >= 1 /\ disk[cwd[p]].type = "dir"
  BY <1>0, RootHasLinks DEF Alive
<1>3. disk[ents[at[p]][n]].nlink >= 1
  BY <1>0, <1>1, Found
<1>4. CASE After(p, "walk", op[p], ents[at[p]][n], ip[p], name[p])
  <2>1. Left(p, "walk", ents[at[p]][n], ip[p], name[p], stage'[p])
    BY <1>0, <1>4, LeftIs
  <2>2. Of(puts'[p]) = {at[p]}
    BY <1>0, <1>1, <1>4, OfIs DEF Types, Calls
  <2>3. \A i \in Inum : i \in {cwd'[p], fd'[p], at'[p], ip'[p]} \cup Of(puts'[p]) =>
                          i \in {cwd[p], fd[p], at[p], ip[p]} \/ disk[i].nlink >= 1
    BY <1>0, <1>1, <1>2, <1>3, <1>4, <2>1, <2>2, ConstFacts DEF Left, Types, Calls
  <2>4. disk[cwd'[p]].type = "dir" /\ pc'[p] \notin {"made", "cut"} /\ pc[p] # "made"
        /\ stage'[p] # "trunc"
    BY <1>0, <1>1, <1>2, <1>3, <1>4, <2>1 DEF Left, Types, Calls
  <2>5. pc'[p] \in {"walk", "parent", "held", "undo"} /\ ip'[p] # None =>
          pc[p] \in {"walk", "parent", "held", "undo"} /\ ip[p] = ip'[p]
    BY <1>1, <1>4, <2>1 DEF Left
  <2> QED BY <1>1, <2>3, <2>4, <2>5 DEF Mild
<1>5. CASE After(p, "found", op[p], ents[at[p]][n], None, name[p])
  <2>1. Left(p, "found", ents[at[p]][n], None, name[p], stage'[p])
    BY <1>0, <1>5, LeftIs
  <2>2. Of(puts'[p]) = {at[p]}
    BY <1>0, <1>1, <1>5, OfIs DEF Types, Calls
  <2>3. \A i \in Inum : i \in {cwd'[p], fd'[p], at'[p], ip'[p]} \cup Of(puts'[p]) =>
                          i \in {cwd[p], fd[p], at[p], ip[p]} \/ disk[i].nlink >= 1
    BY <1>0, <1>1, <1>2, <1>3, <1>5, <2>1, <2>2, ConstFacts DEF Left, Types, Calls
  <2>4. disk[cwd'[p]].type = "dir" /\ pc'[p] \notin {"made", "cut"} /\ pc[p] # "made"
        /\ stage'[p] # "trunc"
    BY <1>0, <1>1, <1>2, <1>3, <1>5, <2>1 DEF Left, Types, Calls
  <2>5. pc'[p] \in {"walk", "parent", "held", "undo"} /\ ip'[p] # None =>
          pc[p] \in {"walk", "parent", "held", "undo"} /\ ip[p] = ip'[p]
    BY <1>1, <1>5, <2>1 DEF Left
  <2> QED BY <1>1, <2>3, <2>4, <2>5 DEF Mild
<1> QED BY <1>4, <1>5, WalkIntoIs

LEMMA WalkParentMild ==
  ASSUME IInv, Tame, NEW p \in Proc, NEW n \in Names, WalkParent(p, n)
  PROVE  Mild(p)
<1>0. Types /\ Counted /\ Alive /\ Tree
  BY DEF IInv, Tame
<1>1. pc[p] = "walk" /\ stage'[p] = "no" /\ disk' = disk /\ ents' = ents /\ at[p] \in Inum /\ puts[p] = <<>>
      /\ UNCHANGED <<puts, cwd, fd>>
  BY WalkParentIs DEF Reads
<1>2. disk[ROOTINO].nlink >= 1 /\ disk[cwd[p]].type = "dir"
  BY <1>0, RootHasLinks DEF Alive
<1>3. CASE After(p, "parent", op[p], at[p], ip[p], n)
  <2>1. Left(p, "parent", at[p], ip[p], n, stage'[p])
    BY <1>0, <1>3, LeftIs
  <2>2. Of(puts'[p]) = {}
    BY <1>0, <1>1, <1>3, OfIs DEF Types, Calls
  <2>3. \A i \in Inum : i \in {cwd'[p], fd'[p], at'[p], ip'[p]} \cup Of(puts'[p]) =>
                          i \in {cwd[p], fd[p], at[p], ip[p]} \/ disk[i].nlink >= 1
    BY <1>0, <1>1, <1>2, <1>3, <2>1, <2>2, ConstFacts DEF Left, Types, Calls
  <2>4. disk[cwd'[p]].type = "dir" /\ pc'[p] \notin {"made", "cut"} /\ pc[p] # "made"
        /\ stage'[p] # "trunc"
    BY <1>0, <1>1, <1>2, <1>3, <2>1 DEF Left, Types, Calls
  <2>5. pc'[p] \in {"walk", "parent", "held", "undo"} /\ ip'[p] # None =>
          pc[p] \in {"walk", "parent", "held", "undo"} /\ ip[p] = ip'[p]
    BY <1>1, <1>3, <2>1 DEF Left
  <2> QED BY <1>1, <2>3, <2>4, <2>5 DEF Mild
<1> QED BY <1>3, WalkParentIs

LEMMA OpenMild ==
  ASSUME IInv, Tame, NEW p \in Proc, Open(p)
  PROVE  Mild(p)
<1>0. Types /\ Counted /\ Alive /\ Tree
  BY DEF IInv, Tame
<1>1. pc[p] = "found" /\ stage'[p] = "no" /\ disk' = disk /\ ents' = ents /\ at[p] \in Inum
      /\ OpensOrPuts(p, at[p], <<>>, <<at[p]>>)
      /\ UNCHANGED <<cwd>>
  BY OpenIs DEF Reads
<1>2. disk[ROOTINO].nlink >= 1 /\ disk[cwd[p]].type = "dir"
  BY <1>0, RootHasLinks DEF Alive
<1>3. CASE After(p, "out", None, None, None, None)
  <2>1. Left(p, "out", None, None, None, stage'[p])
    BY <1>0, <1>3, LeftIs
  <2>2. Of(puts'[p]) \subseteq {at[p]} /\ fd'[p] \in {fd[p], at[p]}
    <3>1. CASE fd' = [fd EXCEPT ![p] = at[p]] /\ puts' = [puts EXCEPT ![p] = <<>>]
      BY <1>0, <3>1, OfIs DEF Types, Calls
    <3>2. CASE fd' = fd /\ puts' = [puts EXCEPT ![p] = <<at[p]>>]
      BY <1>0, <1>1, <3>2, OfIs DEF Types, Calls
    <3> QED BY <1>1, <3>1, <3>2 DEF OpensOrPuts
  <2>3. \A i \in Inum : i \in {cwd'[p], fd'[p], at'[p], ip'[p]} \cup Of(puts'[p]) =>
                          i \in {cwd[p], fd[p], at[p], ip[p]} \/ disk[i].nlink >= 1
    BY <1>0, <1>1, <1>2, <1>3, <2>1, <2>2, ConstFacts DEF Left, Types, Calls
  <2>4. disk[cwd'[p]].type = "dir" /\ pc'[p] \notin {"made", "cut"} /\ pc[p] # "made"
        /\ stage'[p] # "trunc"
    BY <1>0, <1>1, <1>2, <1>3, <2>1 DEF Left, Types, Calls
  <2>5. pc'[p] \in {"walk", "parent", "held", "undo"} /\ ip'[p] # None =>
          pc[p] \in {"walk", "parent", "held", "undo"} /\ ip[p] = ip'[p]
    BY <1>1, <1>3, <2>1 DEF Left
  <2> QED BY <1>1, <2>3, <2>4, <2>5 DEF Mild
<1> QED BY <1>3, OpenIs

LEMMA ChdirMild ==
  ASSUME IInv, Tame, NEW p \in Proc, Chdir(p)
  PROVE  Mild(p)
<1>0. Types /\ Counted /\ Alive /\ Tree
  BY DEF IInv, Tame
<1>1. pc[p] = "found" /\ stage'[p] = "no" /\ disk' = disk /\ ents' = ents /\ at[p] \in Inum
      /\ UNCHANGED <<fd>>
  BY ChdirIs DEF Reads
<1>2. disk[ROOTINO].nlink >= 1 /\ disk[cwd[p]].type = "dir"
  BY <1>0, RootHasLinks DEF Alive
<1>3. CASE After(p, "out", None, None, None, None)
           /\ disk[at[p]].type = "dir" /\ cwd' = [cwd EXCEPT ![p] = at[p]]
           /\ puts' = [puts EXCEPT ![p] = <<cwd[p]>>]
  <2>1. Left(p, "out", None, None, None, stage'[p])
    BY <1>0, <1>3, LeftIs
  <2>2. Of(puts'[p]) = {cwd[p]}
    BY <1>0, <1>1, <1>3, OfIs DEF Types, Calls
  <2>3. \A i \in Inum : i \in {cwd'[p], fd'[p], at'[p], ip'[p]} \cup Of(puts'[p]) =>
                          i \in {cwd[p], fd[p], at[p], ip[p]} \/ disk[i].nlink >= 1
    BY <1>0, <1>1, <1>2, <1>3, <2>1, <2>2, ConstFacts DEF Left, Types, Calls
  <2>4. disk[cwd'[p]].type = "dir" /\ pc'[p] \notin {"made", "cut"} /\ pc[p] # "made"
        /\ stage'[p] # "trunc"
    BY <1>0, <1>1, <1>2, <1>3, <2>1 DEF Left, Types, Calls
  <2>5. pc'[p] \in {"walk", "parent", "held", "undo"} /\ ip'[p] # None =>
          pc[p] \in {"walk", "parent", "held", "undo"} /\ ip[p] = ip'[p]
    BY <1>1, <1>3, <2>1 DEF Left
  <2> QED BY <1>1, <2>3, <2>4, <2>5 DEF Mild
<1>4. CASE After(p, "out", None, None, None, None) /\ cwd' = cwd /\ puts' = [puts EXCEPT ![p] = <<at[p]>>]
  <2>1. Left(p, "out", None, None, None, stage'[p])
    BY <1>0, <1>4, LeftIs
  <2>2. Of(puts'[p]) = {at[p]}
    BY <1>0, <1>1, <1>4, OfIs DEF Types, Calls
  <2>3. \A i \in Inum : i \in {cwd'[p], fd'[p], at'[p], ip'[p]} \cup Of(puts'[p]) =>
                          i \in {cwd[p], fd[p], at[p], ip[p]} \/ disk[i].nlink >= 1
    BY <1>0, <1>1, <1>2, <1>4, <2>1, <2>2, ConstFacts DEF Left, Types, Calls
  <2>4. disk[cwd'[p]].type = "dir" /\ pc'[p] \notin {"made", "cut"} /\ pc[p] # "made"
        /\ stage'[p] # "trunc"
    BY <1>0, <1>1, <1>2, <1>4, <2>1 DEF Left, Types, Calls
  <2>5. pc'[p] \in {"walk", "parent", "held", "undo"} /\ ip'[p] # None =>
          pc[p] \in {"walk", "parent", "held", "undo"} /\ ip[p] = ip'[p]
    BY <1>1, <1>4, <2>1 DEF Left
  <2> QED BY <1>1, <2>3, <2>4, <2>5 DEF Mild
<1> QED BY <1>3, <1>4, ChdirIs

LEMMA CloseMild ==
  ASSUME IInv, Tame, NEW p \in Proc, Close(p)
  PROVE  Mild(p)
<1>0. Types /\ Counted /\ Alive /\ Tree
  BY DEF IInv, Tame
<1>1. pc[p] = "out" /\ stage'[p] = "no" /\ disk' = disk /\ ents' = ents /\ fd[p] \in Inum
      /\ fd' = [fd EXCEPT ![p] = None] /\ puts' = [puts EXCEPT ![p] = <<fd[p]>>]
      /\ UNCHANGED <<cwd>>
  BY CloseIs DEF Reads
<1>2. disk[ROOTINO].nlink >= 1 /\ disk[cwd[p]].type = "dir"
  BY <1>0, RootHasLinks DEF Alive
<1>3. CASE After(p, pc[p], op[p], at[p], ip[p], name[p])
  <2>1. Left(p, pc[p], at[p], ip[p], name[p], stage'[p])
    BY <1>0, <1>3, LeftIs
  <2>2. Of(puts'[p]) = {fd[p]}
    BY <1>0, <1>1, <1>3, OfIs DEF Types, Calls
  <2>3. \A i \in Inum : i \in {cwd'[p], fd'[p], at'[p], ip'[p]} \cup Of(puts'[p]) =>
                          i \in {cwd[p], fd[p], at[p], ip[p]} \/ disk[i].nlink >= 1
    BY <1>0, <1>1, <1>2, <1>3, <2>1, <2>2, ConstFacts DEF Left, Types, Calls
  <2>4. disk[cwd'[p]].type = "dir" /\ pc'[p] \notin {"made", "cut"} /\ pc[p] # "made"
        /\ stage'[p] # "trunc"
    BY <1>0, <1>1, <1>2, <1>3, <2>1 DEF Left, Types, Calls
  <2>5. pc'[p] \in {"walk", "parent", "held", "undo"} /\ ip'[p] # None =>
          pc[p] \in {"walk", "parent", "held", "undo"} /\ ip[p] = ip'[p]
    BY <1>1, <1>3, <2>1 DEF Left
  <2> QED BY <1>1, <2>3, <2>4, <2>5 DEF Mild
<1> QED BY <1>3, CloseIs

LEMMA CreateFoundMild ==
  ASSUME IInv, Tame, NEW p \in Proc, CreateFound(p), Leads(at[p], name[p])
  PROVE  Mild(p)
<1>0. Types /\ Counted /\ Alive /\ Tree
  BY DEF IInv, Tame
<1>1. pc[p] = "parent" /\ stage'[p] = "no" /\ disk' = disk /\ ents' = ents /\ at[p] \in Inum
      /\ disk[at[p]].type = "dir" /\ ents[at[p]][name[p]] \in Inum /\ name[p] \in Names
      /\ puts' = [puts EXCEPT ![p] = <<at[p]>>]
      /\ UNCHANGED <<cwd, fd>>
  BY CreateFoundIs DEF Reads
<1>2. disk[ROOTINO].nlink >= 1 /\ disk[cwd[p]].type = "dir"
  BY <1>0, RootHasLinks DEF Alive
<1>3. disk[ents[at[p]][name[p]]].nlink >= 1
  BY <1>0, <1>1, Found
<1>4. CASE After(p, "old", op[p], None, ents[at[p]][name[p]], None)
  <2>1. Left(p, "old", None, ents[at[p]][name[p]], None, stage'[p])
    BY <1>0, <1>4, LeftIs
  <2>2. Of(puts'[p]) = {at[p]}
    BY <1>0, <1>1, <1>4, OfIs DEF Types, Calls
  <2>3. \A i \in Inum : i \in {cwd'[p], fd'[p], at'[p], ip'[p]} \cup Of(puts'[p]) =>
                          i \in {cwd[p], fd[p], at[p], ip[p]} \/ disk[i].nlink >= 1
    BY <1>0, <1>1, <1>2, <1>3, <1>4, <2>1, <2>2, ConstFacts DEF Left, Types, Calls
  <2>4. disk[cwd'[p]].type = "dir" /\ pc'[p] \notin {"made", "cut"} /\ pc[p] # "made"
        /\ stage'[p] # "trunc"
    BY <1>0, <1>1, <1>2, <1>3, <1>4, <2>1 DEF Left, Types, Calls
  <2>5. pc'[p] \in {"walk", "parent", "held", "undo"} /\ ip'[p] # None =>
          pc[p] \in {"walk", "parent", "held", "undo"} /\ ip[p] = ip'[p]
    BY <1>1, <1>4, <2>1 DEF Left
  <2> QED BY <1>1, <2>3, <2>4, <2>5 DEF Mild
<1> QED BY <1>4, CreateFoundIs

LEMMA CreateOldMild ==
  ASSUME IInv, Tame, NEW p \in Proc, CreateOld(p)
  PROVE  Mild(p)
<1>0. Types /\ Counted /\ Alive /\ Tree
  BY DEF IInv, Tame
<1>1. pc[p] = "old" /\ stage'[p] = "no" /\ disk' = disk /\ ents' = ents /\ ip[p] \in Inum
      /\ OpensOrPuts(p, ip[p], <<>>, <<ip[p]>>)
      /\ UNCHANGED <<cwd>>
  BY CreateOldIs DEF Reads
<1>2. disk[ROOTINO].nlink >= 1 /\ disk[cwd[p]].type = "dir"
  BY <1>0, RootHasLinks DEF Alive
<1>3. CASE After(p, "out", None, None, None, None)
  <2>1. Left(p, "out", None, None, None, stage'[p])
    BY <1>0, <1>3, LeftIs
  <2>2. Of(puts'[p]) \subseteq {ip[p]} /\ fd'[p] \in {fd[p], ip[p]}
    <3>1. CASE fd' = [fd EXCEPT ![p] = ip[p]] /\ puts' = [puts EXCEPT ![p] = <<>>]
      BY <1>0, <3>1, OfIs DEF Types, Calls
    <3>2. CASE fd' = fd /\ puts' = [puts EXCEPT ![p] = <<ip[p]>>]
      BY <1>0, <1>1, <3>2, OfIs DEF Types, Calls
    <3> QED BY <1>1, <3>1, <3>2 DEF OpensOrPuts
  <2>3. \A i \in Inum : i \in {cwd'[p], fd'[p], at'[p], ip'[p]} \cup Of(puts'[p]) =>
                          i \in {cwd[p], fd[p], at[p], ip[p]} \/ disk[i].nlink >= 1
    BY <1>0, <1>1, <1>2, <1>3, <2>1, <2>2, ConstFacts DEF Left, Types, Calls
  <2>4. disk[cwd'[p]].type = "dir" /\ pc'[p] \notin {"made", "cut"} /\ pc[p] # "made"
        /\ stage'[p] # "trunc"
    BY <1>0, <1>1, <1>2, <1>3, <2>1 DEF Left, Types, Calls
  <2>5. pc'[p] \in {"walk", "parent", "held", "undo"} /\ ip'[p] # None =>
          pc[p] \in {"walk", "parent", "held", "undo"} /\ ip[p] = ip'[p]
    BY <1>1, <1>3, <2>1 DEF Left
  <2> QED BY <1>1, <2>3, <2>4, <2>5 DEF Mild
<1> QED BY <1>3, CreateOldIs

LEMMA LinkFoundMild ==
  ASSUME IInv, Tame, NEW p \in Proc, NEW s \in Inum, LinkFound(p, s), pc'[p] = "out"
  PROVE  Mild(p)
<1>0. Types /\ Counted /\ Alive /\ Tree
  BY DEF IInv, Tame
<1>1. pc[p] = "found" /\ stage'[p] = "no" /\ disk' = disk /\ ents' = ents /\ at[p] \in Inum
      /\ puts' = [puts EXCEPT ![p] = <<at[p]>>]
      /\ UNCHANGED <<cwd, fd>>
      /\ After(p, "out", None, None, None, None)
  BY <1>0, LinkFoundIs DEF Reads, After, Types, Calls
<1>2. disk[ROOTINO].nlink >= 1 /\ disk[cwd[p]].type = "dir"
  BY <1>0, RootHasLinks DEF Alive
<1>3. CASE After(p, "out", None, None, None, None)
  <2>1. Left(p, "out", None, None, None, stage'[p])
    BY <1>0, <1>3, LeftIs
  <2>2. Of(puts'[p]) = {at[p]}
    BY <1>0, <1>1, <1>3, OfIs DEF Types, Calls
  <2>3. \A i \in Inum : i \in {cwd'[p], fd'[p], at'[p], ip'[p]} \cup Of(puts'[p]) =>
                          i \in {cwd[p], fd[p], at[p], ip[p]} \/ disk[i].nlink >= 1
    BY <1>0, <1>1, <1>2, <1>3, <2>1, <2>2, ConstFacts DEF Left, Types, Calls
  <2>4. disk[cwd'[p]].type = "dir" /\ pc'[p] \notin {"made", "cut"} /\ pc[p] # "made"
        /\ stage'[p] # "trunc"
    BY <1>0, <1>1, <1>2, <1>3, <2>1 DEF Left, Types, Calls
  <2>5. pc'[p] \in {"walk", "parent", "held", "undo"} /\ ip'[p] # None =>
          pc[p] \in {"walk", "parent", "held", "undo"} /\ ip[p] = ip'[p]
    BY <1>1, <1>3, <2>1 DEF Left
  <2> QED BY <1>1, <2>3, <2>4, <2>5 DEF Mild
<1> QED BY <1>1, <1>3

LEMMA LinkTakenMild ==
  ASSUME IInv, Tame, NEW p \in Proc, LinkTaken(p), Leads(at[p], name[p])
  PROVE  Mild(p)
<1>0. Types /\ Counted /\ Alive /\ Tree
  BY DEF IInv, Tame
<1>1. pc[p] = "parent" /\ stage'[p] = "no" /\ disk' = disk /\ ents' = ents /\ at[p] \in Inum
      /\ disk[at[p]].type = "dir" /\ ents[at[p]][name[p]] \in Inum /\ name[p] \in Names
      /\ puts' = [puts EXCEPT ![p] = <<ents[at[p]][name[p]]>>]
      /\ UNCHANGED <<cwd, fd>>
  BY LinkTakenIs DEF Reads
<1>2. disk[ROOTINO].nlink >= 1 /\ disk[cwd[p]].type = "dir"
  BY <1>0, RootHasLinks DEF Alive
<1>3. disk[ents[at[p]][name[p]]].nlink >= 1
  BY <1>0, <1>1, Found
<1>4. CASE After(p, "held", op[p], at[p], ip[p], None)
  <2>1. Left(p, "held", at[p], ip[p], None, stage'[p])
    BY <1>0, <1>4, LeftIs
  <2>2. Of(puts'[p]) = {ents[at[p]][name[p]]}
    BY <1>0, <1>1, <1>4, OfIs DEF Types, Calls
  <2>3. \A i \in Inum : i \in {cwd'[p], fd'[p], at'[p], ip'[p]} \cup Of(puts'[p]) =>
                          i \in {cwd[p], fd[p], at[p], ip[p]} \/ disk[i].nlink >= 1
    BY <1>0, <1>1, <1>2, <1>3, <1>4, <2>1, <2>2, ConstFacts DEF Left, Types, Calls
  <2>4. disk[cwd'[p]].type = "dir" /\ pc'[p] \notin {"made", "cut"} /\ pc[p] # "made"
        /\ stage'[p] # "trunc"
    BY <1>0, <1>1, <1>2, <1>3, <1>4, <2>1 DEF Left, Types, Calls
  <2>5. pc'[p] \in {"walk", "parent", "held", "undo"} /\ ip'[p] # None =>
          pc[p] \in {"walk", "parent", "held", "undo"} /\ ip[p] = ip'[p]
    BY <1>1, <1>4, <2>1 DEF Left
  <2> QED BY <1>1, <2>3, <2>4, <2>5 DEF Mild
<1> QED BY <1>4, LinkTakenIs

LEMMA RefuseMild ==
  ASSUME IInv, Tame, NEW p \in Proc, Refuse(p)
  PROVE  Mild(p)
<1>0. Types /\ Counted /\ Alive /\ Tree
  BY DEF IInv, Tame
<1>1. pc[p] = "held" /\ stage'[p] = "no" /\ disk' = disk /\ ents' = ents /\ at[p] \in Inum
      /\ puts' = [puts EXCEPT ![p] = <<at[p]>>]
      /\ UNCHANGED <<cwd, fd>>
  BY RefuseIs
<1>2. disk[ROOTINO].nlink >= 1 /\ disk[cwd[p]].type = "dir"
  BY <1>0, RootHasLinks DEF Alive
<1>3. CASE After(p, "out", None, None, None, None)
  <2>1. Left(p, "out", None, None, None, stage'[p])
    BY <1>0, <1>3, LeftIs
  <2>2. Of(puts'[p]) = {at[p]}
    BY <1>0, <1>1, <1>3, OfIs DEF Types, Calls
  <2>3. \A i \in Inum : i \in {cwd'[p], fd'[p], at'[p], ip'[p]} \cup Of(puts'[p]) =>
                          i \in {cwd[p], fd[p], at[p], ip[p]} \/ disk[i].nlink >= 1
    BY <1>0, <1>1, <1>2, <1>3, <2>1, <2>2, ConstFacts DEF Left, Types, Calls
  <2>4. disk[cwd'[p]].type = "dir" /\ pc'[p] \notin {"made", "cut"} /\ pc[p] # "made"
        /\ stage'[p] # "trunc"
    BY <1>0, <1>1, <1>2, <1>3, <2>1 DEF Left, Types, Calls
  <2>5. pc'[p] \in {"walk", "parent", "held", "undo"} /\ ip'[p] # None =>
          pc[p] \in {"walk", "parent", "held", "undo"} /\ ip[p] = ip'[p]
    BY <1>1, <1>3, <2>1 DEF Left
  <2> QED BY <1>1, <2>3, <2>4, <2>5 DEF Mild
<1>4. CASE After(p, "undo", op[p], None, ip[p], None)
  <2>1. Left(p, "undo", None, ip[p], None, stage'[p])
    BY <1>0, <1>4, LeftIs
  <2>2. Of(puts'[p]) = {at[p]}
    BY <1>0, <1>1, <1>4, OfIs DEF Types, Calls
  <2>3. \A i \in Inum : i \in {cwd'[p], fd'[p], at'[p], ip'[p]} \cup Of(puts'[p]) =>
                          i \in {cwd[p], fd[p], at[p], ip[p]} \/ disk[i].nlink >= 1
    BY <1>0, <1>1, <1>2, <1>4, <2>1, <2>2, ConstFacts DEF Left, Types, Calls
  <2>4. disk[cwd'[p]].type = "dir" /\ pc'[p] \notin {"made", "cut"} /\ pc[p] # "made"
        /\ stage'[p] # "trunc"
    BY <1>0, <1>1, <1>2, <1>4, <2>1 DEF Left, Types, Calls
  <2>5. pc'[p] \in {"walk", "parent", "held", "undo"} /\ ip'[p] # None =>
          pc[p] \in {"walk", "parent", "held", "undo"} /\ ip[p] = ip'[p]
    BY <1>1, <1>4, <2>1 DEF Left
  <2> QED BY <1>1, <2>3, <2>4, <2>5 DEF Mild
<1> QED BY <1>3, <1>4, RefuseIs

LEMMA UnlinksMild ==
  ASSUME IInv, Tame, NEW p \in Proc, Unlinks(p), pc'[p] = "held"
  PROVE  Mild(p)
<1>0. Types /\ Counted /\ Alive /\ Tree
  BY DEF IInv, Tame
<1>1. pc[p] = "gone" /\ stage'[p] = "no" /\ disk' = disk /\ ents' = ents /\ at[p] \in Inum /\ ip[p] \in Inum
      /\ puts' = [puts EXCEPT ![p] = <<ip[p]>>]
      /\ UNCHANGED <<cwd, fd>>
      /\ After(p, "held", op[p], at[p], None, None)
  BY <1>0, UnlinksIs DEF Reads, After, Types, Calls
<1>2. disk[ROOTINO].nlink >= 1 /\ disk[cwd[p]].type = "dir"
  BY <1>0, RootHasLinks DEF Alive
<1>3. CASE After(p, "held", op[p], at[p], None, None)
  <2>1. Left(p, "held", at[p], None, None, stage'[p])
    BY <1>0, <1>3, LeftIs
  <2>2. Of(puts'[p]) = {ip[p]}
    BY <1>0, <1>1, <1>3, OfIs DEF Types, Calls
  <2>3. \A i \in Inum : i \in {cwd'[p], fd'[p], at'[p], ip'[p]} \cup Of(puts'[p]) =>
                          i \in {cwd[p], fd[p], at[p], ip[p]} \/ disk[i].nlink >= 1
    BY <1>0, <1>1, <1>2, <1>3, <2>1, <2>2, ConstFacts DEF Left, Types, Calls
  <2>4. disk[cwd'[p]].type = "dir" /\ pc'[p] \notin {"made", "cut"} /\ pc[p] # "made"
        /\ stage'[p] # "trunc"
    BY <1>0, <1>1, <1>2, <1>3, <2>1 DEF Left, Types, Calls
  <2>5. pc'[p] \in {"walk", "parent", "held", "undo"} /\ ip'[p] # None =>
          pc[p] \in {"walk", "parent", "held", "undo"} /\ ip[p] = ip'[p]
    BY <1>1, <1>3, <2>1 DEF Left
  <2> QED BY <1>1, <2>3, <2>4, <2>5 DEF Mild
<1> QED BY <1>1, <1>3

LEMMA UnlinkLookMild ==
  ASSUME IInv, Tame, NEW p \in Proc, UnlinkLook(p)
  PROVE  Mild(p)
<1>0. Types /\ Counted /\ Alive /\ Tree
  BY DEF IInv, Tame
<1>1. pc[p] = "parent" /\ stage'[p] = "no" /\ disk' = disk /\ ents' = ents /\ at[p] \in Inum
      /\ UNCHANGED <<cwd, fd>>
  BY UnlinkLookIs DEF Reads
<1>2. disk[ROOTINO].nlink >= 1 /\ disk[cwd[p]].type = "dir"
  BY <1>0, RootHasLinks DEF Alive
<1>3. CASE After(p, "out", None, None, None, None) /\ puts' = [puts EXCEPT ![p] = <<at[p]>>]
  <2>1. Left(p, "out", None, None, None, stage'[p])
    BY <1>0, <1>3, LeftIs
  <2>2. Of(puts'[p]) = {at[p]}
    BY <1>0, <1>1, <1>3, OfIs DEF Types, Calls
  <2>3. \A i \in Inum : i \in {cwd'[p], fd'[p], at'[p], ip'[p]} \cup Of(puts'[p]) =>
                          i \in {cwd[p], fd[p], at[p], ip[p]} \/ disk[i].nlink >= 1
    BY <1>0, <1>1, <1>2, <1>3, <2>1, <2>2, ConstFacts DEF Left, Types, Calls
  <2>4. disk[cwd'[p]].type = "dir" /\ pc'[p] \notin {"made", "cut"} /\ pc[p] # "made"
        /\ stage'[p] # "trunc"
    BY <1>0, <1>1, <1>2, <1>3, <2>1 DEF Left, Types, Calls
  <2>5. pc'[p] \in {"walk", "parent", "held", "undo"} /\ ip'[p] # None =>
          pc[p] \in {"walk", "parent", "held", "undo"} /\ ip[p] = ip'[p]
    BY <1>1, <1>3, <2>1 DEF Left
  <2> QED BY <1>1, <2>3, <2>4, <2>5 DEF Mild
<1>4. CASE After(p, "gone", op[p], at[p], ents[at[p]][name[p]], name[p]) /\ puts' = puts /\ name[p] \in Name
          /\ ents[at[p]][name[p]] \in Inum /\ puts[p] = <<>>
  <2>1. Left(p, "gone", at[p], ents[at[p]][name[p]], name[p], stage'[p])
    BY <1>0, <1>4, LeftIs
  <2>2. Of(puts'[p]) = {}
    BY <1>0, <1>1, <1>4, OfIs DEF Types, Calls
  <2>3. \A i \in Inum : i \in {cwd'[p], fd'[p], at'[p], ip'[p]} \cup Of(puts'[p]) =>
                          i \in {cwd[p], fd[p], at[p], ip[p]} \/ disk[i].nlink >= 1
    BY <1>0, <1>1, <1>2, <1>4, <2>1, <2>2, EntryIsLink, ConstFacts DEF Left, Types, Calls
  <2>4. disk[cwd'[p]].type = "dir" /\ pc'[p] \notin {"made", "cut"} /\ pc[p] # "made"
        /\ stage'[p] # "trunc"
    BY <1>0, <1>1, <1>2, <1>4, <2>1 DEF Left, Types, Calls
  <2>5. pc'[p] \in {"walk", "parent", "held", "undo"} /\ ip'[p] # None =>
          pc[p] \in {"walk", "parent", "held", "undo"} /\ ip[p] = ip'[p]
    BY <1>1, <1>4, <2>1 DEF Left
  <2> QED BY <1>1, <2>3, <2>4, <2>5 DEF Mild
<1> QED BY <1>3, <1>4, UnlinkLookIs

-----------------------------------------------------------------------------
(* iput, but for the step that frees the inode                             *)

LEMMA AsideIs ==
  ASSUME IInv, Tame, NEW p \in Proc, puts[p] # <<>>, UNCHANGED <<disk, ents, cwd, fd>>,
         After(p, pc[p], op[p], at[p], ip[p], name[p]),
         \A i \in Inum : Uses(p, i)' => Uses(p, i),
         stage'[p] = "trunc" => DoomedAt(p)'
  PROVE  Gentle(p) /\ Calm(p)
<1>1. Types /\ Shape /\ Alive /\ LinksToFiles
  BY DEF IInv, Tame
<1>2. Left(p, pc[p], at[p], ip[p], name[p], stage'[p])
  BY <1>1, LeftIs
<1>3. pc[p] # "made"
  BY <1>1 DEF Shape
<1>4. disk[cwd[p]].type = "dir"
  BY <1>1 DEF Alive
<1>5. pc'[p] \in {"walk", "parent", "held", "undo"} /\ ip'[p] # None => disk[ip'[p]].type # "dir"
  BY <1>1, <1>2 DEF Left, LinksToFiles
<1>6. Gentle(p)
  BY <1>2, <1>3, <1>4, <1>5 DEF Gentle, Left
<1>7. Calm(p)
  BY <1>2, <1>3 DEF Calm, Left
<1> QED BY <1>6, <1>7

LEMMA DropAside ==
  ASSUME IInv, Tame, NEW p \in Proc, puts[p] # <<>>, stage[p] \in {"no", "drop"},
         Drops(p, Head(puts[p]))
  PROVE  Gentle(p) /\ Calm(p)
<1>1. Types /\ Shape
  BY DEF IInv
<1>2. puts'[p] = Tail(puts[p]) /\ stage'[p] = "no"
  BY <1>1 DEF Drops, Types, Calls
<1>3. /\ Len(Tail(puts[p])) = Len(puts[p]) - 1 /\ Len(puts[p]) \in 1 .. 2
      /\ \A k \in 1 .. Len(Tail(puts[p])) : Tail(puts[p])[k] = puts[p][k + 1]
  BY <1>1, PutsOf
<1>4. Left(p, pc[p], at[p], ip[p], name[p], stage'[p]) /\ cwd' = cwd /\ fd' = fd
  BY <1>1, LeftIs DEF Drops
<1>5. ASSUME NEW i \in Inum, Uses(p, i)'
      PROVE  Uses(p, i)
  <2>1. CASE i \in {cwd'[p], fd'[p], at'[p], ip'[p]}
    BY <1>4, <2>1 DEF Uses, Left
  <2>2. CASE i \notin {cwd'[p], fd'[p], at'[p], ip'[p]}
    <3>1. PICK k \in 1 .. Len(Tail(puts[p])) : Tail(puts[p])[k] = i
      BY <1>2, <1>5, <2>2 DEF Uses
    <3>2. PICK m \in 1 .. Len(puts[p]) : m = k + 1
      BY <1>3, <3>1
    <3>3. puts[p][m] = i /\ m # 1
      BY <1>3, <3>1, <3>2
    <3> QED BY <3>2, <3>3 DEF Uses
  <2> QED BY <2>1, <2>2
<1>6. /\ UNCHANGED <<disk, ents, cwd, fd>>
      /\ After(p, pc[p], op[p], at[p], ip[p], name[p])
  BY DEF Drops
<1> QED BY <1>2, <1>5, <1>6, AsideIs

LEMMA IputLastAside ==
  ASSUME IInv, Tame, NEW p \in Proc, Keeps(p), IputLast(p)
  PROVE  Gentle(p) /\ Calm(p)
<1> DEFINE i == Head(puts[p])
<1>1. Types /\ Shape /\ RefsExact /\ Others(p)
  BY DEF IInv, Keeps
<1>2. /\ puts[p] # <<>> /\ stage[p] = "no" /\ i \in Inum
      /\ ~(ref[i] > 1) /\ disk[i].nlink = 0
      /\ stage' = [stage EXCEPT ![p] = "trunc"] /\ After(p, pc[p], op[p], at[p], ip[p], name[p])
      /\ UNCHANGED <<disk, ents, puts, cwd, fd>>
  BY IputLastIs
<1>3. stage'[p] = "trunc" /\ Left(p, pc[p], at[p], ip[p], name[p], stage'[p])
  BY <1>1, <1>2, LeftIs DEF Types, Calls
<1>4. ASSUME NEW j \in Inum, Uses(p, j)'
      PROVE  Uses(p, j)
  BY <1>2, <1>3, <1>4 DEF Uses, Left
<1>5. /\ \A q \in Proc : i \notin {cwd[q], fd[q], at[q], ip[q]}
      /\ \A q \in Proc : \A k \in 1 .. Len(puts[q]) : puts[q][k] = i => q = p /\ k = 1
  BY <1>1, <1>2, OnlyReference
<1>6. \A q \in Proc \ {p} : ~Uses(q, i)'
  <2>1. \A q \in Proc \ {p} : ~Uses(q, i)
    BY <1>5 DEF Uses
  <2>2. \A q \in Proc \ {p} : \A j : Uses(q, j)' <=> Uses(q, j)
    BY <1>1, OthersUse
  <2>3. PICK j \in Inum : j = i
    BY <1>2
  <2>4. \A q \in Proc \ {p} : ~Uses(q, j)'
    BY <2>1, <2>2, <2>3
  <2>5. i' = i
    BY <1>2
  <2> QED BY <2>3, <2>4, <2>5 DEF Uses
<1>7. Len(puts[p]) > 1 => puts[p][2] # i
  BY <1>1, <1>2, <1>5, PutsOf
<1>8. DoomedAt(p)'
  <2>1. Only(p, i)'
    BY <1>2, <1>6 DEF Only
  <2>2. i \notin {cwd'[p], fd'[p], at'[p], ip'[p]}
    BY <1>2, <1>3, <1>5 DEF Left
  <2> QED BY <1>2, <1>7, <2>1, <2>2 DEF DoomedAt
<1> QED BY <1>2, <1>4, <1>8, AsideIs

LEMMA IputInvalidAside ==
  ASSUME IInv, Tame, NEW p \in Proc, IputInvalid(p)
  PROVE  Gentle(p) /\ Calm(p)
<1>1. Types
  BY DEF IInv
<1>2. /\ puts[p] # <<>> /\ stage[p] = "free"
      /\ stage' = [stage EXCEPT ![p] = "drop"] /\ After(p, pc[p], op[p], at[p], ip[p], name[p])
      /\ UNCHANGED <<disk, ents, puts, cwd, fd>>
  BY IputInvalidIs
<1>3. stage'[p] = "drop" /\ Left(p, pc[p], at[p], ip[p], name[p], stage'[p])
  BY <1>1, <1>2, LeftIs DEF Types, Calls
<1>4. ASSUME NEW j \in Inum, Uses(p, j)'
      PROVE  Uses(p, j)
  BY <1>2, <1>3, <1>4 DEF Uses, Left
<1> QED BY <1>2, <1>3, <1>4, AsideIs

-----------------------------------------------------------------------------
(* sys_link and sys_unlink count the links of a file                       *)

LEMMA NlinksAre ==
  ASSUME Types, NEW i \in Inum, NEW w \in Int, disk' = [disk EXCEPT ![i] = Counting(i, w)]
  PROVE  /\ \A j \in Inum : disk'[j].type = disk[j].type
         /\ \A j \in Inum : disk'[j].nlink = disk[j].nlink + (IF j = i THEN w ELSE 0)
<1>1. \A j \in Inum : disk[j] \in Inode
  BY DEF Types, Store
<1>2. Counting(i, w).type = disk[i].type /\ Counting(i, w).nlink = disk[i].nlink + w
  BY <1>1 DEF Counting, Inode
<1>3. \A j \in Inum : disk'[j] = IF j = i THEN Counting(i, w) ELSE disk[j]
  BY DEF Types, Store
<1>4. \A j \in Inum : disk[j].nlink \in Int
  BY <1>1 DEF Inode
<1>5. \A j \in Inum : disk'[j].type = disk[j].type
  BY <1>2, <1>3
<1>6. \A j \in Inum : disk'[j].nlink = disk[j].nlink + (IF j = i THEN w ELSE 0)
  BY <1>2, <1>3, <1>4
<1> QED BY <1>5, <1>6

LEMMA CountsMove ==
  ASSUME IInv, Tame, NEW p \in Proc, Others(p), pc[p] # "made", ents' = ents,
         NEW i \in Inum, NEW w \in Int, disk' = [disk EXCEPT ![i] = Counting(i, w)],
         Pending(i)' <= Pending(i) + w, \A j \in Inum : j # i => Pending(j)' <= Pending(j) + 0
  PROVE  Counted' /\ Tree'
<1>0. Types /\ Counted /\ Tree
  BY DEF IInv, Tame
<1>1. /\ \A j \in Inum : disk'[j].type = disk[j].type
      /\ \A j \in Inum : disk'[j].nlink = disk[j].nlink + (IF j = i THEN w ELSE 0)
  BY <1>0, NlinksAre
<1>2. Tree'
  BY <1>0, <1>1, TreeStays
<1>3. ASSUME NEW j \in Inum
      PROVE  CountedAt(j)'
  <2>1. Links(j)' <= Links(j) + 0
    BY LinksStay
  <2>2. Subdirs(j)' <= Subdirs(j) + 0
    <3>1. \A n \in Name : ents[j][n] # None => ents[j][n] \in Inum
      BY <1>0, ConstFacts DEF Types, Store
    <3> QED BY <1>1, <3>1, SubdirsStay
  <2>3. disk[j].nlink \in Int
    BY <1>0 DEF Types, Store, Inode
  <2>4. CASE j = i
    <3>1. disk'[i].nlink = disk[i].nlink + 0 + 0 + w
      BY <1>1, <2>3, <2>4
    <3> QED BY <1>0, <2>1, <2>2, <2>4, <3>1, CountedStep
  <2>5. CASE j # i
    <3>1. disk'[j].nlink = disk[j].nlink + 0 + 0 + 0
      BY <1>1, <2>3, <2>5
    <3> QED BY <1>0, <2>1, <2>2, <2>5, <3>1, CountedStep
  <2> QED BY <2>4, <2>5
<1> QED BY <1>2, <1>3 DEF Counted

LEMMA LinkFoundCounts ==
  ASSUME IInv, Tame, NEW p \in Proc, Keeps(p), NEW s \in Inum, LinkFound(p, s), pc'[p] = "walk"
  PROVE  Gentle(p) /\ Counted' /\ Tree'
<1>0. Types /\ Alive /\ Counted /\ Others(p)
  BY DEF IInv, Tame, Keeps
<1>a. at[p] \in Inum
  BY LinkFoundIs
<1>b. PICK i \in Inum, w \in Int : i = at[p] /\ w = 1
  BY <1>a
<1>1. /\ pc[p] = "found" /\ puts[p] = <<>> /\ stage[p] = "no"
      /\ disk[i].type # "dir" /\ disk' = [disk EXCEPT ![i] = Counting(i, w)]
      /\ s \in {ROOTINO, cwd[p]} /\ After(p, "walk", op[p], s, i, name[p])
      /\ UNCHANGED <<ents, puts, stage, cwd, fd>>
  BY <1>0, <1>b, LinkFoundIs DEF Writes, After, Types, Calls
<1>2. Left(p, "walk", s, i, name[p], stage'[p])
  BY <1>0, <1>1, LeftIs
<1>3. /\ \A j \in Inum : disk'[j].type = disk[j].type
      /\ \A j \in Inum : disk'[j].nlink = disk[j].nlink + (IF j = i THEN w ELSE 0)
  BY <1>0, <1>1, NlinksAre
<1>4. \A j \in Inum : j # i => disk'[j].nlink = disk[j].nlink
  BY <1>0, <1>3 DEF Types, Store, Inode
<1>5. Gentle(p)
  <2>1. \A j \in Inum : disk'[j].nlink # disk[j].nlink \/ ents'[j] # ents[j] => Uses(p, j)
    BY <1>1, <1>4, <1>b DEF Uses
  <2>2. \A j \in Inum : Uses(p, j)' => Uses(p, j) \/ disk[j].nlink >= 1
    <3> SUFFICES ASSUME NEW j \in Inum, Uses(p, j)'
                 PROVE  Uses(p, j) \/ disk[j].nlink >= 1
      OBVIOUS
    <3>1. j \in {cwd[p], fd[p], s, i}
      BY <1>1, <1>2, UsesFrom, OfIs DEF Left
    <3>2. disk[ROOTINO].nlink >= 1
      BY <1>0, RootHasLinks
    <3> QED BY <1>1, <1>b, <3>1, <3>2 DEF Uses
  <2>3. disk[cwd'[p]].type = "dir" /\ pc'[p] # "made" /\ stage'[p] # "trunc"
    BY <1>0, <1>1, <1>2 DEF Alive, Left
  <2>4. disk[ip'[p]].type # "dir"
    BY <1>1, <1>2 DEF Left
  <2> QED BY <1>3, <2>1, <2>2, <2>3, <2>4 DEF Gentle
<1>6. Pending(i)' <= Pending(i) + w
  BY <1>0, <1>b, PendingGrows
<1>7. \A j \in Inum : j # i => Pending(j)' <= Pending(j) + 0
  BY <1>0, <1>2, PendingStays DEF Left
<1>8. Counted' /\ Tree'
  BY <1>0, <1>1, <1>6, <1>7, CountsMove
<1> QED BY <1>5, <1>8

(* The last step of a call gives back a link of ip and puts it.            *)
LEMMA UncountIs ==
  ASSUME IInv, Tame, NEW p \in Proc, Keeps(p), pc[p] \in {"undo", "cut"}, stage[p] = "no",
         ip[p] \in Inum, disk' = [disk EXCEPT ![ip[p]] = Counting(ip[p], -1)],
         After(p, "out", None, None, None, None), puts' = [puts EXCEPT ![p] = <<ip[p]>>],
         UNCHANGED <<ents, stage, cwd, fd>>
  PROVE  Gentle(p) /\ Counted' /\ Tree'
<1>a. PICK i \in Inum, w \in Int : i = ip[p] /\ w = -1
  OBVIOUS
<1>0. Types /\ Alive /\ Others(p)
  BY DEF IInv, Tame, Keeps
<1>1. disk' = [disk EXCEPT ![i] = Counting(i, w)] /\ puts' = [puts EXCEPT ![p] = <<i>>]
  BY <1>a
<1>2. Left(p, "out", None, None, None, stage'[p])
  BY <1>0, LeftIs
<1>3. /\ \A j \in Inum : disk'[j].type = disk[j].type
      /\ \A j \in Inum : disk'[j].nlink = disk[j].nlink + (IF j = i THEN w ELSE 0)
  BY <1>0, <1>1, NlinksAre
<1>4. \A j \in Inum : j # i => disk'[j].nlink = disk[j].nlink
  BY <1>0, <1>3 DEF Types, Store, Inode
<1>5. Gentle(p)
  <2>1. \A j \in Inum : disk'[j].nlink # disk[j].nlink \/ ents'[j] # ents[j] => Uses(p, j)
    BY <1>4, <1>a DEF Uses
  <2>2. \A j \in Inum : Uses(p, j)' => Uses(p, j)
    <3> SUFFICES ASSUME NEW j \in Inum, Uses(p, j)'
                 PROVE  Uses(p, j)
      OBVIOUS
    <3>1. puts'[p] = <<i>>
      BY <1>0, <1>1 DEF Types, Calls
    <3>2. j \in {cwd[p], fd[p], i}
      BY <1>2, <3>1, UsesFrom, OfIs, ConstFacts DEF Left
    <3> QED BY <1>a, <3>2 DEF Uses
  <2>3. disk[cwd'[p]].type = "dir" /\ pc'[p] = "out" /\ stage'[p] # "trunc"
    BY <1>0, <1>2 DEF Alive, Left
  <2> QED BY <1>3, <2>1, <2>2, <2>3 DEF Gentle
<1>6. Pending(i)' <= Pending(i) + w
  BY <1>0, <1>a, <1>2, PendingShrinks DEF Left, Owing
<1>7. \A j \in Inum : j # i => Pending(j)' <= Pending(j) + 0
  BY <1>0, <1>a, <1>2, ConstFacts, PendingStays DEF Left, Owing
<1>8. Counted' /\ Tree'
  BY <1>0, <1>1, <1>6, <1>7, CountsMove
<1> QED BY <1>5, <1>8

LEMMA LinkUndoCounts ==
  ASSUME IInv, Tame, NEW p \in Proc, Keeps(p), LinkUndo(p)
  PROVE  Gentle(p) /\ Counted' /\ Tree'
BY LinkUndoIs, UncountIs DEF Writes

LEMMA UnlinkCutCounts ==
  ASSUME IInv, Tame, NEW p \in Proc, Keeps(p), UnlinkCut(p)
  PROVE  Gentle(p) /\ Counted' /\ Tree'
BY UnlinkCutIs, UncountIs DEF Writes

-----------------------------------------------------------------------------
(* sys_link and sys_unlink change a directory                              *)

LEMMA EntrySet ==
  ASSUME Types, NEW d \in Inum, NEW n \in Names, NEW v, ents' = [ents EXCEPT ![d][n] = v]
  PROVE  /\ ents'[d][n] = v
         /\ \A x \in Inum, m \in Names : ~(x = d /\ m = n) => ents'[x][m] = ents[x][m]
         /\ \A x \in Inum : x # d => ents'[x] = ents[x]
<1>1. ents \in [Inum -> [Names -> Inum \cup {None}]]
  BY DEF Types, Store
<1>2. ents'[d] = [ents[d] EXCEPT ![n] = v] /\ \A x \in Inum : x # d => ents'[x] = ents[x]
  BY <1>1
<1>3. ents[d] \in [Names -> Inum \cup {None}]
  BY <1>1
<1> QED BY <1>2, <1>3

(* An inode that a call refers to is not being made.                       *)
LEMMA NotNew ==
  ASSUME IInv, Tame, NEW p \in Proc, NEW d \in Inum, Uses(p, d), pc[p] = "made" => d # ip[p]
  PROVE  ~New(d)
<1> SUFFICES ASSUME NEW q \in Proc, pc[q] = "made", ip[q] = d
             PROVE  FALSE
  BY DEF New
<1>1. q # p
  OBVIOUS
<1>2. Only(q, d)
  BY DEF Tame, Fresh
<1> QED BY <1>1, <1>2 DEF Only

LEMMA LinkEnters ==
  ASSUME IInv, Tame, NEW p \in Proc, Keeps(p), Link(p)
  PROVE  Gentle(p) /\ Counted' /\ Tree'
<1>0. Types /\ Alive /\ Counted /\ Tree /\ LinksToFiles /\ Others(p)
  BY DEF IInv, Tame, Keeps
<1>a. at[p] \in Inum /\ ip[p] \in Inum /\ name[p] \in Names
  BY LinkIs
<1>b. PICK d \in Inum, i \in Inum, n \in Names : d = at[p] /\ i = ip[p] /\ n = name[p]
  BY <1>a
<1>1. /\ pc[p] = "parent" /\ puts[p] = <<>> /\ stage[p] = "no" /\ disk[d].type = "dir"
      /\ ents[d][n] = None /\ ents' = [ents EXCEPT ![d][n] = i] /\ disk' = disk
      /\ After(p, "out", None, None, None, None) /\ puts' = [puts EXCEPT ![p] = <<d, i>>]
      /\ UNCHANGED <<stage, cwd, fd>>
  BY <1>0, <1>b, LinkIs DEF Reads, After, Types, Calls
<1>2. Left(p, "out", None, None, None, stage'[p]) /\ puts'[p] = <<d, i>>
  BY <1>0, <1>1, LeftIs DEF Types, Calls
<1>3. disk[i].type # "dir" /\ d # i /\ ents[i] = Empty
  BY <1>0, <1>1, <1>b, ConstFacts DEF LinksToFiles, Tree
<1>4. ~New(d)
  BY <1>1, <1>b, NotNew DEF Uses
<1>5. n \in Name
  BY <1>0, <1>1, <1>4, ConstFacts DEF Tree
<1>6. /\ ents'[d][n] = i
      /\ \A x \in Inum, m \in Names : ~(x = d /\ m = n) => ents'[x][m] = ents[x][m]
      /\ \A x \in Inum : x # d => ents'[x] = ents[x]
  BY <1>0, <1>1, EntrySet
<1>7. Gentle(p)
  <2>1. \A j \in Inum : disk'[j].nlink # disk[j].nlink \/ ents'[j] # ents[j] => Uses(p, j)
    BY <1>1, <1>6, <1>b DEF Uses
  <2>2. \A j \in Inum : Uses(p, j)' => Uses(p, j)
    <3> SUFFICES ASSUME NEW j \in Inum, Uses(p, j)'
                 PROVE  Uses(p, j)
      OBVIOUS
    <3>1. j \in {cwd[p], fd[p], d, i}
      BY <1>1, <1>2, UsesFrom, OfIs, ConstFacts DEF Left
    <3> QED BY <1>b, <3>1 DEF Uses
  <2>3. disk[cwd'[p]].type = "dir" /\ pc'[p] = "out" /\ stage'[p] # "trunc"
    BY <1>0, <1>1, <1>2 DEF Alive, Left
  <2> QED BY <1>1, <2>1, <2>2, <2>3 DEF Gentle
<1>8. ASSUME NEW j \in Inum
      PROVE  CountedAt(j)'
  <2>1. Subdirs(j)' <= Subdirs(j) + 0
    <3>1. ASSUME NEW m \in Name, ents'[j][m] # None, disk'[ents'[j][m]].type = "dir"
          PROVE  ents[j][m] # None /\ disk[ents[j][m]].type = "dir"
      <4>1. ~(j = d /\ m = n)
        BY <1>1, <1>3, <1>6, <3>1
      <4> QED BY <1>1, <1>6, <3>1, <4>1, ConstFacts
    <3> QED BY <3>1, SubdirsStay
  <2>2. disk[j].nlink \in Int
    BY <1>0 DEF Types, Store, Inode
  <2>3. CASE j = i
    <3>1. Links(i)' <= Links(i) + 1
      <4>1. LinkSet(i)' \subseteq LinkSet(i) \cup {<<d, n>>}
        <5> SUFFICES ASSUME NEW e \in Inum \X Name, ents'[e[1]][e[2]] = i, e # <<d, n>>
                     PROVE  ents[e[1]][e[2]] = i
          BY DEF LinkSet
        <5>1. e[1] \in Inum /\ e[2] \in Names /\ ~(e[1] = d /\ e[2] = n)
          BY ConstFacts
        <5> QED BY <1>6, <5>1
      <4>2. Cardinality(LinkSet(i)') <= Cardinality(LinkSet(i)) + 1
        BY <4>1, CountsFinite, SetGrows
      <4> QED BY <4>2, CountsFinite, CountsFiniteNext
    <3>2. PICK w \in Int : w = -1
      OBVIOUS
    <3>3. Pending(i)' <= Pending(i) + w
      BY <1>0, <1>1, <1>2, <1>b, <3>2, PendingShrinks DEF Left, Owing
    <3>4. PICK l \in Int : l = 1
      OBVIOUS
    <3>5. disk'[i].nlink = disk[i].nlink + l + 0 + w
      BY <1>1, <2>2, <2>3, <3>2, <3>4
    <3> QED BY <1>0, <2>1, <2>3, <3>1, <3>3, <3>4, <3>5, CountedStep
  <2>4. CASE j # i
    <3>1. Links(j)' <= Links(j) + 0
      <4>1. \A x \in Inum, m \in Name : ents'[x][m] = j => ents[x][m] = j
        BY <1>6, <2>4, ConstFacts
      <4> QED BY <4>1, LinksStay
    <3>2. Pending(j)' <= Pending(j) + 0
      BY <1>0, <1>2, PendingStays, ConstFacts DEF Left, Owing
    <3>3. disk'[j].nlink = disk[j].nlink + 0 + 0 + 0
      BY <1>1, <2>2
    <3> QED BY <1>0, <2>1, <3>1, <3>2, <3>3, CountedStep
  <2> QED BY <2>3, <2>4
<1>9. Tree'
  <2>1. \A x \in Inum : New(x) => New(x)'
    BY <1>0, <1>1 DEF New, Others
  <2>2. \A x \in Inum : disk'[x].type # "dir" => ents'[x] = Empty
    BY <1>0, <1>1, <1>6 DEF Tree
  <2>3. \A x \in Inum : ents'[x][".."] = ents[x][".."]
    BY <1>5, <1>6, ConstFacts
  <2>4. \A x \in Inum : disk'[x].type = "dir" /\ ~New(x)' => ents'[x][".."] # None
    BY <1>0, <1>1, <2>1, <2>3 DEF Tree
  <2>5. \A x, j \in Inum, m \in Name :
          ents'[x][m] = j /\ disk'[j].type = "dir" => ents'[j][".."] = x
    <3> SUFFICES ASSUME NEW x \in Inum, NEW j \in Inum, NEW m \in Name, ents'[x][m] = j,
                        disk'[j].type = "dir"
                 PROVE  ents'[j][".."] = x
      OBVIOUS
    <3>1. ~(x = d /\ m = n)
      BY <1>1, <1>3, <1>6
    <3>2. ents[x][m] = j
      BY <1>6, <3>1, ConstFacts
    <3> QED BY <1>0, <1>1, <2>3, <3>2 DEF Tree
  <2>6. \A m \in Name : ents[i][m] = None
    BY <1>3, ConstFacts DEF Empty
  <2>7. \A x, j \in Inum, m, k \in Name : ~(ents'[x][m] = j /\ ents'[j][k] = x)
    <3> SUFFICES ASSUME NEW x \in Inum, NEW j \in Inum, NEW m \in Name, NEW k \in Name,
                        ents'[x][m] = j, ents'[j][k] = x
                 PROVE  FALSE
      OBVIOUS
    <3>1. \A y \in Inum, h \in Name : y = i => ents'[y][h] = None
      BY <1>3, <1>6, <2>6, ConstFacts
    <3>2. x # i /\ j # i
      BY <3>1, ConstFacts
    <3>3. ents[x][m] = j /\ ents[j][k] = x
      BY <1>6, <3>2, ConstFacts
    <3> QED BY <1>0, <3>3 DEF Tree
  <2>8. ents'[ROOTINO][".."] = ROOTINO
    BY <1>0, <2>3, ConstFacts DEF Tree
  <2> QED BY <2>2, <2>4, <2>5, <2>7, <2>8 DEF Tree, Empty
<1> QED BY <1>7, <1>8, <1>9 DEF Counted

LEMMA UnlinksCounts ==
  ASSUME IInv, Tame, NEW p \in Proc, Keeps(p), Unlinks(p), pc'[p] = "cut"
  PROVE  Gentle(p) /\ Counted' /\ Tree'
<1>0. Types /\ Alive /\ Counted /\ Tree /\ Settled /\ Seen /\ Others(p)
  BY DEF IInv, Tame, Keeps
<1>a. at[p] \in Inum /\ ip[p] \in Inum /\ name[p] \in Name
  BY UnlinksIs
<1>b. PICK d \in Inum, i \in Inum, n \in Name, w \in Int :
        d = at[p] /\ i = ip[p] /\ n = name[p] /\ w = IF disk[i].type = "dir" THEN -1 ELSE 0
  BY <1>a
<1>1. /\ pc[p] = "gone" /\ puts[p] = <<>> /\ stage[p] = "no" /\ d # i
      /\ disk[i].type = "dir" => Isdirempty(i)
      /\ ents' = [ents EXCEPT ![d][n] = None] /\ disk' = [disk EXCEPT ![d] = Counting(d, w)]
      /\ After(p, "cut", op[p], None, i, None) /\ puts' = [puts EXCEPT ![p] = <<d>>]
      /\ UNCHANGED <<stage, cwd, fd>>
  BY <1>0, <1>b, UnlinksIs DEF After, Types, Calls
<1>2. Left(p, "cut", None, i, None, stage'[p]) /\ puts'[p] = <<d>>
  BY <1>0, <1>1, LeftIs DEF Types, Calls
<1>3. disk[d].type = "dir" /\ ents[d][n] = i
  BY <1>0, <1>1, <1>b DEF Settled, Seen
<1>4. /\ \A j \in Inum : disk'[j].type = disk[j].type
      /\ \A j \in Inum : disk'[j].nlink = disk[j].nlink + (IF j = d THEN w ELSE 0)
  BY <1>0, <1>1, NlinksAre
<1>5. \A j \in Inum : disk[j].nlink \in Int /\ (j # d => disk'[j].nlink = disk[j].nlink)
  BY <1>0, <1>4 DEF Types, Store, Inode
<1>6. /\ ents'[d][n] = None
      /\ \A x \in Inum, m \in Names : ~(x = d /\ m = n) => ents'[x][m] = ents[x][m]
      /\ \A x \in Inum : x # d => ents'[x] = ents[x]
  BY <1>0, <1>1, EntrySet, ConstFacts
<1>7. \A x \in Inum, m \in Name : ents'[x][m] # None => ents'[x][m] = ents[x][m] /\ ~(x = d /\ m = n)
  BY <1>6, ConstFacts
<1>8. Gentle(p)
  <2>1. \A j \in Inum : disk'[j].nlink # disk[j].nlink \/ ents'[j] # ents[j] => Uses(p, j)
    BY <1>5, <1>6, <1>b DEF Uses
  <2>2. \A j \in Inum : Uses(p, j)' => Uses(p, j)
    <3> SUFFICES ASSUME NEW j \in Inum, Uses(p, j)'
                 PROVE  Uses(p, j)
      OBVIOUS
    <3>1. j \in {cwd[p], fd[p], d, i}
      BY <1>1, <1>2, UsesFrom, OfIs, ConstFacts DEF Left
    <3> QED BY <1>b, <3>1 DEF Uses
  <2>3. disk[cwd'[p]].type = "dir" /\ pc'[p] = "cut" /\ stage'[p] # "trunc"
    BY <1>0, <1>1, <1>2 DEF Alive, Left
  <2> QED BY <1>4, <2>1, <2>2, <2>3 DEF Gentle
<1>9. ASSUME NEW j \in Inum
      PROVE  CountedAt(j)'
  <2>0. \A m \in Name : ents[j][m] # None => ents[j][m] \in Inum
    BY <1>0, ConstFacts DEF Types, Store
  <2>1. \A x \in Inum, m \in Name : ents'[x][m] = j => ents[x][m] = j /\ ~(x = d /\ m = n)
    BY <1>7, ConstFacts
  <2>2. \A m \in Name : ents'[j][m] # None /\ disk'[ents'[j][m]].type = "dir"
                        => ents[j][m] # None /\ disk[ents[j][m]].type = "dir" /\ ~(j = d /\ m = n)
    BY <1>4, <1>7, <2>0
  <2>3. CASE j = i
    <3>1. PICK l \in Int : l = -1
      OBVIOUS
    <3>2. Links(i)' <= Links(i) + l
      <4>1. LinkSet(i)' \subseteq LinkSet(i) \ {<<d, n>>} /\ <<d, n>> \in LinkSet(i)
        BY <1>3, <2>1, <2>3 DEF LinkSet
      <4>2. Cardinality(LinkSet(i)') <= Cardinality(LinkSet(i)) - 1
        BY <4>1, CountsFinite, SetShrinks
      <4> QED BY <3>1, <4>2, CountsFinite, CountsFiniteNext
    <3>3. Subdirs(i)' <= Subdirs(i) + 0
      BY <2>2, <2>3, SubdirsStay
    <3>4. PICK k \in Int : k = 1
      OBVIOUS
    <3>5. Pending(i)' <= Pending(i) + k
      BY <1>0, <3>4, PendingGrows
    <3>6. disk'[i].nlink = disk[i].nlink + l + 0 + k
      BY <1>1, <1>5, <3>1, <3>4
    <3> QED BY <1>0, <2>3, <3>2, <3>3, <3>5, <3>6, CountedStep
  <2>4. CASE j # i
    <3>1. Links(j)' <= Links(j) + 0
      BY <2>1, LinksStay
    <3>2. Pending(j)' <= Pending(j) + 0
      BY <1>0, <1>2, <2>4, PendingStays DEF Left
    <3>3. CASE j = d /\ disk[i].type = "dir"
      <4>1. n \in SubdirSet(d) /\ SubdirSet(d)' \subseteq SubdirSet(d) \ {n}
        BY <1>3, <2>2, <3>3, ConstFacts DEF SubdirSet
      <4>2. Cardinality(SubdirSet(d)') <= Cardinality(SubdirSet(d)) - 1
        BY <4>1, CountsFinite, SetShrinks
      <4>3. Subdirs(d)' <= Subdirs(d) + w
        BY <1>b, <3>3, <4>2, CountsFinite, CountsFiniteNext DEF Subdirs
      <4>4. disk'[d].nlink = disk[d].nlink + 0 + w + 0
        BY <1>4, <1>5
      <4> QED BY <1>0, <3>1, <3>2, <3>3, <4>3, <4>4, CountedStep
    <3>4. CASE ~(j = d /\ disk[i].type = "dir")
      <4>1. Subdirs(j)' <= Subdirs(j) + 0
        BY <2>2, SubdirsStay
      <4>2. disk'[j].nlink = disk[j].nlink + 0 + 0 + 0
        BY <1>4, <1>5, <1>b, <3>4
      <4> QED BY <1>0, <3>1, <3>2, <4>1, <4>2, CountedStep
    <3> QED BY <3>3, <3>4
  <2> QED BY <2>3, <2>4
<1>10. Tree'
  <2>1. \A x \in Inum : New(x) => New(x)'
    BY <1>0, <1>1 DEF New, Others
  <2>2. \A x \in Inum : disk'[x].type # "dir" => ents'[x] = Empty
    BY <1>0, <1>3, <1>4, <1>6 DEF Tree
  <2>3. \A x \in Inum : ents'[x][".."] = ents[x][".."]
    BY <1>6, ConstFacts
  <2>4. \A x \in Inum : disk'[x].type = "dir" /\ ~New(x)' => ents'[x][".."] # None
    BY <1>0, <1>4, <2>1, <2>3 DEF Tree
  <2>5. \A x, j \in Inum, m \in Name : ents'[x][m] = j => ents[x][m] = j
    BY <1>7, ConstFacts
  <2>6. \A x, j \in Inum, m \in Name :
          ents'[x][m] = j /\ disk'[j].type = "dir" => ents'[j][".."] = x
    BY <1>0, <1>4, <2>3, <2>5 DEF Tree
  <2>7. \A x, j \in Inum, m, k \in Name : ~(ents'[x][m] = j /\ ents'[j][k] = x)
    BY <1>0, <2>5 DEF Tree
  <2>8. ents'[ROOTINO][".."] = ROOTINO
    BY <1>0, <2>3, ConstFacts DEF Tree
  <2> QED BY <2>2, <2>4, <2>6, <2>7, <2>8 DEF Tree, Empty
<1> QED BY <1>8, <1>9, <1>10 DEF Counted

-----------------------------------------------------------------------------
(* create gives the new inode its link, its dots and its entry             *)

(* What create writes, whether it makes a directory or a file.             *)
Makes(d, i, n, isdir) ==
  /\ \A j \in Inum : disk'[j].type = disk[j].type
  /\ disk'[i].nlink = 1
  /\ \A j \in Inum : j # i => disk'[j].nlink = disk[j].nlink + (IF j = d /\ isdir THEN 1 ELSE 0)
  /\ ents'[d][n] = i
  /\ \A m \in Names : m # n => ents'[d][m] = ents[d][m]
  /\ ents'[i] = IF isdir THEN Dots(d) ELSE ents[i]
  /\ \A j \in Inum : j \notin {d, i} => ents'[j] = ents[j]

LEMMA CreateMakes ==
  ASSUME IInv, NEW p \in Proc, CreateMade(p), NEW d \in Inum, NEW i \in Inum, NEW n \in Names,
         d = at[p], i = ip[p], n = name[p]
  PROVE  d # i /\ Makes(d, i, n, op[p] = "mkdir")
<1> DEFINE r == [disk[i] EXCEPT !.nlink = 1]
           c == Counting(d, 1)
<1>0. Types
  BY DEF IInv
<1>1. d # i
  BY CreateMadeIs
<1>2. /\ ents \in [Inum -> [Names -> Inum \cup {None}]]
      /\ \A j \in Inum : ents[j] \in [Names -> Inum \cup {None}]
  BY <1>0 DEF Types, Store
<1>3. disk \in [Inum -> Inode] /\ \A j \in Inum : disk[j] \in Inode /\ disk[j].nlink \in Int
  BY <1>0 DEF Types, Store, Inode
<1>4. r.type = disk[i].type /\ r.nlink = 1 /\ c.type = disk[d].type /\ c.nlink = disk[d].nlink + 1
  BY <1>3 DEF Counting, Inode
<1>5. CASE op[p] # "mkdir"
  <2>1. disk' = [disk EXCEPT ![i] = r]
    BY <1>5, CreateMadeIs DEF Writes
  <2>4. ents' = [ents EXCEPT ![d][n] = i]
    BY <1>5, CreateMadeIs
  <2> HIDE DEF r, c
  <2>5. ents'[d] = [ents[d] EXCEPT ![n] = i] /\ \A j \in Inum : j # d => ents'[j] = ents[j]
    BY <1>2, <2>4
  <2>2. ents'[d][n] = i /\ \A m \in Names : m # n => ents'[d][m] = ents[d][m]
    BY <1>2, <2>5
  <2>3. disk'[i] = r /\ \A j \in Inum : j # i => disk'[j] = disk[j]
    BY <1>3, <2>1
  <2> QED BY <1>1, <1>3, <1>4, <1>5, <2>2, <2>3, <2>5 DEF Makes
<1>6. CASE op[p] = "mkdir"
  <2>1. /\ ents' = [ents EXCEPT ![d][n] = i, ![i] = Dots(d)]
        /\ disk' = [disk EXCEPT ![i] = r, ![d] = c]
    BY <1>6, CreateMadeIs
  <2> HIDE DEF r, c
  <2>2. /\ ents'[d] = [ents[d] EXCEPT ![n] = i] /\ ents'[i] = Dots(d)
        /\ \A j \in Inum : j \notin {d, i} => ents'[j] = ents[j]
    BY <1>1, <1>2, <2>1
  <2>3. ents'[d][n] = i /\ \A m \in Names : m # n => ents'[d][m] = ents[d][m]
    BY <1>2, <2>2
  <2>4. disk'[i] = r /\ disk'[d] = c /\ \A j \in Inum : j \notin {d, i} => disk'[j] = disk[j]
    BY <1>1, <1>3, <2>1
  <2>5. \A j \in Inum : disk'[j].type = disk[j].type
    BY <1>4, <2>4
  <2>6. \A j \in Inum : j # i => disk'[j].nlink = disk[j].nlink + (IF j = d /\ op[p] = "mkdir" THEN 1 ELSE 0)
    BY <1>3, <1>4, <1>6, <2>4
  <2> QED BY <1>1, <1>4, <1>6, <2>2, <2>3, <2>4, <2>5, <2>6 DEF Makes
<1> QED BY <1>1, <1>5, <1>6

LEMMA CreateMadeCounts ==
  ASSUME IInv, Tame, NEW p \in Proc, Keeps(p), CreateMade(p)
  PROVE  Gentle(p) /\ Counted' /\ Tree'
<1>0. Types /\ Alive /\ Counted /\ Tree /\ Settled /\ Fresh /\ Others(p)
  BY DEF IInv, Tame, Keeps
<1>a. at[p] \in Inum /\ ip[p] \in Inum /\ name[p] \in Names
  BY CreateMadeIs
<1>b. PICK d \in Inum, i \in Inum, m0 \in Names, isdir \in BOOLEAN :
        d = at[p] /\ i = ip[p] /\ m0 = name[p] /\ (isdir <=> op[p] = "mkdir")
  BY <1>a
<1>1. /\ pc[p] = "made" /\ puts[p] = <<>> /\ stage[p] = "no" /\ ents[d][m0] = None
      /\ After(p, "out", None, None, None, None)
      /\ OpensOrPuts(p, i, <<d>>, <<d, i>>) /\ UNCHANGED <<stage, cwd>>
  BY <1>b, CreateMadeIs
<1>2. Left(p, "out", None, None, None, stage'[p])
  BY <1>0, <1>1, LeftIs
<1>3. disk[d].type = "dir" /\ disk[i].nlink = 0 /\ ents[i] = Empty /\ (disk[i].type = "dir" <=> isdir)
  BY <1>0, <1>1, <1>b DEF Settled, Fresh, Only
<1>4. d # i /\ Makes(d, i, m0, isdir)
  BY <1>b, CreateMakes
<1>5. m0 \in Name
  <2>1. ~New(d)
    BY <1>4, <1>b, NotNew DEF Uses
  <2> QED BY <1>0, <1>1, <1>3, <2>1, ConstFacts DEF Tree
<1>c. PICK n \in Name : n = m0
  BY <1>5
<1>6. /\ \A j \in Inum : disk'[j].type = disk[j].type
      /\ disk'[i].nlink = 1
      /\ \A j \in Inum : j # i => disk'[j].nlink = disk[j].nlink + (IF j = d /\ isdir THEN 1 ELSE 0)
      /\ ents'[d][n] = i
      /\ \A m \in Names : m # n => ents'[d][m] = ents[d][m]
      /\ ents'[i] = IF isdir THEN Dots(d) ELSE Empty
      /\ \A j \in Inum : j \notin {d, i} => ents'[j] = ents[j]
  BY <1>3, <1>4, <1>c DEF Makes
<1>7. /\ i # ROOTINO /\ \A x \in Inum, m \in Name : ents[x][m] # i
      /\ \A m \in Name : ents[i][m] = None
  BY <1>0, <1>3, NoLinks, ConstFacts DEF Empty
<1>8. \A m \in Name : ents'[i][m] = None
  BY <1>6, ConstFacts DEF Empty, Dots
<1>9. \A x \in Inum, m \in Name : ents'[x][m] # None =>
        \/ x = d /\ m = n /\ ents'[x][m] = i
        \/ x # i /\ ~(x = d /\ m = n) /\ ents'[x][m] = ents[x][m]
  BY <1>6, <1>8, ConstFacts
<1>10. \A j \in Inum : disk[j].nlink \in Int /\ (j \notin {d, i} => disk'[j].nlink = disk[j].nlink)
  BY <1>0, <1>6 DEF Types, Store, Inode
<1>11. Gentle(p)
  <2>1. \A j \in Inum : disk'[j].nlink # disk[j].nlink \/ ents'[j] # ents[j] => Uses(p, j)
    BY <1>6, <1>10, <1>b DEF Uses
  <2>2. \A j \in Inum : Uses(p, j)' => Uses(p, j)
    <3> SUFFICES ASSUME NEW j \in Inum, Uses(p, j)'
                 PROVE  Uses(p, j)
      OBVIOUS
    <3>1. Of(puts'[p]) \subseteq {d, i} /\ fd'[p] \in {fd[p], i}
      <4>1. CASE fd' = [fd EXCEPT ![p] = i] /\ puts' = [puts EXCEPT ![p] = <<d>>]
        BY <1>0, <4>1, OfIs DEF Types, Calls
      <4>2. CASE fd' = fd /\ puts' = [puts EXCEPT ![p] = <<d, i>>]
        BY <1>0, <4>2, OfIs DEF Types, Calls
      <4> QED BY <1>1, <4>1, <4>2 DEF OpensOrPuts
    <3>2. j \in {cwd[p], fd[p], d, i}
      BY <1>1, <1>2, <3>1, UsesFrom, ConstFacts DEF Left
    <3> QED BY <1>b, <3>2 DEF Uses
  <2>3. disk[cwd'[p]].type = "dir" /\ pc'[p] = "out" /\ stage'[p] # "trunc"
    BY <1>0, <1>1, <1>2 DEF Alive, Left
  <2> QED BY <1>6, <2>1, <2>2, <2>3 DEF Gentle
<1>12. ASSUME NEW j \in Inum
       PROVE  CountedAt(j)'
  <2>0. Pending(j)' <= Pending(j) + 0
    BY <1>0, <1>2, PendingStays, ConstFacts DEF Left, Owing
  <2>1. \A m \in Name : ents[j][m] # None => ents[j][m] \in Inum
    BY <1>0, ConstFacts DEF Types, Store
  <2>2. CASE j = i
    <3>1. PICK l \in Int : l = 1
      OBVIOUS
    <3>2. Links(i)' <= Links(i) + l
      <4>1. LinkSet(i)' \subseteq LinkSet(i) \cup {<<d, n>>}
        <5> SUFFICES ASSUME NEW e \in Inum \X Name, ents'[e[1]][e[2]] = i, e # <<d, n>>
                     PROVE  ents[e[1]][e[2]] = i
          BY DEF LinkSet
        <5>1. e[1] \in Inum /\ e[2] \in Name /\ ~(e[1] = d /\ e[2] = n)
          OBVIOUS
        <5> QED BY <1>9, <5>1, ConstFacts
      <4>2. Cardinality(LinkSet(i)') <= Cardinality(LinkSet(i)) + 1
        BY <4>1, CountsFinite, SetGrows
      <4> QED BY <3>1, <4>2, CountsFinite, CountsFiniteNext
    <3>3. Subdirs(i)' <= Subdirs(i) + 0
      BY <1>8, <2>2, SubdirsStay
    <3>4. disk'[i].nlink = disk[i].nlink + l + 0 + 0
      BY <1>3, <1>6, <3>1
    <3> QED BY <1>0, <2>0, <2>2, <3>2, <3>3, <3>4, CountedStep
  <2>3. CASE j # i
    <3>1. Links(j)' <= Links(j) + 0
      <4>1. \A x \in Inum, m \in Name : ents'[x][m] = j => ents[x][m] = j
        BY <1>9, <2>3, ConstFacts
      <4> QED BY <4>1, LinksStay
    <3>2. \A m \in Name : ents'[j][m] # None /\ disk'[ents'[j][m]].type = "dir" =>
            \/ j = d /\ m = n /\ isdir
            \/ ents[j][m] # None /\ disk[ents[j][m]].type = "dir"
      BY <1>3, <1>6, <1>9, <2>1
    <3>3. CASE j = d /\ isdir
      <4>1. PICK s \in Int : s = 1
        OBVIOUS
      <4>2. SubdirSet(d)' \subseteq SubdirSet(d) \cup {n}
        BY <3>2, <3>3 DEF SubdirSet
      <4>3. Cardinality(SubdirSet(d)') <= Cardinality(SubdirSet(d)) + 1
        BY <4>2, CountsFinite, SetGrows
      <4>4. Subdirs(d)' <= Subdirs(d) + s
        BY <4>1, <4>3, CountsFinite, CountsFiniteNext DEF Subdirs
      <4>5. disk'[d].nlink = disk[d].nlink + 0 + s + 0
        BY <1>6, <1>10, <2>3, <3>3, <4>1
      <4> QED BY <1>0, <2>0, <3>1, <3>3, <4>4, <4>5, CountedStep
    <3>4. CASE ~(j = d /\ isdir)
      <4>1. Subdirs(j)' <= Subdirs(j) + 0
        BY <3>2, <3>4, SubdirsStay
      <4>2. disk'[j].nlink = disk[j].nlink + 0 + 0 + 0
        BY <1>6, <1>10, <2>3, <3>4
      <4> QED BY <1>0, <2>0, <3>1, <4>1, <4>2, CountedStep
    <3> QED BY <3>3, <3>4
  <2> QED BY <2>2, <2>3
<1>13. Tree'
  <2>1. \A x \in Inum : x # i /\ New(x) => New(x)'
    BY <1>0, <1>b DEF New, Others
  <2>2. \A x \in Inum : disk'[x].type # "dir" => ents'[x] = Empty
    BY <1>0, <1>3, <1>6 DEF Tree
  <2>3. \A x \in Inum : x # i => ents'[x][".."] = ents[x][".."]
    BY <1>6, ConstFacts
  <2>4. isdir => ents'[i][".."] = d
    BY <1>6, ConstFacts DEF Empty, Dots
  <2>5. \A x \in Inum : disk'[x].type = "dir" /\ ~New(x)' => ents'[x][".."] # None
    BY <1>0, <1>3, <1>6, <2>1, <2>3, <2>4, ConstFacts DEF Tree
  <2>6. \A x, j \in Inum, m \in Name :
          ents'[x][m] = j /\ disk'[j].type = "dir" => ents'[j][".."] = x
    <3> SUFFICES ASSUME NEW x \in Inum, NEW j \in Inum, NEW m \in Name, ents'[x][m] = j,
                        disk'[j].type = "dir"
                 PROVE  ents'[j][".."] = x
      OBVIOUS
    <3>1. CASE x = d /\ m = n
      BY <1>3, <1>6, <2>4, <3>1
    <3>2. CASE ~(x = d /\ m = n)
      <4>1. ents[x][m] = j
        BY <1>9, <3>2, ConstFacts
      <4>2. j # i
        BY <1>7, <4>1
      <4> QED BY <1>0, <1>6, <2>3, <4>1, <4>2 DEF Tree
    <3> QED BY <3>1, <3>2
  <2>7. \A x, j \in Inum, m, k \in Name : ~(ents'[x][m] = j /\ ents'[j][k] = x)
    <3> SUFFICES ASSUME NEW x \in Inum, NEW j \in Inum, NEW m \in Name, NEW k \in Name,
                        ents'[x][m] = j, ents'[j][k] = x
                 PROVE  FALSE
      OBVIOUS
    <3>1. x # i /\ j # i
      BY <1>8, ConstFacts
    <3>2. ents[x][m] = j /\ ents[j][k] = x
      BY <1>9, <3>1, ConstFacts
    <3> QED BY <1>0, <3>2 DEF Tree
  <2>8. ents'[ROOTINO][".."] = ROOTINO
    BY <1>0, <1>7, <2>3, ConstFacts DEF Tree
  <2> QED BY <2>2, <2>5, <2>6, <2>7, <2>8 DEF Tree, Empty
<1> QED BY <1>11, <1>12, <1>13 DEF Counted

-----------------------------------------------------------------------------
(* ialloc and the end of iput: the type of inode i changes, which none of  *)
(* the others uses                                                         *)

Alters(p, i) ==
  /\ \A j \in Inum : j # i => disk'[j] = disk[j] /\ ents'[j] = ents[j]
  /\ disk'[i].nlink = 0 /\ disk[i].nlink = 0 /\ ents'[i] = Empty
  /\ \A q \in Proc \ {p} : ~Uses(q, i)
  /\ \A j \in Inum : Uses(p, j)' => Uses(p, j) \/ j = i

LEMMA OnlyRemains ==
  ASSUME NEW p \in Proc, Others(p), NEW i \in Inum, Alters(p, i), NEW q \in Proc, q # p,
         NEW j \in Inum, Only(q, j), j # i
  PROVE  Only(q, j)'
<1>1. disk'[j].nlink = 0
  BY DEF Alters, Only
<1>2. \A r \in Proc \ {q} : ~Uses(r, j)'
  <2> SUFFICES ASSUME NEW r \in Proc \ {q}, Uses(r, j)'
               PROVE  FALSE
    OBVIOUS
  <2>1. ~Uses(r, j)
    BY DEF Only
  <2>2. CASE r = p
    BY <2>1, <2>2 DEF Alters
  <2>3. CASE r # p
    BY <2>1, <2>3, OthersUse
  <2> QED BY <2>2, <2>3
<1> QED BY <1>1, <1>2 DEF Only

LEMMA AltersKeeps ==
  ASSUME IInv, Tame, NEW p \in Proc, Keeps(p), NEW i \in Inum, Alters(p, i),
         Uses(p, i)' => disk'[i].type # "free", pc[p] # "made", cwd'[p] = cwd[p], cwd[p] # i,
         pc'[p] = "made" => /\ ip'[p] = i /\ i \notin {cwd'[p], fd'[p], at'[p]}
                            /\ (disk'[i].type = "dir" <=> op'[p] = "mkdir"),
         stage'[p] # "trunc",
         pc'[p] \in {"walk", "parent", "held", "undo"} /\ ip'[p] # None =>
           ip'[p] = ip[p] /\ pc[p] = pc'[p] /\ ip[p] # i
  PROVE  Alive' /\ Fresh' /\ Doomed' /\ LinksToFiles'
<1>0. /\ Alive /\ Fresh /\ Doomed /\ LinksToFiles /\ Others(p) /\ Types /\ Types' /\ Shape
      /\ Counted
  BY DEF Tame, Keeps, IInv
<1>1. \A j \in Inum : j # i => disk'[j] = disk[j] /\ ents'[j] = ents[j]
  BY DEF Alters
<1>2. \A q \in Proc : q # p => ~Uses(q, i) /\ \A j : Uses(q, j)' <=> Uses(q, j)
  BY <1>0, OthersUse DEF Alters
<1>3. \A q \in Proc : q # p => i \notin {cwd[q], fd[q], at[q], ip[q]}
  BY <1>2 DEF Uses
<1>4. i # ROOTINO
  BY <1>0, NoLinks DEF Alters
<1>5. Alive'
  <2>1. ASSUME NEW q \in Proc, NEW j \in Inum, Uses(q, j)'
        PROVE  disk'[j].type # "free"
    <3>1. CASE j = i
      BY <1>2, <2>1, <3>1
    <3>2. CASE j # i
      <4>1. Uses(q, j)
        BY <1>2, <2>1, <3>2 DEF Alters
      <4> QED BY <1>0, <1>1, <3>2, <4>1 DEF Alive
    <3> QED BY <3>1, <3>2
  <2>2. ASSUME NEW q \in Proc
        PROVE  disk'[cwd'[q]].type = "dir"
    <3>1. cwd'[q] = cwd[q] /\ cwd[q] # i /\ cwd[q] \in Inum
      BY <1>0, <1>3 DEF Others, Types, Calls
    <3>2. disk[cwd[q]].type = "dir"
      BY <1>0 DEF Alive
    <3> QED BY <1>1, <3>1, <3>2
  <2>3. \A j \in Inum : disk'[j].type = "free" => disk'[j].nlink = 0
    BY <1>0, <1>1 DEF Alive, Alters
  <2>4. disk'[ROOTINO].type = "dir"
    BY <1>0, <1>1, <1>4, ConstFacts DEF Alive
  <2> QED BY <2>1, <2>2, <2>3, <2>4 DEF Alive
<1>6. Fresh'
  <2> SUFFICES ASSUME NEW q \in Proc, pc'[q] = "made"
               PROVE  /\ Only(q, ip[q])' /\ ip'[q] \notin {cwd'[q], fd'[q], at'[q]}
                      /\ ents'[ip'[q]] = Empty /\ (disk'[ip'[q]].type = "dir" <=> op'[q] = "mkdir")
    BY DEF Fresh, Empty
  <2>1. CASE q = p
    <3>1. ip'[p] = i
      BY <2>1
    <3>2. \A r \in Proc \ {p} : ~Uses(r, i)'
      BY <1>2
    <3>3. Only(p, ip[p])'
      BY <3>1, <3>2 DEF Only, Alters, Uses
    <3> QED BY <2>1, <3>1, <3>3 DEF Alters
  <2>2. CASE q # p
    <3>1. /\ pc[q] = "made" /\ ip'[q] = ip[q] /\ cwd'[q] = cwd[q] /\ fd'[q] = fd[q]
          /\ at'[q] = at[q] /\ op'[q] = op[q]
      BY <1>0, <2>2 DEF Others
    <3>2. /\ Only(q, ip[q]) /\ ip[q] \notin {cwd[q], fd[q], at[q]} /\ ents[ip[q]] = Empty
          /\ (disk[ip[q]].type = "dir" <=> op[q] = "mkdir")
      BY <1>0, <3>1 DEF Fresh
    <3>3. PICK j \in Inum : j = ip[q] /\ j # i
      BY <1>0, <1>3, <2>2, <3>1 DEF Shape, Types, Calls
    <3>4. Only(q, j)'
      BY <1>0, <2>2, <3>2, <3>3, OnlyRemains
    <3>5. Only(q, ip[q])'
      BY <3>1, <3>3, <3>4 DEF Only, Uses
    <3> QED BY <1>1, <3>1, <3>2, <3>3, <3>5
  <2> QED BY <2>1, <2>2
<1>7. Doomed'
  <2> SUFFICES ASSUME NEW q \in Proc, stage'[q] = "trunc"
               PROVE  DoomedAt(q)'
    BY DEF Doomed
  <2>1. q # p
    OBVIOUS
  <2>2. /\ stage[q] = "trunc" /\ ip'[q] = ip[q] /\ cwd'[q] = cwd[q] /\ fd'[q] = fd[q]
        /\ at'[q] = at[q] /\ puts'[q] = puts[q]
    BY <1>0, <2>1 DEF Others
  <2>3. DoomedAt(q)
    BY <1>0, <2>2 DEF Doomed
  <2>4. PICK j \in Inum : j = Head(puts[q])
    BY <1>0, <2>2, PutsOf DEF Shape
  <2>5. Uses(q, j)
    <3>1. 1 \in 1 .. Len(puts[q]) /\ puts[q][1] = j
      BY <1>0, <2>2, <2>4, PutsOf DEF Shape
    <3> QED BY <2>2, <3>1 DEF Uses
  <2>6. j # i
    BY <1>2, <2>1, <2>5
  <2>7. Only(q, j)'
    BY <1>0, <2>1, <2>3, <2>4, <2>6, OnlyRemains DEF DoomedAt
  <2>8. Only(q, Head(puts[q]))'
    BY <2>2, <2>4, <2>7 DEF Only, Uses
  <2> QED BY <2>2, <2>3, <2>8 DEF DoomedAt
<1>8. LinksToFiles'
  <2> SUFFICES ASSUME NEW q \in Proc, pc'[q] \in {"walk", "parent", "held", "undo"}, ip'[q] # None
               PROVE  disk'[ip'[q]].type # "dir"
    BY DEF LinksToFiles
  <2>1. pc[q] = pc'[q] /\ ip'[q] = ip[q] /\ ip[q] # i
    BY <1>0, <1>3 DEF Others
  <2>2. disk[ip[q]].type # "dir" /\ ip[q] \in Inum
    BY <1>0, <2>1 DEF LinksToFiles, Types, Calls
  <2> QED BY <1>1, <2>1, <2>2
<1> QED BY <1>5, <1>6, <1>7, <1>8

(* The links of all inodes, and the tree, when one that has none changes.  *)
LEMMA AltersCounts ==
  ASSUME IInv, Tame, NEW p \in Proc, Keeps(p), NEW i \in Inum, Alters(p, i), pc[p] # "made",
         ip'[p] # None /\ pc'[p] \in Owing => ip[p] = ip'[p] /\ pc[p] \in Owing,
         disk'[i].type = "dir" => New(i)'
  PROVE  Counted' /\ Tree'
<1>0. Types /\ Counted /\ Tree /\ Others(p)
  BY DEF IInv, Tame, Keeps
<1>1. /\ \A j \in Inum : j # i => disk'[j] = disk[j] /\ ents'[j] = ents[j]
      /\ disk'[i].nlink = 0 /\ disk[i].nlink = 0 /\ ents'[i] = Empty
  BY DEF Alters
<1>2. i # ROOTINO /\ \A x \in Inum, m \in Name : ents[x][m] # i
  BY <1>0, <1>1, NoLinks
<1>3. \A m \in Names : ents'[i][m] = None
  BY <1>1 DEF Empty
<1>4. \A x \in Inum, m \in Names : ents'[x][m] # None => x # i /\ ents'[x][m] = ents[x][m]
  BY <1>1, <1>3
<1>5. ASSUME NEW j \in Inum
      PROVE  CountedAt(j)'
  <2>1. Links(j)' <= Links(j) + 0
    BY <1>4, LinksStay, ConstFacts
  <2>2. Subdirs(j)' <= Subdirs(j) + 0
    <3>1. ASSUME NEW m \in Name, ents'[j][m] # None, disk'[ents'[j][m]].type = "dir"
          PROVE  ents[j][m] # None /\ disk[ents[j][m]].type = "dir"
      <4>1. ents'[j][m] = ents[j][m] /\ ents[j][m] \in Inum /\ ents[j][m] # i
        BY <1>0, <1>2, <1>4, <3>1, ConstFacts DEF Types, Store
      <4> QED BY <1>1, <3>1, <4>1
    <3> QED BY <3>1, SubdirsStay
  <2>3. Pending(j)' <= Pending(j) + 0
    BY <1>0, PendingStays, ConstFacts
  <2>4. disk'[j].nlink = disk[j].nlink + 0 + 0 + 0
    <3>1. disk[j].nlink \in Int
      BY <1>0 DEF Types, Store, Inode
    <3>2. disk'[j].nlink = disk[j].nlink
      BY <1>1
    <3> QED BY <3>1, <3>2
  <2> QED BY <1>0, <2>1, <2>2, <2>3, <2>4, CountedStep
<1>6. Tree'
  <2>1. \A x \in Inum : New(x) => New(x)'
    BY <1>0 DEF New, Others
  <2>2. \A x \in Inum : disk'[x].type # "dir" => ents'[x] = Empty
    BY <1>0, <1>1 DEF Tree
  <2>3. \A x \in Inum : disk'[x].type = "dir" /\ ~New(x)' => ents'[x][".."] # None
    BY <1>0, <1>1, <2>1 DEF Tree
  <2>4. \A x, j \in Inum, m \in Name : ents'[x][m] = j => ents[x][m] = j /\ j # i
    BY <1>2, <1>4, ConstFacts
  <2>5. \A x, j \in Inum, m \in Name :
          ents'[x][m] = j /\ disk'[j].type = "dir" => ents'[j][".."] = x
    BY <1>0, <1>1, <2>4 DEF Tree
  <2>6. \A x, j \in Inum, m, k \in Name : ~(ents'[x][m] = j /\ ents'[j][k] = x)
    BY <1>0, <2>4 DEF Tree
  <2>7. ents'[ROOTINO][".."] = ROOTINO
    BY <1>0, <1>1, <1>2, ConstFacts DEF Tree
  <2> QED BY <2>2, <2>3, <2>5, <2>6, <2>7 DEF Tree, Empty
<1> QED BY <1>5, <1>6 DEF Counted

LEMMA CreateAllocTame ==
  ASSUME IInv, Tame, NEW p \in Proc, Keeps(p), NEW i \in Inum, CreateAlloc(p, i)
  PROVE  Alive' /\ Fresh' /\ Doomed' /\ LinksToFiles' /\ Counted' /\ Tree'
<1>0. Types /\ Alive /\ Tree /\ Others(p)
  BY DEF IInv, Tame, Keeps
<1>1. /\ pc[p] = "parent" /\ puts[p] = <<>> /\ stage[p] = "no" /\ ip[p] = None
      /\ disk[i].type = "free" /\ After(p, "made", op[p], at[p], i, name[p])
      /\ UNCHANGED <<ents, puts, stage, cwd, fd>>
  BY CreateAllocIs
<1>2. PICK t \in {"dir", "file"} : disk' = [disk EXCEPT ![i] = [type |-> t, nlink |-> 0]]
                                   /\ (t = "dir" <=> op[p] = "mkdir")
  BY CreateAllocIs
<1>3. Left(p, "made", at[p], i, name[p], stage'[p]) /\ op'[p] = op[p]
  BY <1>0, <1>1, LeftIs DEF After, Types, Calls
<1>4. /\ disk'[i].type = t /\ disk'[i].nlink = 0
      /\ \A j \in Inum : j # i => disk'[j] = disk[j] /\ ents'[j] = ents[j]
  BY <1>0, <1>1, <1>2 DEF Types, Store
<1>5. disk[i].nlink = 0 /\ ents'[i] = Empty /\ \A q \in Proc : ~Uses(q, i)
  BY <1>0, <1>1 DEF Alive, Tree
<1>6. \A j \in Inum : Uses(p, j)' => Uses(p, j) \/ j = i
  <2> SUFFICES ASSUME NEW j \in Inum, Uses(p, j)'
               PROVE  Uses(p, j) \/ j = i
    OBVIOUS
  <2>1. j \in {cwd[p], fd[p], at[p], i}
    BY <1>1, <1>3, UsesFrom, OfIs DEF Left
  <2> QED BY <2>1 DEF Uses
<1>7. Alters(p, i)
  BY <1>4, <1>5, <1>6 DEF Alters
<1>8. i \notin {cwd[p], fd[p], at[p]}
  BY <1>5 DEF Uses
<1>9. New(i)'
  BY <1>3 DEF New, Left
<1>10. /\ pc'[p] = "made" /\ ip'[p] = i /\ i \notin {cwd'[p], fd'[p], at'[p]}
       /\ (disk'[i].type = "dir" <=> op'[p] = "mkdir") /\ cwd'[p] = cwd[p] /\ cwd[p] # i
       /\ stage'[p] # "trunc" /\ disk'[i].type # "free"
  BY <1>1, <1>2, <1>3, <1>4, <1>8 DEF Left
<1>11. Alive' /\ Fresh' /\ Doomed' /\ LinksToFiles'
  BY <1>1, <1>7, <1>10, AltersKeeps
<1>12. Counted' /\ Tree'
  BY <1>1, <1>7, <1>9, <1>10, AltersCounts DEF Owing
<1> QED BY <1>11, <1>12

LEMMA IputFreeTame ==
  ASSUME IInv, Tame, NEW p \in Proc, Keeps(p), IputFree(p)
  PROVE  Alive' /\ Fresh' /\ Doomed' /\ LinksToFiles' /\ Counted' /\ Tree'
<1>0. Types /\ Shape /\ Doomed /\ Others(p)
  BY DEF IInv, Tame, Keeps
<1>a. Head(puts[p]) \in Inum
  BY IputFreeIs
<1>b. PICK i \in Inum : i = Head(puts[p])
  BY <1>a
<1>1. /\ puts[p] # <<>> /\ stage[p] = "trunc" /\ ents' = [ents EXCEPT ![i] = Empty]
      /\ disk' = [disk EXCEPT ![i] = Free] /\ stage' = [stage EXCEPT ![p] = "free"]
      /\ After(p, pc[p], op[p], at[p], ip[p], name[p]) /\ UNCHANGED <<puts, cwd, fd>>
  BY <1>b, IputFreeIs
<1>2. Left(p, pc[p], at[p], ip[p], name[p], "free") /\ pc[p] # "made"
  <2>1. stage'[p] = "free"
    BY <1>0, <1>1 DEF Types, Calls
  <2> QED BY <1>0, <1>1, <2>1, LeftIs DEF Shape
<1>3. /\ Only(p, i) /\ i \notin {cwd[p], fd[p], at[p], ip[p]}
      /\ Len(puts[p]) > 1 => puts[p][2] # i
  BY <1>0, <1>1, <1>b DEF Doomed, DoomedAt
<1>4. /\ disk'[i] = Free /\ ents'[i] = Empty
      /\ \A j \in Inum : j # i => disk'[j] = disk[j] /\ ents'[j] = ents[j]
  BY <1>0, <1>1 DEF Types, Store
<1>5. ~Uses(p, i)'
  <2> SUFFICES ASSUME Uses(p, i)'
               PROVE  FALSE
    OBVIOUS
  <2>1. i \notin {cwd'[p], fd'[p], at'[p], ip'[p]}
    BY <1>1, <1>2, <1>3 DEF Left
  <2>2. PICK k \in 1 .. Len(puts[p]) : puts[p][k] = i /\ k # 1
    BY <1>1, <1>2, <2>1 DEF Uses, Left
  <2>3. k = 2 /\ Len(puts[p]) > 1
    BY <1>0, <1>1, <2>2, PutsOf
  <2> QED BY <1>3, <2>2, <2>3
<1>6. \A j \in Inum : Uses(p, j)' => Uses(p, j)
  BY <1>1, <1>2 DEF Uses, Left
<1>7. Alters(p, i)
  BY <1>3, <1>4, <1>6 DEF Alters, Only, Free
<1>8. /\ cwd'[p] = cwd[p] /\ cwd[p] # i /\ ip[p] # i /\ ip'[p] = ip[p] /\ pc'[p] = pc[p]
      /\ stage'[p] # "trunc" /\ disk'[i].type # "dir" /\ pc'[p] # "made"
  BY <1>1, <1>2, <1>3, <1>4 DEF Left, Free
<1>9. Alive' /\ Fresh' /\ Doomed' /\ LinksToFiles'
  BY <1>2, <1>5, <1>7, <1>8, AltersKeeps
<1>10. Counted' /\ Tree'
  BY <1>2, <1>7, <1>8, AltersCounts
<1> QED BY <1>9, <1>10

-----------------------------------------------------------------------------
(* The steps of p that do not go astray, but for panics.                   *)
Straight(p) ==
  \/ \E o \in Ops, s \in Inum : Call(p, o, s)
  \/ WalkNothing(p)
  \/ \E n \in Names : WalkFails(p, n)
  \/ \E n \in Names, last \in BOOLEAN : WalkInto(p, n, last) /\ Leads(at[p], n)
  \/ \E n \in Names : WalkParent(p, n)
  \/ Open(p)
  \/ Chdir(p)
  \/ Close(p)
  \/ \E s \in Inum : LinkFound(p, s)
  \/ Link(p)
  \/ LinkTaken(p) /\ Leads(at[p], name[p])
  \/ Refuse(p)
  \/ LinkUndo(p)
  \/ UnlinkLook(p)
  \/ Unlinks(p)
  \/ UnlinkCut(p)
  \/ CreateFound(p) /\ Leads(at[p], name[p])
  \/ CreateOld(p)
  \/ \E i \in Inum : CreateAlloc(p, i)
  \/ CreateMade(p)
  \/ IputRef(p)
  \/ IputLast(p)
  \/ IputFree(p)
  \/ IputInvalid(p)
  \/ IputDrop(p)

LEMMA StraightActs ==
  ASSUME NEW p \in Proc, Straight(p)
  PROVE  Acts(p)
BY DEF Straight, Acts

LEMMA MildTame ==
  ASSUME IInv, Tame, NEW p \in Proc, Keeps(p), Mild(p)
  PROVE  Alive' /\ Fresh' /\ Doomed' /\ LinksToFiles' /\ Counted' /\ Tree'
BY MildIs, GentleKeeps, CalmKeeps

LEMMA CalmTame ==
  ASSUME IInv, Tame, NEW p \in Proc, Keeps(p), Gentle(p), Calm(p)
  PROVE  Alive' /\ Fresh' /\ Doomed' /\ LinksToFiles' /\ Counted' /\ Tree'
BY GentleKeeps, CalmKeeps

LEMMA StraightTame ==
  ASSUME IInv, Tame, NEW p \in Proc, Keeps(p), Straight(p)
  PROVE  Alive' /\ Fresh' /\ Doomed' /\ LinksToFiles' /\ Counted' /\ Tree'
<1>1. CASE \E o \in Ops, s \in Inum : Call(p, o, s)
  BY <1>1, CallMild, MildTame
<1>2. CASE WalkNothing(p)
  BY <1>2, WalkNothingMild, MildTame
<1>3. CASE \E n \in Names : WalkFails(p, n)
  BY <1>3, WalkFailsMild, MildTame
<1>4. CASE \E n \in Names, last \in BOOLEAN : WalkInto(p, n, last) /\ Leads(at[p], n)
  BY <1>4, WalkIntoMild, MildTame
<1>5. CASE \E n \in Names : WalkParent(p, n)
  BY <1>5, WalkParentMild, MildTame
<1>6. CASE Open(p)
  BY <1>6, OpenMild, MildTame
<1>7. CASE Chdir(p)
  BY <1>7, ChdirMild, MildTame
<1>8. CASE Close(p)
  BY <1>8, CloseMild, MildTame
<1>9. CASE \E s \in Inum : LinkFound(p, s)
  <2>1. PICK s \in Inum : LinkFound(p, s)
    BY <1>9
  <2>2. pc'[p] = "out" \/ pc'[p] = "walk"
    <3>1. \E l \in {"out", "walk"} : pc' = [pc EXCEPT ![p] = l]
      BY <2>1, LinkFoundIs DEF After
    <3> QED BY <3>1 DEF IInv, Types, Calls
  <2> QED BY <2>1, <2>2, LinkFoundMild, MildTame, LinkFoundCounts, GentleKeeps
<1>10. CASE Link(p)
  BY <1>10, LinkEnters, GentleKeeps
<1>11. CASE LinkUndo(p)
  BY <1>11, LinkUndoCounts, GentleKeeps
<1>12. CASE UnlinkLook(p)
  BY <1>12, UnlinkLookMild, MildTame
<1>13. CASE Unlinks(p)
  <2>1. pc'[p] = "held" \/ pc'[p] = "cut"
    BY <1>13, UnlinksIs DEF After, IInv, Types, Calls
  <2> QED BY <1>13, <2>1, UnlinksMild, MildTame, UnlinksCounts, GentleKeeps
<1>14. CASE UnlinkCut(p)
  BY <1>14, UnlinkCutCounts, GentleKeeps
<1>15. CASE CreateFound(p) /\ Leads(at[p], name[p])
  BY <1>15, CreateFoundMild, MildTame
<1>16. CASE CreateOld(p)
  BY <1>16, CreateOldMild, MildTame
<1>17. CASE \E i \in Inum : CreateAlloc(p, i)
  BY <1>17, CreateAllocTame
<1>18. CASE CreateMade(p)
  BY <1>18, CreateMadeCounts, GentleKeeps
<1>19. CASE IputRef(p)
  BY <1>19, IputRefIs, DropAside, CalmTame
<1>20. CASE IputLast(p)
  BY <1>20, IputLastAside, CalmTame
<1>21. CASE IputFree(p)
  BY <1>21, IputFreeTame
<1>22. CASE IputInvalid(p)
  BY <1>22, IputInvalidAside, CalmTame
<1>23. CASE IputDrop(p)
  BY <1>23, IputDropIs, DropAside, CalmTame
<1>24. CASE LinkTaken(p) /\ Leads(at[p], name[p])
  BY <1>24, LinkTakenMild, MildTame
<1>25. CASE Refuse(p)
  BY <1>25, RefuseMild, MildTame
<1> QED
  BY <1>1, <1>2, <1>3, <1>4, <1>5, <1>6, <1>7, <1>8, <1>9, <1>10, <1>11, <1>12,
     <1>13, <1>14, <1>15, <1>16, <1>17, <1>18, <1>19, <1>20, <1>21, <1>22, <1>23,
     <1>24, <1>25 DEF Straight

(* What is looked up and unlinked has a link: an entry.                    *)
LEMMA UnlinkDoesNotPanic ==
  ASSUME IInv, Counted, NEW p \in Proc, Unlink(p)
  PROVE  Unlinks(p)
<1>0. SUFFICES ASSUME Panic("unlink: nlink < 1")
               PROVE  FALSE
  BY Zenon DEF Unlinks
<1>1. pc' = pc
  BY <1>0, PanicIs, Zenon
<1>2. /\ pc[p] = "gone" /\ at[p] \in Inum /\ ip[p] \in Inum /\ name[p] \in Name
      /\ \/ disk[ip[p]].nlink < 1
         \/ pc' = [pc EXCEPT ![p] = "held"]
         \/ pc' = [pc EXCEPT ![p] = "cut"]
  BY UnlinkIs, Zenon DEF After
<1>3. disk[ip[p]].nlink < 1
  BY <1>1, <1>2 DEF IInv, Types, Calls
<1>4. ents[at[p]][name[p]] = ip[p]
  BY <1>2 DEF IInv, Seen
<1>5. disk[ip[p]].nlink \in Int
  BY <1>2 DEF IInv, Types, Store, Inode
<1>6. disk[ip[p]].nlink >= 1
  <2>1. PICK d \in Inum, n \in Name, i \in Inum : d = at[p] /\ n = name[p] /\ i = ip[p]
    BY <1>2
  <2>2. ents[d][n] = i
    BY <1>4, <2>1
  <2>3. disk[i].nlink >= 1
    BY <2>2, EntryIsLink
  <2> QED BY <2>1, <2>3
<1> QED BY <1>3, <1>5, <1>6

(* The inode that a call waits for is in use.                              *)
LEMMA WantedIs ==
  ASSUME IInv, NEW p \in Proc, Wanted(p) # None
  PROVE  /\ Wanted(p) \in Inum /\ Uses(p, Wanted(p))
         /\ \/ pc[p] \in {"walk", "found", "parent"} /\ Wanted(p) = at[p]
            \/ pc[p] \in {"gone", "made", "old", "undo"} /\ Wanted(p) = ip[p]
<1>1. CASE pc[p] \in {"walk", "found", "parent"}
  <2>1. Wanted(p) = at[p]
    BY <1>1 DEF Wanted
  <2> QED BY <1>1, <2>1 DEF Uses, IInv, Types, Calls
<1>2. CASE pc[p] \in {"gone", "made", "old", "undo"}
  <2>1. Wanted(p) = ip[p]
    BY <1>2 DEF Wanted
  <2> QED BY <1>2, <2>1 DEF Uses, IInv, Types, Calls
<1>3. CASE pc[p] \notin {"walk", "found", "parent", "gone", "made", "old", "undo"}
  BY <1>3 DEF Wanted
<1> QED BY <1>1, <1>2, <1>3

LEMMA IlockDoesNotPanic ==
  ASSUME IInv, Alive, NEW p \in Proc
  PROVE  ~IlockPanics(p)
BY WantedIs DEF Alive, IlockPanics

LEMMA StrayNextIs ==
  ASSUME IInv, Tame, StrayNext, ~astray'
  PROVE  \/ \E p \in Proc : Straight(p)
         \/ Panic("ialloc: no inodes") \/ Panic("iget: no inodes")
<1>1. \A p \in Proc : ~IlockPanics(p) /\ (Unlink(p) => Unlinks(p))
  BY UnlinkDoesNotPanic, IlockDoesNotPanic DEF Tame
<1>2. \A p \in Proc : \A n \in Names : Strays(p, n) => Leads(at[p], n)
  BY DEF Strays, Leads
<1>3. \A p \in Proc : Strays(p, name[p]) => Leads(at[p], name[p])
  BY DEF Strays, Leads
<1> QED BY <1>1, <1>2, <1>3 DEF StrayNext, Straight, Ops, Iput, IallocPanics, IgetPanics

LEMMA SameKeepsTame ==
  ASSUME Tame, UNCHANGED <<disk, ents, ref, valid, mem, lock, pc, op, puts, stage,
                           at, ip, name, cwd, fd>>,
         panicked' \in {panicked, "ialloc: no inodes", "iget: no inodes"}
  PROVE  Tame'
<1>1. \A p \in Proc : \A i : Uses(p, i)' <=> Uses(p, i)
  BY DEF Uses
<1>2. Counted'
  BY DEF Tame, Counted, CountedAt, Links, Subdirs, SubdirSet, Pending, PendingSet
<1>3. Alive'
  BY <1>1 DEF Tame, Alive
<1>4. Fresh'
  <2>1. \A p \in Proc : Only(p, ip[p])' <=> Only(p, ip[p])
    BY DEF Only, Uses
  <2>2. Empty' = Empty
    BY DEF Empty
  <2> QED BY <2>1, <2>2 DEF Tame, Fresh
<1>5. Doomed'
  <2>1. \A p \in Proc : \A i : Only(p, i)' <=> Only(p, i)
    BY <1>1 DEF Only
  <2>2. \A p \in Proc : DoomedAt(p)' <=> DoomedAt(p)
    BY <2>1 DEF DoomedAt
  <2> QED BY <2>2 DEF Tame, Doomed
<1>6. Tree'
  BY DEF Tame, Tree, New, Empty
<1>7. LinksToFiles'
  BY DEF Tame, LinksToFiles
<1>8. (panicked \in {None, "ialloc: no inodes", "iget: no inodes"})'
  BY DEF Tame
<1> QED BY <1>2, <1>3, <1>4, <1>5, <1>6, <1>7, <1>8 DEF Tame

LEMMA StrayStep ==
  ASSUME SInv, [StrayNext]_strayVars
  PROVE  SInv'
<1>1. IInv'
  BY StrayIsNext, StepKeepsIInv DEF SInv
<1>2. ASSUME ~astray'
      PROVE  Tame'
  <2>1. CASE UNCHANGED strayVars
    <3>1. Tame
      BY <1>2, <2>1 DEF SInv, strayVars
    <3> QED BY <2>1, <3>1, SameKeepsTame DEF strayVars, vars, cache, local
  <2>2. CASE StrayNext
    <3>1. ~astray
      BY <1>2, <2>2 DEF StrayNext, Strays
    <3>2. IInv /\ Tame
      BY <3>1 DEF SInv
    <3>3. CASE Panic("ialloc: no inodes") \/ Panic("iget: no inodes")
      BY <3>2, <3>3, PanicIs, SameKeepsTame
    <3>4. ASSUME NEW p \in Proc, Straight(p)
          PROVE  Tame'
      <4>1. Acts(p) /\ Keeps(p) /\ panicked' = panicked
        BY <3>2, <3>4, StraightActs, SlotsStep, PanickedStep
      <4>2. Alive' /\ Fresh' /\ Doomed' /\ LinksToFiles' /\ Counted' /\ Tree'
        BY <3>2, <3>4, <4>1, StraightTame
      <4>3. (panicked \in {None, "ialloc: no inodes", "iget: no inodes"})'
        BY <3>2, <4>1 DEF Tame
      <4> QED BY <4>2, <4>3 DEF Tame
    <3> QED BY <1>2, <2>2, <3>2, <3>3, <3>4, StrayNextIs
  <2> QED BY <2>1, <2>2
<1> QED BY <1>1, <1>2 DEF SInv

-----------------------------------------------------------------------------
(* The initial states are trees, and nothing is in use but directories     *)

LEMMA NoLarger ==
  ASSUME NEW S, NEW T, IsFiniteSet(T), NEW f \in [S -> T],
         \A x, y \in S : f[x] = f[y] => x = y
  PROVE  Cardinality(S) <= Cardinality(T)
<1>1. f \in Injection(S, T)
  BY Fun_IsInj
<1> QED BY <1>1, FS_Injection

LEMMA GrownCounts ==
  ASSUME NEW type, NEW home, Grown(type, home), NEW i \in Inum
  PROVE  /\ Links(i) <= IF i \in Used(type) THEN 1 ELSE 0
         /\ IsFiniteSet(Below(type, home, i)) /\ Cardinality(Below(type, home, i)) \in Nat
         /\ Subdirs(i) <= Cardinality(Below(type, home, i))
         /\ type[i] = "free" => Subdirs(i) = 0
<1>1. \A d \in Inum, n \in Name : ents[d][n] # None =>
        /\ type[d] = "dir" /\ ents[d][n] \in Used(type) /\ ents[d][n] \in Inum
        /\ home[ents[d][n]] = <<d, n>>
  <2> SUFFICES ASSUME NEW d \in Inum, NEW n \in Name, ents[d][n] # None
               PROVE  /\ type[d] = "dir" /\ ents[d][n] \in Used(type) /\ ents[d][n] \in Inum
                      /\ home[ents[d][n]] = <<d, n>>
    OBVIOUS
  <2>1. type[d] = "dir"
    BY ConstFacts DEF Grown, Empty
  <2>2. ents[d][n] \in Inum
    BY ConstFacts DEF Grown
  <2> QED BY <2>1, <2>2 DEF Grown
<1>2. Links(i) <= IF i \in Used(type) THEN 1 ELSE 0
  <2>1. CASE i \in Used(type)
    <3>1. LinkSet(i) \subseteq {} \cup {home[i]}
      BY <1>1, ConstFacts DEF LinkSet
    <3>2. IsFiniteSet({}) /\ Cardinality({}) = 0
      BY FS_EmptySet
    <3>3. Cardinality(LinkSet(i)) <= Cardinality({}) + 1
      BY <3>1, <3>2, SetGrows
    <3> QED BY <2>1, <3>2, <3>3, CountsFinite
  <2>2. CASE i \notin Used(type)
    <3>1. ASSUME NEW e \in Inum \X Name, ents[e[1]][e[2]] = i
          PROVE  FALSE
      <4>1. e[1] \in Inum /\ e[2] \in Name /\ ents[e[1]][e[2]] # None
        BY <3>1, ConstFacts
      <4>2. ents[e[1]][e[2]] \in Used(type)
        BY <1>1, <4>1
      <4> QED BY <2>2, <3>1, <4>2
    <3>2. LinkSet(i) = {}
      BY <3>1 DEF LinkSet
    <3> QED BY <2>2, <3>2, CountsFinite, SetEmpty
  <2> QED BY <2>1, <2>2
<1>3. IsFiniteSet(Below(type, home, i)) /\ Cardinality(Below(type, home, i)) \in Nat
  <2>1. Below(type, home, i) \in SUBSET Inum
    BY DEF Below, Used
  <2> QED BY <2>1, ConstFacts, FS_Subset, FS_CardinalityType
<1>4. Subdirs(i) <= Cardinality(Below(type, home, i))
  <2> DEFINE S == SubdirSet(i)
             T == Below(type, home, i)
             f == [n \in S |-> ents[i][n]]
  <2>1. \A n \in S : n \in Name /\ ents[i][n] # None /\ disk[ents[i][n]].type = "dir"
    BY DEF SubdirSet
  <2>2. \A n \in S : /\ ents[i][n] \in Used(type) /\ ents[i][n] \in Inum
                     /\ home[ents[i][n]] = <<i, n>>
    BY <1>1, <2>1
  <2>3. \A n \in S : ents[i][n] \in T
    <3> SUFFICES ASSUME NEW n \in S
                 PROVE  ents[i][n] \in T
      OBVIOUS
    <3>1. Above(home, ents[i][n]) = i
      BY <2>2 DEF Above, Used
    <3>2. type[ents[i][n]] = "dir"
      BY <2>1, <2>2 DEF Grown
    <3> QED BY <2>2, <3>1, <3>2 DEF Below
  <2>4. f \in [S -> T]
    BY <2>3
  <2>5. \A n, m \in S : f[n] = f[m] => n = m
    BY <2>2
  <2> HIDE DEF S, T, f
  <2>6. Cardinality(S) <= Cardinality(T)
    BY <1>3, <2>4, <2>5, NoLarger DEF T
  <2> QED BY <2>6 DEF S, T, Subdirs
<1>5. type[i] = "free" => Subdirs(i) = 0
  <2>1. type[i] = "free" => SubdirSet(i) = {}
    BY <1>1 DEF SubdirSet
  <2> QED BY <2>1, CountsFinite, SetEmpty DEF Subdirs
<1> QED BY <1>2, <1>3, <1>4, <1>5

LEMMA InitTame ==
  ASSUME Init
  PROVE  Tame
<1>0. PICK type, home : Grown(type, home)
  BY InitGrows
<1>1. /\ cwd \in [Proc -> {i \in Inum : disk[i].type = "dir"}] /\ panicked = None
      /\ pc = [p \in Proc |-> "out"] /\ puts = [p \in Proc |-> <<>>]
      /\ stage = [p \in Proc |-> "no"] /\ at = [p \in Proc |-> None]
      /\ ip = [p \in Proc |-> None] /\ fd = [p \in Proc |-> None]
  BY DEF Init
<1>2. /\ type[ROOTINO] = "dir" /\ disk \in [Inum -> Inode]
      /\ \A i \in Inum : /\ disk[i].type = type[i]
                         /\ type[i] = "free" => disk[i].nlink = 0
                         /\ type[i] # "free" => disk[i].nlink = 1 + Cardinality(Below(type, home, i))
  BY <1>0 DEF Grown
<1>3. Counted
  <2> SUFFICES ASSUME NEW i \in Inum
               PROVE  CountedAt(i)
    BY DEF Counted
  <2>1. Pending(i) = 0
    <3>1. PendingSet(i) = {}
      BY <1>1, ConstFacts DEF PendingSet
    <3> QED BY <3>1, CountsFinite, SetEmpty DEF Pending
  <2>2. PICK b \in Nat : b = Cardinality(Below(type, home, i))
    BY <1>0, GrownCounts
  <2>3. Links(i) \in Nat /\ Subdirs(i) \in Nat
    BY CountsFinite
  <2>4. /\ Links(i) <= IF i \in Used(type) THEN 1 ELSE 0
        /\ Subdirs(i) <= b
        /\ type[i] = "free" => Subdirs(i) = 0
    BY <1>0, <2>2, GrownCounts
  <2>5. PICK r \in Int : r = IF i = ROOTINO THEN 1 ELSE 0
    OBVIOUS
  <2>6. CASE type[i] = "free"
    <3>1. i \notin Used(type) /\ r = 0 /\ disk[i].nlink = 0
      BY <1>2, <2>5, <2>6 DEF Used
    <3>3. Links(i) = 0 /\ Subdirs(i) = 0
      BY <2>3, <2>4, <2>6, <3>1
    <3>2. disk[i].nlink >= Links(i) + Subdirs(i) + Pending(i) + r
      BY <2>1, <3>1, <3>3
    <3> QED BY <2>5, <3>2 DEF CountedAt
  <2>7. CASE type[i] # "free"
    <3>1. disk[i].nlink = 1 + b
      BY <1>2, <2>2, <2>7
    <3>2. Links(i) + r <= 1
      BY <2>3, <2>4, <2>5 DEF Used
    <3>3. disk[i].nlink >= Links(i) + Subdirs(i) + Pending(i) + r
      <4>1. Subdirs(i) <= b
        BY <2>4
      <4>2. PICK l \in Nat, s \in Nat : l = Links(i) /\ s = Subdirs(i)
        BY <2>3
      <4>3. 1 + b >= l + s + 0 + r
        BY <2>5, <3>2, <4>1, <4>2
      <4> QED BY <2>1, <3>1, <4>2, <4>3
    <3> QED BY <2>5, <3>3 DEF CountedAt
  <2> QED BY <2>6, <2>7
<1>4. Alive
  <2>1. \A p \in Proc : cwd[p] \in Inum /\ disk[cwd[p]].type = "dir"
    BY <1>1
  <2>2. \A p \in Proc, i \in Inum : Uses(p, i) => i = cwd[p]
    BY <1>1, SeqFacts, ConstFacts DEF Uses
  <2> QED BY <1>2, <2>1, <2>2, ConstFacts DEF Alive
<1>5. Fresh /\ Doomed /\ LinksToFiles
  BY <1>1, ConstFacts DEF Fresh, Doomed, LinksToFiles
<1>6. Tree
  <2>1. \A d \in Inum, n \in Name, i \in Inum : ents[d][n] = i =>
          type[d] = "dir" /\ i \in Used(type) /\ home[i] = <<d, n>>
    <3> SUFFICES ASSUME NEW d \in Inum, NEW n \in Name, NEW i \in Inum, ents[d][n] = i
                 PROVE  type[d] = "dir" /\ i \in Used(type) /\ home[i] = <<d, n>>
      OBVIOUS
    <3>1. type[d] = "dir"
      BY <1>0, ConstFacts DEF Grown, Empty
    <3> QED BY <1>0, <3>1 DEF Grown
  <2>2. \A d \in Inum, n \in Name, i \in Inum : ents[d][n] = i =>
          Above(home, i) = d /\ d < i
    <3> SUFFICES ASSUME NEW d \in Inum, NEW n \in Name, NEW i \in Inum, ents[d][n] = i
                 PROVE  Above(home, i) = d /\ d < i
      OBVIOUS
    <3>1. i \in Used(type) /\ home[i] = <<d, n>>
      BY <2>1
    <3>2. Above(home, i) = d
      BY <3>1 DEF Above, Used
    <3> QED BY <1>0, <3>1, <3>2 DEF Grown
  <2>3. \A d \in Inum : disk[d].type # "dir" => ents[d] = Empty
    BY <1>0, <1>2 DEF Grown
  <2>4. \A d \in Inum : disk[d].type = "dir" => ents[d][".."] = Above(home, d) /\ Above(home, d) \in Inum
    BY <1>0, <1>2 DEF Grown
  <2>5. \A d, i \in Inum, n \in Name :
          ents[d][n] = i /\ disk[i].type = "dir" => ents[i][".."] = d
    BY <2>2, <2>4
  <2>6. \A d, i \in Inum, n, m \in Name : ~(ents[d][n] = i /\ ents[i][m] = d)
    <3>1. \A d, i \in Inum : ~(d < i /\ i < d)
      BY ConstFacts
    <3> QED BY <2>2, <3>1
  <2>7. ents[ROOTINO][".."] = ROOTINO
    <3>1. disk[ROOTINO].type = "dir" /\ ROOTINO \in Inum
      BY <1>2, ConstFacts
    <3>2. Above(home, ROOTINO) = ROOTINO
      BY DEF Above
    <3> QED BY <2>4, <3>1, <3>2
  <2>8. \A d \in Inum : disk[d].type = "dir" /\ ~New(d) => ents[d][".."] # None
    <3>1. \A d \in Inum : Above(home, d) \in Inum => Above(home, d) # None
      BY ConstFacts
    <3> QED BY <2>4, <3>1
  <2> QED BY <2>3, <2>5, <2>6, <2>7, <2>8 DEF Tree
<1> QED BY <1>1, <1>3, <1>4, <1>5, <1>6 DEF Tame

-----------------------------------------------------------------------------
(* What the calls guarantee until one goes astray                          *)

LEMMA StrayInvariant == StraySpec => []SInv
<1>1. StrayInit => SInv
  BY InitIInv, InitTame DEF StrayInit, SInv
<1>2. SInv /\ [StrayNext]_strayVars => SInv'
  BY StrayStep
<1> QED BY <1>1, <1>2, PTL DEF StraySpec

(* What an entry names is allocated and has as many links as entries, and  *)
(* so is what a process is in or has open (InodesAllocated): the counts    *)
(* that sys_link, sys_unlink and create write, in their order, against     *)
(* iput, which frees an inode that has none.                               *)
THEOREM InodesStayAllocated == StraySpec => []InodesAllocated
<1>1. SInv => InodesAllocated
  <2> SUFFICES ASSUME IInv, Tame
               PROVE  NamedIsAllocated /\ InUseIsAllocated
    BY DEF SInv, InodesAllocated
  <2>1. NamedIsAllocated
    <3> SUFFICES ASSUME NEW i \in Inum, Links(i) > 0
                 PROVE  disk[i].type # "free" /\ disk[i].nlink >= Links(i)
      BY DEF NamedIsAllocated
    <3>1. Links(i) \in Nat /\ Subdirs(i) \in Nat /\ Pending(i) \in Nat /\ disk[i].nlink \in Int
      BY CountsFinite DEF IInv, Types, Store, Inode
    <3>2. disk[i].nlink >= Links(i) + Subdirs(i) + Pending(i) + (IF i = ROOTINO THEN 1 ELSE 0)
      BY DEF Tame, Counted, CountedAt
    <3>3. disk[i].nlink >= Links(i) /\ disk[i].nlink # 0
      BY <3>1, <3>2
    <3> QED BY <3>3 DEF Tame, Alive
  <2>2. InUseIsAllocated
    <3> SUFFICES ASSUME NEW p \in Proc
                 PROVE  disk[cwd[p]].type = "dir" /\ (fd[p] # None => disk[fd[p]].type # "free")
      BY DEF InUseIsAllocated
    <3>1. disk[cwd[p]].type = "dir"
      BY DEF Tame, Alive
    <3>2. ASSUME fd[p] # None
          PROVE  disk[fd[p]].type # "free"
      <4>1. fd[p] \in Inum /\ Uses(p, fd[p])
        BY <3>2 DEF IInv, Types, Calls, Uses
      <4> QED BY <4>1 DEF Tame, Alive
    <3> QED BY <3>1, <3>2
  <2> QED BY <2>1, <2>2
<1> QED BY <1>1, StrayInvariant, PTL

(* No two calls wait for each other's inode (NoLockCycle): sys_unlink and  *)
(* create lock a directory before what it names, and create an inode that  *)
(* nobody else has.                                                        *)
THEOREM NoTwoWait == StraySpec => []NoLockCycle
<1>1. SInv => NoLockCycle
  <2> SUFFICES ASSUME IInv, Tame, NEW p \in Proc, NEW q \in Proc, WaitsFor(p, q), WaitsFor(q, p)
               PROVE  FALSE
    BY DEF SInv, NoLockCycle
  <2>1. ASSUME NEW x \in Proc, NEW y \in Proc, WaitsFor(x, y)
        PROVE  /\ puts[x] = <<>> /\ Wanted(x) # None /\ Wanted(x) \in Inum /\ Holds(y, Wanted(x))
    BY <2>1, WantedIs DEF WaitsFor, Ready, IInv, Locks
  <2>2. ASSUME NEW x \in Proc, NEW y \in Proc, WaitsFor(x, y), WaitsFor(y, x)
        PROVE  pc[y] \in {"gone", "made"} /\ at[y] = Wanted(x) /\ ip[y] = Wanted(y)
    <3>1. puts[y] = <<>> /\ Wanted(y) # None /\ Holds(y, Wanted(x))
      BY <2>1, <2>2
    <3>2. stage[y] = "no"
      BY <3>1 DEF IInv, Shape
    <3>3. pc[y] \notin {"cut", "held"}
      BY <3>1, WantedIs
    <3>4. pc[y] \in {"gone", "made"} /\ at[y] = Wanted(x)
      BY <3>1, <3>2, <3>3 DEF Holds, Emptying
    <3> QED BY <3>1, <3>4, WantedIs
  <2>3. /\ pc[p] \in {"gone", "made"} /\ pc[q] \in {"gone", "made"}
        /\ at[p] = ip[q] /\ at[q] = ip[p]
    BY <2>2
  <2>4. PICK d \in Inum, i \in Inum : d = at[p] /\ i = at[q]
    BY <2>3 DEF IInv, Shape, Types, Calls
  <2>5. ASSUME NEW x \in Proc, NEW y \in Proc, pc[x] = "made", at[y] = ip[x], at[x] = ip[y]
        PROVE  FALSE
    <3>1. Only(x, ip[x]) /\ ip[x] # at[x]
      BY <2>5 DEF Tame, Fresh
    <3>2. Uses(y, ip[x])
      BY <2>5 DEF Uses
    <3>3. y = x
      BY <3>1, <3>2 DEF Only
    <3> QED BY <2>5, <3>1, <3>3
  <2>6. pc[p] = "gone" /\ pc[q] = "gone"
    BY <2>3, <2>5
  <2>7. ents[d][name[p]] = i /\ ents[i][name[q]] = d /\ name[p] \in Name /\ name[q] \in Name
    BY <2>3, <2>4, <2>6 DEF IInv, Seen, Shape
  <2> QED BY <2>7 DEF Tame, Tree
<1> QED BY <1>1, StrayInvariant, PTL

(* Until a call goes astray, iput, ilock, dirlookup and dirlink never      *)
(* panic, and of ialloc and iget only for want of free inodes and slots;   *)
(* and then only where an inode turns out to be free or to have no links   *)
(* (NoPanic): each call finds a directory and no second entry although     *)
(* nameiparent has unlocked it, also sys_link in dirlink, and iput never   *)
(* sleeps with icache.lock held.                                           *)
THEOREM OnlyInodesRunOut == StraySpec => []NoPanic
<1>1. SInv => NoPanic
  BY Zenon DEF SInv, IInv, Panics, Tame, NoPanic
<1> QED BY <1>1, StrayInvariant, PTL

-----------------------------------------------------------------------------
(* A walk takes at most MaxPath steps, and at most MaxCalls calls begin.   *)
Bounded == depth \in [Proc -> 0 .. MaxPath] /\ calls \in 0 .. MaxCalls

(* What a step of p may do to depth and calls.                             *)
DepthOf(p) ==
  /\ \/ depth' = depth
     \/ depth' = [depth EXCEPT ![p] = 0]
     \/ depth[p] < MaxPath /\ depth' = [depth EXCEPT ![p] = @ + 1]
  /\ calls' = calls \/ (calls < MaxCalls /\ calls' = calls + 1)

LEMMA StepDepth ==
  ASSUME Next
  PROVE  \E q \in Proc : DepthOf(q)
<1>1. PICK q \in Proc :
        \/ \E o \in Parent \cup {"open", "chdir", "link"}, s \in Inum : Call(q, o, s)
        \/ \E n \in Names : WalkFails(q, n) \/ WalkParent(q, n)
        \/ \E n \in Names, last \in BOOLEAN : WalkInto(q, n, last)
        \/ WalkNothing(q) \/ Open(q) \/ Chdir(q) \/ Close(q)
        \/ \E s \in Inum : LinkFound(q, s)
        \/ Link(q) \/ LinkTaken(q) \/ LinkUndo(q) \/ Refuse(q)
        \/ UnlinkLook(q) \/ Unlink(q) \/ UnlinkCut(q)
        \/ CreateFound(q) \/ CreateOld(q) \/ CreateMade(q) \/ IallocPanics(q)
        \/ \E i \in Inum : CreateAlloc(q, i)
        \/ Iput(q) \/ IlockPanics(q) \/ IgetPanics(q)
  BY DEF Next
<1> SUFFICES DepthOf(q)
  OBVIOUS
<1>2. CASE \E o \in Parent \cup {"open", "chdir", "link"}, s \in Inum : Call(q, o, s)
  BY <1>2 DEF Call, DepthOf
<1>3. CASE \E n \in Names : WalkFails(q, n) \/ WalkParent(q, n)
  BY <1>3 DEF WalkFails, WalkParent, Fails, Ends, DepthOf
<1>4. CASE \E n \in Names, last \in BOOLEAN : WalkInto(q, n, last)
  <2>1. PICK n \in Names, last \in BOOLEAN : WalkInto(q, n, last)
    BY <1>4
  <2>2. depth[q] < MaxPath /\ calls' = calls
        /\ depth' = [depth EXCEPT ![q] = IF last THEN 0 ELSE @ + 1]
    BY <2>1 DEF WalkInto
  <2>3. CASE last
    BY <2>2, <2>3 DEF DepthOf
  <2>4. CASE ~last
    BY <2>2, <2>4 DEF DepthOf
  <2> QED BY <2>3, <2>4
<1>5. CASE WalkNothing(q)
  BY <1>5 DEF WalkNothing, Fails, Ends, local, DepthOf
<1>6. CASE Open(q) \/ Chdir(q) \/ Close(q) \/ Link(q) \/ LinkTaken(q)
           \/ LinkUndo(q) \/ Refuse(q)
  BY <1>6 DEF Open, Chdir, ChangeTo, Close, Link, LinkTaken, LinkUndo, Refuse, Fails, Ends, Panic,
              local, DepthOf
<1>7. CASE \E s \in Inum : LinkFound(q, s)
  BY <1>7 DEF LinkFound, Ends, DepthOf
<1>8. CASE UnlinkLook(q) \/ Unlink(q) \/ UnlinkCut(q)
  BY <1>8 DEF UnlinkLook, LookUp, Unlink, Erase, UnlinkCut, Ends, Panic, local, DepthOf
<1>9. CASE CreateFound(q) \/ CreateOld(q) \/ CreateMade(q)
  BY <1>9 DEF CreateFound, Exists, CreateOld, CreateMade, Ends, Panic, local, DepthOf
<1>10. CASE \E i \in Inum : CreateAlloc(q, i)
  BY <1>10 DEF CreateAlloc, Panic, local, DepthOf
<1>11. CASE IallocPanics(q) \/ IlockPanics(q) \/ IgetPanics(q)
  BY <1>11 DEF IallocPanics, IlockPanics, IgetPanics, Panic, local, DepthOf
<1>12. CASE Iput(q)
  BY <1>12 DEF Iput, IputRef, IputLast, IputFree, IputInvalid, IputDrop, Drop, Panic, local, DepthOf
<1> QED BY <1>1, <1>2, <1>3, <1>4, <1>5, <1>6, <1>7, <1>8, <1>9, <1>10, <1>11, <1>12

LEMMA StepBounded ==
  ASSUME Bounded, [Next]_vars
  PROVE  Bounded'
<1>1. MaxPath \in Nat /\ MaxCalls \in Nat
  BY FsAssumption
<1>2. CASE Next
  <2>1. PICK p \in Proc : DepthOf(p)
    BY <1>2, StepDepth
  <2>2. depth[p] \in 0 .. MaxPath /\ calls \in 0 .. MaxCalls
    BY DEF Bounded
  <2>3. 0 \in 0 .. MaxPath /\ (depth[p] < MaxPath => depth[p] + 1 \in 0 .. MaxPath)
        /\ (calls < MaxCalls => calls + 1 \in 0 .. MaxCalls)
    BY <1>1, <2>2
  <2> QED BY <2>1, <2>2, <2>3 DEF DepthOf, Bounded
<1>3. CASE UNCHANGED vars
  BY <1>3 DEF vars, local, Bounded
<1> QED BY <1>2, <1>3

LEMMA AlwaysBounded == Spec => []Bounded
<1>1. Init => Bounded
  BY FsAssumption DEF Init, Bounded
<1>2. Bounded /\ [Next]_vars => Bounded'
  BY StepBounded
<1> QED BY <1>1, <1>2, PTL DEF Spec

(* Type correctness (TypeOK), for paths and numbers of calls of any bound: *)
(* in particular no reference count goes below 0, and the panics of the    *)
(* model are the only ones.                                                *)
THEOREM FsTypes == StraySpec => []TypeOK
<1>1. IInv /\ Bounded => TypeOK
  <2> SUFFICES ASSUME IInv, Bounded PROVE TypeOK
    OBVIOUS
  <2>1. ref \in [Inum -> Nat]
    <3>1. \A i : References(i) \in Nat
      BY ReferencesAre, RefsFinite DEF RefsOf
    <3> QED BY <3>1 DEF IInv, RefsExact, Types, Store
  <2>2. op \in [Proc -> Parent \cup {"open", "chdir", "link", None}]
    BY DEF IInv, Types, Calls, Ops
  <2>3. cwd \in [Proc -> Inum \cup {None}]
    BY DEF IInv, Types, Calls
  <2>4. panicked \in {None, "ilock: no type", "ialloc: no inodes", "iget: no inodes",
                      "dirlookup not DIR", "unlink: nlink < 1", "create: dirlink", "sched locks"}
    BY Zenon DEF IInv, Panics
  <2> QED BY Zenon, <2>1, <2>2, <2>3, <2>4
          DEF TypeOK, IInv, Types, Store, Calls, Bounded, Inode, Pcs, Stages
<1> QED BY <1>1, Invariant, AlwaysBounded, IsSpec, PTL
=============================================================================
