-------------------------- MODULE ChildLimitProofs --------------------------
(***************************************************************************)
(* Proofs about ChildLimit, and so about the life cycle of ExitWait, for   *)
(* every size of the process table and every limit.                        *)
(***************************************************************************)
EXTENDS ChildLimit, FiniteSetTheorems, TLAPS

(* Where a thread is in exit and in wait, and where it holds p->lock and   *)
(* the lock of the parent exit has read.                                   *)
ExitPc == {"exitReadParent", "exitLockParent", "exitLockSelf", "reparent", "reparentLock"}
WaitPc == {"scan", "scanLock", "asleep"}
OwnLockPc == {"scan", "scanLock", "reparent", "reparentLock", "sched"}
ParentLockPc == {"exitLockSelf", "reparent", "reparentLock"}
ParentReadPc == {"exitLockParent", "exitLockSelf", "reparent", "reparentLock"}

(* Every variable has its type.                                            *)
TypeOK ==
  /\ state \in [Slot -> {"UNUSED", "RUNNING", "SLEEPING", "ZOMBIE"}]
  /\ parent \in [Slot -> Slot \cup {None}]
  /\ killed \in [Slot -> BOOLEAN]
  /\ lock \in [Slot -> Slot \cup {None}]
  /\ pc \in [Slot -> {"free", "user", "sched", "dead"} \cup ExitPc \cup WaitPc]
  /\ idx \in [Slot -> Slot \cup {NPROC}]
  /\ havekids \in [Slot -> BOOLEAN]
  /\ origParent \in [Slot -> Slot \cup {None}]
  /\ shell \in Slot \cup {None}
  /\ childCount \in [Slot -> Int]
  /\ maxChildren \in [Slot -> Nat]
  /\ flags \in [Slot -> {0, 1}]

(* p->state follows from where p's thread is; init never exits.            *)
StateOfPc ==
  /\ \A p \in Slot : pc[p] = "free" <=> state[p] = "UNUSED"
  /\ \A p \in Slot : pc[p] \in {"sched", "dead"} <=> state[p] = "ZOMBIE"
  /\ \A p \in Slot : state[p] = "SLEEPING" => pc[p] = "asleep"
  /\ pc[initproc] \in {"user"} \cup WaitPc
  /\ ~killed[initproc]

(* Who holds p->lock: p itself, or a thread that takes p for its parent.   *)
Locks ==
  /\ \A p \in Slot : pc[p] \in OwnLockPc => lock[p] = p
  /\ \A p \in Slot : pc[p] \in ParentLockPc => lock[origParent[p]] = p
  /\ \A p \in Slot : pc[p] \in ParentReadPc => origParent[p] \in Slot \ {p}
  /\ \A p \in Slot : lock[p] # None =>
       \/ lock[p] = p /\ pc[p] \in OwnLockPc
       \/ origParent[lock[p]] = p /\ pc[lock[p]] \in ParentLockPc

(* A process has a parent, which is neither free nor a zombie nor itself.  *)
Family ==
  /\ parent[initproc] = None
  /\ \A p \in Slot : state[p] = "UNUSED" => parent[p] = None
  /\ \A p \in Slot \ {initproc} : state[p] # "UNUSED" =>
       /\ parent[p] \in Slot \ {p}
       /\ state[parent[p]] \in {"RUNNING", "SLEEPING"}

(* The child that reparent and wait are about to lock stays their child.   *)
Looked ==
  \A p \in Slot : pc[p] \in {"reparentLock", "scanLock"} =>
    idx[p] \in Slot /\ parent[idx[p]] = p

(* reparent leaves no child behind its index.                              *)
GivenAway ==
  \A p \in Slot : pc[p] \in {"reparent", "reparentLock"} =>
    \A q \in Slot : q < idx[p] => parent[q] # p

(* exit's parent is the one it has read, or init since.                    *)
ParentKnown ==
  \A p \in Slot : pc[p] \in ParentReadPc => parent[p] \in {origParent[p], initproc}

(* init waits while it has a shell, which is its child.                    *)
ShellOfInit ==
  /\ shell # None => parent[shell] = initproc
  /\ pc[initproc] \in WaitPc => shell # None

(* A scan has counted the children behind its index and none was a zombie; *)
(* of init that is said of its shell only, for it inherits children.       *)
Scanned ==
  \A p \in Slot : pc[p] \in {"scan", "scanLock"} =>
    \A q \in Slot : q < idx[p] /\ parent[q] = p /\ (p = initproc => q = shell) =>
      /\ havekids[p]
      /\ p # initproc => state[q] # "ZOMBIE"

(* child_count is exact wherever a process may still fork.                 *)
Counted ==
  \A p \in Slot \ {initproc} : pc[p] \in {"user"} \cup WaitPc =>
    childCount[p] = Cardinality(Children(p))

(* All but the counts, which no action looks at but fork.                  *)
Shape ==
  /\ TypeOK /\ StateOfPc /\ Locks /\ Family /\ Looked /\ GivenAway
  /\ ParentKnown /\ ShellOfInit /\ Scanned

IInv == Shape /\ Counted

(* What the proofs need to know of the numbers of slots.                   *)
LEMMA SlotFacts ==
  /\ initproc \in Slot /\ None \notin Slot /\ NPROC \notin Slot /\ 0 \in Slot
  /\ \A i \in Slot : i + 1 \in Slot \cup {NPROC} /\ ~(i < 0) /\ i < NPROC
  /\ ~(NPROC < NPROC)
  /\ \A i, q \in Slot : q < i + 1 <=> q < i \/ q = i
BY NPROCAssumption DEF Slot, None, initproc

(* init alone, before its first fork, has the shape.                       *)
LEMMA InitShape == LimitInit => Shape
<1> USE SlotFacts DEF LimitInit, Init, ExitPc, WaitPc, OwnLockPc, ParentLockPc, ParentReadPc
<1>1. LimitInit => TypeOK
  BY DEF TypeOK
<1>2. LimitInit => StateOfPc /\ Locks
  BY DEF StateOfPc, Locks
<1>3. LimitInit => Family /\ Looked /\ GivenAway /\ ParentKnown /\ ShellOfInit /\ Scanned
  BY DEF Family, Looked, GivenAway, ParentKnown, ShellOfInit, Scanned
<1> QED BY <1>1, <1>2, <1>3 DEF Shape

(* Every step keeps the shape; one step below per action.                  *)
LEMMA ShapeStep == Shape /\ [LimitNext]_limitVars => Shape'
<1> SUFFICES ASSUME Shape, [LimitNext]_limitVars PROVE Shape'
  OBVIOUS
<1> USE SlotFacts, ChildLimitAssumption
    DEF Shape, TypeOK, StateOfPc, Locks, Family, Looked, GivenAway, ParentKnown, ShellOfInit, Scanned,
        ExitPc, WaitPc, OwnLockPc, ParentLockPc, ParentReadPc,
        Free, Goto, Wakeup1, locals, counts, vars
<1>1. ASSUME NEW p \in Slot, NEW np \in Slot, ForkCounted(p, np) PROVE Shape'
  BY <1>1 DEF ForkCounted, Fork
<1>2. ASSUME NEW p \in Slot, NEW q \in Slot, Kill(p, q), UNCHANGED <<counts, flags>> PROVE Shape'
  BY <1>2 DEF Kill
<1>3. ASSUME NEW p \in Slot, NEW n \in 0 .. MaxLimit, SeccompCtl(p, n) PROVE Shape'
  BY <1>3 DEF SeccompCtl
<1>4. ASSUME NEW p \in Slot, ExitWakeInit(p), UNCHANGED <<counts, flags>> PROVE Shape'
  BY <1>4 DEF ExitWakeInit
<1>5. ASSUME NEW p \in Slot, ExitReadParent(p), UNCHANGED <<counts, flags>> PROVE Shape'
  BY <1>5 DEF ExitReadParent
<1>6. ASSUME NEW p \in Slot, ExitLockParent(p), UNCHANGED <<counts, flags>> PROVE Shape'
  BY <1>6 DEF ExitLockParent
<1>7. ASSUME NEW p \in Slot, ExitLockSelf(p), UNCHANGED <<counts, flags>> PROVE Shape'
  BY <1>7 DEF ExitLockSelf
<1>8. ASSUME NEW p \in Slot, ReparentLook(p), UNCHANGED <<counts, flags>> PROVE Shape'
  <2>0. idx[p] \in Slot
    BY <1>8 DEF ReparentLook
  <2>1. TypeOK'
    BY <1>8, <2>0 DEF ReparentLook
  <2>2. StateOfPc'
    BY <1>8, <2>0 DEF ReparentLook
  <2>3. Locks'
    BY <1>8, <2>0 DEF ReparentLook
  <2>4. Family'
    BY <1>8, <2>0 DEF ReparentLook
  <2>5. Looked'
    BY <1>8, <2>0 DEF ReparentLook
  <2>6. GivenAway'
    BY <1>8, <2>0 DEF ReparentLook
  <2>7. ParentKnown'
    BY <1>8, <2>0 DEF ReparentLook
  <2>8. ShellOfInit'
    BY <1>8, <2>0 DEF ReparentLook
  <2>9. Scanned'
    BY <1>8, <2>0 DEF ReparentLook
  <2> QED BY <2>1, <2>2, <2>3, <2>4, <2>5, <2>6, <2>7, <2>8, <2>9
<1>9. ASSUME NEW p \in Slot, ReparentGive(p), UNCHANGED <<counts, flags>> PROVE Shape'
  BY <1>9 DEF ReparentGive
<1>10. ASSUME NEW p \in Slot, ExitZombie(p), UNCHANGED <<counts, flags>> PROVE Shape'
  BY <1>10, SMTT(30) DEF ExitZombie
<1>11. ASSUME NEW p \in Slot, ExitSched(p), UNCHANGED <<counts, flags>> PROVE Shape'
  BY <1>11 DEF ExitSched
<1>12. ASSUME NEW p \in Slot, NEW f \in {0, 1}, WaitCall(p, f) PROVE Shape'
  BY <1>12 DEF WaitCall, WaitEnter
<1>13. ASSUME NEW p \in Slot, WaitLook(p), UNCHANGED <<counts, flags>> PROVE Shape'
  <2>0. idx[p] \in Slot
    BY <1>13 DEF WaitLook
  <2>1. TypeOK'
    BY <1>13, <2>0 DEF WaitLook
  <2>2. StateOfPc'
    BY <1>13, <2>0 DEF WaitLook
  <2>3. Locks'
    BY <1>13, <2>0 DEF WaitLook
  <2>4. Family'
    BY <1>13, <2>0 DEF WaitLook
  <2>5. Looked'
    BY <1>13, <2>0 DEF WaitLook
  <2>6. GivenAway'
    BY <1>13, <2>0 DEF WaitLook
  <2>7. ParentKnown'
    BY <1>13, <2>0 DEF WaitLook
  <2>8. ShellOfInit'
    BY <1>13, <2>0 DEF WaitLook
  <2>9. Scanned'
    BY <1>13, <2>0 DEF WaitLook
  <2> QED BY <2>1, <2>2, <2>3, <2>4, <2>5, <2>6, <2>7, <2>8, <2>9
<1>14. ASSUME NEW p \in Slot, WaitSkip(p), UNCHANGED <<counts, flags>> PROVE Shape'
  BY <1>14 DEF WaitSkip
<1>15. ASSUME NEW p \in Slot, WaitResume(p), UNCHANGED <<counts, flags>> PROVE Shape'
  BY <1>15 DEF WaitResume
<1>16. ASSUME NEW p \in Slot, WaitReapCounted(p) PROVE Shape'
  <2>0. idx[p] \in Slot \ {p, initproc} /\ pc[idx[p]] = "dead" /\ parent[idx[p]] = p
    BY <1>16 DEF WaitReapCounted, WaitReap
  <2>1. TypeOK'
    <3>1. childCount' \in [Slot -> Int] /\ maxChildren' \in [Slot -> Nat] /\ flags' \in [Slot -> {0, 1}]
      BY <1>16, <2>0 DEF WaitReapCounted
    <3>2. /\ state' \in [Slot -> {"UNUSED", "RUNNING", "SLEEPING", "ZOMBIE"}]
          /\ parent' \in [Slot -> Slot \cup {None}] /\ killed' \in [Slot -> BOOLEAN]
          /\ lock' \in [Slot -> Slot \cup {None}]
      BY <1>16, <2>0 DEF WaitReapCounted, WaitReap
    <3>3. pc' \in [Slot -> {"free", "user", "sched", "dead"} \cup ExitPc \cup WaitPc]
      BY <1>16, <2>0 DEF WaitReapCounted, WaitReap
    <3>4. /\ idx' \in [Slot -> Slot \cup {NPROC}] /\ havekids' \in [Slot -> BOOLEAN]
          /\ origParent' \in [Slot -> Slot \cup {None}]
      BY <1>16, <2>0 DEF WaitReapCounted, WaitReap
    <3>5. shell' \in Slot \cup {None}
      BY <1>16, <2>0 DEF WaitReapCounted, WaitReap
    <3> QED BY <3>1, <3>2, <3>3, <3>4, <3>5
  <2>2. StateOfPc'
    BY <1>16, <2>0 DEF WaitReapCounted, WaitReap
  <2>3. Locks'
    BY <1>16, <2>0 DEF WaitReapCounted, WaitReap
  <2>4. Family'
    BY <1>16, <2>0 DEF WaitReapCounted, WaitReap
  <2>5. Looked'
    BY <1>16, <2>0 DEF WaitReapCounted, WaitReap
  <2>6. GivenAway'
    BY <1>16, <2>0 DEF WaitReapCounted, WaitReap
  <2>7. ParentKnown'
    BY <1>16, <2>0 DEF WaitReapCounted, WaitReap
  <2>8. ShellOfInit'
    BY <1>16, <2>0 DEF WaitReapCounted, WaitReap
  <2>9. Scanned'
    <3>1. ASSUME NEW r \in Slot, pc'[r] \in {"scan", "scanLock"}
          PROVE  /\ r \notin {p, idx[p]} /\ pc[r] = pc'[r]
                 /\ idx'[r] = idx[r] /\ havekids'[r] = havekids[r]
                 /\ r = initproc => shell' = shell
      <4>1. pc' = [pc EXCEPT ![idx[p]] = "free", ![p] = "user"]
        BY <1>16 DEF WaitReapCounted, WaitReap
      <4>2. r \notin {p, idx[p]} /\ pc[r] = pc'[r]
        BY <2>0, <3>1, <4>1
      <4>3. /\ idx' = [idx EXCEPT ![idx[p]] = 0, ![p] = 0]
            /\ havekids' = [havekids EXCEPT ![idx[p]] = FALSE, ![p] = FALSE]
        BY <1>16 DEF WaitReapCounted, WaitReap
      <4>4. idx'[r] = idx[r] /\ havekids'[r] = havekids[r]
        <5>1. idx \in [Slot -> Slot \cup {NPROC}] /\ havekids \in [Slot -> BOOLEAN]
          OBVIOUS
        <5> HIDE DEF Shape
        <5> QED BY <4>2, <4>3, <5>1
      <4>5. p # initproc => shell' = shell
        BY <1>16 DEF WaitReapCounted, WaitReap
      <4> QED BY <4>2, <4>4, <4>5
    <3>2. \A q \in Slot : q # idx[p] => parent'[q] = parent[q] /\ state'[q] = state[q]
      BY <1>16, <2>0 DEF WaitReapCounted, WaitReap
    <3>3. parent'[idx[p]] = None
      BY <1>16, <2>0 DEF WaitReapCounted, WaitReap
    <3> QED BY <2>0, <3>1, <3>2, <3>3
  <2> QED BY <2>1, <2>2, <2>3, <2>4, <2>5, <2>6, <2>7, <2>8, <2>9
<1>17. ASSUME NEW p \in Slot, WaitKeeps(p) PROVE Shape'
  BY <1>17 DEF WaitKeeps, WaitCopyoutFails
<1>18. ASSUME NEW p \in Slot, WaitAlone(p) PROVE Shape'
  BY <1>18 DEF WaitAlone, WaitFail
<1>19. ASSUME NEW p \in Slot, WaitNoHang(p) PROVE Shape'
  BY <1>19 DEF WaitNoHang
<1>20. ASSUME NEW p \in Slot, WaitBlocks(p) PROVE Shape'
  BY <1>20 DEF WaitBlocks, WaitSleep
<1>21. ASSUME UNCHANGED limitVars PROVE Shape'
  BY <1>21 DEF limitVars
<1> HIDE DEF Shape
<1> QED
  BY <1>1, <1>2, <1>3, <1>4, <1>5, <1>6, <1>7, <1>8, <1>9, <1>10, <1>11, <1>12, <1>13, <1>14, <1>15, <1>16, <1>17, <1>18, <1>19, <1>20, <1>21
  DEF LimitNext, LimitExit, LimitWait, Exit, WaitScan

(* A process has finitely many children, one more after fork and one less  *)
(* after wait has reaped one.                                              *)
LEMMA SlotFinite == IsFiniteSet(Slot) /\ \A p \in Slot : IsFiniteSet(Children(p))
<1>1. IsFiniteSet(Slot)
  BY NPROCAssumption, FS_Interval DEF Slot
<1>2. ASSUME NEW p \in Slot PROVE IsFiniteSet(Children(p))
  BY <1>1, FS_Subset DEF Children
<1> QED BY <1>1, <1>2

(* Steps that neither change counts nor who is whose child, and give no    *)
(* process the right to fork that had it not, keep the counts exact.       *)
LEMMA CountKept ==
  ASSUME Counted, childCount' = childCount,
         \A p \in Slot \ {initproc} : pc'[p] \in {"user"} \cup WaitPc =>
           pc[p] \in {"user"} \cup WaitPc /\ Children(p)' = Children(p)
  PROVE  Counted'
BY DEF Counted

(* Every step keeps the counts of children exact.                          *)
LEMMA CountStep == IInv /\ [LimitNext]_limitVars => Counted'
<1> SUFFICES ASSUME IInv, Shape', [LimitNext]_limitVars PROVE Counted'
  BY ShapeStep DEF IInv
<1> USE SlotFacts DEF IInv, Goto, counts, locals, ExitPc, WaitPc
<1>1. ASSUME NEW p \in Slot, NEW np \in Slot, ForkCounted(p, np) PROVE Counted'
  <2>1. p # np /\ pc'[p] = "user" /\ pc[p] = "user"
    BY <1>1 DEF ForkCounted, Fork, Shape, TypeOK, StateOfPc
  <2>2. Children(p)' = Children(p) \cup {np} /\ np \notin Children(p)
    BY <1>1, <2>1 DEF ForkCounted, Fork, Shape, TypeOK, Children, Family
  <2>3. Cardinality(Children(p)') = Cardinality(Children(p)) + 1
    <3>1. IsFiniteSet(Children(p))
      BY SlotFinite
    <3>2. Cardinality(Children(p) \cup {np}) = Cardinality(Children(p)) + 1
      BY <2>2, <3>1, FS_AddElement
    <3> QED BY <2>2, <3>2
  <2>4. Children(np)' = {}
    BY <1>1, <2>1 DEF ForkCounted, Fork, Shape, TypeOK, Children, Family
  <2>5. ASSUME NEW q \in Slot \ {p, np}
        PROVE  Children(q)' = Children(q) /\ pc'[q] = pc[q] /\ childCount'[q] = childCount[q]
    BY <1>1, <2>1 DEF ForkCounted, Fork, Shape, TypeOK, Children
  <2>6. childCount'[p] = childCount[p] + 1 /\ childCount'[np] = 0
    BY <1>1, <2>1 DEF ForkCounted, Shape, TypeOK
  <2> QED BY <2>1, <2>3, <2>4, <2>5, <2>6, FS_EmptySet DEF Counted
<1>2. ASSUME NEW p \in Slot, WaitReapCounted(p) PROVE Counted'
  <2> DEFINE np == idx[p]
  <2>1. np \in Slot /\ np # p /\ parent[np] = p /\ state[np] = "ZOMBIE"
    BY <1>2 DEF WaitReapCounted, WaitReap, Shape, TypeOK, StateOfPc, Looked, Family
  <2>2. pc' = [pc EXCEPT ![np] = "free", ![p] = "user"] /\ pc[p] = "scanLock"
    BY <1>2 DEF WaitReapCounted, WaitReap
  <2>3. Children(p)' = Children(p) \ {np} /\ np \in Children(p)
    BY <1>2, <2>1 DEF WaitReapCounted, WaitReap, Shape, TypeOK, Children
  <2>4. Cardinality(Children(p)') = Cardinality(Children(p)) - 1 /\ Cardinality(Children(p)) \in Nat \ {0}
    <3>1. IsFiniteSet(Children(p)) /\ Cardinality(Children(p)) \in Nat /\ Cardinality(Children(p)) # 0
      BY <2>3, SlotFinite, FS_CardinalityType, FS_EmptySet
    <3>2. Cardinality(Children(p) \ {np}) = Cardinality(Children(p)) - 1
      BY <2>3, <3>1, FS_RemoveElement
    <3> QED BY <2>3, <3>1, <3>2
  <2>5. ASSUME NEW q \in Slot \ {p, np}
        PROVE  Children(q)' = Children(q) /\ pc'[q] = pc[q] /\ childCount'[q] = childCount[q]
    <3>1. Children(q)' = Children(q)
      BY <1>2, <2>1 DEF WaitReapCounted, WaitReap, Shape, TypeOK, Children
    <3> QED BY <1>2, <2>1, <2>2, <3>1 DEF WaitReapCounted, Shape, TypeOK
  <2>6. pc'[np] = "free"
    BY <2>1, <2>2 DEF Shape, TypeOK
  <2>7. ASSUME p # initproc PROVE childCount'[p] = childCount[p] - 1
    <3>1. childCount[p] = Cardinality(Children(p))
      BY <2>2, <2>7 DEF Counted
    <3>2. childCount[p] # -MinCount
      BY <2>4, <3>1, ChildLimitAssumption
    <3> QED BY <1>2, <2>1, <3>2 DEF WaitReapCounted, Shape, TypeOK
  <2>8. p # initproc => childCount[p] = Cardinality(Children(p))
    BY <2>2 DEF Counted
  <2> QED BY <2>4, <2>5, <2>6, <2>7, <2>8 DEF Counted
<1>3. ASSUME NEW p \in Slot, ReparentGive(p), UNCHANGED <<counts, flags>> PROVE Counted'
  <2>1. pc[p] = "reparentLock" /\ idx[p] \in Slot /\ parent[idx[p]] = p
    BY <1>3 DEF ReparentGive, Shape, TypeOK, Looked
  <2>2. ASSUME NEW q \in Slot \ {p, initproc} PROVE Children(q)' = Children(q)
    BY <1>3, <2>1 DEF ReparentGive, Shape, TypeOK, Children
  <2> QED BY <1>3, <2>1, <2>2, CountKept DEF ReparentGive, Shape, TypeOK
<1>4. ASSUME UNCHANGED <<childCount, parent>>,
             \A p \in Slot : state'[p] = "UNUSED" <=> state[p] = "UNUSED",
             \A p \in Slot : pc'[p] \in {"user"} \cup WaitPc => pc[p] \in {"user"} \cup WaitPc
      PROVE  Counted'
  <2>1. \A p \in Slot : Children(p)' = Children(p)
    BY <1>4 DEF Children
  <2> QED BY <1>4, <2>1, CountKept
<1> USE <1>4 DEF Shape, TypeOK, StateOfPc
<1>5. ASSUME NEW p \in Slot, NEW q \in Slot, Kill(p, q), UNCHANGED <<counts, flags>> PROVE Counted'
  BY <1>5 DEF Kill, Wakeup1
<1>6. ASSUME NEW p \in Slot, NEW n \in 0 .. MaxLimit, SeccompCtl(p, n) PROVE Counted'
  BY <1>6 DEF SeccompCtl, vars
<1>7. ASSUME NEW p \in Slot, ExitWakeInit(p), UNCHANGED <<counts, flags>> PROVE Counted'
  BY <1>7 DEF ExitWakeInit, Wakeup1
<1>8. ASSUME NEW p \in Slot, ExitReadParent(p), UNCHANGED <<counts, flags>> PROVE Counted'
  BY <1>8 DEF ExitReadParent
<1>9. ASSUME NEW p \in Slot, ExitLockParent(p), UNCHANGED <<counts, flags>> PROVE Counted'
  BY <1>9 DEF ExitLockParent
<1>10. ASSUME NEW p \in Slot, ExitLockSelf(p), UNCHANGED <<counts, flags>> PROVE Counted'
  BY <1>10 DEF ExitLockSelf
<1>11. ASSUME NEW p \in Slot, ReparentLook(p), UNCHANGED <<counts, flags>> PROVE Counted'
  BY <1>11 DEF ReparentLook
<1>12. ASSUME NEW p \in Slot, ExitZombie(p), UNCHANGED <<counts, flags>> PROVE Counted'
  BY <1>12 DEF ExitZombie, Wakeup1, Locks, ParentLockPc, ParentReadPc
<1>13. ASSUME NEW p \in Slot, ExitSched(p), UNCHANGED <<counts, flags>> PROVE Counted'
  BY <1>13 DEF ExitSched
<1>14. ASSUME NEW p \in Slot, NEW f \in {0, 1}, WaitCall(p, f) PROVE Counted'
  BY <1>14 DEF WaitCall, WaitEnter
<1>15. ASSUME NEW p \in Slot, WaitLook(p), UNCHANGED <<counts, flags>> PROVE Counted'
  BY <1>15 DEF WaitLook
<1>16. ASSUME NEW p \in Slot, WaitSkip(p), UNCHANGED <<counts, flags>> PROVE Counted'
  BY <1>16 DEF WaitSkip
<1>17. ASSUME NEW p \in Slot, WaitResume(p), UNCHANGED <<counts, flags>> PROVE Counted'
  BY <1>17 DEF WaitResume
<1>18. ASSUME NEW p \in Slot, WaitKeeps(p) PROVE Counted'
  BY <1>18 DEF WaitKeeps, WaitCopyoutFails
<1>19. ASSUME NEW p \in Slot, WaitAlone(p) PROVE Counted'
  BY <1>19 DEF WaitAlone, WaitFail
<1>20. ASSUME NEW p \in Slot, WaitNoHang(p) PROVE Counted'
  BY <1>20 DEF WaitNoHang
<1>21. ASSUME NEW p \in Slot, WaitBlocks(p) PROVE Counted'
  BY <1>21 DEF WaitBlocks, WaitSleep
<1>22. ASSUME UNCHANGED limitVars PROVE Counted'
  BY <1>22 DEF limitVars, vars
<1> HIDE DEF IInv, Shape
<1> QED
  BY <1>1, <1>2, <1>3, <1>5, <1>6, <1>7, <1>8, <1>9, <1>10, <1>11, <1>12, <1>13, <1>14, <1>15, <1>16, <1>17, <1>18, <1>19, <1>20, <1>21, <1>22
  DEF LimitNext, LimitExit, LimitWait, Exit, WaitScan

(* The invariant holds in every state the program reaches.                 *)
LEMMA Invariant == LimitSpec => []IInv
<1>1. LimitInit => IInv
  <2>1. ASSUME LimitInit PROVE Counted
    <3>1. \A p \in Slot \ {initproc} : pc[p] = "free"
      BY <2>1 DEF LimitInit, Init
    <3> QED BY <3>1 DEF Counted, WaitPc
  <2> QED BY <2>1, InitShape DEF IInv
<1>2. IInv /\ [LimitNext]_limitVars => IInv'
  BY ShapeStep, CountStep DEF IInv
<1> QED BY <1>1, <1>2, PTL DEF LimitSpec

-----------------------------------------------------------------------------
(* Nobody's parent is a free slot or a zombie, for any number of slots.    *)
THEOREM ParentsAlive == LimitSpec => []ParentIsAlive
<1>1. IInv => ParentIsAlive
  BY SlotFacts DEF IInv, Shape, Family, ParentIsAlive
<1> QED BY <1>1, Invariant, PTL

(* child_count is the number of children wherever fork may compare it.     *)
THEOREM CountsExact == LimitSpec => []ChildCountExact
<1>1. IInv => ChildCountExact
  BY DEF IInv, Counted, ChildCountExact
<1> QED BY <1>1, Invariant, PTL

(* freeproc never takes a slot whose thread is still on its kernel stack.  *)
THEOREM ReapedInPeace == LimitSpec => ReapedOffItsStack
<1>1. IInv /\ [LimitNext]_limitVars =>
        [\A p \in Slot : state[p] = "ZOMBIE" /\ state'[p] = "UNUSED" => pc[p] = "dead"]_vars
  <2> SUFFICES ASSUME IInv, [LimitNext]_limitVars, NEW p \in Slot,
                      state[p] = "ZOMBIE", state'[p] = "UNUSED", pc[p] # "dead"
               PROVE  FALSE
    OBVIOUS
  <2>1. pc[p] = "sched" /\ lock[p] = p
    BY DEF IInv, Shape, StateOfPc, Locks, OwnLockPc
  <2> USE <2>1, SlotFacts DEF IInv, Shape, TypeOK, StateOfPc, Wakeup1, Free
  <2>2. ASSUME NEW q \in Slot, WaitReap(q) PROVE FALSE
    <3>1. idx[q] = p
      BY <2>2 DEF WaitReap
    <3> QED BY <2>2, <3>1 DEF WaitReap
  <2>3. \A q, r \in Slot : ~Fork(q, r) /\ ~Kill(q, r)
    BY DEF Fork, Kill
  <2>4. \A q \in Slot : ~ExitWakeInit(q) /\ ~ExitZombie(q) /\ ~WaitSleep(q)
    BY DEF ExitWakeInit, ExitZombie, WaitSleep
  <2>5. state' # state
    OBVIOUS
  <2> HIDE DEF IInv, Shape
  <2> QED
    BY <2>2, <2>3, <2>4, <2>5
    DEF LimitNext, LimitExit, LimitWait, Exit, WaitScan, ForkCounted, SeccompCtl, WaitCall, WaitReapCounted,
        WaitKeeps, WaitAlone, WaitNoHang, WaitBlocks, ExitReadParent, ExitLockParent, ExitLockSelf,
        ReparentLook, ReparentGive, ExitSched, WaitEnter, WaitLook, WaitSkip, WaitResume,
        WaitCopyoutFails, WaitFail, limitVars, vars
<1> QED BY <1>1, Invariant, PTL DEF LimitSpec, ReapedOffItsStack

(* A wait that gives up has reason to, and has missed no zombie.           *)
THEOREM WaitGivesUpRightly == LimitSpec => WaitFailsRightly
<1>1. IInv => \A p \in Slot : WaitAlone(p) \/ WaitNoHang(p) =>
                /\ killed[p] \/ flags[p] = 1 \/ Children(p) = {}
                /\ p # initproc => \A q \in Children(p) : state[q] # "ZOMBIE"
  <2> SUFFICES ASSUME IInv, NEW p \in Slot, WaitAlone(p) \/ WaitNoHang(p)
               PROVE  /\ killed[p] \/ flags[p] = 1 \/ Children(p) = {}
                      /\ p # initproc => \A q \in Children(p) : state[q] # "ZOMBIE"
    OBVIOUS
  <2>1. pc[p] = "scan" /\ idx[p] = NPROC /\ (killed[p] \/ flags[p] = 1 \/ ~havekids[p])
    BY DEF WaitAlone, WaitFail, WaitNoHang
  <2>2. ASSUME NEW q \in Children(p), p # initproc
        PROVE  havekids[p] /\ state[q] # "ZOMBIE"
    BY <2>1, <2>2, SlotFacts DEF IInv, Shape, Scanned, Children
  <2>3. p = initproc => havekids[p]
    <3>1. p = initproc => shell \in Slot /\ parent[shell] = p
      BY <2>1, SlotFacts DEF IInv, Shape, TypeOK, ShellOfInit, WaitPc
    <3> QED BY <2>1, <3>1, SlotFacts DEF IInv, Shape, Scanned
  <2> QED BY <2>1, <2>2, <2>3
<1> QED BY <1>1, Invariant, PTL DEF WaitFailsRightly
=============================================================================
