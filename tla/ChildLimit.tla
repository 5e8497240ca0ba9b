----------------------------- MODULE ChildLimit -----------------------------
(***************************************************************************)
(* lab2/kernel/proc.c and sysproc.c: what lab2 adds to the life cycle of   *)
(* ExitWait, a limit on the number of children that a process sets with    *)
(* seccomp_ctl and hands down in fork, and a wait that does not sleep.     *)
(*                                                                         *)
(* fork, exit and wait are those of ExitWait step by step; child_count and *)
(* max_children are touched by their own process only, in fork, wait and   *)
(* seccomp_ctl, so reparent gives a child away without telling either      *)
(* count.  lab2's exit also prints its children, taking the locks reparent *)
(* takes, in the same order: that loop is left out.  So are the mask of    *)
(* allowed calls and its audit log, which no other process sees.           *)
(***************************************************************************)
EXTENDS ExitWait

CONSTANTS
  MaxLimit, \* the largest max_children asked for
  MinCount  \* bound: init's child_count is followed down to -MinCount

ASSUME ChildLimitAssumption == MaxLimit \in Nat /\ MinCount \in Nat

VARIABLES
  childCount,  \* childCount[p]: p->child_count
  maxChildren, \* maxChildren[p]: p->max_children
  flags        \* flags[p]: the second argument of p's wait

counts == <<childCount, maxChildren>>
limitVars == <<vars, counts, flags>>

LimitInit ==
  /\ Init
  /\ childCount = [p \in Slot |-> 0]
  /\ maxChildren = [p \in Slot |-> 0]
  /\ flags = [p \in Slot |-> 0]

WithinLimit(p) == maxChildren[p] > 0 => childCount[p] < maxChildren[p]

(* fork: np's own count is 0 since allocproc, and its limit is p's.        *)
ForkCounted(p, np) ==
  /\ WithinLimit(p)
  /\ Fork(p, np)
  /\ childCount' = [childCount EXCEPT ![p] = @ + 1, ![np] = 0]
  /\ maxChildren' = [maxChildren EXCEPT ![np] = maxChildren[p]]
  /\ UNCHANGED flags

(* seccomp_ctl(SECCOMP_MAXCHILD, n): init does not call it.                *)
SeccompCtl(p, n) ==
  /\ pc[p] = "user" /\ p # initproc
  /\ maxChildren' = [maxChildren EXCEPT ![p] = n]
  /\ UNCHANGED <<vars, childCount, flags>>

(* init waits for whatever child ends, with flags 0 (user/init.c).         *)
WaitCall(p, f) ==
  /\ WaitEnter(p)
  /\ p = initproc => f = 0
  /\ flags' = [flags EXCEPT ![p] = f]
  /\ UNCHANGED counts

(* Mutant: the count is taken down when the zombie is found, before        *)
(* copyout can fail.                                                       *)
WaitKeepsEarly(p) ==
  /\ WaitCopyoutFails(p)
  /\ childCount' = [childCount EXCEPT ![p] = @ - 1]
  /\ flags' = [flags EXCEPT ![p] = 0]
  /\ UNCHANGED maxChildren

WaitKeeps(p) ==
  /\ WaitCopyoutFails(p)
  /\ flags' = [flags EXCEPT ![p] = 0]
  /\ UNCHANGED counts

(* freeproc(np) resets np's fields before p's count is taken down.  The    *)
(* children init inherits were never counted by it.                        *)
WaitReapCounted(p) ==
  /\ WaitReap(p)
  /\ childCount' = [childCount EXCEPT
       ![idx[p]] = 0, ![p] = IF @ = -MinCount THEN @ ELSE @ - 1]
  /\ maxChildren' = [maxChildren EXCEPT ![idx[p]] = 0]
  /\ flags' = [flags EXCEPT ![p] = 0]

(* Mutant: flags is tested before the scan.                                *)
WaitNoHangEarly(p) ==
  /\ pc[p] = "scan" /\ ~killed[p] /\ flags[p] = 1
  /\ lock' = [lock EXCEPT ![p] = None]
  /\ idx' = [idx EXCEPT ![p] = 0]
  /\ havekids' = [havekids EXCEPT ![p] = FALSE]
  /\ Goto(p, "user")
  /\ flags' = [flags EXCEPT ![p] = 0]
  /\ UNCHANGED <<state, parent, killed, origParent, shell, counts>>

(* A scan of the whole table found only living children, and flags = 1.    *)
WaitNoHang(p) ==
  /\ pc[p] = "scan" /\ idx[p] = NPROC
  /\ havekids[p] /\ ~killed[p] /\ flags[p] = 1
  /\ lock' = [lock EXCEPT ![p] = None]
  /\ idx' = [idx EXCEPT ![p] = 0]
  /\ havekids' = [havekids EXCEPT ![p] = FALSE]
  /\ Goto(p, "user")
  /\ flags' = [flags EXCEPT ![p] = 0]
  /\ UNCHANGED <<state, parent, killed, origParent, shell, counts>>

WaitAlone(p) ==
  /\ WaitFail(p)
  /\ flags' = [flags EXCEPT ![p] = 0]
  /\ UNCHANGED counts

WaitBlocks(p) == flags[p] # 1 /\ WaitSleep(p) /\ UNCHANGED <<counts, flags>>

WaitScan(p) ==
  /\ WaitLook(p) \/ WaitSkip(p) \/ WaitResume(p)
  /\ UNCHANGED <<counts, flags>>

LimitExit(p) == Exit(p) /\ UNCHANGED <<counts, flags>>

LimitWait(p) ==
  \/ WaitScan(p) \/ WaitReapCounted(p) \/ WaitKeeps(p)
  \/ WaitAlone(p) \/ WaitNoHang(p) \/ WaitBlocks(p)

LimitNext ==
  \E p \in Slot :
    \/ \E q \in Slot : ForkCounted(p, q) \/ (Kill(p, q) /\ UNCHANGED <<counts, flags>>)
    \/ \E n \in 0 .. MaxLimit : SeccompCtl(p, n)
    \/ ExitWakeInit(p) /\ UNCHANGED <<counts, flags>>
    \/ LimitExit(p)
    \/ \E f \in {0, 1} : WaitCall(p, f)
    \/ LimitWait(p)

LimitSpec == LimitInit /\ [][LimitNext]_limitVars

(* The fairness of ExitWait.                                               *)
LimitFairSpec ==
  LimitSpec /\ \A p \in Slot : WF_limitVars(LimitExit(p)) /\ WF_limitVars(LimitWait(p))

-----------------------------------------------------------------------------
(* fork compares child_count with max_children: for every process that may *)
(* call fork, init aside, the count is the number of its children, whoever *)
(* exits, is reaped or given away, and whichever slot is used again.       *)
ChildCountExact ==
  \A p \in Slot \ {initproc} :
    pc[p] = "user" => childCount[p] = Cardinality(Children(p))

(* wait answers -1 without a bad address only to a process that is killed, *)
(* has no children or asked not to sleep, and then, init aside, none of    *)
(* its children was a zombie: the scan, which takes many steps, misses     *)
(* none, since a child needs its parent's lock to become one.              *)
WaitFailsRightly ==
  [][\A p \in Slot :
       WaitAlone(p) \/ WaitNoHang(p) =>
         /\ killed[p] \/ flags[p] = 1 \/ Children(p) = {}
         /\ p # initproc => \A q \in Children(p) : state[q] # "ZOMBIE"]_limitVars
=============================================================================
