------------------------------ MODULE ExitWait ------------------------------
(***************************************************************************)
(* lab3/kernel/proc.c: fork, exit, wait and kill, at the level of the      *)
(* per-process spinlocks.  exit and wait hold a parent's lock while they   *)
(* take a child's, and both read np->parent without np->lock, so an action *)
(* is what happens between two lock operations.                            *)
(*                                                                         *)
(* A process is its slot of proc[]; slots are freed and reused.  pc[p] is  *)
(* where its kernel thread is.  Files, memory and pids are left out; the   *)
(* scheduler is the freedom to let any thread that may run take a step.    *)
(*                                                                         *)
(* ChildLimit adds what lab2's fork and wait do more; its behaviours with  *)
(* no limits and no flags are those of Spec here.                          *)
(***************************************************************************)
EXTENDS Integers, FiniteSets

CONSTANTS NPROC     \* slots of the process table

ASSUME NPROCAssumption == NPROC \in Nat /\ NPROC >= 2

Slot == 0 .. NPROC - 1
initproc == 0
None == NPROC       \* no process: a free lock, the parent of a free slot

VARIABLES
  state,     \* state[p]: p->state, "RUNNING" standing for RUNNABLE as well
  parent,    \* parent[p]: p->parent
  killed,    \* killed[p]: p->killed
  lock,      \* lock[p]: the thread that holds p->lock, or None
  pc,        \* where p's kernel thread is
  idx,       \* idx[p]: the loop variable of wait and reparent
  havekids,  \* havekids[p]: wait's local variable
  origParent,\* origParent[p]: exit's original_parent
  shell      \* user/init.c: the shell init waits for, or None

locals == <<idx, havekids, origParent>>
vars == <<state, parent, killed, lock, pc, locals, shell>>

Init ==
  /\ state = [p \in Slot |-> IF p = initproc THEN "RUNNING" ELSE "UNUSED"]
  /\ parent = [p \in Slot |-> None]
  /\ killed = [p \in Slot |-> FALSE]
  /\ lock = [p \in Slot |-> None]
  /\ pc = [p \in Slot |-> IF p = initproc THEN "user" ELSE "free"]
  /\ idx = [p \in Slot |-> 0]
  /\ havekids = [p \in Slot |-> FALSE]
  /\ origParent = [p \in Slot |-> None]
  /\ shell = None

Free(p) == lock[p] = None
Goto(p, l) == pc' = [pc EXCEPT ![p] = l]
Children(p) == {q \in Slot : state[q] # "UNUSED" /\ parent[q] = p}

(* wakeup1(q): q is asleep only in wait here, so its chan is q.            *)
Wakeup1(q) == IF state[q] = "SLEEPING" THEN "RUNNING" ELSE state[q]

-----------------------------------------------------------------------------
(* fork: allocproc takes an unused slot and keeps its lock until the child *)
(* is RUNNABLE.  Which unused slot it finds depends on when it scanned     *)
(* each; a fork that finds none changes nothing.  init forks one shell at  *)
(* a time (user/init.c).                                                   *)
Fork(p, np) ==
  /\ pc[p] = "user"
  /\ state[np] = "UNUSED" /\ Free(np)
  /\ state' = [state EXCEPT ![np] = "RUNNING"]
  /\ parent' = [parent EXCEPT ![np] = p]
  /\ Goto(np, "user")
  /\ IF p = initproc THEN shell = None /\ shell' = np ELSE UNCHANGED shell
  /\ UNCHANGED <<killed, lock, locals>>

(* exit first wakes init, whether or not it will inherit children.         *)
ExitWakeInit(p) ==
  /\ pc[p] = "user" /\ p # initproc
  /\ Free(initproc)
  /\ state' = [state EXCEPT ![initproc] = Wakeup1(initproc)]
  /\ Goto(p, "exitReadParent")
  /\ UNCHANGED <<parent, killed, lock, locals, shell>>

(* original_parent = p->parent under p->lock, which is released again.     *)
ExitReadParent(p) ==
  /\ pc[p] = "exitReadParent" /\ Free(p)
  /\ origParent' = [origParent EXCEPT ![p] = parent[p]]
  /\ Goto(p, "exitLockParent")
  /\ UNCHANGED <<state, parent, killed, lock, idx, havekids, shell>>

ExitLockParent(p) ==
  /\ pc[p] = "exitLockParent" /\ Free(origParent[p])
  /\ lock' = [lock EXCEPT ![origParent[p]] = p]
  /\ Goto(p, "exitLockSelf")
  /\ UNCHANGED <<state, parent, killed, locals, shell>>

(* Mutant: exit forgets reparent.                                          *)
ExitKeepChildren(p) ==
  /\ pc[p] = "exitLockSelf" /\ Free(p)
  /\ lock' = [lock EXCEPT ![p] = p]
  /\ idx' = [idx EXCEPT ![p] = NPROC]
  /\ Goto(p, "reparent")
  /\ UNCHANGED <<state, parent, killed, havekids, origParent, shell>>

ExitLockSelf(p) ==
  /\ pc[p] = "exitLockSelf" /\ Free(p)
  /\ lock' = [lock EXCEPT ![p] = p]
  /\ idx' = [idx EXCEPT ![p] = 0]
  /\ Goto(p, "reparent")
  /\ UNCHANGED <<state, parent, killed, havekids, origParent, shell>>

(* reparent looks at pp->parent before it takes pp->lock.                  *)
ReparentLook(p) ==
  /\ pc[p] = "reparent" /\ idx[p] < NPROC
  /\ IF parent[idx[p]] = p
     THEN Goto(p, "reparentLock") /\ UNCHANGED idx
     ELSE idx' = [idx EXCEPT ![p] = @ + 1] /\ UNCHANGED pc
  /\ UNCHANGED <<state, parent, killed, lock, havekids, origParent, shell>>

ReparentGive(p) ==
  /\ pc[p] = "reparentLock" /\ Free(idx[p])
  /\ parent' = [parent EXCEPT ![idx[p]] = initproc]
  /\ idx' = [idx EXCEPT ![p] = @ + 1]
  /\ Goto(p, "reparent")
  /\ UNCHANGED <<state, killed, lock, havekids, origParent, shell>>

(* Mutant: p->lock is not held across the switch to the scheduler.         *)
ExitZombieUnlocked(p) ==
  LET op == origParent[p] IN
  /\ pc[p] = "reparent" /\ idx[p] = NPROC
  /\ state' = [state EXCEPT ![op] = Wakeup1(op), ![p] = "ZOMBIE"]
  /\ lock' = [lock EXCEPT ![op] = None, ![p] = None]
  /\ Goto(p, "sched")
  /\ UNCHANGED <<parent, killed, locals, shell>>

(* Mutant: the parent is not woken.                                        *)
ExitZombieSilent(p) ==
  /\ pc[p] = "reparent" /\ idx[p] = NPROC
  /\ state' = [state EXCEPT ![p] = "ZOMBIE"]
  /\ lock' = [lock EXCEPT ![origParent[p]] = None]
  /\ Goto(p, "sched")
  /\ UNCHANGED <<parent, killed, locals, shell>>

(* Wake the parent, become a zombie, release the parent's lock.            *)
ExitZombie(p) ==
  LET op == origParent[p] IN
  /\ pc[p] = "reparent" /\ idx[p] = NPROC
  /\ state' = [state EXCEPT ![op] = Wakeup1(op), ![p] = "ZOMBIE"]
  /\ lock' = [lock EXCEPT ![op] = None]
  /\ Goto(p, "sched")
  /\ UNCHANGED <<parent, killed, locals, shell>>

(* sched leaves the zombie's kernel stack; the scheduler drops p->lock.    *)
ExitSched(p) ==
  /\ pc[p] = "sched"
  /\ lock' = [lock EXCEPT ![p] = IF @ = p THEN None ELSE @]
  /\ Goto(p, "dead")
  /\ UNCHANGED <<state, parent, killed, locals, shell>>

-----------------------------------------------------------------------------
(* wait: init calls it while it has a shell (user/init.c), other processes *)
(* whenever they like.                                                     *)
WaitEnter(p) ==
  /\ pc[p] = "user" /\ Free(p)
  /\ p = initproc => shell # None
  /\ lock' = [lock EXCEPT ![p] = p]
  /\ idx' = [idx EXCEPT ![p] = 0]
  /\ havekids' = [havekids EXCEPT ![p] = FALSE]
  /\ Goto(p, "scan")
  /\ UNCHANGED <<state, parent, killed, origParent, shell>>

WaitLook(p) ==
  /\ pc[p] = "scan" /\ idx[p] < NPROC
  /\ IF parent[idx[p]] = p
     THEN Goto(p, "scanLock") /\ UNCHANGED idx
     ELSE idx' = [idx EXCEPT ![p] = @ + 1] /\ UNCHANGED pc
  /\ UNCHANGED <<state, parent, killed, lock, havekids, origParent, shell>>

(* The child is not a zombie.                                              *)
WaitSkip(p) ==
  LET np == idx[p] IN
  /\ pc[p] = "scanLock" /\ Free(np)
  /\ state[np] # "ZOMBIE"
  /\ havekids' = [havekids EXCEPT ![p] = TRUE]
  /\ idx' = [idx EXCEPT ![p] = np + 1]
  /\ Goto(p, "scan")
  /\ UNCHANGED <<state, parent, killed, lock, origParent, shell>>

(* freeproc(np) and return its pid.                                        *)
WaitReap(p) ==
  LET np == idx[p] IN
  /\ pc[p] = "scanLock" /\ Free(np)
  /\ state[np] = "ZOMBIE"
  /\ state' = [state EXCEPT ![np] = "UNUSED"]
  /\ parent' = [parent EXCEPT ![np] = None]
  /\ killed' = [killed EXCEPT ![np] = FALSE]
  /\ pc' = [pc EXCEPT ![np] = "free", ![p] = "user"]
  /\ idx' = [idx EXCEPT ![np] = 0, ![p] = 0]
  /\ origParent' = [origParent EXCEPT ![np] = None]
  /\ havekids' = [havekids EXCEPT ![np] = FALSE, ![p] = FALSE]
  /\ lock' = [lock EXCEPT ![p] = None]
  /\ shell' = IF p = initproc /\ np = shell THEN None ELSE shell

(* The caller's address is bad: wait returns -1 and keeps the zombie.      *)
(* init passes no address.                                                 *)
WaitCopyoutFails(p) ==
  /\ pc[p] = "scanLock" /\ Free(idx[p]) /\ p # initproc
  /\ state[idx[p]] = "ZOMBIE"
  /\ lock' = [lock EXCEPT ![p] = None]
  /\ idx' = [idx EXCEPT ![p] = 0]
  /\ havekids' = [havekids EXCEPT ![p] = FALSE]
  /\ Goto(p, "user")
  /\ UNCHANGED <<state, parent, killed, origParent, shell>>

(* No child, or killed: return -1.                                         *)
WaitFail(p) ==
  /\ pc[p] = "scan" /\ idx[p] = NPROC
  /\ ~havekids[p] \/ killed[p]
  /\ lock' = [lock EXCEPT ![p] = None]
  /\ idx' = [idx EXCEPT ![p] = 0]
  /\ havekids' = [havekids EXCEPT ![p] = FALSE]
  /\ Goto(p, "user")
  /\ UNCHANGED <<state, parent, killed, origParent, shell>>

(* sleep(p, &p->lock): the scheduler drops p->lock once p is SLEEPING.     *)
WaitSleep(p) ==
  /\ pc[p] = "scan" /\ idx[p] = NPROC
  /\ havekids[p] /\ ~killed[p]
  /\ state' = [state EXCEPT ![p] = "SLEEPING"]
  /\ lock' = [lock EXCEPT ![p] = None]
  /\ Goto(p, "asleep")
  /\ UNCHANGED <<parent, killed, locals, shell>>

(* The scheduler takes p->lock and resumes p, which scans again.           *)
WaitResume(p) ==
  /\ pc[p] = "asleep" /\ state[p] = "RUNNING" /\ Free(p)
  /\ lock' = [lock EXCEPT ![p] = p]
  /\ idx' = [idx EXCEPT ![p] = 0]
  /\ havekids' = [havekids EXCEPT ![p] = FALSE]
  /\ Goto(p, "scan")
  /\ UNCHANGED <<state, parent, killed, origParent, shell>>

(* kill(p): by any process that runs user code.  Killing init makes it     *)
(* exit, which panics, and is left out.  kill(0) finds a free slot (its    *)
(* pid is 0), and who is forked in it then begins its life killed.         *)
Kill(q, p) ==
  /\ pc[q] = "user" /\ p # initproc
  /\ ~killed[p] /\ Free(p)
  /\ killed' = [killed EXCEPT ![p] = TRUE]
  /\ state' = [state EXCEPT ![p] = Wakeup1(p)]
  /\ UNCHANGED <<parent, lock, pc, locals, shell>>

Exit(p) ==
  \/ ExitReadParent(p) \/ ExitLockParent(p) \/ ExitLockSelf(p)
  \/ ReparentLook(p) \/ ReparentGive(p) \/ ExitZombie(p) \/ ExitSched(p)

Wait(p) ==
  \/ WaitLook(p) \/ WaitSkip(p) \/ WaitReap(p) \/ WaitCopyoutFails(p)
  \/ WaitFail(p) \/ WaitSleep(p) \/ WaitResume(p)

Next ==
  \E p \in Slot :
    \/ \E q \in Slot : Fork(p, q) \/ Kill(p, q)
    \/ ExitWakeInit(p) \/ Exit(p)
    \/ WaitEnter(p) \/ Wait(p)

Spec == Init /\ [][Next]_vars

(* Once in the kernel a thread goes on: timer interrupts and the round of  *)
(* scheduler over proc[] give every runnable process a CPU again.  Nothing *)
(* makes user code call fork, exit, wait or kill.                          *)
FairSpec == Spec /\ \A p \in Slot : WF_vars(Exit(p)) /\ WF_vars(Wait(p))

-----------------------------------------------------------------------------
(* Nobody's parent is a free slot or a zombie: exit gives all children     *)
(* away before it becomes one, whatever forks, exits and reaps around it.  *)
ParentIsAlive ==
  \A p \in Slot \ {initproc} : state[p] # "UNUSED" =>
    parent[p] # None /\ state[parent[p]] \in {"RUNNING", "SLEEPING"}

(* A slot is freed only after its thread has left its kernel stack: the    *)
(* zombie's lock is held until the scheduler releases it.                  *)
ReapedOffItsStack ==
  [][\A p \in Slot : state[p] = "ZOMBIE" /\ state'[p] = "UNUSED" => pc[p] = "dead"]_vars

(* A process that waits for a zombie child returns from wait.              *)
WaitReturns ==
  \A p \in Slot \ {initproc} :
    (pc[p] \in {"scan", "scanLock", "asleep"}
       /\ \E q \in Children(p) : state[q] = "ZOMBIE") ~> (pc[p] = "user")
=============================================================================
