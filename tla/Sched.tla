------------------------------- MODULE Sched -------------------------------
(***************************************************************************)
(* lab3/kernel/proc.c: scheduler, sched, yield, sleep, wakeup and kill, on *)
(* several CPUs, for processes that share one sleep channel whose lock is  *)
(* lk (a pipe's, the log's, a sleeplock's, tickslock...).                  *)
(*                                                                         *)
(* p->lock is held across swtch: the thread takes it and the scheduler of  *)
(* the same CPU releases it, or the other way round, so locks are held by  *)
(* CPUs.  A critical section that touches only what its lock protects and  *)
(* ends where it began is one action.                                      *)
(*                                                                         *)
(* pc[p] is where p's kernel thread is: "out" in code that holds no lock,  *)
(* "crit" with lk held ("woke" when it has called wakeup), "reacquire" at  *)
(* the end of sleep, the steps of sleep, wakeup and yield, "swtch" in      *)
(* sched and "switched" behind it.  irq[c] is the loop variable of the     *)
(* wakeup of an interrupt handler (clockintr, uartintr, virtio_disk_intr). *)
(***************************************************************************)
EXTENDS Integers

CONSTANTS
  CPU,
  NPROC,     \* processes, all of them alive
  None       \* no CPU and no process

Proc == 1 .. NPROC
ASSUME SchedAssumption == NPROC \in Nat \ {0} /\ None \notin CPU \cup Proc /\ CPU \cap Proc = {}

Idle == 0    \* c->proc of a CPU in its scheduler; no interrupt handler
ASSUME IdleAssumption == Idle \notin CPU

VARIABLES
  state,     \* state[p]: p->state
  plock,     \* plock[p]: the CPU that holds p->lock
  lk,        \* the CPU that holds the channel's lock
  cur,       \* cur[c]: the process on whose kernel stack c runs, or Idle
  scan,      \* scan[c]: the loop variable of c's scheduler
  irq,       \* irq[c]: the handler's loop variable, or Idle
  pc,
  ret,       \* ret[p]: where p goes on behind sched
  idx        \* idx[p]: the loop variable of p's wakeup

vars == <<state, plock, lk, cur, scan, irq, pc, ret, idx>>

(* fork has made the processes RUNNABLE; a new one starts in forkret, which*)
(* releases p->lock as yield does behind sched.                            *)
Init ==
  /\ state = [p \in Proc |-> "RUNNABLE"] /\ pc = [p \in Proc |-> "switched"]
  /\ plock = [p \in Proc |-> None] /\ lk = None
  /\ cur = [c \in CPU |-> Idle] /\ scan = [c \in CPU |-> 1] /\ irq = [c \in CPU |-> Idle]
  /\ ret = [p \in Proc |-> "out"] /\ idx = [p \in Proc |-> 1]

Goto(p, l) == pc' = [pc EXCEPT ![p] = l]
Holds(c) == lk = c \/ \E p \in Proc : plock[p] = c
(* c executes process p, no interrupt handler.                             *)
Runs(c, p) == cur[c] = p /\ irq[c] = Idle
InScheduler(c) == cur[c] = Idle /\ irq[c] = Idle

-----------------------------------------------------------------------------
(* scheduler                                                               *)
Following(c) == IF scan[c] = NPROC THEN 1 ELSE scan[c] + 1

Skip(c) ==
  /\ InScheduler(c) /\ plock[scan[c]] = None
  /\ state[scan[c]] # "RUNNABLE"
  /\ scan' = [scan EXCEPT ![c] = Following(c)]
  /\ UNCHANGED <<state, plock, lk, cur, irq, pc, ret, idx>>

Dispatch(c) ==
  LET p == scan[c] IN
  /\ InScheduler(c) /\ plock[p] = None
  /\ state[p] = "RUNNABLE"
  /\ plock' = [plock EXCEPT ![p] = c]
  /\ state' = [state EXCEPT ![p] = "RUNNING"]
  /\ cur' = [cur EXCEPT ![c] = p]
  /\ UNCHANGED <<lk, scan, irq, pc, ret, idx>>

(* Behind swtch: "Process is done running for now".                        *)
(* Mutant: the scheduler looks at the same process again.                  *)
BackSame(c) ==
  LET p == scan[c] IN
  /\ InScheduler(c) /\ plock[p] = c
  /\ plock' = [plock EXCEPT ![p] = None]
  /\ UNCHANGED <<state, lk, cur, scan, irq, pc, ret, idx>>

Back(c) ==
  LET p == scan[c] IN
  /\ InScheduler(c) /\ plock[p] = c
  /\ plock' = [plock EXCEPT ![p] = None]
  /\ scan' = [scan EXCEPT ![c] = Following(c)]
  /\ UNCHANGED <<state, lk, cur, irq, pc, ret, idx>>

-----------------------------------------------------------------------------
(* Process p on CPU c.  sched: swtch to the scheduler of this CPU.         *)
Swtch(c, p) ==
  /\ Runs(c, p) /\ pc[p] = "swtch"
  /\ cur' = [cur EXCEPT ![c] = Idle]
  /\ Goto(p, "switched")
  /\ UNCHANGED <<state, plock, lk, scan, irq, ret, idx>>

(* Behind sched, in sleep, yield and forkret: release p->lock.             *)
Resume(c, p) ==
  /\ Runs(c, p) /\ pc[p] = "switched"
  /\ plock' = [plock EXCEPT ![p] = None]
  /\ Goto(p, ret[p])
  /\ UNCHANGED <<state, lk, cur, scan, irq, ret, idx>>

(* Mutant: yield does not take p->lock.                                    *)
YieldUnlocked(c, p) ==
  /\ Runs(c, p) /\ pc[p] \in {"out", "reacquire"} /\ plock[p] = None
  /\ state' = [state EXCEPT ![p] = "RUNNABLE"]
  /\ ret' = [ret EXCEPT ![p] = pc[p]]
  /\ Goto(p, "swtch")
  /\ UNCHANGED <<plock, lk, cur, scan, irq, idx>>

(* A timer interrupt in code that holds no lock.                           *)
Yield(c, p) ==
  /\ Runs(c, p) /\ pc[p] \in {"out", "reacquire"} /\ plock[p] = None
  /\ plock' = [plock EXCEPT ![p] = c]
  /\ state' = [state EXCEPT ![p] = "RUNNABLE"]
  /\ ret' = [ret EXCEPT ![p] = pc[p]]
  /\ Goto(p, "swtch")
  /\ UNCHANGED <<lk, cur, scan, irq, idx>>

Acquire(c, p) ==
  /\ Runs(c, p) /\ pc[p] = "out"
  /\ lk = None /\ lk' = c
  /\ Goto(p, "crit")
  /\ UNCHANGED <<state, plock, cur, scan, irq, ret, idx>>

Release(c, p) ==
  /\ Runs(c, p) /\ pc[p] \in {"crit", "woke"}
  /\ lk' = None
  /\ Goto(p, "out")
  /\ UNCHANGED <<state, plock, cur, scan, irq, ret, idx>>

(* Mutant: lk is released without p->lock held.                            *)
SleepUnlocked(c, p) ==
  /\ Runs(c, p) /\ pc[p] \in {"crit", "woke"}
  /\ lk' = None
  /\ Goto(p, "sleepState")
  /\ UNCHANGED <<state, plock, cur, scan, irq, ret, idx>>

(* sleep(chan, &lk): p->lock first, then release lk.                       *)
SleepLock(c, p) ==
  /\ Runs(c, p) /\ pc[p] \in {"crit", "woke"} /\ plock[p] = None
  /\ plock' = [plock EXCEPT ![p] = c]
  /\ Goto(p, "sleepRelease")
  /\ UNCHANGED <<state, lk, cur, scan, irq, ret, idx>>

(* Mutant: sleep keeps lk.                                                 *)
SleepKeepsLock(c, p) ==
  /\ Runs(c, p) /\ pc[p] = "sleepRelease"
  /\ Goto(p, "sleepState")
  /\ UNCHANGED <<state, plock, lk, cur, scan, irq, ret, idx>>

SleepRelease(c, p) ==
  /\ Runs(c, p) /\ pc[p] = "sleepRelease"
  /\ lk' = None
  /\ Goto(p, "sleepState")
  /\ UNCHANGED <<state, plock, cur, scan, irq, ret, idx>>

SleepState(c, p) ==
  /\ Runs(c, p) /\ pc[p] = "sleepState"
  /\ state' = [state EXCEPT ![p] = "SLEEPING"]
  /\ ret' = [ret EXCEPT ![p] = "reacquire"]
  /\ Goto(p, "swtch")
  /\ UNCHANGED <<plock, lk, cur, scan, irq, idx>>

Reacquire(c, p) ==
  /\ Runs(c, p) /\ pc[p] = "reacquire"
  /\ lk = None /\ lk' = c
  /\ Goto(p, "crit")
  /\ UNCHANGED <<state, plock, cur, scan, irq, ret, idx>>

(* wakeup(chan) with lk held, one q->lock after the other.                 *)
Woken(q) == [state EXCEPT ![q] = IF @ = "SLEEPING" THEN "RUNNABLE" ELSE @]

WakeupCall(c, p) ==
  /\ Runs(c, p) /\ pc[p] = "crit"
  /\ idx' = [idx EXCEPT ![p] = 1]
  /\ Goto(p, "wakeup")
  /\ UNCHANGED <<state, plock, lk, cur, scan, irq, ret>>

WakeupOne(c, p) ==
  /\ Runs(c, p) /\ pc[p] = "wakeup" /\ plock[idx[p]] = None
  /\ state' = Woken(idx[p])
  /\ IF idx[p] = NPROC THEN Goto(p, "woke") /\ idx' = [idx EXCEPT ![p] = 1]
     ELSE idx' = [idx EXCEPT ![p] = @ + 1] /\ UNCHANGED pc
  /\ UNCHANGED <<plock, lk, cur, scan, irq, ret>>

Kill(c, p, q) ==
  /\ Runs(c, p) /\ pc[p] = "out" /\ plock[q] = None
  /\ state[q] = "SLEEPING"
  /\ state' = Woken(q)
  /\ UNCHANGED <<plock, lk, cur, scan, irq, pc, ret, idx>>

-----------------------------------------------------------------------------
(* A device or clock interrupt on a CPU that holds no lock (push_off keeps *)
(* interrupts off while it does).                                          *)
IrqEnter(c) ==
  /\ irq[c] = Idle /\ ~Holds(c)
  /\ lk = None /\ lk' = c
  /\ irq' = [irq EXCEPT ![c] = 1]
  /\ UNCHANGED <<state, plock, cur, scan, pc, ret, idx>>

IrqWakeup(c) ==
  /\ irq[c] \in Proc /\ plock[irq[c]] = None
  /\ state' = Woken(irq[c])
  /\ irq' = [irq EXCEPT ![c] = @ + 1]
  /\ UNCHANGED <<plock, lk, cur, scan, pc, ret, idx>>

IrqReturn(c) ==
  /\ irq[c] = NPROC + 1
  /\ lk' = None
  /\ irq' = [irq EXCEPT ![c] = Idle]
  /\ UNCHANGED <<state, plock, cur, scan, pc, ret, idx>>

-----------------------------------------------------------------------------
Scheduler(c) == Skip(c) \/ Dispatch(c) \/ Back(c)
Thread(c, p) ==
  \/ Swtch(c, p) \/ Resume(c, p) \/ Release(c, p) \/ SleepLock(c, p)
  \/ SleepRelease(c, p) \/ SleepState(c, p) \/ Reacquire(c, p) \/ WakeupOne(c, p)
Handler(c) == IrqWakeup(c) \/ IrqReturn(c)

Step(c) == Scheduler(c) \/ \E p \in Proc : Thread(c, p)
Timer(c) == \E p \in Proc : Yield(c, p)

Next ==
  \E c \in CPU :
    \/ Step(c) \/ Timer(c) \/ IrqEnter(c) \/ Handler(c)
    \/ \E p \in Proc : \/ Acquire(c, p) \/ WakeupCall(c, p)
                       \/ \E q \in Proc : Kill(c, p, q)

Spec == Init /\ [][Next]_vars

(* A CPU that can make a step again and again makes it (a spinning acquire *)
(* gets its lock, handlers leave time for threads), and its timer fires    *)
(* while user code runs (kernel/kernelvec.S re-arms it on every tick).     *)
FairSpec == Spec /\ \A c \in CPU : SF_vars(Step(c)) /\ SF_vars(Timer(c)) /\ WF_vars(Handler(c))

-----------------------------------------------------------------------------
(* Every variable has its type.                                            *)
TypeOK ==
  /\ state \in [Proc -> {"RUNNABLE", "RUNNING", "SLEEPING"}]
  /\ plock \in [Proc -> CPU \cup {None}] /\ lk \in CPU \cup {None}
  /\ cur \in [CPU -> Proc \cup {Idle}] /\ scan \in [CPU -> Proc]
  /\ irq \in [CPU -> 0 .. NPROC + 1]
  /\ pc \in [Proc -> {"out", "crit", "wakeup", "woke", "sleepRelease",
                      "sleepState", "swtch", "switched", "reacquire"}]
  /\ ret \in [Proc -> {"out", "reacquire"}]
  /\ idx \in [Proc -> Proc]

(* No process runs on two CPUs, and a process that is not RUNNING is off   *)
(* its kernel stack unless the CPU that holds its lock is on the way out:  *)
(* holding p->lock across swtch is what keeps others from resuming p.      *)
OneCpuPerProcess ==
  \A p \in Proc :
    /\ \A c, d \in CPU : cur[c] = p /\ cur[d] = p => c = d
    /\ state[p] = "RUNNING" => \E c \in CPU : cur[c] = p
    /\ state[p] # "RUNNING" => \A c \in CPU : cur[c] = p => plock[p] = c

(* sched's checks: whoever calls swtch holds p->lock and no other lock, on *)
(* the CPU that runs it, so the scheduler releases a lock it holds.        *)
SwtchWithOneLock ==
  \A c \in CPU, p \in Proc : Runs(c, p) /\ pc[p] = "swtch" =>
    /\ plock[p] = c /\ scan[c] = p
    /\ lk # c /\ \A q \in Proc \ {p} : plock[q] # c

(* A runnable process gets a CPU.                                          *)
RunnableRuns == \A p \in Proc : state[p] = "RUNNABLE" ~> state[p] = "RUNNING"

(* Who sleeps on the channel, once it has released lk, until a wakeup that *)
(* has still to come to it is under way or has woken it.                   *)
BeingWoken(q) ==
  \/ \E p \in Proc : pc[p] = "wakeup" /\ idx[p] <= q
  \/ \E c \in CPU : irq[c] # Idle /\ irq[c] <= q
Asleep ==
  {q \in Proc : (pc[q] = "sleepState" \/ state[q] = "SLEEPING") /\ ~BeingWoken(q)}
Owner == IF lk = None THEN None ELSE IF irq[lk] # Idle THEN lk ELSE cur[lk]

(* sleep and wakeup implement a monitor: no wakeup is lost between the     *)
(* release of lk and the moment the process is SLEEPING and off its stack. *)
Cond == INSTANCE Monitor WITH Client <- Proc \cup CPU, Nobody <- None,
                              owner <- Owner, asleep <- Asleep
ImplementsMonitor == Cond!Spec
=============================================================================
