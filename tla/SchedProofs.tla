---------------------------- MODULE SchedProofs ----------------------------
(***************************************************************************)
(* Proofs about Sched for every number of CPUs and processes, and about    *)
(* what Sched's scheduler switches in lab4: each CPU's satp and the kernel *)
(* page tables of the processes (KernelPageTable).                         *)
(***************************************************************************)
EXTENDS Sched, KernelPageTable, WellFoundedInduction, TLAPS

(* Where a thread holds p->lock, and where it holds lk.                    *)
LockedPc == {"sleepRelease", "sleepState", "swtch", "switched"}
LkPc == {"crit", "woke", "wakeup", "sleepRelease"}

(* A CPU runs the process its scheduler's loop has come to, and a process  *)
(* runs on one CPU at most; one that runs on none is behind swtch.         *)
OnStack ==
  /\ \A c \in CPU : cur[c] # Idle => scan[c] = cur[c]
  /\ \A c, d \in CPU : cur[c] = cur[d] /\ cur[c] # Idle => c = d
  /\ \A p \in Proc : (\A c \in CPU : cur[c] # p) => pc[p] = "switched"

(* p->state follows from where p is.                                       *)
StateOfPc ==
  /\ \A p \in Proc : pc[p] = "swtch" => state[p] # "RUNNING"
  /\ \A p \in Proc : pc[p] \notin {"swtch", "switched"} => state[p] = "RUNNING"
  /\ \A p \in Proc : pc[p] = "switched" =>
       (state[p] = "RUNNING" <=> \E c \in CPU : cur[c] = p)

(* p->lock is held by the CPU that runs p, where p's code says so, or by   *)
(* the CPU whose scheduler p has just switched to.                         *)
ProcLocks ==
  /\ \A c \in CPU, p \in Proc : cur[c] = p =>
       plock[p] = IF pc[p] \in LockedPc THEN c ELSE None
  /\ \A p \in Proc : plock[p] # None =>
       scan[plock[p]] = p /\ irq[plock[p]] = Idle /\ cur[plock[p]] \in {Idle, p}

(* lk is held by a CPU in a critical section or in an interrupt handler,   *)
(* which interrupts only code that holds no lock.                          *)
CondLock ==
  /\ \A c \in CPU : irq[c] # Idle => lk = c
  /\ \A c \in CPU, p \in Proc : cur[c] = p /\ irq[c] # Idle => pc[p] \in {"out", "reacquire"}
  /\ \A c \in CPU, p \in Proc : cur[c] = p /\ pc[p] \in LkPc => lk = c
  /\ lk # None => irq[lk] # Idle \/ (cur[lk] # Idle /\ pc[cur[lk]] \in LkPc)

IInv == TypeOK /\ OnStack /\ StateOfPc /\ ProcLocks /\ CondLock

(* What is assumed of the constants, as facts.                             *)
LEMMA Constants ==
  /\ Idle \notin Proc /\ None \notin CPU /\ 1 \in Proc
  /\ \A p \in Proc : p \in Nat /\ (p # NPROC => p + 1 \in Proc)
BY SchedAssumption DEF Proc, Idle

(* Processes are numbers of proc[].                                        *)
LEMMA ProcRange == NPROC \in Nat /\ \A q \in Proc : q \in Nat /\ q <= NPROC
BY SchedAssumption DEF Proc

(* The scheduler's loop variable after a process.                          *)
LEMMA NextIndex == \A q \in Proc : q # Idle /\ q + 1 \in 0 .. NPROC + 1 /\ q + 1 # Idle
BY SchedAssumption DEF Proc, Idle

(* Idle is no index of proc[].                                             *)
LEMMA IdleIndex == Idle \in 0 .. NPROC + 1 /\ NPROC + 1 # Idle
BY SchedAssumption DEF Idle

(* The initial states satisfy the invariant.                               *)
LEMMA InitIInv == Init => IInv
BY Constants, SchedAssumption DEF Init, IInv, TypeOK, OnStack, StateOfPc,
   ProcLocks, CondLock, LockedPc, LkPc, Idle, Proc

(* The invariant is inductive; one step below per action.                  *)
LEMMA NextIInv == IInv /\ [Next]_vars => IInv'
<1> SUFFICES ASSUME IInv, [Next]_vars PROVE IInv'
  OBVIOUS
<1> USE Constants DEF IInv, TypeOK, OnStack, StateOfPc, ProcLocks, CondLock,
        LockedPc, LkPc, Runs, InScheduler, Goto
<1>1. ASSUME NEW c \in CPU, Skip(c) PROVE IInv'
  BY <1>1 DEF Skip, Following
<1>2. ASSUME NEW c \in CPU, Dispatch(c) PROVE IInv'
  BY <1>2 DEF Dispatch
<1>3. ASSUME NEW c \in CPU, Back(c) PROVE IInv'
  BY <1>3 DEF Back, Following
<1>4. ASSUME NEW c \in CPU, IrqEnter(c) PROVE IInv'
  BY <1>4, SchedAssumption DEF IrqEnter, Holds, Idle
<1>5. ASSUME NEW c \in CPU, IrqWakeup(c) PROVE IInv'
  <2>1. irq[c] # Idle /\ irq[c] + 1 \in 0 .. NPROC + 1 /\ irq[c] + 1 # Idle
    BY <1>5, NextIndex DEF IrqWakeup
  <2> QED BY <1>5, <2>1 DEF IrqWakeup, Woken
<1>6. ASSUME NEW c \in CPU, IrqReturn(c) PROVE IInv'
  <2>1. irq[c] # Idle
    BY <1>6, IdleIndex DEF IrqReturn
  <2> QED BY <1>6, <2>1, IdleIndex DEF IrqReturn
<1>7. ASSUME NEW c \in CPU, NEW p \in Proc, Swtch(c, p) PROVE IInv'
  BY <1>7 DEF Swtch
<1>8. ASSUME NEW c \in CPU, NEW p \in Proc, Resume(c, p) PROVE IInv'
  BY <1>8 DEF Resume
<1>9. ASSUME NEW c \in CPU, NEW p \in Proc, Yield(c, p) PROVE IInv'
  BY <1>9 DEF Yield
<1>10. ASSUME NEW c \in CPU, NEW p \in Proc, Acquire(c, p) PROVE IInv'
  BY <1>10 DEF Acquire
<1>11. ASSUME NEW c \in CPU, NEW p \in Proc, Release(c, p) PROVE IInv'
  BY <1>11 DEF Release
<1>12. ASSUME NEW c \in CPU, NEW p \in Proc, SleepLock(c, p) PROVE IInv'
  BY <1>12 DEF SleepLock
<1>13. ASSUME NEW c \in CPU, NEW p \in Proc, SleepRelease(c, p) PROVE IInv'
  BY <1>13 DEF SleepRelease
<1>14. ASSUME NEW c \in CPU, NEW p \in Proc, SleepState(c, p) PROVE IInv'
  BY <1>14 DEF SleepState
<1>15. ASSUME NEW c \in CPU, NEW p \in Proc, Reacquire(c, p) PROVE IInv'
  BY <1>15 DEF Reacquire
<1>16. ASSUME NEW c \in CPU, NEW p \in Proc, WakeupCall(c, p) PROVE IInv'
  BY <1>16 DEF WakeupCall
<1>17. ASSUME NEW c \in CPU, NEW p \in Proc, WakeupOne(c, p) PROVE IInv'
  BY <1>17, SMTT(30) DEF WakeupOne, Woken
<1>18. ASSUME NEW c \in CPU, NEW p \in Proc, NEW q \in Proc, Kill(c, p, q) PROVE IInv'
  BY <1>18 DEF Kill, Woken
<1>19. CASE UNCHANGED vars
  BY <1>19 DEF vars
<1> QED
  BY <1>1, <1>2, <1>3, <1>4, <1>5, <1>6, <1>7, <1>8, <1>9, <1>10, <1>11, <1>12, <1>13, <1>14, <1>15, <1>16, <1>17, <1>18, <1>19
  DEF Next, Step, Scheduler, Thread, Handler, Timer

(* The invariant holds in every state the program reaches.                 *)
LEMMA SpecIInv == Spec => []IInv
BY InitIInv, NextIInv, PTL DEF Spec

-----------------------------------------------------------------------------
(* Every variable keeps its type (for any number of CPUs and processes).   *)
THEOREM TypeInvariant == Spec => []TypeOK
<1>1. IInv => TypeOK
  BY DEF IInv
<1> QED BY <1>1, SpecIInv, PTL

(* No process is ever run by two CPUs, and p->lock covers the time between *)
(* the change of p->state and the end of swtch.                            *)
THEOREM RunsOnOneCpu == Spec => []OneCpuPerProcess
<1>1. IInv => OneCpuPerProcess
  BY Constants DEF IInv, TypeOK, OnStack, StateOfPc, ProcLocks, LockedPc,
     OneCpuPerProcess
<1> QED BY <1>1, SpecIInv, PTL

(* sched's checks never fail: p->lock, and no other lock, is held at swtch.*)
THEOREM SwtchHoldsOneLock == Spec => []SwtchWithOneLock
<1>1. IInv => SwtchWithOneLock
  BY Constants DEF IInv, TypeOK, OnStack, StateOfPc, ProcLocks, CondLock,
     LockedPc, LkPc, Runs, SwtchWithOneLock
<1> QED BY <1>1, SpecIInv, PTL

-----------------------------------------------------------------------------
(* Sched implements Monitor, step by step.                                 *)

(* Who runs a wakeup holds lk, so at most one is under way, and lk's owner *)
(* is the process on whose stack its CPU is, or the CPU's handler.         *)
LEMMA OneWaker ==
  ASSUME IInv
  PROVE  /\ \A p \in Proc : p \notin CPU /\ p # None
         /\ \A p \in Proc : pc[p] = "wakeup" => Owner = p
         /\ \A c \in CPU : irq[c] # Idle => Owner = c
         /\ \A c \in CPU, p \in Proc : Runs(c, p) /\ pc[p] \in LkPc => Owner = p
<1> USE SchedAssumption, Constants DEF IInv, TypeOK, OnStack, CondLock, LkPc, Owner, Runs
<1>1. \A p \in Proc : p \notin CPU /\ p # None
  BY SchedAssumption
<1>2. ASSUME NEW p \in Proc, pc[p] = "wakeup" PROVE Owner = p
  <2>1. PICK c \in CPU : cur[c] = p
    BY <1>2
  <2> QED BY <2>1, <1>2
<1>3. \A c \in CPU : irq[c] # Idle => Owner = c
  OBVIOUS
<1>4. \A c \in CPU, p \in Proc : Runs(c, p) /\ pc[p] \in LkPc => Owner = p
  OBVIOUS
<1> QED BY <1>1, <1>2, <1>3, <1>4

(* Nobody is being woken while lk is free or its owner is not in wakeup.   *)
LEMMA NobodyBeingWoken ==
  ASSUME IInv,
         \/ lk = None
         \/ \E c \in CPU, p \in Proc : Runs(c, p) /\ pc[p] \in LkPc \ {"wakeup"}
  PROVE  \A q \in Proc : ~BeingWoken(q)
BY OneWaker, Constants DEF BeingWoken, Owner, IInv, TypeOK, CondLock, LkPc, Runs

(* A step that leaves lk, the wakeups and who is going to sleep as they    *)
(* are is a stutter.                                                       *)
LEMMA Stutter ==
  ASSUME IInv, IInv', UNCHANGED <<lk, irq, idx>>,
         \A c \in CPU : lk = c /\ irq[c] = Idle => cur'[c] = cur[c],
         \A p \in Proc : pc'[p] = "wakeup" <=> pc[p] = "wakeup",
         \A q \in Proc : pc'[q] = "sleepState" \/ state'[q] = "SLEEPING"
                           <=> pc[q] = "sleepState" \/ state[q] = "SLEEPING"
  PROVE  UNCHANGED Cond!vars
<1>1. Owner' = Owner
  BY DEF Owner, IInv, TypeOK
<1>2. \A q \in Proc : BeingWoken(q)' <=> BeingWoken(q)
  BY DEF BeingWoken, IInv, TypeOK
<1>3. Asleep' = Asleep
  BY <1>2 DEF Asleep
<1> QED BY <1>1, <1>3 DEF Cond!vars

(* Every step is a step of the monitor, or one it does not see.            *)
LEMMA StepMaps == IInv /\ IInv' /\ [Next]_vars => [Cond!Next]_Cond!vars
<1> SUFFICES ASSUME IInv, IInv', [Next]_vars PROVE [Cond!Next]_Cond!vars
  OBVIOUS
<1> USE Constants DEF IInv, TypeOK, Goto
<1>1. ASSUME NEW c \in CPU, Skip(c) \/ Dispatch(c) \/ Back(c) PROVE UNCHANGED Cond!vars
  BY <1>1, Stutter DEF Skip, Dispatch, Back, InScheduler, StateOfPc, OnStack, CondLock
<1>2. ASSUME NEW c \in CPU, NEW p \in Proc,
             Swtch(c, p) \/ Resume(c, p) \/ Yield(c, p) \/ SleepLock(c, p) \/ SleepState(c, p)
      PROVE  UNCHANGED Cond!vars
  BY <1>2, Stutter DEF Swtch, Resume, Yield, SleepLock, SleepState, Runs, StateOfPc, OnStack,
     CondLock, LkPc
<1>3. ASSUME NEW c \in CPU, NEW p \in Proc, Acquire(c, p) \/ Reacquire(c, p) PROVE Cond!Enter(p)
  <2>1. p \notin Asleep
    BY <1>3 DEF Asleep, Acquire, Reacquire, Runs, StateOfPc
  <2>2. Owner = None /\ Owner' = p
    BY <1>3 DEF Owner, Acquire, Reacquire, Runs
  <2>3. Asleep' = Asleep
    BY <1>3 DEF Asleep, BeingWoken, Acquire, Reacquire, Runs
  <2> QED BY <2>1, <2>2, <2>3 DEF Cond!Enter
<1>4. ASSUME NEW c \in CPU, NEW p \in Proc, Release(c, p) PROVE Cond!Leave(p)
  <2>1. Owner = p /\ Owner' = None
    BY <1>4, OneWaker DEF Owner, Release, Runs, LkPc
  <2>2. Asleep' = Asleep
    BY <1>4 DEF Asleep, BeingWoken, Release, Runs
  <2> QED BY <2>1, <2>2 DEF Cond!Leave
<1>5. ASSUME NEW c \in CPU, NEW p \in Proc, SleepRelease(c, p) PROVE Cond!Sleep(p)
  <2>1. Owner = p /\ Owner' = None
    BY <1>5, OneWaker DEF Owner, SleepRelease, Runs, LkPc
  <2>2. \A q \in Proc : ~BeingWoken(q) /\ ~BeingWoken(q)'
    BY <1>5, NobodyBeingWoken DEF SleepRelease, LkPc, BeingWoken, Runs
  <2>3. Asleep' = Asleep \cup {p}
    BY <1>5, <2>2 DEF Asleep, SleepRelease
  <2> QED BY <2>1, <2>3 DEF Cond!Sleep
<1>6. ASSUME NEW c \in CPU, NEW p \in Proc, WakeupCall(c, p) PROVE Cond!Wakeup(p)
  <2>1. Owner = p /\ Owner' = p
    BY <1>6, OneWaker DEF Owner, WakeupCall, Runs, LkPc
  <2>2. \A q \in Proc : BeingWoken(q)'
    BY <1>6 DEF WakeupCall, BeingWoken, Proc
  <2> QED BY <2>1, <2>2 DEF Cond!Wakeup, Asleep
<1>7. ASSUME NEW c \in CPU, IrqEnter(c) PROVE Cond!EnterWakeup(c)
  <2>1. Owner = None /\ Owner' = c /\ c \notin Asleep
    BY <1>7, SchedAssumption DEF Owner, IrqEnter, Asleep, Idle
  <2>2. \A q \in Proc : BeingWoken(q)'
    BY <1>7 DEF IrqEnter, BeingWoken, Proc, Idle
  <2> QED BY <2>1, <2>2 DEF Cond!EnterWakeup, Asleep
<1>8. ASSUME NEW c \in CPU, IrqReturn(c) PROVE Cond!Leave(c)
  <2>1. irq[c] # Idle
    BY <1>8, SchedAssumption DEF IrqReturn, Idle
  <2>2. Owner = c /\ Owner' = None
    BY <1>8, <2>1, OneWaker DEF Owner, IrqReturn
  <2>3. \A q \in Proc : BeingWoken(q)' <=> BeingWoken(q)
    <3> TAKE q \in Proc
    <3>1. ~(irq[c] <= q) /\ irq'[c] = Idle
      BY <1>8, SchedAssumption DEF IrqReturn, Proc
    <3>2. \A d \in CPU : (irq'[d] # Idle /\ irq'[d] <= q) <=> (irq[d] # Idle /\ irq[d] <= q)
      BY <1>8, <3>1 DEF IrqReturn
    <3> QED BY <1>8, <3>2 DEF IrqReturn, BeingWoken
  <2>4. Asleep' = Asleep
    BY <1>8, <2>3 DEF Asleep, IrqReturn
  <2> QED BY <2>2, <2>4 DEF Cond!Leave
<1>9. ASSUME NEW q \in Proc, plock[q] = None PROVE pc[q] # "sleepState"
  BY <1>9 DEF OnStack, ProcLocks, LockedPc
<1>10. ASSUME NEW c \in CPU, NEW p \in Proc, WakeupOne(c, p) PROVE UNCHANGED Cond!vars
  <2>1. Owner = p /\ Owner' = Owner
    BY <1>10, OneWaker DEF Owner, WakeupOne
  <2>a. idx[p] \in Proc
    BY DEF TypeOK
  <2>0. idx[p] \in Nat /\ NPROC \in Nat /\ \A q \in Proc : q \in Nat /\ q <= NPROC
    BY <2>a, ProcRange
  <2>2. ASSUME NEW q \in Proc PROVE BeingWoken(q) <=> idx[p] <= q
    BY <1>10, <2>1, OneWaker DEF BeingWoken, WakeupOne
  <2>3. ASSUME NEW q \in Proc PROVE BeingWoken(q)' <=> idx[p] < q
    <3>1. \A c2 \in CPU : irq'[c2] = Idle
      BY <1>10, <2>1, OneWaker DEF WakeupOne
    <3>2. \A p2 \in Proc : pc'[p2] = "wakeup" <=> p2 = p /\ idx[p] # NPROC
      BY <1>10, <2>1, OneWaker DEF WakeupOne
    <3>3. CASE idx[p] = NPROC
      BY <2>0, <3>1, <3>2, <3>3 DEF BeingWoken
    <3>4. CASE idx[p] # NPROC
      BY <1>10, <2>0, <3>1, <3>2, <3>4 DEF BeingWoken, WakeupOne
    <3> QED BY <3>3, <3>4
  <2>4. Asleep' = Asleep
    <3>1. \A q \in Proc : pc'[q] = "sleepState" <=> pc[q] = "sleepState"
      BY <1>10 DEF WakeupOne
    <3>2. \A q \in Proc \ {idx[p]} : state'[q] = state[q]
      BY <1>10 DEF WakeupOne, Woken
    <3>3. state'[idx[p]] # "SLEEPING" /\ pc[idx[p]] # "sleepState"
      BY <1>10, <1>9 DEF WakeupOne, Woken
    <3>4. ASSUME NEW q \in Proc, q # idx[p] PROVE idx[p] <= q <=> idx[p] < q
      <4>1. q \in Nat /\ idx[p] \in Nat
        BY <2>0
      <4> HIDE DEF IInv
      <4> QED BY <3>4, <4>1
    <3>5. idx[p] <= idx[p] /\ ~(idx[p] < idx[p])
      BY <2>0
    <3> QED BY <2>2, <2>3, <3>1, <3>2, <3>3, <3>4, <3>5 DEF Asleep
  <2> QED BY <2>1, <2>4 DEF Cond!vars
<1>11. ASSUME NEW c \in CPU, IrqWakeup(c) PROVE UNCHANGED Cond!vars
  <2>1. irq[c] \in Proc /\ irq[c] # Idle /\ irq[c] + 1 # Idle /\ irq'[c] = irq[c] + 1
    BY <1>11 DEF IrqWakeup, Proc, Idle
  <2>2. Owner = c /\ Owner' = c
    BY <1>11, <2>1, OneWaker DEF Owner, IrqWakeup
  <2>3. /\ \A p \in Proc : pc[p] # "wakeup"
        /\ \A d \in CPU \ {c} : irq[d] = Idle /\ irq'[d] = Idle
    BY <1>11, <2>2, OneWaker DEF IrqWakeup
  <2>4. ASSUME NEW q \in Proc
        PROVE  (BeingWoken(q) <=> irq[c] <= q) /\ (BeingWoken(q)' <=> irq[c] + 1 <= q)
    BY <1>11, <2>1, <2>3 DEF BeingWoken, IrqWakeup
  <2>5. Asleep' = Asleep
    <3>1. \A q \in Proc \ {irq[c]} : state'[q] = state[q]
      BY <1>11 DEF IrqWakeup, Woken
    <3>2. state'[irq[c]] # "SLEEPING" /\ pc[irq[c]] # "sleepState"
      BY <1>11, <1>9 DEF IrqWakeup, Woken
    <3>3. \A q \in Proc \ {irq[c]} : irq[c] <= q <=> irq[c] + 1 <= q
      BY <2>1 DEF Proc
    <3>4. irq[c] <= irq[c]
      BY <2>1 DEF Proc
    <3> QED BY <1>11, <2>1, <2>4, <3>1, <3>2, <3>3, <3>4 DEF Asleep, IrqWakeup
  <2> QED BY <2>2, <2>5 DEF Cond!vars
<1>12. ASSUME NEW c \in CPU, NEW p \in Proc, NEW q \in Proc, Kill(c, p, q)
       PROVE  Cond!Kill(q) \/ UNCHANGED Cond!vars
  <2>1. Owner' = Owner
    BY <1>12 DEF Owner, Kill
  <2>2. \A r \in Proc : BeingWoken(r)' <=> BeingWoken(r)
    BY <1>12 DEF BeingWoken, Kill
  <2>3. pc[q] # "sleepState"
    BY <1>12, <1>9 DEF Kill
  <2>4. Asleep' = Asleep \ {q}
    BY <1>12, <2>2, <2>3 DEF Asleep, Kill, Woken
  <2> QED BY <2>1, <2>4 DEF Cond!Kill, Cond!vars
<1>13. CASE UNCHANGED vars
  BY <1>13 DEF vars, Cond!vars, Owner, Asleep, BeingWoken
<1>14. Proc \subseteq Proc \cup CPU /\ CPU \subseteq Proc \cup CPU
  OBVIOUS
<1> QED
  BY <1>1, <1>2, <1>3, <1>4, <1>5, <1>6, <1>7, <1>8, <1>10, <1>11, <1>12, <1>13, <1>14
  DEF Next, Step, Scheduler, Thread, Handler, Timer, Cond!Next

(* sleep and wakeup implement a monitor: no wakeup is lost.                *)
THEOREM Refinement == Spec => ImplementsMonitor
<1>1. Init => Cond!Init
  BY Constants DEF Init, Cond!Init, Owner, Asleep, BeingWoken
<1>2. QED
  BY <1>1, SpecIInv, StepMaps, PTL DEF Spec, ImplementsMonitor, Cond!Spec

-----------------------------------------------------------------------------
(* Page tables.  Induction over the naturals, and the loops over pages.    *)
LEMMA Less == \A x, y \in Nat : <<x, y>> \in OpToRel(<, Nat) <=> x < y
BY DEF OpToRel

(* Induction: a set with 0 that is closed under successor is Nat.          *)
LEMMA NatSet ==
  ASSUME NEW A \in SUBSET Nat, 0 \in A, \A n \in A : n + 1 \in A
  PROVE  A = Nat
<1> SUFFICES ASSUME A # Nat PROVE FALSE
  OBVIOUS
<1>1. Nat \ A \subseteq Nat /\ Nat \ A # {}
  OBVIOUS
<1>2. PICK n \in Nat \ A : \A k \in Nat \ A : ~(<<k, n>> \in OpToRel(<, Nat))
  BY ONLY <1>1, WFMin, NatLessThanWellFounded
<1>3. n # 0 /\ n - 1 \in Nat /\ n - 1 + 1 = n /\ n - 1 < n
  OBVIOUS
<1>4. n - 1 \in A
  BY <1>2, <1>3, Less
<1> QED BY <1>3, <1>4

(* What uvmunmap ("free" or "keep") and uvmalloc ("map") do to one page,   *)
(* and what they have done after a number of pages.                        *)
OnePage(m, how, root, va) == IF how = "map" THEN NewPage(m, root, va) ELSE Unmap(m, root, va, how = "free")
Loop(m, how, root, from, f) ==
  f = [i \in Nat |-> IF i = 0 THEN m ELSE OnePage(f[i - 1], how, root, from + i - 1)]
LoopTo(m, how, root, from, f, n) ==
  f = [i \in 0 .. n |-> IF i = 0 THEN m ELSE OnePage(f[i - 1], how, root, from + i - 1)]

(* The loops are defined for every number of pages.                        *)
LEMMA LoopExists ==
  ASSUME NEW m, NEW how, NEW root, NEW from
  PROVE  \E f : Loop(m, how, root, from, f)
<1> DEFINE A == {n \in Nat : \E f : LoopTo(m, how, root, from, f, n)}
<1>1. 0 \in A
  <2> DEFINE f == [i \in 0 .. 0 |-> m]
  <2>1. LoopTo(m, how, root, from, f, 0)
    BY DEF LoopTo
  <2> QED BY <2>1
<1>2. ASSUME NEW n \in A PROVE n + 1 \in A
  <2>1. PICK f : LoopTo(m, how, root, from, f, n)
    OBVIOUS
  <2> DEFINE g == [i \in 0 .. n + 1 |-> IF i = n + 1 THEN OnePage(f[n], how, root, from + (n + 1) - 1)
                                        ELSE f[i]]
  <2>2. \A i \in 0 .. n + 1 : i # n + 1 => i \in 0 .. n /\ (i # 0 => i - 1 \in 0 .. n + 1 /\ i - 1 # n + 1)
    OBVIOUS
  <2>3. n + 1 # 0 /\ n + 1 - 1 = n /\ n \in 0 .. n + 1 /\ n # n + 1
    OBVIOUS
  <2>4. \A i \in 0 .. n + 1 : g[i] = IF i = 0 THEN m ELSE OnePage(g[i - 1], how, root, from + i - 1)
    BY <2>1, <2>2, <2>3 DEF LoopTo
  <2>5. LoopTo(m, how, root, from, g, n + 1)
    BY <2>4 DEF LoopTo
  <2> HIDE DEF g
  <2> QED BY <2>5
<1> HIDE DEF A
<1>3. A = Nat
  <2>1. A \in SUBSET Nat
    BY DEF A
  <2> QED BY <1>1, <1>2, <2>1, NatSet
<1>4. \A n \in Nat : \E f : LoopTo(m, how, root, from, f, n)
  BY <1>3 DEF A
<1> DEFINE to(n) == CHOOSE f : LoopTo(m, how, root, from, f, n)
<1>5. \A n \in Nat : LoopTo(m, how, root, from, to(n), n)
  BY <1>4
<1> HIDE DEF to
<1>6. ASSUME NEW n \in Nat
      PROVE  \A k \in 0 .. n : to(n + 1)[k] = to(n)[k]
  <2> DEFINE B == {k \in Nat : k <= n => to(n + 1)[k] = to(n)[k]}
  <2>1. 0 \in B
    BY <1>5 DEF LoopTo
  <2>2. ASSUME NEW k \in B PROVE k + 1 \in B
    <3> SUFFICES ASSUME k + 1 <= n PROVE to(n + 1)[k + 1] = to(n)[k + 1]
      OBVIOUS
    <3>1. k + 1 \in 0 .. n /\ k + 1 \in 0 .. n + 1 /\ k + 1 # 0 /\ k + 1 - 1 = k /\ k <= n /\ n + 1 \in Nat
      OBVIOUS
    <3>2. to(n + 1)[k + 1] = OnePage(to(n + 1)[k], how, root, from + (k + 1) - 1)
      BY <1>5, <3>1 DEF LoopTo
    <3>3. to(n)[k + 1] = OnePage(to(n)[k], how, root, from + (k + 1) - 1)
      BY <1>5, <3>1 DEF LoopTo
    <3> QED BY <3>1, <3>2, <3>3
  <2> HIDE DEF B
  <2>3. B = Nat
    <3>1. B \in SUBSET Nat
      BY DEF B
    <3> QED BY <2>1, <2>2, <3>1, NatSet
  <2> QED BY <2>3 DEF B
<1> DEFINE h == [i \in Nat |-> to(i)[i]]
<1>7. h[0] = m
  BY <1>5 DEF LoopTo
<1>8. ASSUME NEW n \in Nat PROVE h[n + 1] = OnePage(h[n], how, root, from + (n + 1) - 1)
  <2>1. n + 1 \in Nat /\ n + 1 \in 0 .. n + 1 /\ n + 1 # 0 /\ n + 1 - 1 = n /\ n \in 0 .. n
    OBVIOUS
  <2>2. to(n + 1)[n + 1] = OnePage(to(n + 1)[n], how, root, from + (n + 1) - 1)
    BY <1>5, <2>1 DEF LoopTo
  <2> QED BY <1>6, <2>1, <2>2
<1> HIDE DEF h
<1>9. \A i \in Nat : h[i] = IF i = 0 THEN m ELSE OnePage(h[i - 1], how, root, from + i - 1)
  <2> SUFFICES ASSUME NEW i \in Nat, i # 0 PROVE h[i] = OnePage(h[i - 1], how, root, from + i - 1)
    BY <1>7
  <2>1. i - 1 \in Nat /\ i - 1 + 1 = i
    OBVIOUS
  <2> QED BY <1>8, <2>1
<1>10. Loop(m, how, root, from, h)
  BY <1>9 DEF Loop, h
<1> QED BY <1>10

(* uvmunmap is such a loop.                                                *)
LEMMA UnmapLoop ==
  ASSUME NEW m, NEW root, NEW from, NEW to, NEW how \in {"free", "keep"}
  PROVE  \E f : Loop(m, how, root, from, f) /\ Uvmunmap(m, root, from, to, how = "free") = f[to - from]
<1>1. PICK g : Loop(m, how, root, from, g)
  BY LoopExists
<1>2. \A x, va : OnePage(x, how, root, va) = Unmap(x, root, va, how = "free")
  BY DEF OnePage
<1>3. \A f : Loop(m, how, root, from, f) <=>
              f = [i \in Nat |-> IF i = 0 THEN m ELSE Unmap(f[i - 1], root, from + i - 1, how = "free")]
  BY <1>2 DEF Loop
<1>4. \E f : f = [i \in Nat |-> IF i = 0 THEN m ELSE Unmap(f[i - 1], root, from + i - 1, how = "free")]
  BY <1>1, <1>3
<1> QED BY <1>3, <1>4 DEF Uvmunmap

(* The loops of uvmalloc and uvmcopy are, too.                             *)
LEMMA MapLoop ==
  ASSUME NEW m, NEW root, NEW from, NEW to
  PROVE  \E f : Loop(m, "map", root, from, f) /\ PageByPage(m, root, from, to) = f[to - from]
<1>1. PICK g : Loop(m, "map", root, from, g)
  BY LoopExists
<1>2. \A x, va : OnePage(x, "map", root, va) = NewPage(x, root, va)
  BY DEF OnePage
<1>3. \A f : Loop(m, "map", root, from, f) <=>
              f = [i \in Nat |-> IF i = 0 THEN m ELSE NewPage(f[i - 1], root, from + i - 1)]
  BY <1>2 DEF Loop
<1>4. \E f : f = [i \in Nat |-> IF i = 0 THEN m ELSE NewPage(f[i - 1], root, from + i - 1)]
  BY <1>1, <1>3
<1> QED BY <1>3, <1>4 DEF PageByPage

-----------------------------------------------------------------------------
(* What a function leaves alone: no function on trees touches the process  *)
(* table.                                                                  *)
Fields == {"pte", "free", "proc", "left", "got", "done", "ok", "panic"}
Same(m, n) == DOMAIN n = Fields /\ n.proc = m.proc /\ (m.done \in Nat => n.done \in Nat)

(* A failure changes m.ok alone, or m.panic with it.                       *)
LEMMA FailSame ==
  ASSUME NEW m, DOMAIN m = Fields
  PROVE  Same(m, Fail(m)) /\ Same(m, Panic(m)) /\ Fail(m).ok = FALSE /\ Panic(m).ok = FALSE
BY DEF Fail, Panic, Fields, Same

(* kalloc returns a page if it succeeds.                                   *)
LEMMA KallocSame ==
  ASSUME NEW m, DOMAIN m = Fields
  PROVE  Same(m, Kalloc(m)) /\ (Kalloc(m).ok => Kalloc(m).got \in Page)
BY FailSame DEF Kalloc, Fields, Same

(* kfree, of one page or of many.                                          *)
LEMMA KfreeSame ==
  ASSUME NEW m, DOMAIN m = Fields
  PROVE  (\A pa : Same(m, Kfree(m, pa))) /\ (\A S : Same(m, KfreeAll(m, S)))
BY DEF Kfree, KfreeAll, Fields, Same

(* One level of walk.                                                      *)
LEMMA DescendSame ==
  ASSUME NEW m, NEW level, NEW va, NEW alloc, DOMAIN m = Fields
  PROVE  Same(m, Descend(m, level, va, alloc))
BY FailSame, KallocSame DEF Descend, Then, Fields, Same

(* walk.                                                                   *)
LEMMA WalkSame ==
  ASSUME NEW m, NEW root, NEW va, NEW alloc, DOMAIN m = Fields
  PROVE  Same(m, Walk(m, root, va, alloc))
<1>1. PICK k : k = [m EXCEPT !.got = root]
  OBVIOUS
<1>2. PICK n : n = Descend(k, 2, va, alloc)
  OBVIOUS
<1>3. Same(m, n)
  <2>1. Same(m, k)
    BY <1>1 DEF Fields, Same
  <2> QED BY <1>2, <2>1, DescendSame DEF Same
<1>4. Same(m, Descend(n, 1, va, alloc))
  BY <1>3, DescendSame DEF Same
<1> QED BY <1>1, <1>2, <1>4 DEF Walk, Same

(* mappages of one page.                                                   *)
LEMMA MappagesSame ==
  ASSUME NEW m, NEW root, NEW va, NEW pa, DOMAIN m = Fields
  PROVE  Same(m, Mappages(m, root, va, pa))
<1>1. PICK n : n = Walk(m, root, va, TRUE)
  OBVIOUS
<1>2. Same(m, n)
  BY <1>1, WalkSame
<1>3. Same(n, Panic(n)) /\ Same(n, [n EXCEPT !.pte[n.got][PX(0, va)] = Leaf(pa)])
  BY <1>2, FailSame DEF Same, Fields
<1> QED BY <1>1, <1>2, <1>3 DEF Mappages, Then, Same

(* uvmunmap of one page.                                                   *)
LEMMA UnmapSame ==
  ASSUME NEW m, NEW root, NEW va, NEW do_free, DOMAIN m = Fields
  PROVE  Same(m, Unmap(m, root, va, do_free))
<1>1. PICK n : n = Walk(m, root, va, FALSE)
  OBVIOUS
<1>2. Same(m, n)
  BY <1>1, WalkSame
<1>3. PICK cut : cut = [n EXCEPT !.pte[n.got][PX(0, va)] = Absent]
  OBVIOUS
<1>4. Same(n, Panic(n)) /\ Same(n, cut) /\ Same(n, [n EXCEPT !.ok = TRUE])
  BY <1>2, <1>3, FailSame DEF Same, Fields
<1>5. (\A pa : Same(n, Kfree(cut, pa))) /\ Same(n, Panic([n EXCEPT !.ok = TRUE]))
  <2>1. PICK k : k = [n EXCEPT !.ok = TRUE]
    OBVIOUS
  <2>2. Same(n, Panic(k))
    BY <1>4, <2>1, FailSame DEF Same
  <2>3. \A pa : Same(n, Kfree(cut, pa))
    BY <1>4, KfreeSame DEF Same
  <2> QED BY <2>1, <2>2, <2>3
<1> QED BY <1>1, <1>2, <1>3, <1>4, <1>5 DEF Unmap, OrElse, Same

(* One page of uvmalloc.                                                   *)
LEMMA NewPageSame ==
  ASSUME NEW m, NEW root, NEW va, DOMAIN m = Fields
  PROVE  Same(m, NewPage(m, root, va))
<1>1. PICK a : a = Kalloc(m)
  OBVIOUS
<1>2. Same(m, a)
  BY <1>1, KallocSame
<1>3. PICK b : b = Mappages(a, root, va, a.got)
  OBVIOUS
<1>4. Same(m, b)
  BY <1>2, <1>3, MappagesSame DEF Same
<1>5. Same(b, [b EXCEPT !.ok = TRUE]) /\ Same(b, [b EXCEPT !.done = @ + 1])
  BY <1>4 DEF Same, Fields
<1>6. Same(m, Fail(Kfree([b EXCEPT !.ok = TRUE], a.got)))
  <2>1. Same(m, Kfree([b EXCEPT !.ok = TRUE], a.got))
    BY <1>4, <1>5, KfreeSame DEF Same
  <2> QED BY <2>1, FailSame DEF Same
<1> QED BY <1>1, <1>2, <1>3, <1>4, <1>5, <1>6 DEF NewPage, Then, OrElse, Same

(* What holds for one page holds for any number of them.                   *)
LEMMA LoopSame ==
  ASSUME NEW m, NEW how, NEW root, NEW from, NEW f, DOMAIN m = Fields, Loop(m, how, root, from, f)
  PROVE  \A n \in Nat : Same(m, f[n])
<1> DEFINE A == {n \in Nat : Same(m, f[n])}
<1>1. 0 \in A
  BY DEF Loop, Same
<1>2. ASSUME NEW n \in A PROVE n + 1 \in A
  <2>1. n + 1 \in Nat /\ n + 1 # 0 /\ n + 1 - 1 = n
    OBVIOUS
  <2>2. f[n + 1] = OnePage(f[n], how, root, from + (n + 1) - 1)
    BY <2>1 DEF Loop
  <2>3. Same(f[n], f[n + 1])
    BY <2>2, NewPageSame, UnmapSame DEF OnePage, Same
  <2> QED BY <2>1, <2>3 DEF Same
<1> HIDE DEF A
<1>3. A = Nat
  <2>1. A \in SUBSET Nat
    BY DEF A
  <2> QED BY <1>1, <1>2, <2>1, NatSet
<1> QED BY <1>3 DEF A

(* uvmunmap.                                                               *)
LEMMA UvmunmapSame ==
  ASSUME NEW m, NEW root, NEW from, NEW to, NEW do_free \in BOOLEAN, to - from \in Nat, DOMAIN m = Fields
  PROVE  Same(m, Uvmunmap(m, root, from, to, do_free))
<1>1. PICK how \in {"free", "keep"} : (how = "free") = do_free
  OBVIOUS
<1>2. PICK f : Loop(m, how, root, from, f) /\ Uvmunmap(m, root, from, to, do_free) = f[to - from]
  BY <1>1, UnmapLoop
<1> QED BY <1>2, LoopSame

(* The loops of uvmalloc and uvmcopy.                                      *)
LEMMA PageByPageSame ==
  ASSUME NEW m, NEW root, NEW from, NEW to, to - from \in Nat, DOMAIN m = Fields
  PROVE  Same(m, PageByPage(m, root, from, to))
<1>1. PICK f : Loop(m, "map", root, from, f) /\ PageByPage(m, root, from, to) = f[to - from]
  BY MapLoop
<1> QED BY <1>1, LoopSame

(* The loop, and what it undoes on failure.                                *)
LEMMA NewPagesSame ==
  ASSUME NEW m, NEW root, NEW from, NEW to, to - from \in Nat, from \in Nat, DOMAIN m = Fields
  PROVE  Same(m, NewPages(m, root, from, to))
<1>1. PICK k : k = [m EXCEPT !.done = 0]
  OBVIOUS
<1>2. Same(m, k)
  BY <1>1 DEF Same, Fields
<1>3. PICK n : n = PageByPage(k, root, from, to)
  OBVIOUS
<1>4. Same(m, n)
  BY <1>2, <1>3, PageByPageSame DEF Same
<1>5. PICK u : u = [n EXCEPT !.ok = TRUE]
  OBVIOUS
<1>6. Same(m, u)
  BY <1>4, <1>5 DEF Same, Fields
<1>7. Same(m, Fail(Uvmunmap(u, root, from, from + u.done, TRUE)))
  <2>1. k.done \in Nat
    BY <1>1 DEF Fields
  <2>2. u.done \in Nat
    BY <1>2, <1>3, <1>5, <2>1, PageByPageSame DEF Same, Fields
  <2>3. PICK end : end = from + u.done /\ end - from \in Nat
    BY <2>2
  <2>4. PICK x : x = Uvmunmap(u, root, from, end, TRUE)
    OBVIOUS
  <2>5. Same(u, x)
    BY <1>6, <2>3, <2>4, UvmunmapSame DEF Same
  <2>6. Same(m, x)
    BY <1>6, <2>5 DEF Same
  <2> QED BY <2>3, <2>4, <2>6, FailSame DEF Same
<1> QED BY <1>1, <1>3, <1>4, <1>5, <1>7 DEF NewPages, OrElse

(* Sizes in pages.                                                         *)
LEMMA DivMono ==
  ASSUME NEW x \in Nat, NEW y \in Nat, NEW d \in Nat \ {0}, x <= y
  PROVE  x \div d \in Nat /\ x \div d <= y \div d
<1>1. PICK a \in Int, b \in Int : a = x \div d /\ b = y \div d
  OBVIOUS
<1>2. /\ d * a <= x /\ x < d * a + d
      /\ d * b <= y /\ y < d * b + d
  BY <1>1
<1>3. a >= 0
  <2> SUFFICES ASSUME a <= -1 PROVE FALSE
    BY <1>1
  <2>1. d * a <= d * (-1)
    BY <1>1
  <2> QED BY <1>1, <1>2, <2>1
<1>4. a <= b
  <2> SUFFICES ASSUME b + 1 <= a PROVE FALSE
    BY <1>1
  <2>1. d * (b + 1) <= d * a
    BY <1>1
  <2>2. d * (b + 1) = d * b + d
    BY <1>1
  <2> QED BY <1>1, <1>2, <2>1, <2>2
<1> QED BY <1>1, <1>3, <1>4

(* A smaller size takes no more pages.                                     *)
LEMMA PagesOf ==
  ASSUME NEW x \in Nat, NEW y \in Nat, x <= y
  PROVE  PGROUNDUP(x) \in Nat /\ PGROUNDUP(y) \in Nat /\ PGROUNDUP(y) - PGROUNDUP(x) \in Nat
<1>1. PGSIZE \in Nat \ {0}
  BY KernelPageTableAssumption DEF KernelPageTableAssumption
<1>2. PICK a \in Nat, b \in Nat : a = x + PGSIZE - 1 /\ b = y + PGSIZE - 1 /\ a <= b
  BY <1>1
<1>3. a \div PGSIZE \in Nat /\ b \div PGSIZE \in Nat /\ a \div PGSIZE <= b \div PGSIZE
  BY <1>1, <1>2, DivMono
<1> QED BY <1>2, <1>3 DEF PGROUNDUP

(* kvmfree, kvmsync and freewalk.                                          *)
LEMMA KvmSame ==
  ASSUME NEW m, NEW root, NEW user, DOMAIN m = Fields
  PROVE  Same(m, Kvmfree(m, root)) /\ Same(m, Kvmsync(m, root, user)) /\ Same(m, Freewalk(m, root))
<1>1. Same(m, Kvmfree(m, root)) /\ Same(m, Freewalk(m, root))
  BY KfreeSame, FailSame DEF Kvmfree, Freewalk
<1>2. Same(m, Kvmsync(m, root, user))
  BY DEF Kvmsync, Same, Fields
<1> QED BY <1>1, <1>2

(* uvmfree and proc_freepagetable.                                         *)
LEMMA UvmfreeSame ==
  ASSUME NEW m, NEW root, NEW sz \in Nat, DOMAIN m = Fields
  PROVE  Same(m, Uvmfree(m, root, sz)) /\ Same(m, ProcFreepagetable(m, root, sz))
<1>1. ASSUME NEW x, DOMAIN x = Fields PROVE Same(x, Uvmfree(x, root, sz))
  <2>1. PICK end : end = PGROUNDUP(sz) /\ end - 0 \in Nat
    BY PagesOf
  <2>2. PICK y : y = Uvmunmap(x, root, 0, end, TRUE)
    OBVIOUS
  <2>3. Same(x, y)
    BY <1>1, <2>1, <2>2, UvmunmapSame
  <2>4. Same(y, Freewalk(y, root))
    BY <2>3, KvmSame DEF Same
  <2> QED BY <2>1, <2>2, <2>3, <2>4 DEF Uvmfree, Same
<1>2. PICK end : end = TRAMPOLINE + 1 /\ end - TRAPFRAME \in Nat
  BY KernelPageTableAssumption DEF KernelPageTableAssumption, TRAPFRAME
<1>3. PICK y : y = Uvmunmap(m, root, TRAPFRAME, end, FALSE)
  OBVIOUS
<1>4. Same(m, y)
  BY <1>2, <1>3, UvmunmapSame
<1>5. Same(y, Uvmfree(y, root, sz))
  BY <1>1, <1>4 DEF Same
<1> QED BY <1>1, <1>2, <1>3, <1>4, <1>5 DEF ProcFreepagetable, Same

(* m.ok and m.got belong to the call alone.                                *)
LEMMA OkSame ==
  ASSUME NEW m, DOMAIN m = Fields
  PROVE  /\ Same(m, [m EXCEPT !.ok = TRUE]) /\ [m EXCEPT !.ok = TRUE].ok
         /\ \A pa : Same(m, [m EXCEPT !.got = pa]) /\ [m EXCEPT !.got = pa].got = pa
                    /\ [m EXCEPT !.got = pa].ok = m.ok
BY DEF Same, Fields

(* proc_pagetable: the root is the caller's to store.                      *)
LEMMA ProcPagetableSame ==
  ASSUME NEW m, DOMAIN m = Fields
  PROVE  Same(m, ProcPagetable(m))
<1>1. PICK a : a = Kalloc(m)
  OBVIOUS
<1>2. Same(m, a)
  BY <1>1, KallocSame
<1>3. PICK b : b = Mappages(a, a.got, TRAMPOLINE, 0)
  OBVIOUS
<1>4. Same(m, b)
  BY <1>2, <1>3, MappagesSame DEF Same
<1>5. PICK b1 : b1 = [b EXCEPT !.ok = TRUE]
  OBVIOUS
<1>6. Same(m, b1)
  BY <1>4, <1>5, OkSame DEF Same
<1>7. PICK b2 : b2 = Uvmfree(b1, a.got, 0)
  OBVIOUS
<1>8. Same(m, Fail(b2))
  <2>1. Same(m, b2)
    BY <1>6, <1>7, UvmfreeSame DEF Same
  <2> QED BY <2>1, FailSame DEF Same
<1>9. PICK c : c = Mappages(b, a.got, TRAPFRAME, 0)
  OBVIOUS
<1>10. Same(m, c)
  BY <1>4, <1>9, MappagesSame DEF Same
<1>11. PICK c1 : c1 = [c EXCEPT !.ok = TRUE]
  OBVIOUS
<1>12. Same(m, c1)
  BY <1>10, <1>11, OkSame DEF Same
<1>13. PICK end : end = TRAMPOLINE + 1 /\ end - TRAMPOLINE \in Nat
  BY KernelPageTableAssumption DEF KernelPageTableAssumption
<1>14. PICK c2 : c2 = Uvmunmap(c1, a.got, TRAMPOLINE, end, FALSE)
  OBVIOUS
<1>15. Same(m, c2)
  <2>1. DOMAIN c1 = Fields /\ end - TRAMPOLINE \in Nat
    BY <1>12, <1>13 DEF Same
  <2>2. Same(c1, c2)
    BY <2>1, <1>14, UvmunmapSame
  <2> QED BY <1>12, <2>2 DEF Same
<1>16. PICK c3 : c3 = Uvmfree(c2, a.got, 0)
  OBVIOUS
<1>17. Same(m, Fail(c3))
  <2>1. Same(m, c3)
    BY <1>15, <1>16, UvmfreeSame DEF Same
  <2> QED BY <2>1, FailSame DEF Same
<1>18. Same(m, [c EXCEPT !.got = a.got])
  BY <1>10, OkSame DEF Same
<1>19. ProcPagetable(m) \in {a, Fail(b2), Fail(c3), [c EXCEPT !.got = a.got]}
  BY <1>1, <1>3, <1>5, <1>7, <1>9, <1>11, <1>13, <1>14, <1>16 DEF ProcPagetable, Then, OrElse
<1> QED BY <1>2, <1>8, <1>17, <1>18, <1>19

(* kvmmake: if it succeeds, its root is a page.                            *)
LEMMA KvmmakeSame ==
  ASSUME NEW m, DOMAIN m = Fields
  PROVE  Same(m, Kvmmake(m)) /\ (Kvmmake(m).ok => Kvmmake(m).got \in Page)
<1>1. PICK a : a = Kalloc(m)
  OBVIOUS
<1>2. Same(m, a) /\ (a.ok => a.got \in Page)
  BY <1>1, KallocSame
<1>3. PICK r1, r2, r3, b : /\ r1 = Mappages(a, a.got, UART0, 0) /\ r2 = Mappages(r1, a.got, PLIC, 0)
                           /\ r3 = Mappages(r2, a.got, KERNBASE, 0)
                           /\ b = Mappages(r3, a.got, TRAMPOLINE, 0)
  OBVIOUS
<1>4. Same(m, b)
  <2>1. Same(m, r1)
    BY <1>2, <1>3, MappagesSame DEF Same
  <2>2. Same(m, r2)
    BY <2>1, <1>3, MappagesSame DEF Same
  <2>3. Same(m, r3)
    BY <2>2, <1>3, MappagesSame DEF Same
  <2> QED BY <2>3, <1>3, MappagesSame DEF Same
<1>5. PICK b1 : b1 = [b EXCEPT !.ok = TRUE]
  OBVIOUS
<1>6. Same(m, b1)
  BY <1>4, <1>5, OkSame DEF Same
<1>7. PICK b2 : b2 = Kvmfree(b1, a.got)
  OBVIOUS
<1>8. Same(m, Fail(b2)) /\ ~Fail(b2).ok
  <2>1. Same(m, b2)
    BY <1>6, <1>7, KvmSame DEF Same
  <2> QED BY <2>1, FailSame DEF Same
<1>9. PICK d : d = [b EXCEPT !.got = a.got]
  OBVIOUS
<1>10. Same(m, d) /\ d.got = a.got
  BY <1>4, <1>9, OkSame DEF Same
<1>11. b = Regions(a, a.got)
  BY <1>3 DEF Regions
<1>12. \/ ~a.ok /\ Kvmmake(m) = a
       \/ a.ok /\ Kvmmake(m) \in {Fail(b2), d}
  BY <1>1, <1>5, <1>7, <1>9, <1>11 DEF Kvmmake, Then, OrElse
<1> QED BY <1>2, <1>8, <1>10, <1>12

-----------------------------------------------------------------------------
(* What a call does to the process table: it changes the slot of one       *)
(* process, and which of its fields.                                       *)
ProcFields == {"state", "sz", "trapframe", "pagetable", "kpagetable"}
IsProc(table) == DOMAIN table = Slot /\ \A q \in Slot : DOMAIN table[q] = ProcFields /\ table[q].sz \in Nat
Machine(m) == DOMAIN m = Fields /\ IsProc(m.proc)
Only(m, n, p) == Machine(n) /\ \A q \in Slot \ {p} : n.proc[q] = m.proc[q]
Keep(m, n, p) ==
  /\ Only(m, n, p)
  /\ n.proc[p].state = m.proc[p].state /\ n.proc[p].kpagetable = m.proc[p].kpagetable

(* A function on trees keeps every slot.                                   *)
LEMMA SameKeeps ==
  ASSUME NEW m, NEW n, NEW p, Machine(m), Same(m, n)
  PROVE  Keep(m, n, p) /\ Only(m, n, p) /\ Machine(n)
BY DEF Machine, Same, Keep, Only

(* Assignments to a field of one process.                                  *)
LEMMA SlotKeeps ==
  ASSUME NEW m, NEW p \in Slot, Machine(m)
  PROVE  /\ \A x : Keep(m, [m EXCEPT !.proc[p].trapframe = x], p)
         /\ \A x : Keep(m, [m EXCEPT !.proc[p].pagetable = x], p)
         /\ \A x \in Nat : Keep(m, [m EXCEPT !.proc[p].sz = x], p)
         /\ \A x : /\ Only(m, [m EXCEPT !.proc[p].state = x], p)
                   /\ [m EXCEPT !.proc[p].state = x].proc[p].state = x
                   /\ [m EXCEPT !.proc[p].state = x].proc[p].kpagetable = m.proc[p].kpagetable
         /\ \A x : /\ Only(m, [m EXCEPT !.proc[p].kpagetable = x], p)
                   /\ [m EXCEPT !.proc[p].kpagetable = x].proc[p].kpagetable = x
         /\ Only(m, [m EXCEPT !.proc[p] = Unused], p)
         /\ [m EXCEPT !.proc[p] = Unused].proc[p] = Unused
<1>1. \A x : Keep(m, [m EXCEPT !.proc[p].trapframe = x], p)
  BY DEF Machine, IsProc, Fields, ProcFields, Keep, Only
<1>2. \A x : Keep(m, [m EXCEPT !.proc[p].pagetable = x], p)
  BY DEF Machine, IsProc, Fields, ProcFields, Keep, Only
<1>3. \A x \in Nat : Keep(m, [m EXCEPT !.proc[p].sz = x], p)
  BY DEF Machine, IsProc, Fields, ProcFields, Keep, Only
<1>4. \A x : /\ Only(m, [m EXCEPT !.proc[p].state = x], p)
             /\ [m EXCEPT !.proc[p].state = x].proc[p].state = x
             /\ [m EXCEPT !.proc[p].state = x].proc[p].kpagetable = m.proc[p].kpagetable
  BY DEF Machine, IsProc, Fields, ProcFields, Only
<1>5. \A x : /\ Only(m, [m EXCEPT !.proc[p].kpagetable = x], p)
             /\ [m EXCEPT !.proc[p].kpagetable = x].proc[p].kpagetable = x
  BY DEF Machine, IsProc, Fields, ProcFields, Only
<1>6. Only(m, [m EXCEPT !.proc[p] = Unused], p) /\ [m EXCEPT !.proc[p] = Unused].proc[p] = Unused
  BY DEF Machine, IsProc, Fields, ProcFields, Only, Unused
<1> QED BY <1>1, <1>2, <1>3, <1>4, <1>5, <1>6

(* freeproc leaves its own slot UNUSED and the others alone.               *)
LEMMA FreeprocOnly ==
  ASSUME NEW m, NEW p \in Slot, Machine(m)
  PROVE  Only(m, Freeproc(m, p), p) /\ Freeproc(m, p).proc[p] = Unused
<1>1. PICK k : k = FreeKernel(m, p)
  OBVIOUS
<1>2. Same(m, k)
  <2>1. PICK s : s = Kvmsync(m, m.proc[p].kpagetable, 0)
    OBVIOUS
  <2>2. Same(m, s)
    BY <2>1, KvmSame DEF Machine
  <2>3. Same(s, Kvmfree(s, m.proc[p].kpagetable))
    BY <2>2, KvmSame DEF Same
  <2>4. Same(m, m)
    BY DEF Same, Machine
  <2> QED BY <1>1, <2>1, <2>2, <2>3, <2>4 DEF FreeKernel, Same
<1>3. PICK t : t = KfreeAll(k, {m.proc[p].trapframe} \ {0})
  OBVIOUS
<1>4. Same(m, t)
  <2>1. Same(k, t)
    BY <1>2, <1>3, KfreeSame DEF Same
  <2> QED BY <1>2, <2>1 DEF Same
<1>5. PICK u : u = FreeUser(t, p)
  OBVIOUS
<1>6. Same(m, u)
  <2>1. DOMAIN t = Fields /\ t.proc[p].sz \in Nat
    BY <1>4 DEF Same, Machine, IsProc
  <2>2. Same(t, ProcFreepagetable(t, t.proc[p].pagetable, t.proc[p].sz))
    BY <2>1, UvmfreeSame
  <2>3. Same(t, t)
    BY <2>1 DEF Same
  <2> QED BY <1>4, <1>5, <2>2, <2>3 DEF FreeUser, Same
<1>7. Machine(u) /\ Only(m, u, p)
  BY <1>6, SameKeeps
<1>8. Only(u, [u EXCEPT !.proc[p] = Unused], p) /\ [u EXCEPT !.proc[p] = Unused].proc[p] = Unused
  BY <1>7, SlotKeeps
<1>9. Freeproc(m, p) = [u EXCEPT !.proc[p] = Unused]
  BY <1>1, <1>3, <1>5 DEF Freeproc
<1> QED BY <1>7, <1>8, <1>9 DEF Only

(* allocproc gives its slot a kernel page table, or leaves it as it was.   *)
LEMMA AllocprocOnly ==
  ASSUME NEW m, NEW p \in Slot, Machine(m)
  PROVE  /\ Only(m, Allocproc(m, p), p)
         /\ Allocproc(m, p).ok => Allocproc(m, p).proc[p].kpagetable \in Page
         /\ ~Allocproc(m, p).ok => \/ Allocproc(m, p).proc[p] = m.proc[p]
                                   \/ Allocproc(m, p).proc[p] = Unused
<1>1. PICK a : a = Kalloc(m)
  OBVIOUS
<1>2. Same(m, a)
  BY <1>1, KallocSame DEF Machine
<1>3. PICK a1 : a1 = [a EXCEPT !.proc[p].trapframe = a.got]
  OBVIOUS
<1>4. Only(m, a1, p)
  <2>1. Keep(a, a1, p)
    BY <1>2, <1>3, SameKeeps, SlotKeeps
  <2> QED BY <1>2, <2>1 DEF Keep, Only, Same
<1>5. PICK b : b = ProcPagetable(a1)
  OBVIOUS
<1>6. Only(m, b, p)
  <2>1. Same(a1, b)
    BY <1>4, <1>5, ProcPagetableSame DEF Only, Machine
  <2> QED BY <1>4, <2>1 DEF Only, Machine, Same
<1>7. PICK b1 : b1 = [b EXCEPT !.proc[p].pagetable = b.got]
  OBVIOUS
<1>8. Only(m, b1, p)
  <2>1. Keep(b, b1, p)
    BY <1>6, <1>7, SlotKeeps DEF Only
  <2> QED BY <1>6, <2>1 DEF Keep, Only
<1>9. PICK c : c = Kvmmake(b1)
  OBVIOUS
<1>10. Only(m, c, p) /\ (c.ok => c.got \in Page)
  <2>1. Same(b1, c) /\ (c.ok => c.got \in Page)
    BY <1>8, <1>9, KvmmakeSame DEF Only, Machine
  <2> QED BY <1>8, <2>1 DEF Only, Machine, Same
<1>11. PICK c1 : c1 = [c EXCEPT !.proc[p].kpagetable = c.got]
  OBVIOUS
<1>12. Only(m, c1, p) /\ c1.proc[p].kpagetable = c.got
  <2>1. Machine(c)
    BY <1>10 DEF Only
  <2>2. PICK x : x = c.got
    OBVIOUS
  <2>3. c1 = [c EXCEPT !.proc[p].kpagetable = x]
    BY <1>11, <2>2
  <2>4. \A y : /\ Only(c, [c EXCEPT !.proc[p].kpagetable = y], p)
               /\ [c EXCEPT !.proc[p].kpagetable = y].proc[p].kpagetable = y
    BY <2>1, SlotKeeps
  <2>5. Only(c, c1, p) /\ c1.proc[p].kpagetable = x
    BY <2>3, <2>4
  <2> QED BY <1>10, <2>2, <2>5 DEF Only
<1>13. PICK d : d = Mappages(c1, c.got, KSTACK(p), 0)
  OBVIOUS
<1>14. Only(m, d, p) /\ d.proc[p].kpagetable = c.got
  <2>1. Same(c1, d)
    BY <1>12, <1>13, MappagesSame DEF Only, Machine
  <2> QED BY <1>12, <2>1 DEF Only, Machine, Same
<1>15. PICK e : e = Then(Then(b, LAMBDA x : Kvmmake([x EXCEPT !.proc[p].pagetable = x.got])),
                         LAMBDA x : Mappages([x EXCEPT !.proc[p].kpagetable = x.got], x.got, KSTACK(p), 0))
  OBVIOUS
<1>16. Only(m, e, p) /\ (e.ok => e.proc[p].kpagetable \in Page)
  <2>1. \/ ~e.ok /\ e \in {b, c}
        \/ c.ok /\ e = d
    BY <1>7, <1>9, <1>11, <1>13, <1>15 DEF Then
  <2> QED BY <1>6, <1>10, <1>14, <2>1
<1>17. PICK f : f = Fail(Freeproc([e EXCEPT !.ok = TRUE], p))
  OBVIOUS
<1>18. Only(m, f, p) /\ f.proc[p] = Unused /\ ~f.ok
  <2>1. PICK e1 : e1 = [e EXCEPT !.ok = TRUE]
    OBVIOUS
  <2>2. Same(e, e1)
    BY <1>16, <2>1, OkSame DEF Only, Machine
  <2>3. Machine(e1) /\ Only(m, e1, p)
    BY <1>16, <2>2 DEF Only, Machine, Same
  <2>4. PICK g : g = Freeproc(e1, p)
    OBVIOUS
  <2>5. Only(e1, g, p) /\ g.proc[p] = Unused
    BY <2>3, <2>4, FreeprocOnly
  <2>6. Same(g, f) /\ ~f.ok
    BY <1>17, <2>1, <2>4, <2>5, FailSame DEF Only, Machine
  <2> QED BY <2>3, <2>5, <2>6 DEF Only, Machine, Same
<1>19. \/ ~a.ok /\ Allocproc(m, p) = a
       \/ e.ok /\ Allocproc(m, p) = e
       \/ Allocproc(m, p) = f
  <2>1. Allocproc(m, p) = Then(a, LAMBDA x : OrElse(e, LAMBDA n : Fail(Freeproc(n, p)), LAMBDA n : n))
    BY <1>1, <1>3, <1>5, <1>15 DEF Allocproc, Then
  <2> QED BY <1>17, <2>1 DEF OrElse, Then
<1>20. Only(m, a, p)
  BY <1>2, SameKeeps
<1> QED BY <1>2, <1>16, <1>18, <1>19, <1>20 DEF Same

(* A new size, and kvmsync.                                                *)
LEMMA InstallKeeps ==
  ASSUME NEW m, NEW p \in Slot, NEW sz \in Nat, Machine(m)
  PROVE  Keep(m, Install(m, p, sz), p)
<1>1. PICK n : n = [m EXCEPT !.proc[p].sz = sz]
  OBVIOUS
<1>2. Keep(m, n, p)
  <2>1. \A x \in Nat : Keep(m, [m EXCEPT !.proc[p].sz = x], p)
    BY SlotKeeps
  <2> QED BY <1>1, <2>1
<1>3. Same(n, Kvmsync(n, n.proc[p].kpagetable, n.proc[p].pagetable))
  BY <1>2, KvmSame DEF Keep, Only, Machine
<1> QED BY <1>1, <1>2, <1>3 DEF Install, Keep, Only, Machine, Same

(* The sizes of the code's calls.                                          *)
LEMMA SizesOf ==
  /\ PGSIZE \in Nat \ {0}
  /\ \A size \in Size : PGROUNDUP(size) * PGSIZE \in Nat /\ PGROUNDUP(size) * PGSIZE + 2 * PGSIZE \in Nat
<1>1. PGSIZE \in Nat \ {0} /\ Size \subseteq Nat
  BY KernelPageTableAssumption DEF KernelPageTableAssumption
<1>2. ASSUME NEW size \in Size
      PROVE  PGROUNDUP(size) * PGSIZE \in Nat /\ PGROUNDUP(size) * PGSIZE + 2 * PGSIZE \in Nat
  <2>1. PICK k \in Nat : k = PGROUNDUP(size)
    BY <1>1, PagesOf
  <2>2. k * PGSIZE \in Nat /\ k * PGSIZE + 2 * PGSIZE \in Nat
    BY <1>1
  <2> QED BY <2>1, <2>2
<1> QED BY <1>1, <1>2

(* uvmalloc.                                                               *)
LEMMA UvmallocSame ==
  ASSUME NEW m, NEW root, NEW oldsz \in Nat, NEW newsz \in Nat, oldsz <= newsz, DOMAIN m = Fields
  PROVE  Same(m, Uvmalloc(m, root, oldsz, newsz))
<1>1. PICK from, to : from = PGROUNDUP(oldsz) /\ to = PGROUNDUP(newsz)
  OBVIOUS
<1>2. from \in Nat /\ to - from \in Nat
  BY <1>1, PagesOf
<1> QED BY <1>1, <1>2, NewPagesSame DEF Uvmalloc

(* uvmdealloc.                                                             *)
LEMMA UvmdeallocSame ==
  ASSUME NEW m, NEW root, NEW oldsz \in Nat, NEW newsz \in Nat, DOMAIN m = Fields
  PROVE  Same(m, Uvmdealloc(m, root, oldsz, newsz))
<1>1. CASE newsz >= oldsz
  BY <1>1 DEF Uvmdealloc, Same
<1>2. CASE ~(newsz >= oldsz)
  <2>1. newsz <= oldsz
    BY <1>2
  <2>2. PICK from, to : from = PGROUNDUP(newsz) /\ to = PGROUNDUP(oldsz)
    OBVIOUS
  <2>3. to - from \in Nat
    BY <2>1, <2>2, PagesOf
  <2>4. Same(m, Uvmunmap(m, root, from, to, TRUE))
    BY <2>3, UvmunmapSame
  <2> QED BY <1>2, <2>2, <2>4 DEF Uvmdealloc
<1> QED BY <1>1, <1>2

(* uvmcopy.                                                                *)
LEMMA UvmcopySame ==
  ASSUME NEW m, NEW root, NEW sz \in Nat, DOMAIN m = Fields
  PROVE  Same(m, Uvmcopy(m, root, sz))
<1>1. PICK to : to = PGROUNDUP(sz)
  OBVIOUS
<1>2. to - 0 \in Nat
  BY <1>1, PagesOf
<1> QED BY <1>1, <1>2, NewPagesSame DEF Uvmcopy

(* growproc changes the size alone.                                        *)
LEMMA GrowprocKeeps ==
  ASSUME NEW m, NEW p \in Slot, NEW n \in Int, Machine(m)
  PROVE  Keep(m, Growproc(m, p, n), p)
<1>1. PICK root, sz, big : root = m.proc[p].pagetable /\ sz = m.proc[p].sz /\ big = sz + n
  OBVIOUS
<1>2. sz \in Nat /\ big \in Int /\ DOMAIN m = Fields
      /\ (n > 0 => big \in Nat /\ sz <= big) /\ (big >= 0 => big \in Nat)
  BY <1>1 DEF Machine, IsProc
<1>3. Keep(m, m, p)
  BY DEF Keep, Only, Machine
<1>4. CASE n > 0
  <2>1. big \in Nat /\ sz <= big
    BY <1>2, <1>4
  <2>2. PICK a : a = Uvmalloc(m, root, sz, big)
    OBVIOUS
  <2>3. Same(m, a)
    BY <1>2, <2>1, <2>2, UvmallocSame
  <2>4. Machine(a) /\ Keep(m, a, p)
    BY <2>3, SameKeeps
  <2>5. Keep(a, Install(a, p, big), p)
    BY <2>1, <2>4, InstallKeeps
  <2>6. Keep(m, Install(a, p, big), p)
    BY <2>4, <2>5 DEF Keep, Only
  <2>7. Growproc(m, p, n) \in {m, a, Install(a, p, big)}
    BY <1>1, <1>4, <2>2 DEF Growproc, Then
  <2> QED BY <1>3, <2>4, <2>6, <2>7
<1>5. CASE ~(n > 0) /\ big < 0
  <2>1. Keep(m, Install(m, p, sz), p)
    BY <1>2, InstallKeeps
  <2>2. Growproc(m, p, n) = Install(m, p, sz)
    BY <1>1, <1>5 DEF Growproc
  <2> QED BY <2>1, <2>2
<1>6. CASE ~(n > 0) /\ ~(big < 0)
  <2>1. big \in Nat
    BY <1>2, <1>6
  <2>2. PICK a : a = Uvmdealloc(m, root, sz, big)
    OBVIOUS
  <2>3. Same(m, a)
    BY <1>2, <2>1, <2>2, UvmdeallocSame
  <2>4. Machine(a) /\ Keep(m, a, p)
    BY <2>3, SameKeeps
  <2>5. Keep(a, Install(a, p, big), p)
    BY <2>1, <2>4, InstallKeeps
  <2>6. Growproc(m, p, n) = Install(a, p, big)
    BY <1>1, <1>6, <2>2 DEF Growproc
  <2> QED BY <2>4, <2>5, <2>6 DEF Keep, Only
<1> QED BY <1>4, <1>5, <1>6

(* fork, from allocproc on: np stays UNUSED or gets a kernel page table.   *)
LEMMA ForkOnly ==
  ASSUME NEW m, NEW p \in Slot, NEW np \in Slot, Machine(m), m.proc[np].state = "UNUSED",
         NEW n, n = Then(Allocproc(m, np), LAMBDA a : Forked(a, p, np))
  PROVE  Only(m, n, np) /\ (n.proc[np].state # "UNUSED" => n.proc[np].kpagetable \in Page)
<1>1. PICK a : a = Allocproc(m, np)
  OBVIOUS
<1>2. /\ Only(m, a, np) /\ (a.ok => a.proc[np].kpagetable \in Page)
      /\ ~a.ok => a.proc[np] = m.proc[np] \/ a.proc[np] = Unused
  BY <1>1, AllocprocOnly
<1>3. ~a.ok => a.proc[np].state = "UNUSED"
  BY <1>2 DEF Unused
<1>4. PICK sz : sz = a.proc[p].sz
  OBVIOUS
<1>5. PICK c : c = Uvmcopy(a, a.proc[np].pagetable, sz)
  OBVIOUS
<1>6. DOMAIN a = Fields /\ sz \in Nat /\ Machine(a)
  BY <1>2, <1>4 DEF Only, Machine, IsProc
<1>7. Same(a, c)
  BY <1>5, <1>6, UvmcopySame
<1>8. Machine(c) /\ Keep(a, c, np) /\ c.proc[p].sz \in Nat
  BY <1>6, <1>7, SameKeeps DEF Machine, IsProc
<1>9. PICK c1 : c1 = [c EXCEPT !.ok = TRUE]
  OBVIOUS
<1>10. Machine(c1) /\ Only(m, c1, np)
  <2>1. Same(c, c1)
    BY <1>8, <1>9, OkSame DEF Machine
  <2> QED BY <1>2, <1>8, <2>1 DEF Same, Machine, Only, Keep
<1>11. PICK f : f = Freeproc(c1, np)
  OBVIOUS
<1>12. Only(m, f, np) /\ f.proc[np].state = "UNUSED"
  <2>1. Only(c1, f, np) /\ f.proc[np] = Unused
    BY <1>10, <1>11, FreeprocOnly
  <2> QED BY <1>10, <2>1 DEF Only, Unused
<1>13. PICK i : i = Install(c, np, c.proc[p].sz)
  OBVIOUS
<1>14. Keep(c, i, np) /\ Machine(i)
  <2>1. Keep(c, i, np)
    BY <1>8, <1>13, InstallKeeps
  <2> QED BY <2>1 DEF Keep, Only
<1>15. PICK r : r = [i EXCEPT !.proc[np].state = "RUNNABLE"]
  OBVIOUS
<1>16. Only(i, r, np) /\ r.proc[np].kpagetable = i.proc[np].kpagetable
  <2>1. \A x : /\ Only(i, [i EXCEPT !.proc[np].state = x], np)
               /\ [i EXCEPT !.proc[np].state = x].proc[np].state = x
               /\ [i EXCEPT !.proc[np].state = x].proc[np].kpagetable = i.proc[np].kpagetable
    BY <1>14, SlotKeeps
  <2> QED BY <1>15, <2>1
<1>17. Only(m, r, np) /\ r.proc[np].kpagetable = a.proc[np].kpagetable
  BY <1>2, <1>8, <1>14, <1>16 DEF Keep, Only
<1>18. \/ ~a.ok /\ n = a
       \/ n = f
       \/ a.ok /\ n = r
  BY <1>1, <1>4, <1>5, <1>9, <1>11, <1>13, <1>15 DEF Then, Forked, OrElse
<1> QED BY <1>2, <1>3, <1>12, <1>17, <1>18

(* exec keeps the kernel page table of the process and its state.          *)
LEMMA FreedKeeps ==
  ASSUME NEW m, NEW n, NEW p, NEW root, NEW sz \in Nat, Machine(m), Keep(m, n, p)
  PROVE  Keep(m, ProcFreepagetable(n, root, sz), p)
         /\ Keep(m, ProcFreepagetable([n EXCEPT !.ok = TRUE], root, sz), p)
<1>1. DOMAIN n = Fields /\ Machine(n)
  BY DEF Keep, Only, Machine
<1>2. PICK k : k = [n EXCEPT !.ok = TRUE]
  OBVIOUS
<1>3. Same(n, k)
  BY <1>1, <1>2, OkSame
<1>4. Same(n, ProcFreepagetable(n, root, sz))
  BY <1>1, UvmfreeSame
<1>5. Same(k, ProcFreepagetable(k, root, sz))
  BY <1>3, UvmfreeSame DEF Same
<1> QED BY <1>1, <1>2, <1>3, <1>4, <1>5 DEF Keep, Only, Machine, Same

(* exec, behind proc_pagetable: both images, whichever it frees.           *)
LEMMA LoadedKeeps ==
  ASSUME NEW m, NEW p \in Slot, NEW size \in Size, NEW bad, Machine(m)
  PROVE  Keep(m, Loaded(m, p, size, bad), p)
<1>1. PICK root, text, top : /\ root = m.got /\ text = PGROUNDUP(size) * PGSIZE /\ top = text + 2 * PGSIZE
  OBVIOUS
<1>2. size \in Nat /\ text \in Nat /\ top \in Nat /\ text <= top
  <2>1. size \in Nat
    BY KernelPageTableAssumption DEF KernelPageTableAssumption
  <2>2. text \in Nat /\ top \in Nat /\ PGSIZE \in Nat
    BY <1>1, SizesOf
  <2> QED BY <1>1, <2>1, <2>2
<1>3. PICK b : b = Uvmalloc(m, root, 0, size)
  OBVIOUS
<1>4. Keep(m, b, p) /\ Machine(b)
  <2>1. DOMAIN m = Fields /\ 0 \in Nat /\ 0 <= size
    BY <1>2 DEF Machine
  <2>2. Same(m, b)
    BY <1>2, <1>3, <2>1, UvmallocSame
  <2> QED BY <2>2, SameKeeps
<1>5. PICK c : c = Uvmalloc(b, root, text, top)
  OBVIOUS
<1>6. Keep(m, c, p) /\ Machine(c)
  <2>1. Same(b, c)
    BY <1>2, <1>4, <1>5, UvmallocSame DEF Machine
  <2>2. Keep(b, c, p) /\ Machine(c)
    BY <1>4, <2>1, SameKeeps
  <2> QED BY <1>4, <2>2 DEF Keep, Only
<1>7. PICK c1 : c1 = [c EXCEPT !.proc[p].pagetable = root]
  OBVIOUS
<1>8. PICK i : i = Install(c1, p, top)
  OBVIOUS
<1>9. Keep(m, i, p)
  <2>1. Keep(c, c1, p)
    <3>1. \A x : Keep(c, [c EXCEPT !.proc[p].pagetable = x], p)
      BY <1>6, SlotKeeps
    <3> QED BY <1>7, <3>1
  <2>2. Machine(c1)
    BY <2>1 DEF Keep, Only
  <2>3. Keep(c1, i, p)
    BY <1>2, <1>8, <2>2, InstallKeeps
  <2> QED BY <1>6, <2>1, <2>3 DEF Keep, Only
<1>10. m.proc[p].sz \in Nat
  BY DEF Machine, IsProc
<1>11. Keep(m, ProcFreepagetable(i, m.proc[p].pagetable, m.proc[p].sz), p)
  BY <1>9, <1>10, FreedKeeps
<1>12. /\ Keep(m, ProcFreepagetable([b EXCEPT !.ok = TRUE], root, 0), p)
       /\ Keep(m, ProcFreepagetable(b, root, size), p)
       /\ Keep(m, ProcFreepagetable([c EXCEPT !.ok = TRUE], root, text), p)
       /\ Keep(m, ProcFreepagetable(c, root, top), p)
  <2>1. 0 \in Nat
    OBVIOUS
  <2> QED BY <1>2, <1>4, <1>6, <2>1, FreedKeeps
<1>13. Loaded(m, p, size, bad) \in
         {ProcFreepagetable(i, m.proc[p].pagetable, m.proc[p].sz),
          ProcFreepagetable([b EXCEPT !.ok = TRUE], root, 0), ProcFreepagetable(b, root, size),
          ProcFreepagetable([c EXCEPT !.ok = TRUE], root, text), ProcFreepagetable(c, root, top)}
  BY <1>1, <1>3, <1>5, <1>7, <1>8 DEF Loaded, OrElse
<1> QED BY <1>11, <1>12, <1>13

(* exec.                                                                   *)
LEMMA ExecKeeps ==
  ASSUME NEW m, NEW p \in Slot, NEW size \in Size, NEW bad, Machine(m),
         NEW n, n = IF ProcPagetable(m).ok THEN Loaded(ProcPagetable(m), p, size, bad) ELSE ProcPagetable(m)
  PROVE  Keep(m, n, p)
<1>1. PICK a : a = ProcPagetable(m)
  OBVIOUS
<1>2. Machine(a) /\ Keep(m, a, p)
  <2>1. Same(m, a)
    BY <1>1, ProcPagetableSame DEF Machine
  <2> QED BY <2>1, SameKeeps
<1>3. Keep(a, Loaded(a, p, size, bad), p)
  BY <1>2, LoadedKeeps
<1> QED BY <1>1, <1>2, <1>3 DEF Keep, Only


(* userinit: a kernel page table for the first process, if for any.        *)
LEMMA FirstMachine ==
  Machine(First) /\ \A p \in Slot : First.proc[p].state # "UNUSED" => First.proc[p].kpagetable \in Page
<1>1. 1 \in Slot
  BY KernelPageTableAssumption DEF KernelPageTableAssumption
<1>2. Machine(Start) /\ \A p \in Slot : Start.proc[p].state = "UNUSED"
  BY DEF Machine, Start, Fields, IsProc, ProcFields, Unused
<1>3. PICK a : a = Allocproc(Start, 1)
  OBVIOUS
<1>4. /\ Only(Start, a, 1) /\ (a.ok => a.proc[1].kpagetable \in Page)
      /\ ~a.ok => a.proc[1].state = "UNUSED"
  BY <1>1, <1>2, <1>3, AllocprocOnly DEF Unused
<1>5. PICK b : b = NewPage(a, a.proc[1].pagetable, 0)
  OBVIOUS
<1>6. Keep(a, b, 1) /\ Machine(b)
  <2>1. Same(a, b)
    BY <1>4, <1>5, NewPageSame DEF Only, Machine
  <2> QED BY <1>4, <2>1, SameKeeps DEF Only
<1>7. PICK i : i = Install(b, 1, PGSIZE)
  OBVIOUS
<1>8. Keep(b, i, 1) /\ Machine(i)
  <2>1. PGSIZE \in Nat
    BY SizesOf
  <2>2. Keep(b, i, 1)
    BY <1>1, <1>6, <1>7, <2>1, InstallKeeps
  <2> QED BY <2>2 DEF Keep, Only
<1>9. PICK r : r = [i EXCEPT !.proc[1].state = "RUNNABLE"]
  OBVIOUS
<1>10. Only(i, r, 1) /\ r.proc[1].kpagetable = i.proc[1].kpagetable
  <2>1. \A x : /\ Only(i, [i EXCEPT !.proc[1].state = x], 1)
               /\ [i EXCEPT !.proc[1].state = x].proc[1].state = x
               /\ [i EXCEPT !.proc[1].state = x].proc[1].kpagetable = i.proc[1].kpagetable
    BY <1>1, <1>8, SlotKeeps
  <2> QED BY <1>9, <2>1
<1>11. Only(Start, r, 1) /\ r.proc[1].kpagetable = a.proc[1].kpagetable
  BY <1>4, <1>6, <1>8, <1>10 DEF Keep, Only
<1>12. \/ ~a.ok /\ First = a
       \/ a.ok /\ First = r
  BY <1>3, <1>5, <1>7, <1>9 DEF First, Then
<1>13. \A p \in Slot \ {1} : First.proc[p].state = "UNUSED"
  BY <1>2, <1>4, <1>11, <1>12 DEF Only
<1>14. Machine(First) /\ (First.proc[1].state # "UNUSED" => First.proc[1].kpagetable \in Page)
  BY <1>4, <1>11, <1>12 DEF Only
<1> QED BY <1>13, <1>14

-----------------------------------------------------------------------------
(* The invariant: a process that exists has a kernel page table, and a CPU *)
(* is on a process that exists and translates with its table.              *)
TablesInv ==
  /\ IsProc(proc)
  /\ \A p \in Slot : proc[p].state # "UNUSED" => proc[p].kpagetable \in Page
  /\ DOMAIN on = 1 .. NCPU /\ DOMAIN satp = 1 .. NCPU
  /\ \A c \in 1 .. NCPU :
       \/ on[c] = 0 /\ satp[c] = 0
       \/ on[c] \in Slot /\ satp[c] = Kernel(on[c]) /\ proc[on[c]].state # "UNUSED"

(* 0 stands for no process.                                                *)
LEMMA SlotNotZero == \A p \in Slot : p # 0
BY KernelPageTableAssumption DEF KernelPageTableAssumption

(* The initial states satisfy the invariant.                               *)
LEMMA TablesInitInv ==
  ASSUME TablesInit
  PROVE  TablesInv
<1>1. PICK m : m = First /\ proc = m.proc
  BY DEF TablesInit
<1>2. IsProc(proc) /\ \A p \in Slot : proc[p].state # "UNUSED" => proc[p].kpagetable \in Page
  BY <1>1, FirstMachine DEF Machine
<1> QED BY <1>2 DEF TablesInit, TablesInv

(* The slot of one process changes, under no CPU that is on it but in ways *)
(* that keep its table.                                                    *)
LEMMA SlotStep ==
  ASSUME TablesInv, UNCHANGED <<satp, on>>, NEW p \in Slot,
         IsProc(proc'), \A q \in Slot \ {p} : proc'[q] = proc[q],
         proc'[p].state # "UNUSED" => proc'[p].kpagetable \in Page,
         \A c \in 1 .. NCPU :
           on[c] = p => proc'[p].state # "UNUSED" /\ proc'[p].kpagetable = proc[p].kpagetable
  PROVE  TablesInv'
<1>1. \A q \in Slot : proc'[q].state # "UNUSED" => proc'[q].kpagetable \in Page
  BY DEF TablesInv
<1>2. ASSUME NEW c \in 1 .. NCPU, ~(on'[c] = 0 /\ satp'[c] = 0)
      PROVE  on'[c] \in Slot /\ satp'[c] = Kernel(on[c])' /\ proc'[on[c]].state # "UNUSED"
  <2>1. on[c] \in Slot /\ satp[c] = proc[on[c]].kpagetable /\ proc[on[c]].state # "UNUSED"
    BY <1>2 DEF TablesInv, Kernel
  <2>2. CASE on[c] = p
    BY <2>1, <2>2 DEF Kernel
  <2>3. CASE on[c] # p
    BY <2>1, <2>3 DEF Kernel
  <2> QED BY <2>2, <2>3
<1> QED BY <1>1, <1>2 DEF TablesInv

(* A process that calls for itself keeps its table under its CPU.          *)
LEMMA KeepStep ==
  ASSUME TablesInv, UNCHANGED <<satp, on>>, NEW p \in Slot, NEW m, NEW n,
         m.proc = proc, proc' = n.proc, Keep(m, n, p), proc[p].state # "UNUSED"
  PROVE  TablesInv'
<1>1. IsProc(proc') /\ \A q \in Slot \ {p} : proc'[q] = proc[q]
  BY DEF Keep, Only, Machine
<1>2. proc'[p].state = proc[p].state /\ proc'[p].kpagetable = proc[p].kpagetable
  BY DEF Keep
<1>3. proc'[p].kpagetable \in Page
  BY <1>2 DEF TablesInv
<1> QED BY <1>1, <1>2, <1>3, SlotStep

(* What a call starts from.                                                *)
LEMMA CallMachine ==
  ASSUME TablesInv, NEW left, NEW m,
         m = [pte |-> pte, free |-> free, proc |-> proc, left |-> left,
              got |-> 0, done |-> 0, ok |-> TRUE, panic |-> FALSE]
  PROVE  Machine(m) /\ m.proc = proc
BY DEF TablesInv, Machine, Fields

(* sbrk.                                                                   *)
LEMMA SbrkStep ==
  ASSUME TablesInv, NEW p \in Slot, Sbrk(p)
  PROVE  TablesInv'
<1>1. PICK n \in Size \cup {-i : i \in Size} : Call(p, LAMBDA m : Growproc(m, p, n))
  BY DEF Sbrk
<1>2. n \in Int
  BY KernelPageTableAssumption DEF KernelPageTableAssumption
<1>3. PICK left, m : /\ m = [pte |-> pte, free |-> free, proc |-> proc, left |-> left,
                             got |-> 0, done |-> 0, ok |-> TRUE, panic |-> FALSE]
                     /\ proc' = Growproc(m, p, n).proc
                     /\ proc[p].state = "RUNNING" /\ UNCHANGED <<satp, on>>
  BY <1>1 DEF Call
<1>4. Machine(m) /\ m.proc = proc
  BY <1>3, CallMachine
<1>5. Keep(m, Growproc(m, p, n), p)
  BY <1>2, <1>4, GrowprocKeeps
<1> QED BY <1>3, <1>4, <1>5, KeepStep

(* exec, in a running process.                                             *)
LEMMA ExecStep ==
  ASSUME TablesInv, NEW p \in Slot, Exec(p)
  PROVE  TablesInv'
<1>1. PICK size \in Size, bad \in {"none", "segment", "arguments"} :
          Call(p, LAMBDA m : Then(ProcPagetable(m), LAMBDA a : Loaded(a, p, size, bad)))
  BY DEF Exec
<1>2. PICK left, m, n : /\ m = [pte |-> pte, free |-> free, proc |-> proc, left |-> left,
                                got |-> 0, done |-> 0, ok |-> TRUE, panic |-> FALSE]
                        /\ n = Then(ProcPagetable(m), LAMBDA a : Loaded(a, p, size, bad))
                        /\ proc' = n.proc
                        /\ proc[p].state = "RUNNING" /\ UNCHANGED <<satp, on>>
  BY <1>1 DEF Call
<1>3. Machine(m) /\ m.proc = proc
  BY <1>2, CallMachine
<1>4. Keep(m, n, p)
  <2>1. Machine(m) /\ n = IF ProcPagetable(m).ok THEN Loaded(ProcPagetable(m), p, size, bad) ELSE ProcPagetable(m)
    BY <1>2, <1>3 DEF Then
  <2> QED BY <2>1, ExecKeeps
<1> QED BY <1>2, <1>3, <1>4, KeepStep

(* fork fills a slot that no CPU is on.                                    *)
LEMMA ForkStep ==
  ASSUME TablesInv, NEW p \in Slot, Fork(p)
  PROVE  TablesInv'
<1>1. PICK np \in Slot : /\ proc[np].state = "UNUSED"
                         /\ Call(p, LAMBDA m : Then(Allocproc(m, np), LAMBDA a : Forked(a, p, np)))
  BY DEF Fork
<1>2. PICK left, m, n : /\ m = [pte |-> pte, free |-> free, proc |-> proc, left |-> left,
                                got |-> 0, done |-> 0, ok |-> TRUE, panic |-> FALSE]
                        /\ n = Then(Allocproc(m, np), LAMBDA a : Forked(a, p, np))
                        /\ proc' = n.proc /\ UNCHANGED <<satp, on>>
  BY <1>1 DEF Call
<1>3. Machine(m) /\ m.proc = proc
  BY <1>2, CallMachine
<1>4. Only(m, n, np) /\ (n.proc[np].state # "UNUSED" => n.proc[np].kpagetable \in Page)
  BY <1>1, <1>2, <1>3, ForkOnly
<1>5. \A c \in 1 .. NCPU : on[c] # np
  BY <1>1, SlotNotZero DEF TablesInv
<1>6. IsProc(proc') /\ \A q \in Slot \ {np} : proc'[q] = proc[q]
  BY <1>2, <1>3, <1>4 DEF Only, Machine
<1> QED BY <1>2, <1>4, <1>5, <1>6, SlotStep

(* wait empties a slot that no CPU is on.                                  *)
LEMMA WaitStep ==
  ASSUME TablesInv, NEW p \in Slot, Wait(p)
  PROVE  TablesInv'
<1>1. PICK np \in Slot : /\ \A c \in 1 .. NCPU : on[c] # np
                         /\ Call(p, LAMBDA m : Freeproc(m, np))
  BY DEF Wait
<1>2. PICK left, m, n : /\ m = [pte |-> pte, free |-> free, proc |-> proc, left |-> left,
                                got |-> 0, done |-> 0, ok |-> TRUE, panic |-> FALSE]
                        /\ n = Freeproc(m, np)
                        /\ proc' = n.proc /\ UNCHANGED <<satp, on>>
  BY <1>1 DEF Call
<1>3. Machine(m) /\ m.proc = proc
  BY <1>2, CallMachine
<1>4. Only(m, n, np) /\ n.proc[np].state = "UNUSED"
  BY <1>2, <1>3, FreeprocOnly DEF Unused
<1>5. IsProc(proc') /\ \A q \in Slot \ {np} : proc'[q] = proc[q]
  BY <1>2, <1>3, <1>4 DEF Only, Machine
<1> QED BY <1>1, <1>2, <1>4, <1>5, SlotStep

(* The scheduler takes the table of the process it switches to.            *)
LEMMA TablesRunStep ==
  ASSUME TablesInv, NEW c \in 1 .. NCPU, NEW p \in Slot, Run(c, p)
  PROVE  TablesInv'
<1>1. proc[p].state = "RUNNABLE" /\ on' = [on EXCEPT ![c] = p]
      /\ satp' = [satp EXCEPT ![c] = proc[p].kpagetable] /\ proc' = [proc EXCEPT ![p].state = "RUNNING"]
      /\ \A d \in 1 .. NCPU : on[d] # p
  BY DEF Run
<1>2. IsProc(proc') /\ proc'[p].state = "RUNNING" /\ (\A q \in Slot \ {p} : proc'[q] = proc[q])
      /\ proc'[p].kpagetable = proc[p].kpagetable
  BY <1>1 DEF TablesInv, IsProc, ProcFields
<1>3. \A q \in Slot : proc'[q].state # "UNUSED" => proc'[q].kpagetable \in Page
  BY <1>1, <1>2 DEF TablesInv
<1>4. DOMAIN on' = 1 .. NCPU /\ DOMAIN satp' = 1 .. NCPU
  BY <1>1 DEF TablesInv
<1>5. on'[c] = p /\ satp'[c] = proc[p].kpagetable
      /\ \A d \in 1 .. NCPU \ {c} : on'[d] = on[d] /\ satp'[d] = satp[d]
  BY <1>1 DEF TablesInv
<1>6. ASSUME NEW d \in 1 .. NCPU, ~(on'[d] = 0 /\ satp'[d] = 0)
      PROVE  on'[d] \in Slot /\ satp'[d] = Kernel(on[d])' /\ proc'[on'[d]].state # "UNUSED"
  <2>1. CASE d = c
    BY <1>2, <1>5, <2>1 DEF Kernel
  <2>2. CASE d # c
    <3>1. on'[d] = on[d] /\ satp'[d] = satp[d]
      BY <1>5, <2>2
    <3>2. on[d] \in Slot \ {p} /\ satp[d] = proc[on[d]].kpagetable /\ proc[on[d]].state # "UNUSED"
      BY <1>1, <1>6, <3>1 DEF TablesInv, Kernel
    <3> QED BY <1>2, <3>1, <3>2 DEF Kernel
  <2> QED BY <2>1, <2>2
<1> QED BY <1>2, <1>3, <1>4, <1>6 DEF TablesInv

(* yield and exit leave the table in place.                                *)
LEMMA TablesSchedStep ==
  ASSUME TablesInv, NEW c \in 1 .. NCPU, Sched(c)
  PROVE  TablesInv'
<1>1. PICK gone \in {"RUNNABLE", "ZOMBIE"} : proc' = [proc EXCEPT ![on[c]].state = gone]
  BY DEF Sched
<1>2. PICK p : p = on[c]
  OBVIOUS
<1>3. p \in Slot /\ proc[p].state # "UNUSED" /\ UNCHANGED <<satp, on>>
  BY <1>2 DEF Sched, TablesInv
<1>4. IsProc(proc') /\ proc'[p].state = gone /\ (\A q \in Slot \ {p} : proc'[q] = proc[q])
      /\ proc'[p].kpagetable = proc[p].kpagetable
  BY <1>1, <1>2, <1>3 DEF TablesInv, IsProc, ProcFields
<1>5. proc'[p].kpagetable \in Page
  BY <1>3, <1>4 DEF TablesInv
<1> QED BY <1>1, <1>3, <1>4, <1>5, SlotStep

(* The scheduler is back on the global table.                              *)
LEMMA LeaveStep ==
  ASSUME TablesInv, NEW c \in 1 .. NCPU, Leave(c)
  PROVE  TablesInv'
BY DEF TablesInv, Leave, Kernel

(* Every step keeps the invariant.                                         *)
LEMMA TablesInvStep ==
  ASSUME TablesInv, [TablesNext]_tablesVars
  PROVE  TablesInv'
<1>1. CASE UNCHANGED tablesVars
  BY <1>1 DEF TablesInv, tablesVars, Kernel
<1>2. CASE TablesNext
  BY <1>2, SbrkStep, ForkStep, ExecStep, WaitStep, TablesSchedStep, LeaveStep, TablesRunStep DEF TablesNext
<1> QED BY <1>1, <1>2

(* A CPU translates with the kernel page table of the process on it, and   *)
(* with the global one in its scheduler, whatever calls run on the others. *)
THEOREM NoTableGoesStale == TablesSpec => []NoStaleTable
<1>1. TablesInit => TablesInv
  BY TablesInitInv
<1>2. TablesInv /\ [TablesNext]_tablesVars => TablesInv'
  BY TablesInvStep
<1>3. TablesInv => NoStaleTable
  BY SlotNotZero DEF TablesInv, NoStaleTable, Kernel
<1> QED BY <1>1, <1>2, <1>3, PTL DEF TablesSpec
===========================================================================
