-------------------------- MODULE KernelPageTable --------------------------
(***************************************************************************)
(* lab4/kernel: one kernel page table per process, whose entries below     *)
(* PLIC are shared with the user's page table, so that copyin reads user   *)
(* memory directly (vm.c, vmcopyin.c, and what proc.c and exec.c do with   *)
(* them).                                                                  *)
(*                                                                         *)
(* The trees are made of real page-table pages: two trees may name one     *)
(* page.  An address is a page number whose digits to base PTES index the  *)
(* three levels.  Every region the kernel maps is one page, permissions    *)
(* other than "leaf" are left out.                                         *)
(*                                                                         *)
(* A call works on trees only its own process uses, and on the free pages, *)
(* which others take and return meanwhile: the call is one action, in      *)
(* which memory may run out at any kalloc.  Its functions take a machine   *)
(* state m and return the next one.  m.left kallocs still succeed, m.got   *)
(* is the page a function returns (0 for none), and m.ok is FALSE once a   *)
(* function has failed: those that follow then do nothing.                 *)
(***************************************************************************)
EXTENDS Integers, FiniteSets, FiniteSetsExt

CONSTANTS
  Slot,    \* indices of proc[]
  NCPU,
  NPAGE,   \* physical pages, 1 .. NPAGE
  PGSIZE,  \* bytes in a page
  PTES,    \* entries in a page-table page
  PLIC, UART0, KERNBASE, TRAMPOLINE,   \* page numbers
  Size,    \* bytes to grow or shrink by, and of programs
  MaxLeft, \* memory runs out within the first MaxLeft kallocs of a call, or not
  MaxCalls \* bound on system calls

ASSUME KernelPageTableAssumption ==
  /\ 1 \in Slot /\ Slot \subseteq Nat \ {0}
  /\ {NCPU, NPAGE, PGSIZE, PTES} \subseteq Nat \ {0} /\ Size \subseteq Nat
  /\ PLIC % PTES = 0 /\ PLIC < PTES * PTES
  /\ {UART0, KERNBASE, TRAMPOLINE} \subseteq PLIC + 1 .. PTES * PTES * PTES - 1

VARIABLES
  pte,    \* pte[pa][i]: the entries of page pa, if it is a page-table page
  free,   \* free[pa]: how often pa is in the free list
  proc,   \* the process table
  satp,   \* satp[c]: the root page CPU c translates with, 0 for the global table
  on,     \* on[c]: the process CPU c runs, 0 for the scheduler
  panicked, calls

tablesVars == <<pte, free, proc, satp, on, panicked, calls>>

Page == 1 .. NPAGE
Index == 0 .. PTES - 1
TRAPFRAME == TRAMPOLINE - 1
KSTACK(p) == TRAMPOLINE - 2 * p
Absent == [to |-> 0, leaf |-> FALSE]
Blank == [i \in Index |-> Absent]
Table(pa) == [to |-> pa, leaf |-> FALSE]
Leaf(pa) == [to |-> pa, leaf |-> TRUE]
PX(level, va) == (va \div PTES ^ level) % PTES
PGROUNDUP(sz) == (sz + PGSIZE - 1) \div PGSIZE
Unused == [state |-> "UNUSED", sz |-> 0, trapframe |-> 0, pagetable |-> 0, kpagetable |-> 0]

-----------------------------------------------------------------------------
(* Pages and page tables                                                   *)

Fail(m) == [m EXCEPT !.ok = FALSE, !.got = 0]
Panic(m) == [m EXCEPT !.ok = FALSE, !.panic = TRUE]

(* What comes after a function that may fail, and what is done if it did.  *)
Then(m, F(_)) == IF m.ok THEN F(m) ELSE m
OrElse(m, Undo(_), F(_)) == IF m.ok THEN F(m) ELSE Undo([m EXCEPT !.ok = TRUE])

Kalloc(m) ==
  IF m.left = 0 \/ \A none \in Page : m.free[none] = 0 THEN Fail(m)
  ELSE LET pa == CHOOSE some \in Page : m.free[some] # 0 IN
       [m EXCEPT !.left = @ - 1, !.got = pa, !.free = [@ EXCEPT ![pa] = @ - 1]]

Kfree(m, pa) == [m EXCEPT !.free[pa] = @ + 1, !.pte[pa] = Blank]
KfreeAll(m, S) ==
  [m EXCEPT !.free = [pa \in Page |-> IF pa \in S THEN @[pa] + 1 ELSE @[pa]],
            !.pte = [pa \in Page |-> IF pa \in S THEN Blank ELSE @[pa]]]

(* One level of walk: from the table page m.got to the one below it.       *)
Descend(m, level, va, alloc) ==
  IF ~m.ok THEN m
  ELSE LET entry == m.pte[m.got][PX(level, va)] IN
       IF entry # Absent THEN [m EXCEPT !.got = entry.to]
       ELSE IF ~alloc THEN Fail(m)
       ELSE Then(Kalloc(m), LAMBDA n : [n EXCEPT !.pte[m.got][PX(level, va)] = Table(n.got)])

Walk(m, root, va, alloc) ==
  IF ~m.ok THEN m
  ELSE Descend(Descend([m EXCEPT !.got = root], 2, va, alloc), 1, va, alloc)

Mappages(m, root, va, pa) ==
  Then(Walk(m, root, va, TRUE), LAMBDA n :
    IF n.pte[n.got][PX(0, va)] # Absent THEN Panic(n) ELSE [n EXCEPT !.pte[n.got][PX(0, va)] = Leaf(pa)])

(* uvmunmap of one page, whose frame goes back to the free list if do_free *)
Unmap(m, root, va, do_free) ==
  OrElse(Walk(m, root, va, FALSE), Panic, LAMBDA n :
    LET entry == n.pte[n.got][PX(0, va)]
        cut == [n EXCEPT !.pte[n.got][PX(0, va)] = Absent] IN
    IF ~entry.leaf THEN Panic(n) ELSE IF do_free THEN Kfree(cut, entry.to) ELSE cut)

Uvmunmap(m, root, from, to, do_free) ==
  LET after[i \in Nat] == IF i = 0 THEN m ELSE Unmap(after[i - 1], root, from + i - 1, do_free) IN
  after[to - from]

(* The page-table pages under a root.                                      *)
Below(m, S) == {m.pte[x[1]][x[2]].to : x \in {y \in S \X Index : m.pte[y[1]][y[2]] # Absent
                                                  /\ ~m.pte[y[1]][y[2]].leaf}}
Tree(m, root) == {root} \cup Below(m, {root}) \cup Below(m, Below(m, {root}))
Kvmfree(m, root) == KfreeAll(m, Tree(m, root))

Freewalk(m, root) ==
  IF \E pa \in Tree(m, root), i \in Index : m.pte[pa][i].leaf THEN Panic(m) ELSE KfreeAll(m, Tree(m, root))

Uvmfree(m, root, sz) == Freewalk(Uvmunmap(m, root, 0, PGROUNDUP(sz), TRUE), root)

ProcFreepagetable(m, root, sz) ==
  Uvmfree(Uvmunmap(m, root, TRAPFRAME, TRAMPOLINE + 1, FALSE), root, sz)

ProcPagetable(m) ==
  Then(Kalloc(m), LAMBDA a :
    OrElse(Mappages(a, a.got, TRAMPOLINE, 0),
           LAMBDA n : Fail(Uvmfree(n, a.got, 0)),
           LAMBDA b :
    OrElse(Mappages(b, a.got, TRAPFRAME, 0),
           LAMBDA n : Fail(Uvmfree(Uvmunmap(n, a.got, TRAMPOLINE, TRAMPOLINE + 1, FALSE), a.got, 0)),
           LAMBDA c : [c EXCEPT !.got = a.got])))

Regions(m, root) ==
  LET devices == Mappages(Mappages(m, root, UART0, 0), root, PLIC, 0) IN
  Mappages(Mappages(devices, root, KERNBASE, 0), root, TRAMPOLINE, 0)

Kvmmake(m) ==
  Then(Kalloc(m), LAMBDA a :
    OrElse(Regions(a, a.got),
           LAMBDA n : Fail(Kvmfree(n, a.got)),
           LAMBDA b : [b EXCEPT !.got = a.got]))

Shared == {i \in Index : i < PLIC \div PTES}
Level1(m, root) == m.pte[root][0].to

(* kvmsync: user is 0 for a null pointer.                                  *)
Kvmsync(m, kernel, user) ==
  LET attached == user # 0 /\ Level1(m, user) # 0 IN
  IF ~m.ok THEN m
  ELSE [m EXCEPT !.pte[Level1(m, kernel)] =
          [i \in Index |-> IF i \notin Shared THEN @[i]
                           ELSE IF attached THEN m.pte[Level1(m, user)][i] ELSE Absent]]

-----------------------------------------------------------------------------
(* Processes                                                               *)

Uvmdealloc(m, root, oldsz, newsz) ==
  IF newsz >= oldsz THEN m ELSE Uvmunmap(m, root, PGROUNDUP(newsz), PGROUNDUP(oldsz), TRUE)

(* A page of memory and its mapping, which gives the page back if it fails. *)
NewPage(m, root, va) ==
  IF ~m.ok THEN m
  ELSE Then(Kalloc(m), LAMBDA a :
         OrElse(Mappages(a, root, va, a.got),
                LAMBDA n : Fail(Kfree(n, a.got)),
                LAMBDA b : [b EXCEPT !.done = @ + 1]))

(* Pages from .. to - 1; m.done counts those that succeed, and the first   *)
(* failure takes them back.                                                *)
PageByPage(m, root, from, to) ==
  LET after[i \in Nat] == IF i = 0 THEN m ELSE NewPage(after[i - 1], root, from + i - 1) IN
  after[to - from]
NewPages(m, root, from, to) ==
  OrElse(PageByPage([m EXCEPT !.done = 0], root, from, to),
         LAMBDA n : Fail(Uvmunmap(n, root, from, from + n.done, TRUE)),
         LAMBDA n : n)

Uvmalloc(m, root, oldsz, newsz) == NewPages(m, root, PGROUNDUP(oldsz), PGROUNDUP(newsz))

Uvmcopy(m, root, sz) == NewPages(m, root, 0, PGROUNDUP(sz))

(* Mutant: user memory stays attached while the kernel's tree is freed.    *)
FreeKernelAttached(m, p) ==
  IF m.proc[p].kpagetable = 0 THEN m ELSE Kvmfree(m, m.proc[p].kpagetable)

FreeKernel(m, p) ==
  IF m.proc[p].kpagetable = 0 THEN m
  ELSE Kvmfree(Kvmsync(m, m.proc[p].kpagetable, 0), m.proc[p].kpagetable)

FreeUser(m, p) ==
  IF m.proc[p].pagetable = 0 THEN m ELSE ProcFreepagetable(m, m.proc[p].pagetable, m.proc[p].sz)

Freeproc(m, p) ==
  [FreeUser(KfreeAll(FreeKernel(m, p), {m.proc[p].trapframe} \ {0}), p) EXCEPT !.proc[p] = Unused]

(* allocproc of slot p: what was allocated stands in the slot, for freeproc *)
Allocproc(m, p) ==
  Then(Kalloc(m), LAMBDA a :
    OrElse(Then(Then(ProcPagetable([a EXCEPT !.proc[p].trapframe = a.got]),
                     LAMBDA b : Kvmmake([b EXCEPT !.proc[p].pagetable = b.got])),
                LAMBDA c : Mappages([c EXCEPT !.proc[p].kpagetable = c.got], c.got, KSTACK(p), 0)),
           LAMBDA n : Fail(Freeproc(n, p)),
           LAMBDA d : d))

(* What the image of process p has become is put into its slot, and shared. *)
Install(m, p, sz) ==
  LET n == [m EXCEPT !.proc[p].sz = sz] IN Kvmsync(n, n.proc[p].kpagetable, n.proc[p].pagetable)

Start == [pte |-> [pa \in Page |-> Blank], free |-> [pa \in Page |-> 1],
          proc |-> [p \in Slot |-> Unused], left |-> NPAGE, got |-> 0, done |-> 0, ok |-> TRUE, panic |-> FALSE]

(* userinit                                                                *)
First ==
  Then(Allocproc(Start, 1), LAMBDA a :
    [Install(NewPage(a, a.proc[1].pagetable, 0), 1, PGSIZE) EXCEPT !.proc[1].state = "RUNNABLE"])

TablesInit ==
  /\ \E m \in {First} : pte = m.pte /\ free = m.free /\ proc = m.proc
  /\ satp = [c \in 1 .. NCPU |-> 0]
  /\ on = [c \in 1 .. NCPU |-> 0]
  /\ panicked = FALSE
  /\ calls = 0

(* Process p, which runs, makes a call, during which memory may run out.   *)
Call(p, F(_)) ==
  /\ proc[p].state = "RUNNING"
  /\ calls < MaxCalls
  /\ calls' = calls + 1
  /\ \E left \in 0 .. MaxLeft \cup {NPAGE} :
       \E m \in {F([pte |-> pte, free |-> free, proc |-> proc, left |-> left,
                    got |-> 0, done |-> 0, ok |-> TRUE, panic |-> FALSE])} :
         pte' = m.pte /\ free' = m.free /\ proc' = m.proc /\ panicked' = m.panic
  /\ UNCHANGED <<satp, on>>

(* Mutant: new page-table pages are not shared.                            *)
GrowprocUnsynced(m, p, n) ==
  LET pr == m.proc[p]
      big == pr.sz + n IN
  IF big \notin 0 .. PLIC * PGSIZE THEN m
  ELSE Then(IF n > 0 THEN Uvmalloc(m, pr.pagetable, pr.sz, big) ELSE Uvmdealloc(m, pr.pagetable, pr.sz, big),
            LAMBDA a : [a EXCEPT !.proc[p].sz = big])

Growproc(m, p, n) ==
  LET pr == m.proc[p]
      big == pr.sz + n IN
  IF n > 0
  THEN IF big > PLIC * PGSIZE THEN m
       ELSE Then(Uvmalloc(m, pr.pagetable, pr.sz, big), LAMBDA a : Install(a, p, big))
  ELSE IF big < 0 THEN Install(m, p, pr.sz)
  ELSE Install(Uvmdealloc(m, pr.pagetable, pr.sz, big), p, big)

Sbrk(p) == \E n \in Size \cup {-i : i \in Size} : Call(p, LAMBDA m : Growproc(m, p, n))

(* fork, behind allocproc                                                  *)
Forked(m, p, np) ==
  OrElse(Uvmcopy(m, m.proc[np].pagetable, m.proc[p].sz),
         LAMBDA n : Freeproc(n, np),
         LAMBDA a : [Install(a, np, a.proc[p].sz) EXCEPT !.proc[np].state = "RUNNABLE"])

Fork(p) ==
  \E np \in Slot :
    /\ proc[np].state = "UNUSED"
    /\ Call(p, LAMBDA m : Then(Allocproc(m, np), LAMBDA a : Forked(a, p, np)))

(* exec, from proc_pagetable on, whose root is m.got, of a program whose   *)
(* last segment ends at size; bad: what else may be wrong with it, once    *)
(* the segments, or the stack too, are there.                              *)
Loaded(m, p, size, bad) ==
  LET root == m.got
      text == PGROUNDUP(size) * PGSIZE
      top == text + 2 * PGSIZE IN
  OrElse(Uvmalloc(m, root, 0, size), LAMBDA n : ProcFreepagetable(n, root, 0), LAMBDA b :
    IF bad = "segment" \/ top > PLIC * PGSIZE THEN ProcFreepagetable(b, root, size)
    ELSE OrElse(Uvmalloc(b, root, text, top), LAMBDA n : ProcFreepagetable(n, root, text), LAMBDA c :
           IF bad = "arguments" THEN ProcFreepagetable(c, root, top)
           ELSE ProcFreepagetable(Install([c EXCEPT !.proc[p].pagetable = root], p, top),
                                  m.proc[p].pagetable, m.proc[p].sz)))

Exec(p) ==
  \E size \in Size, bad \in {"none", "segment", "arguments"} :
    Call(p, LAMBDA m : Then(ProcPagetable(m), LAMBDA a : Loaded(a, p, size, bad)))

(* wait finds a zombie whose lock is free, that is, which no CPU is on.    *)
(* (Who may wait for whom is ExitWait's subject.)                          *)
Wait(p) ==
  \E np \in Slot \ {1} :
    /\ proc[np].state = "ZOMBIE" /\ \A c \in 1 .. NCPU : on[c] # np
    /\ Call(p, LAMBDA m : Freeproc(m, np))

-----------------------------------------------------------------------------
(* The scheduler: p->lock is held from one switch to the next.             *)

Run(c, p) ==
  /\ on[c] = 0 /\ proc[p].state = "RUNNABLE" /\ \A d \in 1 .. NCPU : on[d] # p
  /\ on' = [on EXCEPT ![c] = p]
  /\ satp' = [satp EXCEPT ![c] = proc[p].kpagetable]
  /\ proc' = [proc EXCEPT ![p].state = "RUNNING"]
  /\ UNCHANGED <<pte, free, panicked, calls>>

(* yield or exit, up to swtch.                                             *)
Sched(c) ==
  /\ on[c] # 0 /\ proc[on[c]].state = "RUNNING"
  /\ \E gone \in {"RUNNABLE"} \cup IF on[c] = 1 THEN {} ELSE {"ZOMBIE"} :
       proc' = [proc EXCEPT ![on[c]].state = gone]
  /\ UNCHANGED <<pte, free, satp, on, panicked, calls>>

(* Mutant: no kvminithart; the CPU stays on the table of the last process. *)
LeaveOnTable(c) ==
  /\ on[c] # 0 /\ proc[on[c]].state # "RUNNING"
  /\ on' = [on EXCEPT ![c] = 0]
  /\ UNCHANGED <<pte, free, proc, satp, panicked, calls>>

(* Back in scheduler: kvminithart, then release.                           *)
Leave(c) ==
  /\ on[c] # 0 /\ proc[on[c]].state # "RUNNING"
  /\ satp' = [satp EXCEPT ![c] = 0]
  /\ on' = [on EXCEPT ![c] = 0]
  /\ UNCHANGED <<pte, free, proc, panicked, calls>>

TablesNext ==
  /\ ~panicked
  /\ \/ \E p \in Slot : Sbrk(p) \/ Fork(p) \/ Exec(p) \/ Wait(p)
     \/ \E c \in 1 .. NCPU : Sched(c) \/ Leave(c) \/ \E p \in Slot : Run(c, p)

TablesSpec == TablesInit /\ [][TablesNext]_tablesVars

-----------------------------------------------------------------------------
(* Properties                                                              *)

Now == [pte |-> pte, free |-> free]
Kernel(p) == proc[p].kpagetable
Entry(root, va) == \* what the hardware finds, Absent where a level is missing
  LET up == pte[root][PX(2, va)]
      mid == IF up = Absent THEN Absent ELSE pte[up.to][PX(1, va)] IN
  IF mid = Absent THEN Absent ELSE pte[mid.to][PX(0, va)]

(* What process p owns: its user tree, the pages mapped in it, and its     *)
(* kernel tree but for what is shared below PLIC.                          *)
UserTree(p) == IF proc[p].pagetable = 0 THEN {} ELSE Tree(Now, proc[p].pagetable)
UserPages(p) == {pte[x[1]][x[2]].to : x \in UserTree(p) \X Index} \ (UserTree(p) \cup {0})
SharedTables(p) == IF Kernel(p) = 0 THEN {} ELSE {pte[Level1(Now, Kernel(p))][i].to : i \in Shared} \ {0}
KernelTree(p) == IF Kernel(p) = 0 THEN {} ELSE Tree(Now, Kernel(p)) \ SharedTables(p)

(* Every page is free once or has one owner and one use there: the free    *)
(* pages and the parts of the processes cover memory, and their sizes add  *)
(* up to it.  Whichever call ran out of memory wherever, nothing leaks and *)
(* nothing is freed twice or while some tree still leads to it (kvmfree,   *)
(* freewalk, bad: of exec, err: of uvmcopy, the failures of allocproc).    *)
PagesExact ==
  LET idle == {pa \in Page : free[pa] # 0}
      Frame(p) == {proc[p].trapframe} \ {0} IN
  /\ \A pa \in Page : free[pa] \in {0, 1}
  /\ \A p \in Slot : SharedTables(p) \subseteq UserTree(p)
  /\ idle \cup UNION {UserTree(p) \cup UserPages(p) \cup KernelTree(p) \cup Frame(p) : p \in Slot} = Page
  /\ Cardinality(idle) + MapThenSumSet(LAMBDA p : Cardinality(UserTree(p)) + Cardinality(UserPages(p))
                                          + Cardinality(KernelTree(p)) + Cardinality(Frame(p)), Slot) = NPAGE

(* copyin_new and copyinstr_new test addresses against p->sz alone and     *)
(* then read through satp: each byte they accept must be there, in the     *)
(* page the user's own table maps.                                         *)
CopyinReadsUserMemory ==
  \A c \in 1 .. NCPU : on[c] # 0 /\ proc[on[c]].state = "RUNNING" =>
    \A va \in 0 .. PGROUNDUP(proc[on[c]].sz) - 1 :
      /\ Entry(satp[c], va).leaf
      /\ Entry(satp[c], va) = Entry(proc[on[c]].pagetable, va)

(* A CPU translates with the kernel page table of the process on it, and   *)
(* with the global one in its scheduler: exec and the other calls leave    *)
(* that table in place, and no wait frees it under the CPU.                *)
NoStaleTable ==
  \A c \in 1 .. NCPU :
    IF on[c] = 0 THEN satp[c] = 0 ELSE satp[c] = Kernel(on[c]) /\ satp[c] \in Page
=============================================================================
