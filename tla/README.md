# TLA+ models of the OS labs

The repository holds four labs built on xv6 for RISC-V. Lab 1 adds user
programs, lab 2 system calls, lab 3 the per-CPU page allocator, the hashed
buffer cache and the "AI path" user library, lab 4 per-process kernel page
tables. This directory models the kernel that lab 3 leaves behind, which is the
most concurrent of the four, what lab 2 and lab 4 change in it, and lab 3's user
library, with TLC runs on small instances and TLAPS proofs for every size.

Paths below are relative to `src/`; `kernel/` alone means `lab3/kernel/`.

## 1. Inventory

### Components, their state and their operations

| Component | State | Operations | Talks to | Status |
|---|---|---|---|---|
| Page allocator, `kernel/kalloc.c` | `kmem[NCPU]`: a lock and a free list each | `kinit`/`freerange`, `kalloc` with batched stealing, `kfree` | everybody who needs a page | modelled |
| Scheduler, sleep, wakeup, `kernel/proc.c`, `spinlock.c`, `trap.c` | `p->state`, `p->lock`, `p->chan`, `c->proc`, the condition's lock | `scheduler`, `sched`, `yield`, `sleep`, `wakeup`, `kill`, timer and device handlers | every blocking component, through `sleep`/`wakeup` | partly |
| Process life cycle, `kernel/proc.c`, `user/init.c` | `p->state`, `p->parent`, `p->killed`, `p->lock` | `fork`, `exit`, `reparent`, `wait`, `kill` | scheduler, files, memory | partly |
| Buffer cache, `kernel/bio.c` | `bcache.buf[NBUF]`, `bucket[NBUCKET]`, `evict`, `hand`; per buffer identity, `valid`, `refcnt`, sleep-lock | `bread`, `bwrite`, `brelse`, `bpin`, `bunpin` | log and `fs.c` above, disk below | modelled |
| Redo log, `kernel/log.c` | `log.lh`, `outstanding`, `committing`; the log on disk | `begin_op`, `log_write`, `end_op`, commit, `initlog`/recovery | every file system call above, buffer cache below | modelled |
| Pipes, `kernel/pipe.c`, and references to open files, `kernel/file.c` | `struct pipe`, `f->ref`, `p->ofile` | `pipewrite`, `piperead`, `pipeclose`, `filedup`, `fileclose` | `sleep`/`wakeup`, `fork`, `exit`, `kill`, the page allocator | partly |
| Open-file table and descriptors, `kernel/file.c`, `sysfile.c` | `ftable`, offsets | `filealloc`, `fileread`, `filewrite`, `dup`, `open`... | inodes, pipes, devices | partly (reference counts, `fork`, `open` and `close`) |
| Inodes, directories, paths, `kernel/fs.c`, `sysfile.c` | `icache`, on-disk inodes and bitmap | `iget`/`iput`, `ilock`, `readi`/`writei`, `dirlink`, `namex`, `create`, `unlink`... | log, buffer cache | partly (all but the contents of files) |
| Sleep-locks and spinlocks, `kernel/sleeplock.c`, `spinlock.c` | `locked`, `pid`, `noff` | `acquiresleep`, `releasesleep`, `push_off`... | scheduler | partly |
| Virtio disk, `kernel/virtio_disk.c` | 8 descriptors, two rings, `used_idx` | `virtio_disk_rw`, `virtio_disk_intr` | buffer cache above, the device | modelled |
| Console and UART, `kernel/console.c`, `uart.c` | edit buffer `r`,`w`,`e`; transmit ring | `consoleread`, `consolewrite`, `consoleintr`, `uartputc`, `uartputc_sync`, `uartstart`, `uartintr` | `sleep`/`wakeup`, interrupts | partly (not `printf`) |
| Traps, clock, system calls, `kernel/trap.c`, `sysproc.c`, `syscall.c` | `ticks`, trap frame | `usertrap`, `kerneltrap`, `clockintr`, `sys_sleep` | all of the above | partly (the timer's yield and `clockintr`'s wakeup) |
| Virtual memory and exec, `kernel/vm.c`, `exec.c` | page tables | `walk`, `uvmalloc`, `uvmcopy`, `copyin`, `exec` | page allocator, inodes | lab 4's version is modelled, which contains it |
| Lock statistics, `kernel/stats.c` | a formatted buffer | `statsread` | spinlocks | not modelled: output only |
| Lab 1 kernel, `lab1/kernel/` | one `kmem`, one LRU buffer list | as above | | not modelled: superseded by lab 3's versions |
| Lab 1 user programs | none shared | `sleep`, `pingpong`, `find` | system calls | not modelled: sequential |
| Lab 2 system calls, `lab2/kernel/` | `seccomp_mask`, its log, `max_children`, `child_count` | `seccomp_ctl`, `seccomp_getlog`, changed `fork`, `exit`, `wait`, `yield`, `rename` | process life cycle | partly (limits on children, `wait` without sleeping) |
| Lab 4 kernel page tables, `lab4/kernel/` | a user and a kernel page table per process that share page-table pages | `kvmmake`, `kvmfree`, `kvmsync`, `copyin_new`, `walk`, `uvmalloc`, `uvmcopy`, `fork`, `exec`, `wait`, `sbrk`, the switch of `satp` | page allocator, scheduler | modelled |
| AI path library, `lab3/user/ai_student*.c` | a session, a KV file, a helper process behind two pipes, a model cache | begin, store, restore, prefetch, end | pipes, `fork`, `wait`, files | partly (not the model cache) |
| AI workload and baseline, `lab3/user/aiinfer.c`, `ai_baseline.c` | start and result pipes | `run_path`, `worker_main`, the measurement | AI path, pipes, `fork`, `wait` | partly (`run_path` and its workers) |
| Other user programs | none shared | shell, init, allocator, tools | system calls | not modelled, but for init's loop in `ExitWait` |
| Tests, graders, `mkfs`, tools | | | | not modelled; `mkfs` fixes the size of the log |

### What is hard, and what makes each component correct

* **Page allocator.** A steal detaches a batch under the donor's lock and
  publishes it later under the own lock; between the two the pages are on no
  list. Correct: a page is in one place, none is lost, a kalloc that answers 0
  missed nothing that stayed put, and callers cannot tell it from one free set.
* **Scheduler.** `p->lock` is taken on one kernel stack and released on another;
  a process is visible as RUNNABLE before its registers are saved; `sleep` lets
  go of the condition's lock before it is SLEEPING; interrupts yield inside the
  kernel. Correct: no process on two CPUs, `swtch` with exactly one lock, no
  wakeup lost, every runnable process runs.
* **Process life cycle.** `exit` and `wait` read `p->parent` without the lock
  that protects it and hold two process locks at a time. Correct: no orphan has a
  dead parent, no parent sleeps beside a zombie, a zombie is freed only when it
  has left its stack, `wait` never denies a child.
* **Buffer cache.** The victim of a miss is on no bucket for a while, the scan
  looks at buffers whose identity may change, `brelse` gives up the sleep-lock
  before its reference. Correct: one buffer per block, exact reference counts,
  the holder of a buffer sees the last contents of the block.
* **Log.** Crashes between any two disk writes, also of recovery; operations
  that begin while another process commits without `log.lock`. Correct: a crash
  keeps whole groups of operations, the reservation of `begin_op` is enough,
  pins match the log, nobody sleeps beside free room.
* **Pipe.** Counters that wrap, sleepers on two channels, a `kill` that takes
  another lock, ends inherited and closed in any order. Correct: a bounded FIFO,
  freed once and by the last user, no lost wakeup.
* **Virtio disk.** Callers sleep for descriptors and for their request while the
  device answers in any order, several answers per interrupt, and `kill` wakes
  sleepers at will. Correct: each request is carried out once between call and
  return, and returns.
* **Inodes and directories.** `iput` frees an inode in two critical sections beside
  `iget` and `ialloc`; `create`, `link` and `unlink` lock a directory that was found
  unlocked, and hold two inodes at a time. Correct: exact reference counts, cached
  inodes written through, no name and no user of a freed inode, no deadlock, no panic.
* **Kernel page tables.** Two trees share page-table pages and are undone half-built
  when memory runs out. Correct: each page is free or has one owner, `copyin_new`
  reads what the user's table maps, no CPU translates with a freed table.
* **Limits on children.** `fork` and `wait` count one by one while `exit` gives
  children away and slots are reused. Correct: the count is the number of children.
* **Console.** The handler echoes past the transmit ring while processes write to it;
  three wrapping indices share one buffer. Correct: an editable line terminal whose
  sleeping readers have nothing to read and whose output neither stalls nor is overwritten.
* **AI path.** Workers, helpers and `run_path` hold ends of each other's pipes and may
  die anywhere. Correct: what is restored is what was stored, nobody fails
  without a cause, and everybody comes to an end.

`PROJECT.json` lists the hazards line by line with the properties that cover
them. A few smaller ones are left out of that list: the `kill` that comes between
the test of `p->killed` and SLEEPING (in `Pipe`, in `Console`, in `sys_sleep`; the
victim waits for its next wakeup), a byte `piperead` takes from the pipe and loses
when `copyout` fails (modelled in `ReadReturn`), and the operation of exactly
MAXOPBLOCKS blocks in a log whose size leaves LOGSIZE - 1 (`LogWritePanic`).

## 2. Modules

| Module | Extends / instances | Source | Role |
|---|---|---|---|
| `PageAllocator` | | | abstract: pages are free or in use |
| `Kalloc` | instances `PageAllocator` | `kernel/kalloc.c` | the per-CPU lists with stealing |
| `KallocScan` | extends `Kalloc` | | a history variable: what each scan could have found |
| `KallocProofs` | extends `KallocScan`, TLAPS | | proofs |
| `Monitor` | | | abstract: a lock and one condition |
| `Sched` | instances `Monitor` | `kernel/proc.c`, `spinlock.c`, `trap.c` | scheduler, sleep, wakeup, interrupts |
| `SchedProofs` | extends `Sched`, `KernelPageTable`, TLAPS | | proofs, of `satp` too |
| `Bcache` | | `kernel/bio.c` | the buffer cache and how `log.c` uses it |
| `BcacheScan` | extends `Bcache` | | a history variable: what a scan for a victim could have found |
| `MCBcache` | extends `BcacheScan` | | symmetry |
| `BcacheProofs` | extends `BcacheScan`, TLAPS | | proofs |
| `ExitWait` | | `kernel/proc.c`, `user/init.c` | fork, exit, wait, kill |
| `ChildLimit` | extends `ExitWait` | `lab2/kernel/proc.c`, `sysproc.c` | lab 2's limits and `wait` flags |
| `ChildLimitProofs` | extends `ChildLimit`, TLAPS | | proofs, of lab 3's fork, exit and wait too |
| `AtomicDisk` | | | abstract: a disk that changes by whole groups |
| `Log`, `MCLog` | instance `AtomicDisk` | `kernel/log.c` | the redo log, crashes, recovery |
| `LogProofs` | extends `Log`, TLAPS | | proofs |
| `BoundedFifo` | | | abstract: at most Size bytes in order |
| `Pipe`, `MCPipe` | instance `BoundedFifo` | `kernel/pipe.c`, `file.c` | one pipe and everyone who inherits it |
| `PipeProofs` | extends `Pipe`, `AiInfer`, TLAPS | | proofs, of the AI runs too |
| `BlockDevice` | | | abstract: a transfer between call and return |
| `VirtioDisk` | instances `BlockDevice` | `kernel/virtio_disk.c` | descriptors, rings, interrupts, the device |
| `Fs` | | `kernel/fs.c`, `sysfile.c` | inodes, directories, paths, system calls |
| `FsStray` | extends `Fs` | | a history variable: has a call gone through the `..` of a removed directory |
| `MCFs` | extends `FsStray` | | symmetry |
| `FsProofs` | extends `FsStray`, TLAPS | | proofs |
| `KernelPageTable` | | `lab4/kernel/vm.c`, `vmcopyin.c`, `proc.c`, `exec.c` | user and kernel page tables |
| `Terminal` | | | abstract: line input, ordered output, one transmitter |
| `Console`, `MCConsole` | instance `Terminal` | `kernel/console.c`, `uart.c` | editing, echo, the transmit ring |
| `DriverProofs` | extends `VirtioDisk`, `Console`, TLAPS | | proofs of both drivers |
| `AiInfer` | | `lab3/user/aiinfer.c`, `ai_student*.c` | workers, sessions, prefetch helpers |

An action is what the code does between two points at which another CPU could
see or disturb it: a critical section when it touches only what its lock
protects, and each of its pieces when it does not. Definitions named in a comment
as "Mutant" are deliberate errors: the model with one of them in place must
violate the property it is aimed at, which shows that the property depends on
that line of the code. `TypeOK` is proved where there are proofs; in the other modules that
have one it documents the variables.

### Kalloc

An actor is a CPU: `push_off` keeps it inside `kalloc` and `kfree`. `freelist[c]`
is `kmem[c].freelist`, head first; `chain[c]` the detached pages between the
donor's and the own critical section; `pc[c]` is `"steal"` in the loop and
`"publish"` behind it; `offset[c]` is the loop variable. `FreeRange` is one turn
of `freerange`, which only the boot CPU runs. The junk written into pages is left
out. `KallocScan` remembers in `stayed[c]` the pages that have been on one and the
same list since `c` missed.

### Sched

Locks are held by CPUs, for `p->lock` crosses `swtch`. `cur[c]` is the process on
whose kernel stack `c` runs, so `Back` (the scheduler behind `swtch`) and
`Swtch` are steps of their own and `OneCpuPerProcess` is about stacks. One
sleep channel with its lock `lk` is shared by all processes; `Yield` is the timer
interrupt, possible wherever interrupts are on; `irq[c]` is a device or clock handler
that takes `lk` and wakes. `push_off`'s nesting count is abstracted to "a CPU
that holds a lock takes no interrupt". Other channels, `p->killed`, creation and exit are
left out; `ExitWait` has the latter.

### ExitWait

`lock[p]` is the thread that holds `p->lock`; `idx`, `havekids` and `origParent`
are the local variables of `wait`, `reparent` and `exit`. `WaitLook` and
`ReparentLook` read `np->parent` with no lock, the next step takes `np->lock`.
`Init` is the state with init alone; init forks a shell and waits, as `user/init.c`
does, and starts another when the shell is gone. Killing init and an init whose
fork fails end in a panic and are left out.

### ChildLimit

`LimitNext` is `ExitWait`'s `Next` step by step, each step with what lab 2 adds to it:
`childCount` and `maxChildren` are the fields of `struct proc`, `flags` the argument
of `wait`. Lab 2's loop in `exit` that prints the children takes the locks of
`reparent` in the same order and is left out, as are the mask of allowed calls,
its audit log, `yield`'s printing and `rename`, which touch the calling process only.
A behaviour with limit 0 (no limit) and flags 0 throughout is one of lab 3's, so
the run is about both labs. init inherits children it never counted, so its count
goes negative; it sets no limit, so nothing looks at it, and the model follows it
to `-MinCount`.

### Bcache

`chain[h]` is the set of buffers linked from `bucket[h]` (no code depends on
their order), `owner[b]` the sleep-lock, `at[p]` and `want[p]` the buffer and block
of `p`'s call. `Lookup`, `LookAgain`, `ScanTake`/`ScanSkip`, `Install`, `Lock`,
`Load` are `bread`, one bucket critical section each; `evict` is held from `LookAgain` to
`Install`. `LogWrite`, `Bwrite`, `Bunpin` are the
calls of `log.c`; `disk` and `latest` hold the blocks' contents on disk and as last
written. A process uses one buffer at a time. `BcacheScan` remembers which
buffers were idle throughout a scan (`stayedIdle`).

### Log

`home`, `hlog`, `head` are the disk; `cache`, `pins`, `holds` what `Bcache`
provides; `lh`, `outstanding`, `committing` are `struct log`. One `bwrite` is one
step and atomic. `Crash` may come between any two steps, also during recovery; it
empties the memory. Log blocks and header are written through, so they have no cached copy.
Reading `log.lh.n` before `log.lock` (`LogWrite`) and appending under it
(`LogAppend`) are two steps, as in `log_write`; `panic` is a state a process stays
in until the machine is restarted. `Evict` recycles a buffer nobody holds or has
pinned.

### Pipe

`ref[e]` is `f->ref` of the file of end `e`, `ofile[p]` the ends `p` has open.
`fileclose` drops the reference in one step and calls `pipeclose` in another. A
byte is a step; `nread` and `nwrite` are counted modulo `UintSpan`. `sleep` is
two steps, since `kill` does not take `pi->lock`; that nothing else gets between
them is what `Sched` and its refinement of `Monitor` show. A process has at most
one descriptor per end; `pipealloc`'s errors, `dup` and NFILE are left out.

### VirtioDisk

What a process does between two sleeps in `virtio_disk_rw` is one critical section of
`vdisk_lock` and one action; the handler's loop is a step per turn, because the
device goes on meanwhile. `free`, `next`, `info`, `status` are the descriptor
bookkeeping; `avail`, `used` and their indices the rings; `busy[p]` is `b->disk`. A
ring entry is overwritten with `None` once it has been read, which nothing reads
again. The device is external: it takes entries in order, serves them in any order, writes
the status before the used entry, and raises an interrupt some time later. It does
not fail (`virtio_disk_intr` panics on a bad status). Its initialisation is its
end state.

### Fs

The inode cache is indexed by inode number, as a slot with `ref` 0 holds nothing. Its NINODE slots are not counted, since processes
and names outside the instance may fill them: wherever a call is about to `iget` an
inode that is not cached, `IgetPanics` may panic with "iget: no inodes" instead. What a
process does while it holds one inode's lock is one action; `create` and `sys_unlink`, which lock
a second inode while they hold a directory, are split between the two (`"made"`, `"gone"`), and so is a call that keeps its directory
locked while it puts an inode it has found in it (`"held"`: a name that `dirlink` finds taken, a directory that is not empty). A path is
chosen element by element as `namex` walks it; `.` leads nowhere and is left out. `puts[p]` are
the `iput`s a call still has to do, in their order, and `stage[p]` the place inside the one
that frees: `IputLast` (under `icache.lock`, takes the sleep-lock), `IputFree`, `IputInvalid`,
`IputDrop`. `Init` is every tree of at most `Cardinality(Inum)` inodes with every choice of
working directories. The log is `Log`'s; file contents, `balloc` and its panic for want of blocks, devices and offsets are left out.

`FsStray` notes in `astray` that a call has looked up the `..` of a directory that no entry names any more. What
that names may be freed and somebody else's by now, and the call can spoil it (see Observations); `InodesAllocated`,
`NoLockCycle` and, but for the two panics it then meets ("ilock: no type", "unlink: nlink < 1"), `NoPanic` are about the time before:
until then only `ialloc` panics, and `iget`. `RefsExact` and
`CacheIsWrittenThrough` hold in any case.

### KernelPageTable

Trees are made of pages of the model's memory (`pte[pa][i]`), so that two trees can share a
page-table page and a page can be freed twice or leak. An address is a page number whose
digits to base `PTES` are the three indices; regions the kernel maps are one page each. A call is one action:
it works on trees only its own process uses, and takes pages from the free list one by one, any of which may be the one that
is not there (`m.left`). Operators translate the C functions one by one, from machine state to machine state. `Run`, `Sched`
and `Leave` are the scheduler's switches of `satp`; a process that has exited stays on its CPU until
`Leave`, and its parent's `Wait` frees it only after that, as in `ExitWait`. `panicked` stops the system, which the run's
deadlock check reports. `copyin_new` tests addresses against `p->sz` only, so the property about it is a property of
the two trees. Permission bits (and so the guard page's), `vmprint` and what `exec` reads are left out.

### Console

Actors are processes and the UART's handler `Irq`. `r`, `w`, `e` count modulo `UintSpan`, `txR` and `txW`
modulo the ring. `Written` are the characters that processes write, any number of them. `thr` is the character the UART sends; `txReady` that it will interrupt. Locks are
spinlocks held over several steps, as the handler spins on the UART within `cons.lock`. `uartputc` on
a full ring sleeps with `cons.lock` still held by `consolewrite`: `sched` panics on the second lock,
which is `UartputcFull`. `printf` bypasses both locks and is left out, as is control-P.

### AiInfer

One action is one system call or one transfer step. `queue[c]` is a pipe's contents, as `Pipe` implements a bounded FIFO, and
`ends[c]` the processes that hold each of its ends, since closing, `fork` and exit decide who sees the
end of a file. `point[p]` is the place of a process, `turn[p]` the worker, request or expected request it is at, `part[p]` what
it has received of a transfer or has yet to send. A record does not fit into a pipe, so it arrives in parts. `GiveUp` and `HelperFails` are failures of
system calls, wherever they may happen. `MainGivesUp` is every `fail` of `run_path` that is about figures and not about its workers: the lock
statistics cannot be read or have gone back, no tick has passed between start and end (`aiinfer.c:515`, which a run that is fast enough meets without any
call failing), the bytes a worker reports are not those of its records, the sum of the outputs is 0. `EndEarly` is a session that a client ends before it has restored everything; `fault`
remembers that one of these has happened, so `FailsOnlyOnFault` says what is left: pipes, exits and waits make no run fail. The model shards (`ai_student_model_load`) are read by one process only and left out,
like the computation and the statistics.

### Composition

Modules meet through what they promise. `Sched` implements `Monitor`, and `Pipe`
and `Log` use `sleep`/`wakeup` as `Monitor` describes them. `Log` uses the buffer
cache by what `Bcache` shows of it (one buffer per block, a pinned buffer is not
recycled, the holder sees the latest contents), and `Bcache` the disk by what
`BlockDevice` says. `ExitWait` and `ChildLimit` use the scheduler's promise that a runnable process runs
(`RunnableRuns`) as their fairness. `AiInfer` uses pipes as `BoundedFifo`s with ends, and `wait` as
`ChildLimit` shows it. `KernelPageTable` takes a page allocator that never hands out a page
twice, which is `Kalloc`'s `PagesInOnePlace`. `Fs` runs inside transactions, which `Log` makes
atomic.

## 3. Runs

| Run | Instance | Result |
|---|---|---|
| `kalloc` | 3 CPUs, Batch 2, 5 pages | passes, 175 239 states |
| `sched` | 2 CPUs, 3 processes | passes, 23 177 states, fair |
| `bcache` | 3 processes, 2 buffers, 2 buckets, 3 blocks, 2 values | passes, 496 268 states up to symmetry |
| `exit_wait` | 3 slots, limits up to 1 | passes, 363 784 states, fair |
| `log` | 3 processes, 2 blocks, 2 values, MAXOPBLOCKS 2, LOGSIZE 4, nlog 3 | passes, 66 944 states up to symmetry |
| `pipe` | 3 processes, PIPESIZE 2, counters modulo 4, 2 bytes | passes, 1 720 608 states up to symmetry |
| `virtio` | 3 callers, 7 descriptors | passes, 86 324 states, fair |
| `fs` | 2 processes, 3 inodes, 1 name, paths of 1 element, 3 calls | passes, 1 473 875 states up to symmetry |
| `fs_orphan` | the same with 2 inodes | violated |
| `kernel_page_table` | 2 processes, 2 CPUs, 40 pages, 3 entries per table, 4 calls | passes, 26 721 states |
| `ai_infer` | 2 workers, 2 requests, records of 3 units through pipes of 2 | passes, 113 727 states, fair |
| `console` | 2 processes, 2 characters written, INPUT_BUF 2, UART_TX_BUF_SIZE 3, counters modulo 4 | passes, 3 505 232 states up to symmetry and stale slots |

What the passing runs show, and why the bounds suffice:

* **kalloc.** Three CPUs are the fewest for which a scan walks past one donor to
  another while a third steals in between; five pages with Batch 2 leave a donor with a
  remainder, a batch and a single page. `NullMeansNothingStayed` is the strongest
  thing that can be said of an answer of 0: pages that move behind the scan are
  missed, and that is by design. The proofs make all of them independent of these bounds.
* **sched.** Two CPUs and three processes: one sleeping, one waking, one
  waiting for a CPU. TLC also checks `RunnableRuns`, which the proofs cannot;
  everything else is proved for any number.
* **bcache.** Two buffers for three processes and three blocks: there is always
  pressure, misses on one block by two processes, a miss within one bucket (blocks 1
  and 3) and between two, and a full cache. `PanicMeansNothingStayedIdle` is what a
  panic does guarantee. Every property of this run is proved for any number of everything.
* **exit_wait.** init, a parent and a child, with slots reused. `WaitReturns` needs
  the wakeup of a child to reach its parent whatever else exits; it excludes init, for which it does
  not hold (see Observations). `WaitFailsRightly` says that a wait that gives up has missed no zombie, though its
  scan takes many steps. A limit of 1 is reached, refused and reached again after a reap. All but
  `WaitReturns` are proved for any number of slots.
* **log.** Two blocks and operations of two blocks make absorption, groups of
  several operations and waiting in `begin_op` all happen. `nlog` is 3, less than LOGSIZE + 1,
  so that `log_write`'s panic is reached and the properties hold beside it.
  Crashes are not bounded. Every property of this run is proved for any log and any operations.
* **pipe.** `UintSpan` 4 is the smallest multiple of PIPESIZE in which a full and an
  empty pipe differ, so the counters wrap all the time. Calls of up to `MaxCount` 2
  bytes split over several sleeps. Three processes are two readers and a writer or the reverse.
  Every property of this run is proved for any PIPESIZE that divides the counters' range.
* **virtio.** Seven descriptors serve two requests and leave one over, which the third caller
  gets, gives back and wakes the others with; the code has eight, which leave two. Two
  requests are answered in either order or within one interrupt. `RequestReturns` has requests that have their descriptors
  return, and callers that sleep for descriptors be woken, which a lost wakeup or a lost descriptor would prevent. Who is woken may be overtaken for
  ever by later callers, and two that wait wake each other for as long as none is free. The instance's `IdxSpan` is
  7, so the indices wrap with the ring; `ImplementsBlockDevice` is proved for every range that NUM divides.
* **fs.** Every tree of up to three inodes, which has a directory in a directory with a file
  or nothing in it, and every pair of working directories; three calls are the fewest in which one call runs between two steps of another and a third
  between two of that one or after both. One name suffices for create, unlink and link to collide; paths of
  one element start at the root, at any directory or at its `..`. `InodesAllocated` asks
  that links cover entries, not that they are as many (see Observations).
* **kernel_page_table.** Two processes on two CPUs, so a CPU stays on a table while another call frees
  one. Three entries per table page keep the three levels apart and put the end of the
  program, its growth, the PLIC limit, kernel stack and trampoline in different tables. Four calls contain a fork, an exec, a growth and the
  reaping of what is left; every kalloc of a call may be the one that fails. Deadlock is checked, which means no panic.
* **console.** Two characters of input make a line that fills the buffer; a transmit ring of three slots is full with two, which
  differ, so that their order shows. What has been read or sent stays in its slot and is never looked at again; states that differ in nothing else
  count as one (`View` in `MCConsole`). A second reader or writer takes what the first was woken for. Every property of this run is proved for any
  number of processes, any sizes and any set of characters written.
* **ai_infer.** Two workers inherit the ends that were open when they were forked, which are not the same
  for both; two requests make the helper read ahead of what is consumed; a record of three units needs two transfers at least.
  All but `RunEnds` is proved for any number of workers and requests and any length of records.

Deadlock is checked except where the system may stop: a panicked kernel
(`bcache`, `fs`, `console`), init asleep beside a zombie it was not woken for (`exit_wait`), a pipe whose last writer is
its own sleeping reader, or which everybody has closed (`pipe`), processes that have made their last call (`fs`), a typist who stops (`console`),
a run that has ended (`ai_infer`).

### Fairness

* `Sched`: strong fairness of a CPU's own steps (a spinning `acquire` that finds
  the lock free again and again gets it) and of its timer, which
  `kernelvec.S` re-arms on every tick; weak fairness of a handler that has started. Nothing
  obliges a thread to take the lock, to wake or to kill.
* `ExitWait`, `ChildLimit`: weak fairness of a thread's steps inside `exit` and `wait`. The timer and
  the round of `scheduler` over `proc[]` justify it, which is `RunnableRuns`. Nothing
  obliges user code to call anything.
* `VirtioDisk`: strong fairness of a caller's steps inside `virtio_disk_rw` and of the interrupt, which both
  compete for `vdisk_lock`; weak fairness of the handler's loop, of the device's serving and of its interrupt.
  Nobody is obliged to call.
* `AiInfer`: weak fairness of each process's own steps, which is `RunnableRuns`. Failures and early ends
  are not obliged to happen: a call that waits is not saved by them.

### Finding

* `fs_orphan` (`kernel/fs.c:356`). `iput` frees an inode and only in a second critical
  section of `icache.lock` drops its reference. In between another process may allocate the same number, unlink it and put it: its `iput` sees two
  references and leaves the freeing to the last one, which is the old `iput`, which does not look. An allocated inode
  stays on the disk with no links, no entries and no references, though `kernel/fs.c:126-128` says that `iput` frees it.

### Observations

The models contain the following behaviours of the code; the properties of the passing runs are stated around them.

* `bget` may panic with "no buffers" although at each moment of its scan some buffer was
  unreferenced: one is released behind the hand while the one ahead is taken by a
  hit, which needs no `evict` (`kernel/bio.c:124`).
* `exit` wakes the parent it read before it dropped its own lock. If that parent hands it to init
  in between, it becomes a zombie of a sleeping init, which finds it at its next wakeup (`kernel/proc.c:370`).
* When that parent has been reaped as well and its slot reused for a grandchild of the exiting process, three exiting
  processes can each hold the lock the next one spins for (`kernel/proc.c:375`). It takes four slots, one more than
  the run has, and a long delay between two lines of `exit`.
* A killed writer that finds the pipe full returns -1 without waking the readers its
  own bytes would serve (`kernel/pipe.c:89`).
* `writei` from a range that is mapped in part changes a buffer and releases it unlogged:
  others read bytes that disappear when the buffer is recycled (`kernel/fs.c:497`). `Log` writes whole blocks only.
* `..` of a removed working directory names its parent even when that is freed: `chdir("..")` panics with
  "ilock: no type" or finds whatever has that number now (`kernel/fs.c:310`). With four calls more can happen: the number has been
  allocated by a `create` that has not locked the inode yet, `link("..", name)` counts a link to it, `create` sets the count
  to 1 over that (`kernel/sysfile.c:267`), and then there are two names and one link: one unlink frees what the other name leads to.
* `create` and `link` add an entry to a directory that may have been removed since it was found; the entry goes with the directory, and the inode
  keeps a link nothing counts.
* `kill(0)` finds a slot that is free, whose pid is 0, and leaves it killed: `allocproc` does not reset that, so the next process in
  the slot exits on its first return to user space (`kernel/proc.c:625`).
* `copyin_new` refuses a range that ends exactly at `p->sz` (`lab4/kernel/vmcopyin.c:31`); the bounds of a copy are not modelled.
* `uartputc` sleeps on a full ring with `cons.lock` held, and `sched` panics (`kernel/uart.c:100`).

## 4. Proofs

All theorems are about the specification's full `Next`, for any values of the
constants that satisfy the assumptions.

**`KallocProofs`**, assuming `ConstantsAssumption` (at least one CPU, a batch of at
least one, a range of pages). The inductive invariant is

    TypeOK, ChainWhilePublishing, BootQuiet, OwnListEmptyInKalloc, OnePlace, NoLeak

`OnePlace` and `NoLeak` are not inductive alone. Publishing must not bury pages,
which needs `OwnListEmptyInKalloc` (only the CPU itself pushes on its list and it is busy),
and a chain must not be overwritten or published empty, which needs
`ChainWhilePublishing`. `BootQuiet` says that nothing happens before `freerange` has
finished. Lemmas about injective sequences say how a batch splits a list. Proved: `TypeInvariant`, `PagesInOnePlace`, `NoPageLost`,
`PublishOnEmptyList`, and `Refinement`: every step of `Kalloc` is a step of
`PageAllocator` or leaves its state alone, because a steal only moves pages
between the lists and chains whose union is the abstract free set.

`NullMissedNothing`, over `ScanSpec`, is about an answer of 0: `NullMeansNothingStayed` holds because, besides the
invariant above, `Behind` does: no page that has stayed where it was since the scan began is on a list the scan has passed.

**`SchedProofs`**, assuming `SchedAssumption` and `IdleAssumption` (at least one process;
`None`, `Idle`, CPUs and processes are distinct). The inductive invariant is

    TypeOK, OnStack, StateOfPc, ProcLocks, CondLock

`OnStack` says which processes are on which CPU's stack and that the scheduler's
loop variable points at the process it runs; `StateOfPc` ties `p->state` to the place
in the code; `ProcLocks` and `CondLock` say who holds `p->lock` and `lk` at
each place. Proved: `TypeInvariant`, `RunsOnOneCpu`, `SwtchHoldsOneLock` and
`Refinement` (of `Monitor`). The argument of `Refinement`: at most one
client wakes at a time, as it holds `lk` (`OneWaker`); a process that is about
to sleep is counted asleep from the release of `lk` on, and a wakeup
that starts then cannot pass it before it is SLEEPING, for its `p->lock` is held
until it has left its stack.

`NoTableGoesStale`, over `TablesSpec` and in the same module, is about lab4: each CPU translates with the kernel page table of the
process on it. It assumes `KernelPageTableAssumption` (process 1 is in the process table, sizes are naturals, addresses fit into three
levels with PLIC at a table's start). The inductive invariant `TablesInv` adds that a process that is not UNUSED has a kernel page table and that
a CPU is on a process that is not UNUSED. A call is one step, and the proof follows the code inside it: the functions on trees leave the
process table alone (`Same`), whatever fails in them; `growproc` and `exec` keep the state and the kernel page table of the caller (`Keep`), and `fork`
and `wait` change only a slot that no CPU is on (`Only`). The loops of `uvmalloc`, `uvmcopy` and `uvmunmap` are recursive functions over
the naturals; `LoopExists` shows that they are defined and `LoopSame` carries what one page does to any number of pages, by
`NatSet`, induction without an operator as parameter, which `WFMin` and `NatLessThanWellFounded` give. That the table's pages are not in the free
list meanwhile is `PagesExact`'s.

**`ChildLimitProofs`**, over `LimitSpec`, assuming `NPROCAssumption` (at least two slots) and `ChildLimitAssumption`. The
inductive invariant is

    TypeOK, StateOfPc, Locks, Family, Looked, GivenAway, ParentKnown, ShellOfInit, Scanned, Counted

`Family` is the heart: a live process has a live parent that is not itself. `exit` breaks it unless `GivenAway` says that
`reparent`'s loop leaves no child behind its index, which needs `Looked` (a child read without its lock stays a child until it
is locked, since only its parent changes that) and `ParentKnown` with `Locks` (the parent `exit` has read, if it is not the
parent any more, is locked, and so is not yet a zombie that somebody frees). `Scanned` says what `wait` knows of the slots behind
its index; `ShellOfInit` restricts that, for init, to its own shell. `Counted` has the count of children exact wherever a process
may still fork; no other part depends on it. Proved: `ParentsAlive`, `CountsExact`, `ReapedInPeace`, `WaitGivesUpRightly`.

**`BcacheProofs`**, assuming `ConstantsAssumption` (at least one buffer and bucket, finitely many processes, some block and
some value). The inductive invariant is

    Types, Linked, Scanning, Identity, Owned, PinnedValid, OneBufferPerBlock, Current, RefcntExact

`OneBufferPerBlock` could fail only when a victim is installed; `Scanning` says that one process holds `evict` from its second look
on, that nothing has brought its block in since, and that its victim is unreferenced. `Linked` puts a buffer into the bucket of
its number and no other. `Identity` says that a reference keeps a buffer's block, for which counts must be exact: a scan takes
buffers with count 0 only, so `RefcntExact` is part of the invariant. `Current` locates the last contents of a block: in the buffer
that caches it, and on disk unless the log has it pinned; `Owned` and `PinnedValid` keep it true while buffers are
loaded, written and flushed. Proved: `TypeCorrect`, `OneCopy`, `CountsExact`, `HoldersSeeLatest`, and, over `ScanSpec`,
`ScanMissesNothing`: with `StillAhead`, that a buffer which has stayed idle is ahead of the hand within the turns that are left, a scan that comes
to its end has passed no such buffer.

**`LogProofs`**, assuming `LogAssumption` (a log of at most LOGSIZE blocks beside its header, finitely many processes, some
value). The inductive invariant is

    Types, Booting, Closing, Writing, Counted, Wrote, Reserved, Pins, Header, Data, SleepersMustWait

`Booting` and `Closing` say that one process recovers and one commits, with no operation open; `Counted` and `Wrote` tie
`outstanding` and the log's length to what the open operations have logged, without which `Reserved` is not inductive.
`Pins` has a block pinned as long as it is in the log and not installed. `Header` and `Data` say how the header on disk, the log
blocks, the cache and the home blocks agree at each point of the commit. Proved: `TypeCorrect`, `ReservationHolds`,
`NoLostWakeup`, `PinnedTillInstalled`, and `Refinement`: the disk a crash would leave, which is the home blocks with the log replayed
over them as far as its header says (`Replay`), changes in one step, the write of the header, to what the operations have
written together; every other step, a crash in the middle of recovery included, leaves it alone.

**`PipeProofs`**, assuming `PipeAssumption` (PIPESIZE divides the range of the counters, which is at least twice as large;
finitely many processes, some byte). The inductive invariant is

    Types, Inside, Counted, Ends, Sleepers, Fits

`Counted` and `Ends` say that an end is open until the one process that closed its last descriptor has been through `pipeclose`,
from which `FreedOnce` follows. `Sleepers` and `Fits` are about `NoLostWakeup` and `Refinement`. That the bytes between
two wrapping counters are a FIFO needs lemmas about remainders: a slot's index survives the wrap of the counters because
PIPESIZE divides their range. Proved: `TypeCorrect`, `FreedOnce`, `NoLostWakeup`, `Refinement` (of `BoundedFifo`).

**`PipeProofs`**, the AI runs, over `RunSpec`, assuming `AiInferAssumption` (at least one worker, request and unit of a record and
a result; the start pipe has room for a token per worker, and a result pipe for a result, as 512 bytes have for both). The inductive invariant is

    RunTypes, for each worker Handed, Fresh, Protocol, Unused, EndsHeld; Unforked; and fault or NoFault

`Protocol` is what `PrefetchIsFaithful` rests on: while a worker waits, its request is in the command pipe (`Asked`), with the helper (`Taken`), or
answered, in which case what the worker has, what the data pipe holds and what the helper has yet to send are, in this order, the
acknowledgement and the record asked for (`Answering`, `Answered`), however the transfers cut it up. `Fresh` starts it, `EndsHeld` says that neither end
of the two pipes is closed under it. `NoFault` is what is lost when something fails: nobody has failed, `Finished` says that nothing is under way
after the last record, `ResultKept` that a result is with its worker, in its pipe or with `run_path`,
and `StartInv` that there is a token for each worker that has yet to take one, for which the waiting workers are counted. Since no read comes to an
end of file and no write to a broken pipe while it holds, only a fault ends it: `RunsDoNotFail`.

**`DriverProofs`**, the disk, assuming `VirtioAssumption` (NUM divides the range of a ring index; `None` is neither a process nor a
descriptor). The inductive invariant is

    Types, Requests, OneOwner, Chained, Places, Windows, ~panicked

`OneOwner` says that a descriptor is free or in the chain of one request, `Requests` that a process has a request from queueing
it to freeing it, and that one which is over has its status. `Places` has the entries of the rings and what the device works on be
different requests in progress. `Windows` has a ring's entries be those between its two indices, which may wrap at different times;
that the ring never fills up, and so an empty ring is told from a full one, is a pigeonhole argument: a request takes more than one descriptor
(`Chained`), so there are always two that are not in the ring. Proved: `TypeCorrect`, `NeverPanics`, `DescriptorsOwned`, `RingsHoldRequests`,
and `Refinement` of `BlockDevice`: the answer that the device gives is the transfer, whichever caller it wakes and when.

**`DriverProofs`**, the console, over `ConsoleSpec`, assuming `ConsoleAssumption` (INPUT_BUF divides the range of the
counters, which is at least twice as large; a transmit ring of at least two slots; the handler is no process). The inductive invariant is

    ConsoleTypes, Guarded, MaySend, NothingToRead, KeyFits, InputFits, OutputGoesOn

`Guarded` says where `cons.lock` and `uart_tx_lock` are held. `MaySend` has the UART stay idle between the test of LSR and the write to
THR: `uartputc_sync` does not take `uart_tx_lock`, but whoever is in `uartstart` holds `cons.lock` or is the handler itself. `InputFits` leaves room for the character
that is being echoed before it is stored. `NothingToRead` holds between the steps of `sleep` too, as the handler wakes readers with
`cons.lock` held. Proved: `InputNeverOverflows`, `NoReaderForgotten`, `OutputNeverStuck`, and
`ConsoleRefinement` of `Terminal`, whose line, finished input and output are the stretches between the three counters and between the ring's two; the lemmas about
remainders (`RingPut`, `RingTake`, `RingErase`, `RingJoins`) say how a stretch changes when a counter moves.

**`FsProofs`**, over `StraySpec`, assuming `FsAssumption` (inode numbers are naturals, with the root's among them; finitely many processes,
inodes and names; `None` is none of these, and `".."` no name that a call may choose freely). Inductive in all behaviours, also after a call has gone astray, is

    IInv: Types, Shape, RefsExact, Locks, Cached, Settled, Seen, Panics

`Shape` says what a call holds at each place, so that `RefsExact` can count it: the references of one process are split off those of the
others, and a step moves only its own. `Locks` ties the holders of an inode's lock to their place; without it nobody knows that a
cached inode which differs from the disk (`Cached`) is locked. `Settled` and `Seen` are what `create` and `unlink` rely on while a
directory is locked: it stays a directory, which `iput` does not empty, and the entry that was looked up stays there. With them
`dirlookup` and `dirlink` do not panic. Proved: `FsTypes`, `ReferencesCounted`, `CacheWrittenThrough`. Until a call goes astray there is also

    Tame: Counted, Alive, Fresh, Doomed, Tree, LinksToFiles, no panic but for want of inodes or slots

`Alive` (what is in use is allocated) is what users need; it is not inductive alone, since `iput` frees an inode. That the last user frees it
needs exact references and `Counted`: `nlink` is at least the number of entries, of subdirectories and of the links that calls have
counted and not yet entered, or erased and not yet counted. `Fresh` and `Doomed` keep an inode that `create` has allocated and has
not locked, and one that `iput` is about to free, away from everyone else. For both, nothing may lead to an inode
without links; through names nothing does, by `Counted`, and `Tree` shows it for the `..` of a directory that is still named; the
others are what `astray` is about. Proved: `InodesStayAllocated`, `NoTwoWait` (whoever waits for an inode while it holds one stands in a
directory and waits for its entry or for a new inode, and `Tree` has no two directories that name each other) and `OnlyInodesRunOut`.
That the first and the last are lost once a call has gone astray is no weakness of the proof: see Observations.

Only model-checked: all liveness (`RunnableRuns`, `WaitReturns`, `RequestReturns`, `RunEnds`), which needs fairness, and
`PagesExact` and `CopyinReadsUserMemory` of `KernelPageTable`. Fairness and ENABLED are beyond the prover. The two invariants are not:
their loops can be reasoned about as for `NoTableGoesStale`. But `uvmunmap`, `freewalk` and `mappages` panic unless exactly the pages below
`sz` are mapped, so the two need each other, the absence of panics, and who owns which page in the middle of every function, undone
halves included. No module here declares a RECURSIVE operator. `OrphanIsReferenced` is false, as `fs_orphan` shows.

## 5. Plan

Every component with shared state has its module, and its proofs. What could follow:

1. `PagesExact` and `CopyinReadsUserMemory` as theorems: an invariant of the machine state within a call that says which tree, frame
   or local variable owns each page, kept by each function of `KernelPageTable` (the sum of sizes restated as disjointness).
2. `readi`, `writei` and `bmap` above `Fs`, which would put file contents and `either_copyin`'s failure within reach of a property.
3. NFILE, `dup` and offsets as a module of their own between `Pipe` and `Fs`.

## 6. Not modelled

* Contents of files (`readi`, `writei`, `bmap`, `balloc`), devices and offsets: one process at a time works on a file under the
  inode's lock, and the bitmap is a block like any other to `Bcache` and `Log`.
* NFILE, `dup` and `pipealloc`'s errors; `push_off`'s nesting; the lock statistics; `printf`; `sys_sleep`.
* System call dispatch, argument fetching, traps, machine set-up: sequential per hart.
* Lab 1's kernel and the parts of labs 2 and 4 that repeat lab 3's or lab 1's code: `src/` holds four copies of the kernel, of which
  each component is modelled in the version where it is richest. `user/usertests.c`, likewise in four copies, the other
  tests, graders and host tools are clients of what is modelled; with the sequential user programs they are
  the larger part of the lines in `src/`.
* The computation of the AI workload, its statistics and its model cache: one process, no shared state.
