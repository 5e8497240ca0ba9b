-------------------------------- MODULE Log --------------------------------
(***************************************************************************)
(* lab3/kernel/log.c: the redo log that makes groups of file system calls  *)
(* atomic with respect to crashes.                                         *)
(*                                                                         *)
(* The disk is home (the file system's blocks), hlog (the log's data       *)
(* blocks) and head (its header block); one bwrite is one step, and the    *)
(* machine may crash before and after each.  Memory is the buffer cache,   *)
(* reduced to what bio.c promises (cached data, pins, a sleeplock per      *)
(* buffer), and struct log.  log.lock is held for whole actions only.      *)
(* log.lh is the sequence of its first n blocks.                           *)
(*                                                                         *)
(* pc[p] is where process p is: "idle" outside the file system, "begin"    *)
(* about to take log.lock in begin_op, "asleep" on &log, "op" between      *)
(* begin_op and end_op, "dirty" and "append" in a write of one block, then *)
(* the steps of end_op, "commit" to "finish".  While the machine boots,    *)
(* one process runs initlog ("readHead" to "clear") and the others do not  *)
(* exist ("off"); "panic" is a process that has panicked.                  *)
(***************************************************************************)
EXTENDS Integers, Sequences, FiniteSets, Functions

CONSTANTS
  Proc,        \* processes
  Block,       \* block numbers of the file system
  Value,       \* contents of a block
  MAXOPBLOCKS, \* blocks an operation may write
  LOGSIZE,     \* length of log.lh.block[]
  nlog,        \* log.size: blocks of the on-disk log, its header included
  None         \* no block, no cached data

ASSUME LogAssumption ==
  /\ MAXOPBLOCKS \in Nat \ {0} /\ LOGSIZE \in Nat /\ nlog \in Nat
  /\ nlog <= LOGSIZE + 1
  /\ IsFiniteSet(Proc) /\ Value # {}
  /\ None \notin Block /\ None \notin Value

VARIABLES
  home,        \* disk: home[b], the contents of block b
  hlog,        \* disk: hlog[i], the log's i-th data block
  head,        \* disk: the header block, the list of committed blocks
  cache,       \* cache[b]: data of b's buffer, or None when b has none
  pins,        \* pins[b]: references bpin holds on b's buffer
  holds,       \* holds[p]: the block whose buffer p has locked, or None
  lh,          \* log.lh
  outstanding, \* log.outstanding
  committing,  \* log.committing
  pc,
  tail,        \* tail[p]: the loop variable of write_log and install_trans
  wrote        \* wrote[p]: the blocks p's operation has logged

disk == <<home, hlog, head>>
bufs == <<cache, pins, holds>>
log == <<lh, outstanding, committing>>
vars == <<disk, bufs, log, pc, tail, wrote>>

NoneFor(S) == [x \in S |-> None]

(* A disk made by mkfs, and the first process about to run initlog.        *)
Init ==
  /\ home \in [Block -> Value]
  /\ hlog \in [1 .. LOGSIZE -> {CHOOSE v \in Value : TRUE}]
  /\ head = <<>>
  /\ cache = NoneFor(Block) /\ pins = [b \in Block |-> 0] /\ holds = NoneFor(Proc)
  /\ lh = <<>> /\ outstanding = 0 /\ committing = FALSE
  /\ \E p \in Proc : pc = [q \in Proc |-> IF q = p THEN "readHead" ELSE "off"]
  /\ tail = [p \in Proc |-> 0] /\ wrote = [p \in Proc |-> {}]

Goto(p, l) == pc' = [pc EXCEPT ![p] = l]
(* wakeup(&log): the sleepers take log.lock again and look again.          *)
Woken == [p \in Proc |-> IF pc[p] = "asleep" THEN "begin" ELSE pc[p]]
(* bread(b): the cached data, or what the disk holds.                      *)
Bread(b) == IF cache[b] = None THEN home[b] ELSE cache[b]
Locked(b) == \E p \in Proc : holds[p] = b

-----------------------------------------------------------------------------
(* begin_op, outside log.lock and then under it.                           *)
Call(p) ==
  /\ pc[p] = "idle"
  /\ Goto(p, "begin")
  /\ UNCHANGED <<disk, bufs, log, tail, wrote>>

(* Mutant: the caller's own blocks are not counted.                        *)
MustWaitForOthers == committing \/ Len(lh) + outstanding * MAXOPBLOCKS > LOGSIZE

MustWait == committing \/ Len(lh) + (outstanding + 1) * MAXOPBLOCKS > LOGSIZE

BeginSleep(p) ==
  /\ pc[p] = "begin" /\ MustWait
  /\ Goto(p, "asleep")
  /\ UNCHANGED <<disk, bufs, log, tail, wrote>>

BeginOp(p) ==
  /\ pc[p] = "begin" /\ ~MustWait
  /\ outstanding' = outstanding + 1
  /\ Goto(p, "op")
  /\ UNCHANGED <<disk, bufs, lh, committing, tail, wrote>>

(* bread and change the data: the buffer stays locked until log_write is   *)
(* done.  "max # of blocks any FS op writes" bounds the operation.         *)
Modify(p, b, v) ==
  /\ pc[p] = "op" /\ ~Locked(b)
  /\ Cardinality(wrote[p] \cup {b}) <= MAXOPBLOCKS
  /\ cache' = [cache EXCEPT ![b] = v]
  /\ holds' = [holds EXCEPT ![p] = b]
  /\ Goto(p, "dirty")
  /\ UNCHANGED <<disk, pins, log, tail, wrote>>

(* log_write reads log.lh.n before it takes log.lock.                      *)
TooBig == Len(lh) >= LOGSIZE \/ Len(lh) >= nlog - 1

LogWrite(p) ==
  /\ pc[p] = "dirty" /\ ~TooBig /\ outstanding >= 1
  /\ Goto(p, "append")
  /\ UNCHANGED <<disk, bufs, log, tail, wrote>>

(* panic: this CPU spins for good, its operation open and its buffer       *)
(* locked; the others go on until they want to print.                      *)
LogWritePanic(p) ==
  /\ pc[p] = "dirty"
  /\ TooBig \/ outstanding < 1
  /\ Goto(p, "panic")
  /\ UNCHANGED <<disk, bufs, log, tail, wrote>>

(* Mutant: no absorption.                                                  *)
LogAppendAlways(p) ==
  LET b == holds[p] IN
  /\ pc[p] = "append"
  /\ lh' = Append(lh, b)
  /\ pins' = [pins EXCEPT ![b] = @ + 1]
  /\ holds' = [holds EXCEPT ![p] = None]
  /\ wrote' = [wrote EXCEPT ![p] = @ \cup {b}]
  /\ Goto(p, "op")
  /\ UNCHANGED <<disk, cache, outstanding, committing, tail>>

(* Record the block, pin a new one, and brelse the buffer.                 *)
LogAppend(p) ==
  LET b == holds[p]
      new == b \notin Range(lh) IN
  /\ pc[p] = "append"
  /\ lh' = IF new THEN Append(lh, b) ELSE lh
  /\ pins' = IF new THEN [pins EXCEPT ![b] = @ + 1] ELSE pins
  /\ holds' = [holds EXCEPT ![p] = None]
  /\ wrote' = [wrote EXCEPT ![p] = @ \cup {b}]
  /\ Goto(p, "op")
  /\ UNCHANGED <<disk, cache, outstanding, committing, tail>>

(* Mutant: an end_op that does not commit wakes nobody.                    *)
EndOpSilent(p) ==
  /\ pc[p] = "op" /\ ~committing
  /\ outstanding' = outstanding - 1
  /\ committing' = (outstanding = 1)
  /\ Goto(p, IF outstanding = 1 THEN "commit" ELSE "idle")
  /\ wrote' = [wrote EXCEPT ![p] = {}]
  /\ UNCHANGED <<disk, bufs, lh, tail>>

(* end_op's first critical section.  It panics if somebody is committing:  *)
(* nobody is, as the commit waits for the last open operation.             *)
EndOp(p) ==
  /\ pc[p] = "op" /\ ~committing
  /\ outstanding' = outstanding - 1
  /\ IF outstanding = 1
     THEN committing' = TRUE /\ Goto(p, "commit")
     ELSE pc' = [Woken EXCEPT ![p] = "idle"] /\ UNCHANGED committing
  /\ wrote' = [wrote EXCEPT ![p] = {}]
  /\ UNCHANGED <<disk, bufs, lh, tail>>

-----------------------------------------------------------------------------
(* commit, called without locks: one step per bwrite.                      *)
(* Mutant: the header reaches the disk before the blocks do.               *)
CommitHeadFirst(p) ==
  /\ pc[p] = "commit"
  /\ head' = lh
  /\ Goto(p, IF lh = <<>> THEN "finish" ELSE "writeLog")
  /\ tail' = [tail EXCEPT ![p] = 0]
  /\ UNCHANGED <<home, hlog, bufs, log, wrote>>

Commit(p) ==
  /\ pc[p] = "commit"
  /\ Goto(p, IF lh = <<>> THEN "finish" ELSE "writeLog")
  /\ tail' = [tail EXCEPT ![p] = 0]
  /\ UNCHANGED <<disk, bufs, log, wrote>>

WriteLog(p) ==
  LET i == tail[p] + 1 IN
  /\ pc[p] = "writeLog" /\ tail[p] < Len(lh)
  /\ ~Locked(lh[i])
  /\ cache' = [cache EXCEPT ![lh[i]] = Bread(lh[i])]
  /\ hlog' = [hlog EXCEPT ![i] = Bread(lh[i])]
  /\ tail' = [tail EXCEPT ![p] = i]
  /\ UNCHANGED <<home, head, pins, holds, log, pc, wrote>>

(* write_head: "the true point at which the current transaction commits".  *)
WriteHead(p) ==
  /\ pc[p] = "writeLog" /\ tail[p] = Len(lh)
  /\ head' = lh
  /\ tail' = [tail EXCEPT ![p] = 0]
  /\ Goto(p, "install")
  /\ UNCHANGED <<home, hlog, bufs, log, wrote>>

(* install_trans; only a commit, not a recovery, unpins.                   *)
InstallTrans(p) ==
  LET i == tail[p] + 1 IN
  /\ pc[p] \in {"install", "recover"} /\ tail[p] < Len(lh)
  /\ ~Locked(lh[i])
  /\ cache' = [cache EXCEPT ![lh[i]] = hlog[i]]
  /\ home' = [home EXCEPT ![lh[i]] = hlog[i]]
  /\ pins' = IF pc[p] = "install" THEN [pins EXCEPT ![lh[i]] = @ - 1] ELSE pins
  /\ tail' = [tail EXCEPT ![p] = i]
  /\ UNCHANGED <<hlog, head, holds, log, pc, wrote>>

(* log.lh.n = 0 and write_head, in commit and in recover_from_log.         *)
ClearHead(p) ==
  /\ pc[p] \in {"install", "recover"} /\ tail[p] = Len(lh)
  /\ lh' = <<>>
  /\ head' = <<>>
  /\ pc' = IF pc[p] = "install" THEN [pc EXCEPT ![p] = "finish"]
           ELSE [q \in Proc |-> "idle"]
  /\ tail' = [tail EXCEPT ![p] = 0]
  /\ UNCHANGED <<home, hlog, bufs, outstanding, committing, wrote>>

(* end_op's second critical section.                                       *)
Finish(p) ==
  /\ pc[p] = "finish"
  /\ committing' = FALSE
  /\ pc' = [Woken EXCEPT ![p] = "idle"]
  /\ UNCHANGED <<disk, bufs, lh, outstanding, tail, wrote>>

-----------------------------------------------------------------------------
(* The rest of the machine: processes read blocks outside of operations    *)
(* too, bget may recycle a buffer nobody refers to, and a machine that     *)
(* crashes or has panicked starts again with its disk.                     *)
Read(p, b) ==
  /\ pc[p] \in {"idle", "op"} /\ cache[b] = None
  /\ cache' = [cache EXCEPT ![b] = home[b]]
  /\ UNCHANGED <<disk, pins, holds, log, pc, tail, wrote>>

Evict(b) ==
  /\ cache[b] # None /\ pins[b] = 0 /\ ~Locked(b)
  /\ cache' = [cache EXCEPT ![b] = None]
  /\ UNCHANGED <<disk, pins, holds, log, pc, tail, wrote>>

Crash ==
  /\ cache' = NoneFor(Block) /\ pins' = [b \in Block |-> 0] /\ holds' = NoneFor(Proc)
  /\ lh' = <<>> /\ outstanding' = 0 /\ committing' = FALSE
  /\ \E p \in Proc : pc' = [q \in Proc |-> IF q = p THEN "readHead" ELSE "off"]
  /\ tail' = [p \in Proc |-> 0] /\ wrote' = [p \in Proc |-> {}]
  /\ UNCHANGED disk

(* recover_from_log reads the header and installs what was committed.      *)
ReadHead(p) ==
  /\ pc[p] = "readHead"
  /\ lh' = head
  /\ Goto(p, "recover")
  /\ UNCHANGED <<disk, bufs, outstanding, committing, tail, wrote>>

Committer(p) ==
  \/ Commit(p) \/ WriteLog(p) \/ WriteHead(p)
  \/ InstallTrans(p) \/ ClearHead(p) \/ Finish(p)

Write(p) == LogWrite(p) \/ LogWritePanic(p) \/ LogAppend(p)

Next ==
  \/ \E p \in Proc :
       \/ Call(p) \/ BeginSleep(p) \/ BeginOp(p)
       \/ \E b \in Block, v \in Value : Modify(p, b, v)
       \/ Write(p) \/ EndOp(p) \/ Committer(p) \/ ReadHead(p)
       \/ \E b \in Block : Read(p, b)
  \/ \E b \in Block : Evict(b)
  \/ Crash

Spec == Init /\ [][Next]_vars

-----------------------------------------------------------------------------
(* Every variable has its type.                                            *)
TypeOK ==
  /\ home \in [Block -> Value] /\ hlog \in [1 .. LOGSIZE -> Value]
  /\ \A s \in {lh, head} : s \in Seq(Block) /\ Len(s) <= LOGSIZE
  /\ cache \in [Block -> Value \cup {None}] /\ pins \in [Block -> Nat]
  /\ holds \in [Proc -> Block \cup {None}]
  /\ outstanding \in 0 .. Cardinality(Proc) /\ committing \in BOOLEAN
  /\ pc \in [Proc -> {"off", "panic", "idle", "begin", "asleep", "op", "dirty",
                      "append", "commit", "writeLog", "install", "finish",
                      "readHead", "recover"}]
  /\ tail \in [Proc -> 0 .. LOGSIZE] /\ wrote \in [Proc -> SUBSET Block]

InOperation(p) == pc[p] \in {"op", "dirty", "append", "panic"}
Committing(p) == pc[p] \in {"commit", "writeLog", "install", "finish"}

(* The places of the log that open operations may still fill: the one for  *)
(* the i-th block p logs, unless p has logged as many.                     *)
Reserve ==
  {r \in Proc \X (1 .. MAXOPBLOCKS) : InOperation(r[1]) /\ r[2] > Cardinality(wrote[r[1]])}

(* begin_op's reservation is enough: what is logged and what the open      *)
(* operations may still log fit into log.lh.block[], although log_write    *)
(* checks the length before it takes log.lock.                             *)
Reserved == Len(lh) + Cardinality(Reserve) <= LOGSIZE

(* The first position of log.lh that no bunpin has released; recovery has  *)
(* pinned nothing.                                                         *)
Installing ==
  IF \E p \in Proc : pc[p] = "recover" THEN Len(lh) + 1
  ELSE IF \E p \in Proc : pc[p] = "install"
       THEN tail[CHOOSE p \in Proc : pc[p] = "install"] + 1
       ELSE 1

(* Absorption: a block is in the log once, and bpin and bunpin pair up: a  *)
(* block has one pin from its log_write to its installation, else none.    *)
PinnedUntilInstalled ==
  /\ IsInjective(lh)
  /\ \A b \in Block :
       pins[b] = Cardinality({i \in Installing .. Len(lh) : lh[i] = b})

(* No lost wakeup: whoever sleeps in begin_op would have to wait still, as *)
(* every step that makes room wakes the sleepers.                          *)
SleepersMustWait == \A p \in Proc : pc[p] = "asleep" => MustWait

(* What recover_from_log makes of the disk, and what file system calls see *)
(* of it through the buffer cache while the machine is up.                 *)
Up == \A p \in Proc : pc[p] \notin {"off", "readHead", "recover"}
Recovered ==
  [b \in Block |-> IF b \in Range(head)
                   THEN hlog[CHOOSE i \in 1 .. Len(head) : head[i] = b]
                   ELSE home[b]]
Seen == IF Up THEN [b \in Block |-> Bread(b)] ELSE Recovered
Phase == [p \in Proc |-> IF ~Up THEN "idle"
                         ELSE IF InOperation(p) THEN "open"
                         ELSE IF Committing(p) THEN "closing" ELSE "idle"]

(* The log, the pinned buffers and recovery implement a disk that changes  *)
(* by whole groups of operations, wherever the machine crashes.            *)
Disk == INSTANCE AtomicDisk WITH stable <- Recovered, mem <- Seen, phase <- Phase
ImplementsAtomicDisk == Disk!Spec
=============================================================================
