-------------------------------- MODULE Pipe --------------------------------
(***************************************************************************)
(* lab3/kernel/pipe.c and the reference counts of file.c: one pipe, the    *)
(* processes that inherited its ends, and kill.                            *)
(*                                                                         *)
(* sleep and wakeup are what Monitor makes of Sched, with one difference:  *)
(* kill does not take pi->lock, so it may come between the test of         *)
(* p->killed and the moment p is SLEEPING.  A read or a write works byte   *)
(* by byte with pi->lock held.                                             *)
(*                                                                         *)
(* pc[p] is where process p is: "out" of the pipe's code; "write" in       *)
(* pipewrite's loop, "read" in piperead's second loop and "await" in its   *)
(* first; "sleepW" and "sleepR" in sleep, lock held, not yet SLEEPING;     *)
(* "asleepW", "asleepR"; "wokenW", "wokenR" about to take the lock again;  *)
(* "closeW", "closeR" between fileclose and pipeclose.                     *)
(***************************************************************************)
EXTENDS Integers, FiniteSets

CONSTANTS
  Proc,      \* processes
  Byte,      \* what a byte may be
  PIPESIZE,  \* bytes the pipe holds
  UintSpan,  \* values of a uint (2^32)
  MaxCount,  \* bound on the byte count of a call
  None       \* no process

(* In C, 512 divides 2^32: the index keeps its place when a counter wraps. *)
ASSUME PipeAssumption ==
  /\ PIPESIZE \in Nat \ {0} /\ UintSpan \in Nat /\ UintSpan >= 2 * PIPESIZE
  /\ UintSpan % PIPESIZE = 0
  /\ MaxCount \in Nat /\ None \notin Proc
  /\ IsFiniteSet(Proc) /\ Byte # {}

VARIABLES
  data, nread, nwrite, readopen, writeopen,   \* struct pipe
  lock,    \* the process that holds pi->lock
  freed,   \* kfree has had the pipe's page
  ref,     \* ref[e]: f->ref of the file of end e
  ofile,   \* ofile[p]: the ends p has open
  killed,  \* killed[p]: p->killed
  pc,
  left     \* left[p]: n - i

pipe == <<data, nread, nwrite, readopen, writeopen>>
vars == <<pipe, lock, freed, ref, ofile, killed, pc, left>>

End == {"R", "W"}

(* pipealloc: the two files of the process that called pipe().             *)
Init ==
  /\ data \in [0 .. PIPESIZE - 1 -> {CHOOSE b \in Byte : TRUE}]
  /\ nread = 0 /\ nwrite = 0 /\ readopen = TRUE /\ writeopen = TRUE
  /\ lock = None /\ freed = FALSE
  /\ ref = [e \in End |-> 1]
  /\ \E p \in Proc : ofile = [q \in Proc |-> IF q = p THEN End ELSE {}]
  /\ killed = [p \in Proc |-> FALSE]
  /\ pc = [p \in Proc |-> "out"] /\ left = [p \in Proc |-> 0]

Goto(p, l) == pc' = [pc EXCEPT ![p] = l]

Inc(n) == (n + 1) % UintSpan
Empty == nread = nwrite

(* Mutant: one byte too many.                                              *)
FullLate == nwrite = (nread + PIPESIZE + 1) % UintSpan

Full == nwrite = (nread + PIPESIZE) % UintSpan
(* wakeup(chan), and p goes on at l.                                       *)
Woken(asleep, woken, p, l) ==
  [q \in Proc |-> IF q = p THEN l ELSE IF pc[q] = asleep THEN woken ELSE pc[q]]
WakeReaders(p, l) == pc' = Woken("asleepR", "wokenR", p, l)
WakeWriters(p, l) == pc' = Woken("asleepW", "wokenW", p, l)

-----------------------------------------------------------------------------
(* Mutant: the child's descriptors are not counted.                        *)
ForkNoDup(p, q) ==
  /\ pc[p] = "out" /\ ~killed[p] /\ ofile[p] # {}
  /\ pc[q] = "out" /\ ofile[q] = {}
  /\ ofile' = [ofile EXCEPT ![q] = ofile[p]]
  /\ killed' = [killed EXCEPT ![q] = FALSE]
  /\ UNCHANGED <<pipe, lock, freed, ref, pc, left>>

(* fork: filedup of each open file.  q has no process that uses the pipe.  *)
Fork(p, q) ==
  /\ pc[p] = "out" /\ ~killed[p] /\ ofile[p] # {}
  /\ pc[q] = "out" /\ ofile[q] = {}
  /\ ofile' = [ofile EXCEPT ![q] = ofile[p]]
  /\ ref' = [e \in End |-> IF e \in ofile[p] THEN ref[e] + 1 ELSE ref[e]]
  /\ killed' = [killed EXCEPT ![q] = FALSE]
  /\ UNCHANGED <<pipe, lock, freed, pc, left>>

(* fileclose, from close() and exit(); only the last one calls pipeclose.  *)
Fileclose(p, e) ==
  /\ pc[p] = "out" /\ e \in ofile[p]
  /\ ofile' = [ofile EXCEPT ![p] = @ \ {e}]
  /\ ref' = [ref EXCEPT ![e] = @ - 1]
  /\ IF ref[e] > 1 THEN UNCHANGED pc
     ELSE Goto(p, IF e = "W" THEN "closeW" ELSE "closeR")
  /\ UNCHANGED <<pipe, lock, freed, killed, left>>

(* pipeclose, under pi->lock from end to end; kfree comes right behind.    *)
Pipeclose(p) ==
  /\ pc[p] \in {"closeW", "closeR"} /\ lock = None
  /\ IF pc[p] = "closeW"
     THEN writeopen' = FALSE /\ WakeReaders(p, "out") /\ UNCHANGED readopen
     ELSE readopen' = FALSE /\ WakeWriters(p, "out") /\ UNCHANGED writeopen
  /\ freed' = (~readopen' /\ ~writeopen')
  /\ UNCHANGED <<data, nread, nwrite, lock, ref, ofile, killed, left>>

-----------------------------------------------------------------------------
(* pipewrite                                                               *)
Call(p, e, l) ==
  /\ pc[p] = "out" /\ ~killed[p] /\ e \in ofile[p]
  /\ lock = None /\ lock' = p
  /\ Goto(p, l)
  /\ \E n \in 0 .. MaxCount : left' = [left EXCEPT ![p] = n]
  /\ UNCHANGED <<pipe, freed, ref, ofile, killed>>

Pipewrite(p) == Call(p, "W", "write")

WriteByte(p, b) ==
  /\ pc[p] = "write" /\ left[p] > 0 /\ ~Full
  /\ data' = [data EXCEPT ![nwrite % PIPESIZE] = b]
  /\ nwrite' = Inc(nwrite)
  /\ left' = [left EXCEPT ![p] = @ - 1]
  /\ UNCHANGED <<nread, readopen, writeopen, lock, freed, ref, ofile, killed, pc>>

(* All bytes are written, or copyin finds addr + i unmapped.               *)
WriteReturn(p) ==
  /\ pc[p] = "write" /\ (left[p] = 0 \/ ~Full)
  /\ WakeReaders(p, "out")
  /\ lock' = None
  /\ left' = [left EXCEPT ![p] = 0]
  /\ UNCHANGED <<pipe, freed, ref, ofile, killed>>

(* return -1: the readers are not woken.                                   *)
WriteFail(p) ==
  /\ pc[p] = "write" /\ left[p] > 0 /\ Full
  /\ ~readopen \/ killed[p]
  /\ Goto(p, "out")
  /\ lock' = None
  /\ left' = [left EXCEPT ![p] = 0]
  /\ UNCHANGED <<pipe, freed, ref, ofile, killed>>

WriteFull(p) ==
  /\ pc[p] = "write" /\ left[p] > 0 /\ Full
  /\ readopen /\ ~killed[p]
  /\ WakeReaders(p, "sleepW")
  /\ UNCHANGED <<pipe, lock, freed, ref, ofile, killed, left>>

-----------------------------------------------------------------------------
(* piperead                                                                *)
Piperead(p) == Call(p, "R", "await")

ReadEmpty(p) ==
  /\ pc[p] = "await" /\ Empty /\ writeopen /\ ~killed[p]
  /\ Goto(p, "sleepR")
  /\ UNCHANGED <<pipe, lock, freed, ref, ofile, killed, left>>

ReadFail(p) ==
  /\ pc[p] = "await" /\ Empty /\ writeopen /\ killed[p]
  /\ Goto(p, "out")
  /\ lock' = None
  /\ left' = [left EXCEPT ![p] = 0]
  /\ UNCHANGED <<pipe, freed, ref, ofile, killed>>

ReadStart(p) ==
  /\ pc[p] = "await" /\ ~(Empty /\ writeopen)
  /\ Goto(p, "read")
  /\ UNCHANGED <<pipe, lock, freed, ref, ofile, killed, left>>

ReadByte(p) ==
  /\ pc[p] = "read" /\ left[p] > 0 /\ ~Empty
  /\ nread' = Inc(nread)
  /\ left' = [left EXCEPT ![p] = @ - 1]
  /\ UNCHANGED <<data, nwrite, readopen, writeopen, lock, freed, ref, ofile, killed, pc>>

(* Mutant: the writers are not woken.                                      *)
ReadReturnSilent(p) ==
  /\ pc[p] = "read"
  /\ \/ (left[p] = 0 \/ Empty) /\ UNCHANGED nread
     \/ left[p] > 0 /\ ~Empty /\ nread' = Inc(nread)
  /\ Goto(p, "out")
  /\ lock' = None
  /\ left' = [left EXCEPT ![p] = 0]
  /\ UNCHANGED <<data, nwrite, readopen, writeopen, freed, ref, ofile, killed>>

(* Nothing is left to read or to copy, or copyout fails: by then the byte  *)
(* has left the pipe.                                                      *)
ReadReturn(p) ==
  /\ pc[p] = "read"
  /\ \/ (left[p] = 0 \/ Empty) /\ UNCHANGED nread
     \/ left[p] > 0 /\ ~Empty /\ nread' = Inc(nread)
  /\ WakeWriters(p, "out")
  /\ lock' = None
  /\ left' = [left EXCEPT ![p] = 0]
  /\ UNCHANGED <<data, nwrite, readopen, writeopen, freed, ref, ofile, killed>>

-----------------------------------------------------------------------------
(* sleep, in two steps: kill sees p->state change under p->lock only.      *)
Sleep(p) ==
  /\ pc[p] \in {"sleepW", "sleepR"}
  /\ Goto(p, IF pc[p] = "sleepW" THEN "asleepW" ELSE "asleepR")
  /\ lock' = None
  /\ UNCHANGED <<pipe, freed, ref, ofile, killed, left>>

Reacquire(p) ==
  /\ pc[p] \in {"wokenW", "wokenR"} /\ lock = None
  /\ Goto(p, IF pc[p] = "wokenW" THEN "write" ELSE "await")
  /\ lock' = p
  /\ UNCHANGED <<pipe, freed, ref, ofile, killed, left>>

(* kill wakes a sleeper whatever it waits for.                             *)
Kill(p) ==
  /\ ofile[p] # {} /\ ~killed[p]
  /\ killed' = [killed EXCEPT ![p] = TRUE]
  /\ Goto(p, CASE pc[p] = "asleepW" -> "wokenW"
               [] pc[p] = "asleepR" -> "wokenR"
               [] OTHER             -> pc[p])
  /\ UNCHANGED <<pipe, lock, freed, ref, ofile, left>>

Write(p) ==
  \/ \E b \in Byte : WriteByte(p, b)
  \/ WriteReturn(p) \/ WriteFail(p) \/ WriteFull(p)
Read(p) ==
  \/ ReadEmpty(p) \/ ReadFail(p) \/ ReadStart(p) \/ ReadByte(p) \/ ReadReturn(p)

Next ==
  \E p \in Proc :
    \/ \E q \in Proc : Fork(p, q)
    \/ \E e \in End : Fileclose(p, e)
    \/ Pipeclose(p) \/ Pipewrite(p) \/ Write(p) \/ Piperead(p) \/ Read(p)
    \/ Sleep(p) \/ Reacquire(p) \/ Kill(p)

Spec == Init /\ [][Next]_vars

-----------------------------------------------------------------------------
(* Every variable has its type.                                            *)
TypeOK ==
  /\ data \in [0 .. PIPESIZE - 1 -> Byte]
  /\ {nread, nwrite} \subseteq 0 .. UintSpan - 1
  /\ {readopen, writeopen, freed} \subseteq BOOLEAN
  /\ lock \in Proc \cup {None}
  /\ ref \in [End -> Nat] /\ ofile \in [Proc -> SUBSET End]
  /\ killed \in [Proc -> BOOLEAN] /\ left \in [Proc -> 0 .. MaxCount]
  /\ pc \in [Proc -> {"out", "write", "read", "await", "sleepW", "sleepR", "asleepW",
                      "asleepR", "wokenW", "wokenR", "closeW", "closeR"}]

(* pipeclose frees the page when, and only when, the last process is done  *)
(* with both ends: nobody is in the pipe's code, and nobody will be.       *)
FreedByTheLast == freed <=> \A p \in Proc : ofile[p] = {} /\ pc[p] = "out"

(* Whenever the lock is free, a process that sleeps in pipewrite finds the *)
(* pipe full and a reader to wait for, one that sleeps in piperead a       *)
(* writer.  It may find bytes too: WriteFail wakes nobody (pipe.c:89).     *)
SleepersMustWait ==
  lock = None => \A p \in Proc : /\ pc[p] = "asleepW" => Full /\ readopen
                                 /\ pc[p] = "asleepR" => writeopen

(* A pipe is a bounded FIFO, also where the byte counters wrap.            *)
Fifo == INSTANCE BoundedFifo WITH
  Size <- PIPESIZE,
  queue <- [i \in 1 .. (nwrite - nread) % UintSpan |-> data[(nread + i - 1) % PIPESIZE]],
  sending <- writeopen,
  receiving <- readopen
ImplementsFifo == Fifo!Spec
=============================================================================
