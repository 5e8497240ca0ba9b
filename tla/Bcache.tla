------------------------------- MODULE Bcache -------------------------------
(***************************************************************************)
(* lab3/kernel/bio.c: the buffer cache with hashed buckets.  A hit takes   *)
(* only the lock of the block's bucket; a miss takes bcache.evict, looks   *)
(* again, and recycles an unreferenced buffer found by a round-robin hand, *)
(* moving it from the old bucket to the new one with no lock in between    *)
(* but evict.                                                              *)
(*                                                                         *)
(* One action is one bucket critical section.  The buffer's sleep-lock is  *)
(* owner[b], waiting for it is waiting until it is NoProc.  A client reads *)
(* a block, may log new contents (log_write pins the buffer until commit   *)
(* installs it), may install a pinned buffer (bwrite, bunpin) and releases *)
(* it; that is how fs.c and log.c use the cache.                           *)
(***************************************************************************)
EXTENDS Integers, FiniteSets

CONSTANTS Proc, NoProc,
          NBUF, NBUCKET,
          Block,        \* block numbers used on device RootDev
          Value         \* what a block may contain

ASSUME ConstantsAssumption ==
  /\ NBUF \in Nat \ {0} /\ NBUCKET \in Nat \ {0}
  /\ Block \subseteq Nat /\ Block # {} /\ Value # {}
  /\ IsFiniteSet(Proc) /\ NoProc \notin Proc

Buf     == 0 .. NBUF - 1
Bucket  == 0 .. NBUCKET - 1
RootDev == 1
Hash(n) == n % NBUCKET

VARIABLES
  chain,      \* chain[h]: the buffers linked from bucket[h].head
  dev, blockno, valid, refcnt, owner, data,     \* the fields of each buf
  hand, evict,                                  \* bcache.hand, bcache.evict
  pc, want, at, n,   \* of each process: where it is in bget..brelse, the
                     \* block it asked for, its buffer b, the loop counter
  pinned,     \* buffers the log holds a bpin on
  disk,       \* the blocks on disk
  latest      \* history: what was last put into each block

bufVars  == <<chain, dev, blockno, valid, refcnt>>
procVars == <<pc, want, at, n>>
vars == <<bufVars, owner, data, hand, evict, procVars, pinned, disk, latest>>

SomeValue == CHOOSE v \in Value : TRUE
NoBlock == CHOOSE k \in Block : TRUE   \* of a process outside the cache

(* binit.                                                                  *)
Init ==
  /\ chain = [h \in Bucket |-> {b \in Buf : Hash(b) = h}]
  /\ dev = [b \in Buf |-> 0]
  /\ blockno = [b \in Buf |-> b]
  /\ valid = [b \in Buf |-> FALSE]
  /\ refcnt = [b \in Buf |-> 0]
  /\ owner = [b \in Buf |-> NoProc]
  /\ data = [b \in Buf |-> SomeValue]
  /\ hand = 0 /\ evict = NoProc
  /\ pc = [p \in Proc |-> "idle"]
  /\ want = [p \in Proc |-> NoBlock]
  /\ at = [p \in Proc |-> 0] /\ n = [p \in Proc |-> 0]
  /\ pinned = {}
  /\ disk = [k \in Block |-> SomeValue]
  /\ latest = disk

-----------------------------------------------------------------------------
(* blookup: the buffers of the bucket that match.  The code takes the      *)
(* first; OneBufferPerBlock says there is no second.                       *)
Found(k) == {b \in chain[Hash(k)] : dev[b] = RootDev /\ blockno[b] = k}

Goto(p, l) == pc' = [pc EXCEPT ![p] = l]

(* A lookup that finds b references it and goes on to its sleep-lock.      *)
Hit(p, b) ==
  /\ refcnt' = [refcnt EXCEPT ![b] = @ + 1]
  /\ at' = [at EXCEPT ![p] = b]
  /\ Goto(p, "lock")

(* bget's first lookup, under the bucket lock only.                        *)
Lookup(p, k) ==
  /\ pc[p] = "idle"
  /\ want' = [want EXCEPT ![p] = k]
  /\ IF Found(k) # {}
     THEN \E b \in Found(k) : Hit(p, b)
     ELSE Goto(p, "miss") /\ UNCHANGED <<refcnt, at>>
  /\ UNCHANGED <<chain, dev, blockno, valid, owner, data, hand, evict, n,
                 pinned, disk, latest>>

(* Mutant: a miss trusts its first lookup.                                 *)
LookAgainTrusting(p) ==
  /\ pc[p] = "miss" /\ evict = NoProc
  /\ evict' = p
  /\ Goto(p, "scan")
  /\ UNCHANGED <<bufVars, owner, data, hand, want, at, n, pinned, disk, latest>>

(* Take evict and look again: another miss may have installed the block.   *)
LookAgain(p) ==
  /\ pc[p] = "miss" /\ evict = NoProc
  /\ IF Found(want[p]) # {}
     THEN (\E b \in Found(want[p]) : Hit(p, b)) /\ UNCHANGED evict
     ELSE evict' = p /\ Goto(p, "scan") /\ UNCHANGED <<refcnt, at>>
  /\ UNCHANGED <<chain, dev, blockno, valid, owner, data, hand, want, n,
                 pinned, disk, latest>>

(* One turn of the scan: the buffer under the hand is free, unlink it.     *)
ScanTake(p) ==
  /\ pc[p] = "scan"
  /\ refcnt[hand] = 0
  /\ chain' = [chain EXCEPT ![Hash(blockno[hand])] = @ \ {hand}]
  /\ at' = [at EXCEPT ![p] = hand]
  /\ hand' = (hand + 1) % NBUF
  /\ n' = [n EXCEPT ![p] = 0]
  /\ Goto(p, "detached")
  /\ UNCHANGED <<dev, blockno, valid, refcnt, owner, data, evict, want,
                 pinned, disk, latest>>

(* Mutant: the scan looks at NBUF - 1 buffers.                             *)
ScanSkipShort(p) ==
  /\ pc[p] = "scan"
  /\ refcnt[hand] > 0
  /\ hand' = (hand + 1) % NBUF
  /\ IF n[p] + 2 < NBUF
     THEN n' = [n EXCEPT ![p] = @ + 1] /\ UNCHANGED pc
     ELSE Goto(p, "panic") /\ UNCHANGED n
  /\ UNCHANGED <<bufVars, owner, data, evict, want, at, pinned, disk, latest>>

(* One turn of the scan: the buffer is in use, go on or panic after NBUF.  *)
ScanSkip(p) ==
  /\ pc[p] = "scan"
  /\ refcnt[hand] > 0
  /\ hand' = (hand + 1) % NBUF
  /\ IF n[p] + 1 < NBUF
     THEN n' = [n EXCEPT ![p] = @ + 1] /\ UNCHANGED pc
     ELSE Goto(p, "panic") /\ UNCHANGED n
  /\ UNCHANGED <<bufVars, owner, data, evict, want, at, pinned, disk, latest>>

(* Mutant: valid is left as it was.                                        *)
InstallStaleValid(p) ==
  LET b == at[p] IN
  /\ pc[p] = "detached"
  /\ dev' = [dev EXCEPT ![b] = RootDev]
  /\ blockno' = [blockno EXCEPT ![b] = want[p]]
  /\ refcnt' = [refcnt EXCEPT ![b] = 1]
  /\ chain' = [chain EXCEPT ![Hash(want[p])] = @ \cup {b}]
  /\ evict' = NoProc
  /\ Goto(p, "lock")
  /\ UNCHANGED <<valid, owner, data, hand, want, at, n, pinned, disk, latest>>

(* Give the detached buffer its new identity and link it, then drop evict. *)
Install(p) ==
  LET b == at[p] IN
  /\ pc[p] = "detached"
  /\ dev' = [dev EXCEPT ![b] = RootDev]
  /\ blockno' = [blockno EXCEPT ![b] = want[p]]
  /\ valid' = [valid EXCEPT ![b] = FALSE]
  /\ refcnt' = [refcnt EXCEPT ![b] = 1]
  /\ chain' = [chain EXCEPT ![Hash(want[p])] = @ \cup {b}]
  /\ evict' = NoProc
  /\ Goto(p, "lock")
  /\ UNCHANGED <<owner, data, hand, want, at, n, pinned, disk, latest>>

(* acquiresleep(&b->lock).                                                 *)
Lock(p) ==
  /\ pc[p] = "lock" /\ owner[at[p]] = NoProc
  /\ owner' = [owner EXCEPT ![at[p]] = p]
  /\ Goto(p, IF valid[at[p]] THEN "held" ELSE "load")
  /\ UNCHANGED <<bufVars, data, hand, evict, want, at, n, pinned, disk, latest>>

(* bread's virtio_disk_rw(b, 0) for a buffer that is not valid.            *)
Load(p) ==
  LET b == at[p] IN
  /\ pc[p] = "load"
  /\ data' = [data EXCEPT ![b] = disk[blockno[b]]]
  /\ valid' = [valid EXCEPT ![b] = TRUE]
  /\ Goto(p, "held")
  /\ UNCHANGED <<chain, dev, blockno, refcnt, owner, hand, evict, want, at, n,
                 pinned, disk, latest>>

-----------------------------------------------------------------------------
(* Mutant: log_write pins on every call, absorbed or not.                  *)
LogWritePinsAgain(p, v) ==
  LET b == at[p] IN
  /\ pc[p] = "held"
  /\ data' = [data EXCEPT ![b] = v]
  /\ latest' = [latest EXCEPT ![want[p]] = v]
  /\ pinned' = pinned \cup {b}
  /\ refcnt' = [refcnt EXCEPT ![b] = @ + 1]
  /\ UNCHANGED <<chain, dev, blockno, valid, owner, hand, evict, procVars, disk>>

(* The holder changes the contents and calls log_write, which bpins the    *)
(* buffer unless the transaction has it already.                           *)
LogWrite(p, v) ==
  LET b == at[p] IN
  /\ pc[p] = "held"
  /\ data' = [data EXCEPT ![b] = v]
  /\ latest' = [latest EXCEPT ![want[p]] = v]
  /\ pinned' = pinned \cup {b}
  /\ refcnt' = [refcnt EXCEPT ![b] = IF b \in pinned THEN @ ELSE @ + 1]
  /\ UNCHANGED <<chain, dev, blockno, valid, owner, hand, evict, procVars, disk>>

(* Commit installs a pinned buffer it has locked: bwrite, then bunpin.     *)
Bwrite(p) ==
  LET b == at[p] IN
  /\ pc[p] = "held" /\ b \in pinned
  /\ disk' = [disk EXCEPT ![blockno[b]] = data[b]]
  /\ Goto(p, "flushed")
  /\ UNCHANGED <<bufVars, owner, data, hand, evict, want, at, n, pinned, latest>>

Bunpin(p) ==
  LET b == at[p] IN
  /\ pc[p] = "flushed"
  /\ refcnt' = [refcnt EXCEPT ![b] = @ - 1]
  /\ pinned' = pinned \ {b}
  /\ Goto(p, "held")
  /\ UNCHANGED <<chain, dev, blockno, valid, owner, data, hand, evict, want, at,
                 n, disk, latest>>

(* brelse first releases the sleep-lock, then drops the reference.         *)
Brelse(p) ==
  /\ pc[p] = "held"
  /\ owner' = [owner EXCEPT ![at[p]] = NoProc]
  /\ Goto(p, "released")
  /\ UNCHANGED <<bufVars, data, hand, evict, want, at, n, pinned, disk, latest>>

Deref(p) ==
  /\ pc[p] = "released"
  /\ refcnt' = [refcnt EXCEPT ![at[p]] = @ - 1]
  /\ at' = [at EXCEPT ![p] = 0]
  /\ want' = [want EXCEPT ![p] = NoBlock]
  /\ Goto(p, "idle")
  /\ UNCHANGED <<chain, dev, blockno, valid, owner, data, hand, evict, n,
                 pinned, disk, latest>>

Bget(p) ==
  \/ LookAgain(p) \/ ScanTake(p) \/ ScanSkip(p) \/ Install(p) \/ Lock(p)

Next ==
  \E p \in Proc :
    \/ \E k \in Block : Lookup(p, k)
    \/ Bget(p) \/ Load(p)
    \/ \E v \in Value : LogWrite(p, v)
    \/ Bwrite(p) \/ Bunpin(p) \/ Brelse(p) \/ Deref(p)

Spec == Init /\ [][Next]_vars

-----------------------------------------------------------------------------
(* Every variable has its type; reference counts never go below zero.      *)
TypeOK ==
  /\ chain \in [Bucket -> SUBSET Buf]
  /\ dev \in [Buf -> {0, RootDev}]
  /\ blockno \in [Buf -> Block \cup Buf]
  /\ valid \in [Buf -> BOOLEAN]
  /\ refcnt \in [Buf -> 0 .. Cardinality(Proc) + 1]
  /\ owner \in [Buf -> Proc \cup {NoProc}]
  /\ data \in [Buf -> Value]
  /\ hand \in Buf
  /\ evict \in Proc \cup {NoProc}
  /\ pc \in [Proc -> {"idle", "miss", "scan", "detached", "lock", "load",
                      "held", "flushed", "released", "panic"}]
  /\ want \in [Proc -> Block] /\ at \in [Proc -> Buf] /\ n \in [Proc -> Buf]
  /\ pinned \in SUBSET Buf
  /\ disk \in [Block -> Value] /\ latest \in [Block -> Value]

Detached(b) == \E p \in Proc : pc[p] = "detached" /\ at[p] = b
Referrers(b) ==
  {p \in Proc : at[p] = b /\ pc[p] \in {"lock", "load", "held", "flushed", "released"}}

(* Two buffers never cache the same block, although the first lookup and   *)
(* the installation are different critical sections (bio.c:86).            *)
OneBufferPerBlock ==
  \A b, c \in Buf :
    /\ dev[b] = RootDev /\ dev[c] = RootDev /\ blockno[b] = blockno[c]
    /\ ~Detached(b) /\ ~Detached(c)
    => b = c

(* refcnt counts exactly the processes between lookup and the last step of *)
(* brelse, and the log's pin: none is lost, none is dropped twice.         *)
RefcntExact ==
  \A b \in Buf : refcnt[b] = Cardinality(Referrers(b)) + (IF b \in pinned THEN 1 ELSE 0)

(* Whoever holds a buffer sees the last contents written to the block, by  *)
(* whichever process, however often the buffer was recycled since.         *)
HolderSeesLatest ==
  \A p \in Proc : pc[p] \in {"held", "flushed"} =>
    valid[at[p]] /\ data[at[p]] = latest[want[p]]
=============================================================================
