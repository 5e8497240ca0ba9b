---------------------------- MODULE BcacheProofs ----------------------------
(***************************************************************************)
(* Proofs about the buffer cache, for every number of processes, buffers,  *)
(* buckets and blocks.                                                     *)
(***************************************************************************)
EXTENDS BcacheScan, FiniteSetTheorems, TLAPS

Using   == {"lock", "load", "held", "flushed", "released"}
Holding == {"load", "held", "flushed"}
Evicting == {"scan", "detached", "panic"}

(* A buffer caches block k if it has this identity and is in its bucket.   *)
Caches(b, k) == dev[b] = RootDev /\ blockno[b] = k /\ ~Detached(b)

(* TypeOK without the bound on reference counts, which follows from        *)
(* RefcntExact.                                                            *)
Types ==
  /\ chain \in [Bucket -> SUBSET Buf]
  /\ dev \in [Buf -> {0, RootDev}]
  /\ blockno \in [Buf -> Block \cup Buf]
  /\ valid \in [Buf -> BOOLEAN]
  /\ refcnt \in [Buf -> Nat]
  /\ owner \in [Buf -> Proc \cup {NoProc}]
  /\ data \in [Buf -> Value]
  /\ hand \in Buf
  /\ evict \in Proc \cup {NoProc}
  /\ pc \in [Proc -> {"idle", "miss", "released"} \cup Using \cup Evicting]
  /\ want \in [Proc -> Block] /\ at \in [Proc -> Buf] /\ n \in [Proc -> Buf]
  /\ pinned \in SUBSET Buf
  /\ disk \in [Block -> Value] /\ latest \in [Block -> Value]

(* A buffer is in the bucket of its block number and in no other, unless a *)
(* scan has detached it.                                                   *)
Linked ==
  \A b \in Buf, h \in Bucket :
    b \in chain[h] <=> h = Hash(blockno[b]) /\ ~Detached(b)

(* One process scans; it has detached an unreferenced buffer; and its      *)
(* block cannot have come into the cache since it looked again.            *)
Scanning ==
  \A p \in Proc :
    /\ pc[p] \in Evicting => evict = p
    /\ pc[p] = "detached" => refcnt[at[p]] = 0
    /\ pc[p] \in {"scan", "detached"} => \A b \in Buf : ~Caches(b, want[p])

(* A reference keeps the identity of a buffer.                             *)
Identity ==
  \A p \in Proc : pc[p] \in Using => dev[at[p]] = RootDev /\ blockno[at[p]] = want[p]

(* The sleep-lock has one holder, who goes on with a valid buffer.         *)
Owned ==
  \A p \in Proc :
    /\ pc[p] \in Holding => owner[at[p]] = p
    /\ pc[p] \in {"held", "flushed"} => valid[at[p]]
    /\ pc[p] = "load" => ~valid[at[p]]
    /\ pc[p] = "flushed" => at[p] \in pinned /\ disk[want[p]] = data[at[p]]

(* A pinned buffer holds what its block should have on disk.               *)
PinnedValid == \A b \in pinned : valid[b] /\ dev[b] = RootDev

(* What was last written to a block is in the buffer that caches it, if it *)
(* is valid, and on disk, if the log has not pinned that buffer.           *)
Current ==
  /\ \A b \in Buf, k \in Block : Caches(b, k) /\ valid[b] => data[b] = latest[k]
  /\ \A k \in Block :
       disk[k] = latest[k] \/ \E b \in pinned : dev[b] = RootDev /\ blockno[b] = k

Shape ==
  /\ Types /\ Linked /\ Scanning /\ Identity /\ Owned /\ PinnedValid
  /\ OneBufferPerBlock /\ Current

IInv == Shape /\ RefcntExact

(* What the other parts need of the counts.                                *)
Referenced ==
  /\ \A p \in Proc : pc[p] \in Using => refcnt[at[p]] > 0
  /\ \A b \in pinned : refcnt[b] > 0

-----------------------------------------------------------------------------
(* What is assumed of the constants, as facts.                             *)
LEMMA ConstFacts ==
  /\ NoProc \notin Proc /\ 0 \in Buf
  /\ \A b \in Buf : (b + 1) % NBUF = IF b + 1 = NBUF THEN 0 ELSE b + 1
  /\ \A b \in Buf : (b + 1) % NBUF \in Buf
  /\ \A b \in Buf : b + 1 < NBUF => b + 1 \in Buf
  /\ \A k \in Block \cup Buf : Hash(k) \in Bucket
  /\ NoBlock \in Block /\ SomeValue \in Value
  /\ RootDev # 0
  /\ Block \subseteq Block \cup Buf
BY ConstantsAssumption DEF Buf, Bucket, Hash, NoBlock, SomeValue, RootDev

(* Finitely many processes hold a buffer.                                  *)
LEMMA ReferrersFinite == \A b \in Buf : IsFiniteSet(Referrers(b))
BY ConstantsAssumption, FS_Subset DEF Referrers

(* Exact counts mean: a buffer somebody refers to has a positive refcnt.   *)
LEMMA CountsReferenced == IInv => Referenced
<1> SUFFICES ASSUME IInv PROVE Referenced
  OBVIOUS
<1>1. ASSUME NEW b \in Buf PROVE Cardinality(Referrers(b)) \in Nat
  BY ReferrersFinite, FS_CardinalityType
<1>2. ASSUME NEW p \in Proc, pc[p] \in Using PROVE refcnt[at[p]] > 0
  <2>1. at[p] \in Buf /\ p \in Referrers(at[p])
    BY <1>2 DEF IInv, Shape, Types, Referrers, Using
  <2>2. Cardinality(Referrers(at[p])) # 0
    BY <2>1, ReferrersFinite, FS_EmptySet
  <2> QED BY <1>1, <2>1, <2>2 DEF IInv, RefcntExact
<1>3. ASSUME NEW b \in pinned PROVE refcnt[b] > 0
  <2>1. b \in Buf
    BY DEF IInv, Shape, Types
  <2> QED BY <1>1, <2>1 DEF IInv, RefcntExact
<1> QED BY <1>2, <1>3 DEF Referenced

(* binit establishes the shape.                                            *)
LEMMA InitShape == Init => Shape
<1> SUFFICES ASSUME Init PROVE Shape
  OBVIOUS
<1> USE ConstFacts DEF Init
<1>0. \A b \in Buf : ~Detached(b)
  BY DEF Detached
<1>1. Types
  BY DEF Types, Using, Evicting
<1>2. Linked
  BY <1>0 DEF Linked
<1>3. Scanning /\ Identity /\ Owned
  BY DEF Scanning, Identity, Owned, Using, Holding, Evicting
<1>4. PinnedValid /\ OneBufferPerBlock
  BY DEF PinnedValid, OneBufferPerBlock
<1>5. Current
  BY DEF Current, Caches
<1> QED BY <1>1, <1>2, <1>3, <1>4, <1>5 DEF Shape

(* A step that detaches nothing and gives nothing a new identity.          *)
LEMMA SameCached ==
  ASSUME OneBufferPerBlock, dev' = dev, blockno' = blockno,
         \A b \in Buf : Detached(b)' <=> Detached(b)
  PROVE  /\ OneBufferPerBlock'
         /\ \A b \in Buf : \A k : Caches(b, k)' <=> Caches(b, k)
BY DEF OneBufferPerBlock, Caches

(* Every step keeps the shape; one step below per action.                  *)
LEMMA ShapeStep == Shape /\ Referenced /\ [Next]_vars => Shape'
<1> SUFFICES ASSUME Shape, Referenced, [Next]_vars PROVE Shape'
  OBVIOUS
<1> USE ConstFacts
    DEF Shape, Types, Linked, Scanning, Identity, Owned, PinnedValid, OneBufferPerBlock, Current,
        Referenced, Caches, Detached, Using, Holding, Evicting, Found, Hit, Goto, bufVars, procVars
<1>1. ASSUME NEW p \in Proc, NEW k \in Block, Lookup(p, k) PROVE Shape'
  <2>0. \A b \in Buf : Detached(b)' <=> Detached(b)
    <3>1. /\ \A q \in Proc \ {p} : pc'[q] = pc[q] /\ at'[q] = at[q]
          /\ pc'[p] \in {"lock", "miss"} /\ pc[p] = "idle"
      BY <1>1 DEF Lookup
    <3> HIDE DEF Shape
    <3> QED BY <3>1
  <2>1. Types'
    <3>1. CASE Found(k) # {}
      <4>1. PICK b \in Found(k) : Hit(p, b)
        BY <3>1, <1>1 DEF Lookup
      <4>2. b \in Buf
        BY <4>1
      <4> QED BY <4>1, <4>2, <1>1 DEF Lookup
    <3>2. CASE Found(k) = {}
      <4> HIDE DEF Found
      <4> QED BY <3>2, <1>1 DEF Lookup
    <3> QED BY <3>1, <3>2
  <2>2. Linked'
    <3> HIDE DEF Detached
    <3> QED BY <2>0, <1>1 DEF Lookup
  <2>3. Scanning'
    BY <1>1 DEF Lookup
  <2>4. Identity'
    BY <1>1 DEF Lookup
  <2>5. Owned'
    BY <1>1 DEF Lookup
  <2>6. PinnedValid'
    BY <1>1 DEF Lookup
  <2>7. OneBufferPerBlock'
    <3> HIDE DEF Caches, Detached
    <3> QED BY <2>0, SameCached, <1>1 DEF Lookup
  <2>8. Current'
    <3>1. \A b \in Buf : \A j : Caches(b, j)' <=> Caches(b, j)
      BY <2>0, SameCached, <1>1 DEF Lookup
    <3> HIDE DEF Caches
    <3> QED BY <3>1, <1>1 DEF Lookup
  <2> QED BY <2>1, <2>2, <2>3, <2>4, <2>5, <2>6, <2>7, <2>8
<1>2. ASSUME NEW p \in Proc, LookAgain(p) PROVE Shape'
  <2>1. Types'
    <3>1. CASE Found(want[p]) # {}
      <4>1. PICK b \in Found(want[p]) : Hit(p, b)
        BY <3>1, <1>2 DEF LookAgain
      <4>2. b \in Buf
        BY <4>1
      <4> QED BY <4>1, <4>2, <1>2 DEF LookAgain
    <3>2. CASE Found(want[p]) = {}
      <4>1. evict' = p /\ pc' = [pc EXCEPT ![p] = "scan"]
        BY <3>2, <1>2 DEF LookAgain
      <4>2. UNCHANGED <<chain, dev, blockno, valid, refcnt, owner, data, hand, want, at, n, pinned, disk, latest>>
        BY <3>2, <1>2 DEF LookAgain
      <4> QED BY <4>1, <4>2
    <3> QED BY <3>1, <3>2
  <2>2. Linked'
    BY <1>2, SMTT(30) DEF LookAgain
  <2>3. Scanning'
    BY <1>2 DEF LookAgain
  <2>4. Identity'
    BY <1>2 DEF LookAgain
  <2>5. Owned'
    BY <1>2 DEF LookAgain
  <2>6. PinnedValid'
    BY <1>2 DEF LookAgain
  <2>7. OneBufferPerBlock'
    BY <1>2 DEF LookAgain
  <2>8. Current'
    BY <1>2 DEF LookAgain
  <2> QED BY <2>1, <2>2, <2>3, <2>4, <2>5, <2>6, <2>7, <2>8
<1>3. ASSUME NEW p \in Proc, ScanTake(p) PROVE Shape'
  <2>0. \A b \in Buf : Detached(b)' <=> b = hand
    BY <1>3 DEF ScanTake
  <2>1. Types'
    BY <1>3 DEF ScanTake
  <2>2. Linked'
    BY <1>3 DEF ScanTake
  <2>3. Scanning'
    BY <1>3 DEF ScanTake
  <2>4. Identity'
    BY <1>3 DEF ScanTake
  <2>5. Owned'
    BY <1>3 DEF ScanTake
  <2>6. PinnedValid'
    BY <1>3 DEF ScanTake
  <2>7. OneBufferPerBlock'
    <3>1. \A b \in Buf : ~Detached(b)
      BY <1>3 DEF ScanTake
    <3> HIDE DEF Detached
    <3> QED BY <2>0, <3>1, <1>3 DEF ScanTake
  <2>8. Current'
    BY <1>3 DEF ScanTake
  <2> QED BY <2>1, <2>2, <2>3, <2>4, <2>5, <2>6, <2>7, <2>8
<1>4. ASSUME NEW p \in Proc, ScanSkip(p) PROVE Shape'
  <2>0. \A b \in Buf : Detached(b)' <=> Detached(b)
    BY <1>4 DEF ScanSkip
  <2>1. Types'
    <3>1. hand' \in Buf
      BY <1>4 DEF ScanSkip
    <3>2. n' = n \/ (n[p] + 1 \in Buf /\ n' = [n EXCEPT ![p] = n[p] + 1])
      BY <1>4 DEF ScanSkip
    <3>3. pc' = pc \/ pc' = [pc EXCEPT ![p] = "panic"]
      BY <1>4 DEF ScanSkip
    <3>4. UNCHANGED <<bufVars, owner, data, evict, want, at, pinned, disk, latest>>
      BY <1>4 DEF ScanSkip
    <3>5. n' \in [Proc -> Buf]
      <4>1. n \in [Proc -> Buf]
        OBVIOUS
      <4> HIDE DEF Shape
      <4> QED BY <3>2, <4>1
    <3>6. pc' \in [Proc -> {"idle", "miss", "released"} \cup Using \cup Evicting]
      <4>1. pc \in [Proc -> {"idle", "miss", "released"} \cup Using \cup Evicting]
        OBVIOUS
      <4> HIDE DEF Shape
      <4> QED BY <3>3, <4>1
    <3> QED BY <3>1, <3>4, <3>5, <3>6
  <2>2. Linked'
    BY <1>4 DEF ScanSkip
  <2>3. Scanning'
    BY <1>4 DEF ScanSkip
  <2>4. Identity'
    BY <1>4 DEF ScanSkip
  <2>5. Owned'
    BY <1>4 DEF ScanSkip
  <2>6. PinnedValid'
    BY <1>4 DEF ScanSkip
  <2>7. OneBufferPerBlock'
    <3> HIDE DEF Caches, Detached
    <3> QED BY <2>0, SameCached, <1>4 DEF ScanSkip
  <2>8. Current'
    <3>1. \A b \in Buf : \A k : Caches(b, k)' <=> Caches(b, k)
      BY <2>0, SameCached, <1>4 DEF ScanSkip
    <3> HIDE DEF Caches
    <3> QED BY <3>1, <1>4 DEF ScanSkip
  <2> QED BY <2>1, <2>2, <2>3, <2>4, <2>5, <2>6, <2>7, <2>8
<1>5. ASSUME NEW p \in Proc, Install(p) PROVE Shape'
  <2> DEFINE b == at[p]
  <2>0. /\ b \in Buf /\ Detached(b) /\ refcnt[b] = 0
        /\ \A c \in Buf : Detached(c) => c = b
        /\ \A c \in Buf : ~Detached(c)'
        /\ \A c \in Buf \ {b} : /\ dev'[c] = dev[c] /\ blockno'[c] = blockno[c]
                                /\ valid'[c] = valid[c] /\ data'[c] = data[c]
        /\ dev'[b] = RootDev /\ blockno'[b] = want[p] /\ ~valid'[b]
        /\ b \notin pinned
    BY <1>5 DEF Install
  <2>1. Types'
    BY <1>5 DEF Install
  <2>2. Linked'
    BY <1>5 DEF Install
  <2>3. Scanning'
    BY <1>5 DEF Install
  <2>4. Identity'
    BY <1>5 DEF Install
  <2>5. Owned'
    BY <1>5 DEF Install
  <2>6. PinnedValid'
    BY <1>5 DEF Install
  <2>7. OneBufferPerBlock'
    <3>1. \A c \in Buf \ {b} : ~Caches(c, want[p])
      BY <1>5 DEF Install
    <3>2. \A c \in Buf \ {b} : ~Detached(c)
      BY <2>0
    <3>3. \A c \in Buf \ {b} : ~(dev[c] = RootDev /\ blockno[c] = want[p])
      BY <3>1, <3>2
    <3> HIDE DEF Detached
    <3>4. ASSUME NEW c \in Buf, NEW d \in Buf, c # b, d # b,
                 dev'[c] = RootDev, dev'[d] = RootDev, blockno'[c] = blockno'[d]
          PROVE  c = d
      BY <2>0, <3>2, <3>4
    <3> HIDE DEF Detached, Shape, b
    <3>5. \A c \in Buf \ {b} : ~(dev'[c] = RootDev /\ blockno'[c] = blockno'[b])
      BY <2>0, <3>3
    <3> QED BY <3>4, <3>5
  <2>8. Current'
    <3>1. \A c \in Buf \ {b} : \A k \in Block : Caches(c, k)' => Caches(c, k)
      BY <2>0
    <3>2. disk' = disk /\ latest' = latest /\ pinned' = pinned
      BY <1>5 DEF Install
    <3> HIDE DEF Caches, Detached
    <3>3. \A c \in Buf, k \in Block : Caches(c, k)' /\ valid'[c] => data'[c] = latest'[k]
      BY <2>0, <3>1, <3>2
    <3>4. \A c \in pinned : dev'[c] = dev[c] /\ blockno'[c] = blockno[c]
      <4>1. \A c \in pinned : c \in Buf \ {b}
        BY <2>0
      <4> QED BY <2>0, <4>1
    <3>5. \A k \in Block : disk'[k] = latest'[k] \/ \E c \in pinned' : dev'[c] = RootDev /\ blockno'[c] = k
      <4>1. \A k \in Block : disk[k] = latest[k] \/ \E c \in pinned : dev[c] = RootDev /\ blockno[c] = k
        OBVIOUS
      <4> HIDE DEF Shape
      <4> QED BY <3>2, <3>4, <4>1
    <3> QED BY <3>3, <3>5
  <2> QED BY <2>1, <2>2, <2>3, <2>4, <2>5, <2>6, <2>7, <2>8
<1>6. ASSUME NEW p \in Proc, Lock(p) PROVE Shape'
  <2>0. \A b \in Buf : Detached(b)' <=> Detached(b)
    BY <1>6 DEF Lock
  <2>1. Types'
    BY <1>6 DEF Lock
  <2>2. Linked' /\ PinnedValid' /\ Identity'
    BY <1>6 DEF Lock
  <2>3. Scanning'
    BY <1>6 DEF Lock
  <2>4. Owned'
    BY <1>6 DEF Lock
  <2>5. OneBufferPerBlock'
    <3> HIDE DEF Caches, Detached
    <3> QED BY <2>0, SameCached, <1>6 DEF Lock
  <2>6. Current'
    BY <1>6 DEF Lock
  <2> QED BY <2>1, <2>2, <2>3, <2>4, <2>5, <2>6
<1>7. ASSUME NEW p \in Proc, Load(p) PROVE Shape'
  <2> DEFINE b == at[p]
  <2>0. \A c \in Buf : Detached(c)' <=> Detached(c)
    BY <1>7 DEF Load
  <2>a. /\ b \in Buf /\ Caches(b, want[p])
        /\ \A c \in Buf : Caches(c, want[p]) => c = b
    <3>1. b \in Buf /\ Caches(b, want[p])
      BY <1>7 DEF Load
    <3>2. OneBufferPerBlock
      OBVIOUS
    <3> HIDE DEF Detached, Shape, b
    <3> QED BY <3>1, <3>2
  <2>b. \A c \in Buf : \A k : Caches(c, k)' <=> Caches(c, k)
    <3> HIDE DEF Caches, Detached
    <3> QED BY <2>0, SameCached, <1>7 DEF Load
  <2>1. Types'
    BY <1>7 DEF Load
  <2>2. Linked'
    BY <1>7 DEF Load
  <2>3. Scanning'
    BY <1>7 DEF Load
  <2>4. Identity'
    BY <1>7 DEF Load
  <2>5. Owned'
    BY <1>7 DEF Load
  <2>6. PinnedValid'
    BY <1>7 DEF Load
  <2>7. OneBufferPerBlock'
    BY <1>7 DEF Load
  <2>8. Current'
    <3>1. \A c \in pinned : Caches(c, blockno[c])
      BY <2>a
    <3>2. data'[b] = disk[want[p]] /\ \A c \in Buf \ {b} : data'[c] = data[c] /\ valid'[c] = valid[c]
      BY <1>7 DEF Load
    <3>3. disk[want[p]] = latest[want[p]]
      <4>1. b \notin pinned
        BY <1>7 DEF Load
      <4> HIDE DEF Caches
      <4> QED BY <2>a, <3>1, <4>1
    <3>4. disk' = disk /\ latest' = latest /\ pinned' = pinned /\ dev' = dev /\ blockno' = blockno
      BY <1>7 DEF Load
    <3>5. \A k : Caches(b, k) => k = want[p]
      BY <2>a
    <3> HIDE DEF Caches
    <3>6. \A c \in Buf, k \in Block : Caches(c, k)' /\ valid'[c] => data'[c] = latest'[k]
      <4>1. \A c \in Buf, k \in Block : Caches(c, k) /\ valid[c] => data[c] = latest[k]
        OBVIOUS
      <4> HIDE DEF Shape, b
      <4>2. ASSUME NEW c \in Buf \ {b}, NEW k \in Block, Caches(c, k), valid'[c] PROVE data'[c] = latest[k]
        BY <3>2, <4>1, <4>2
      <4> QED BY <2>a, <2>b, <3>2, <3>3, <3>4, <3>5, <4>2
    <3> QED BY <3>4, <3>6
  <2> QED BY <2>1, <2>2, <2>3, <2>4, <2>5, <2>6, <2>7, <2>8
<1>8. ASSUME NEW p \in Proc, NEW v \in Value, LogWrite(p, v) PROVE Shape'
  <2> DEFINE b == at[p]
  <2>0. \A c \in Buf : Detached(c)' <=> Detached(c)
    BY <1>8 DEF LogWrite
  <2>a. /\ b \in Buf /\ Caches(b, want[p])
        /\ \A c \in Buf : Caches(c, want[p]) => c = b
    BY <1>8, SMTT(30) DEF LogWrite
  <2>b. \A c \in Buf : \A k : Caches(c, k)' <=> Caches(c, k)
    <3> HIDE DEF Caches, Detached
    <3> QED BY <2>0, SameCached, <1>8 DEF LogWrite
  <2>1. Types'
    BY <1>8 DEF LogWrite
  <2>2. Linked'
    BY <1>8 DEF LogWrite
  <2>3. Scanning'
    BY <1>8 DEF LogWrite
  <2>4. Identity'
    BY <1>8 DEF LogWrite
  <2>5. Owned'
    BY <1>8 DEF LogWrite
  <2>6. PinnedValid'
    BY <1>8 DEF LogWrite
  <2>7. OneBufferPerBlock'
    BY <1>8 DEF LogWrite
  <2>8. Current'
    <3>1. data'[b] = v /\ \A c \in Buf \ {b} : data'[c] = data[c]
      BY <1>8 DEF LogWrite
    <3>2. latest'[want[p]] = v /\ \A k \in Block \ {want[p]} : latest'[k] = latest[k]
      BY <1>8 DEF LogWrite
    <3>3. /\ disk' = disk /\ dev' = dev /\ blockno' = blockno /\ valid' = valid
          /\ pinned' = pinned \cup {b}
      BY <1>8 DEF LogWrite
    <3>4. dev[b] = RootDev /\ blockno[b] = want[p] /\ \A k : Caches(b, k) => k = want[p]
      BY <2>a
    <3> HIDE DEF Caches
    <3>5. ASSUME NEW c \in Buf, NEW k \in Block, Caches(c, k)', valid'[c]
          PROVE  data'[c] = latest'[k]
      <4>1. Caches(c, k) /\ valid[c]
        BY <2>b, <3>3, <3>5
      <4>2. CASE c = b
        BY <3>1, <3>2, <3>4, <4>1, <4>2
      <4>3. CASE c # b
        <5>1. k # want[p]
          BY <2>a, <4>1, <4>3
        <5> QED BY <3>1, <3>2, <4>1, <4>3, <5>1
      <4> QED BY <4>2, <4>3
    <3>6. \A k \in Block : disk'[k] = latest'[k] \/ \E c \in pinned' : dev'[c] = RootDev /\ blockno'[c] = k
      BY <3>2, <3>3, <3>4
    <3> QED BY <3>5, <3>6
  <2> QED BY <2>1, <2>2, <2>3, <2>4, <2>5, <2>6, <2>7, <2>8
<1>9. ASSUME NEW p \in Proc, Bwrite(p) PROVE Shape'
  <2>0. \A b \in Buf : Detached(b)' <=> Detached(b)
    BY <1>9 DEF Bwrite
  <2>1. Types'
    BY <1>9 DEF Bwrite
  <2>2. Linked'
    BY <1>9 DEF Bwrite
  <2>3. Scanning'
    BY <1>9 DEF Bwrite
  <2>4. Identity'
    BY <1>9 DEF Bwrite
  <2>5. Owned'
    BY <1>9 DEF Bwrite
  <2>6. PinnedValid'
    BY <1>9 DEF Bwrite
  <2>7. OneBufferPerBlock'
    <3> HIDE DEF Caches, Detached
    <3> QED BY <2>0, SameCached, <1>9 DEF Bwrite
  <2>8. Current'
    <3>1. \A b \in Buf : \A k : Caches(b, k)' <=> Caches(b, k)
      BY <2>0, SameCached, <1>9 DEF Bwrite
    <3> HIDE DEF Caches
    <3> QED BY <3>1, <1>9 DEF Bwrite
  <2> QED BY <2>1, <2>2, <2>3, <2>4, <2>5, <2>6, <2>7, <2>8
<1>10. ASSUME NEW p \in Proc, Bunpin(p) PROVE Shape'
  <2>0. \A b \in Buf : Detached(b)' <=> Detached(b)
    BY <1>10 DEF Bunpin
  <2>1. Types'
    BY <1>10 DEF Bunpin
  <2>2. Linked'
    BY <1>10 DEF Bunpin
  <2>3. Scanning'
    BY <1>10 DEF Bunpin
  <2>4. Identity'
    BY <1>10 DEF Bunpin
  <2>5. Owned'
    BY <1>10 DEF Bunpin
  <2>6. PinnedValid'
    BY <1>10 DEF Bunpin
  <2>7. OneBufferPerBlock'
    <3> HIDE DEF Caches, Detached
    <3> QED BY <2>0, SameCached, <1>10 DEF Bunpin
  <2>8. Current'
    <3>1. \A b \in Buf : \A k : Caches(b, k)' <=> Caches(b, k)
      BY <2>0, SameCached, <1>10 DEF Bunpin
    <3>2. /\ disk' = disk /\ dev' = dev /\ blockno' = blockno /\ valid' = valid
          /\ latest' = latest /\ data' = data /\ pinned' = pinned \ {at[p]}
      BY <1>10 DEF Bunpin
    <3>3. disk[want[p]] = data[at[p]] /\ valid[at[p]] /\ at[p] \in Buf /\ want[p] \in Block
      BY <1>10 DEF Bunpin
    <3>4. Caches(at[p], want[p]) /\ blockno[at[p]] = want[p]
      BY <1>10 DEF Bunpin
    <3>5. disk[want[p]] = latest[want[p]]
      BY <3>3, <3>4
    <3> HIDE DEF Caches
    <3> QED BY <3>1, <3>2, <3>3, <3>4, <3>5
  <2> QED BY <2>1, <2>2, <2>3, <2>4, <2>5, <2>6, <2>7, <2>8
<1>11. ASSUME NEW p \in Proc, Brelse(p) PROVE Shape'
  <2>0. \A b \in Buf : Detached(b)' <=> Detached(b)
    BY <1>11 DEF Brelse
  <2>1. Types'
    BY <1>11 DEF Brelse
  <2>2. Linked'
    BY <1>11 DEF Brelse
  <2>3. Scanning'
    BY <1>11 DEF Brelse
  <2>4. Identity'
    BY <1>11 DEF Brelse
  <2>5. Owned'
    BY <1>11 DEF Brelse
  <2>6. PinnedValid'
    BY <1>11 DEF Brelse
  <2>7. OneBufferPerBlock'
    <3> HIDE DEF Caches, Detached
    <3> QED BY <2>0, SameCached, <1>11 DEF Brelse
  <2>8. Current'
    BY <1>11 DEF Brelse
  <2> QED BY <2>1, <2>2, <2>3, <2>4, <2>5, <2>6, <2>7, <2>8
<1>12. ASSUME NEW p \in Proc, Deref(p) PROVE Shape'
  <2>0. \A b \in Buf : Detached(b)' <=> Detached(b)
    BY <1>12 DEF Deref
  <2>1. Types'
    BY <1>12 DEF Deref
  <2>2. Linked'
    BY <1>12 DEF Deref
  <2>3. Scanning'
    BY <1>12 DEF Deref
  <2>4. Identity'
    BY <1>12 DEF Deref
  <2>5. Owned'
    BY <1>12 DEF Deref
  <2>6. PinnedValid'
    BY <1>12 DEF Deref
  <2>7. OneBufferPerBlock'
    <3> HIDE DEF Caches, Detached
    <3> QED BY <2>0, SameCached, <1>12 DEF Deref
  <2>8. Current'
    BY <1>12 DEF Deref
  <2> QED BY <2>1, <2>2, <2>3, <2>4, <2>5, <2>6, <2>7, <2>8
<1>13. ASSUME UNCHANGED vars PROVE Shape'
  BY <1>13 DEF vars
<1> HIDE DEF Shape
<1> QED
  BY <1>1, <1>2, <1>3, <1>4, <1>5, <1>6, <1>7, <1>8, <1>9, <1>10, <1>11, <1>12, <1>13
  DEF Next, Bget

-----------------------------------------------------------------------------
(* The counts: a step leaves them and the references alone, or changes     *)
(* both by one.                                                            *)
LEMMA CountKept ==
  ASSUME RefcntExact, refcnt' = refcnt, pinned' = pinned,
         \A b \in Buf : Referrers(b)' = Referrers(b)
  PROVE  RefcntExact'
BY DEF RefcntExact

(* One more process refers to b.                                           *)
LEMMA CountUp ==
  ASSUME IInv, NEW p, NEW b \in Buf, p \notin Referrers(b),
         refcnt' = [refcnt EXCEPT ![b] = @ + 1], pinned' = pinned,
         Referrers(b)' = Referrers(b) \cup {p},
         \A c \in Buf \ {b} : Referrers(c)' = Referrers(c)
  PROVE  RefcntExact'
<1>1. /\ Cardinality(Referrers(b)') = Cardinality(Referrers(b)) + 1
      /\ Cardinality(Referrers(b)) \in Nat
  BY ReferrersFinite, FS_AddElement, FS_CardinalityType
<1>2. refcnt \in [Buf -> Nat] /\ RefcntExact
  BY DEF IInv, Shape, Types
<1> QED BY <1>1, <1>2 DEF RefcntExact

(* One process less refers to b.                                           *)
LEMMA CountDown ==
  ASSUME IInv, NEW p, NEW b \in Buf, p \in Referrers(b),
         refcnt' = [refcnt EXCEPT ![b] = @ - 1], pinned' = pinned,
         Referrers(b)' = Referrers(b) \ {p},
         \A c \in Buf \ {b} : Referrers(c)' = Referrers(c)
  PROVE  RefcntExact'
<1>1. /\ Cardinality(Referrers(b)') = Cardinality(Referrers(b)) - 1
      /\ Cardinality(Referrers(b)) \in Nat
  BY ReferrersFinite, FS_RemoveElement, FS_CardinalityType
<1>2. refcnt \in [Buf -> Nat] /\ RefcntExact
  BY DEF IInv, Shape, Types
<1> QED BY <1>1, <1>2 DEF RefcntExact

(* Every step keeps the reference counts exact.                            *)
LEMMA CountStep == IInv /\ [Next]_vars => RefcntExact'
<1> SUFFICES ASSUME IInv, [Next]_vars PROVE RefcntExact'
  OBVIOUS
<1>a. Types /\ RefcntExact /\ Shape
  BY DEF IInv, Shape
<1> USE ConstFacts DEF Types, Using, Evicting, Holding, Referrers, Goto, Hit, bufVars, procVars
<1>1. ASSUME NEW p \in Proc, pc[p] \in {"idle", "miss"}, NEW b \in Buf, Hit(p, b), pinned' = pinned
      PROVE  RefcntExact'
  <2>1. /\ p \notin Referrers(b) /\ Referrers(b)' = Referrers(b) \cup {p}
        /\ \A c \in Buf \ {b} : Referrers(c)' = Referrers(c)
    BY <1>a, <1>1
  <2> HIDE DEF Referrers
  <2> QED BY <2>1, <1>1, CountUp
<1>2. ASSUME NEW p \in Proc, NEW k \in Block, Lookup(p, k) PROVE RefcntExact'
  <2>1. CASE Found(k) # {}
    BY <2>1, <1>1, <1>2, <1>a DEF Lookup, Found
  <2>2. CASE Found(k) = {}
    <3>1. /\ pc' = [pc EXCEPT ![p] = "miss"] /\ pc[p] = "idle"
          /\ UNCHANGED <<at, refcnt, pinned>>
      BY <2>2, <1>2 DEF Lookup
    <3> QED BY <3>1, <1>a, CountKept
  <2> QED BY <2>1, <2>2
<1>3. ASSUME NEW p \in Proc, LookAgain(p) PROVE RefcntExact'
  <2>1. CASE Found(want[p]) # {}
    BY <2>1, <1>1, <1>3, <1>a DEF LookAgain, Found
  <2>2. CASE Found(want[p]) = {}
    <3>1. /\ pc' = [pc EXCEPT ![p] = "scan"] /\ pc[p] = "miss"
          /\ UNCHANGED <<at, refcnt, pinned>>
      BY <2>2, <1>3 DEF LookAgain
    <3> QED BY <3>1, <1>a, CountKept
  <2> QED BY <2>1, <2>2
<1>4. ASSUME NEW p \in Proc, ScanTake(p) PROVE RefcntExact'
  BY <1>4, <1>a, CountKept DEF ScanTake
<1>5. ASSUME NEW p \in Proc, ScanSkip(p) PROVE RefcntExact'
  BY <1>5, <1>a, CountKept DEF ScanSkip
<1>6. ASSUME NEW p \in Proc, Install(p) PROVE RefcntExact'
  <2>0. PICK b \in Buf : b = at[p]
    BY <1>a
  <2>1. b \in Buf /\ refcnt[b] = 0
    BY <2>0, <1>6, <1>a DEF Install, Shape, Scanning
  <2>2. refcnt' = [refcnt EXCEPT ![b] = @ + 1]
    BY <2>0, <2>1, <1>6, <1>a DEF Install
  <2>3. /\ p \notin Referrers(b) /\ Referrers(b)' = Referrers(b) \cup {p}
        /\ \A c \in Buf \ {b} : Referrers(c)' = Referrers(c)
    BY <2>0, <1>6, <1>a DEF Install
  <2>4. pinned' = pinned
    BY <2>0, <1>6 DEF Install
  <2> HIDE DEF Referrers
  <2> QED BY <2>1, <2>2, <2>3, <2>4, CountUp
<1>7. ASSUME NEW p \in Proc, Lock(p) PROVE RefcntExact'
  BY <1>7, <1>a, CountKept DEF Lock
<1>8. ASSUME NEW p \in Proc, Load(p) PROVE RefcntExact'
  BY <1>8, <1>a, CountKept DEF Load
<1>9. ASSUME NEW p \in Proc, NEW v \in Value, LogWrite(p, v) PROVE RefcntExact'
  <2>1. \A b \in Buf : Referrers(b)' = Referrers(b)
    BY <1>9 DEF LogWrite
  <2>2. \A b \in Buf : Cardinality(Referrers(b)) \in Nat
    BY ReferrersFinite, FS_CardinalityType
  <2>3. /\ at[p] \in Buf /\ pinned' = pinned \cup {at[p]}
        /\ refcnt' = [refcnt EXCEPT ![at[p]] = IF at[p] \in pinned THEN @ ELSE @ + 1]
    BY <1>9, <1>a DEF LogWrite
  <2> HIDE DEF Referrers
  <2> QED BY <2>1, <2>2, <2>3, <1>a DEF RefcntExact
<1>10. ASSUME NEW p \in Proc, Bwrite(p) PROVE RefcntExact'
  BY <1>10, <1>a, CountKept DEF Bwrite
<1>11. ASSUME NEW p \in Proc, Bunpin(p) PROVE RefcntExact'
  <2>1. \A b \in Buf : Referrers(b)' = Referrers(b)
    BY <1>11, <1>a DEF Bunpin
  <2>2. \A b \in Buf : Cardinality(Referrers(b)) \in Nat
    BY ReferrersFinite, FS_CardinalityType
  <2>3. at[p] \in Buf /\ at[p] \in pinned
    BY <1>11, <1>a DEF Bunpin, Shape, Owned
  <2>4. pinned' = pinned \ {at[p]} /\ refcnt' = [refcnt EXCEPT ![at[p]] = @ - 1]
    BY <1>11 DEF Bunpin
  <2> HIDE DEF Referrers
  <2> QED BY <2>1, <2>2, <2>3, <2>4, <1>a DEF RefcntExact
<1>12. ASSUME NEW p \in Proc, Brelse(p) PROVE RefcntExact'
  BY <1>12, <1>a, CountKept DEF Brelse
<1>13. ASSUME NEW p \in Proc, Deref(p) PROVE RefcntExact'
  <2>0. PICK b \in Buf : b = at[p]
    BY <1>a
  <2>1. /\ b \in Buf /\ p \in Referrers(b) /\ Referrers(b)' = Referrers(b) \ {p}
        /\ \A c \in Buf \ {b} : Referrers(c)' = Referrers(c)
    BY <2>0, <1>13, <1>a DEF Deref
  <2>2. refcnt' = [refcnt EXCEPT ![b] = @ - 1] /\ pinned' = pinned
    BY <2>0, <1>13 DEF Deref
  <2> HIDE DEF Referrers
  <2> QED BY <2>1, <2>2, CountDown
<1>14. ASSUME UNCHANGED vars PROVE RefcntExact'
  BY <1>14, <1>a, CountKept DEF vars
<1> HIDE DEF Types, Referrers, Goto, Hit, Using, Evicting, Holding
<1> QED
  BY <1>2, <1>3, <1>4, <1>5, <1>6, <1>7, <1>8, <1>9, <1>10, <1>11, <1>12, <1>13, <1>14
  DEF Next, Bget

(* After binit nobody refers to a buffer.                                  *)
LEMMA InitCounts == Init => RefcntExact
<1> SUFFICES ASSUME Init, NEW b \in Buf PROVE refcnt[b] = 0 /\ Referrers(b) = {} /\ b \notin pinned
  BY FS_EmptySet DEF RefcntExact
<1> QED BY DEF Init, Referrers

(* The invariant holds in every state the program reaches.                 *)
LEMMA Invariance == Spec => []IInv
<1>1. Init => IInv
  BY InitShape, InitCounts DEF IInv
<1>2. IInv /\ [Next]_vars => IInv'
  BY ShapeStep, CountStep, CountsReferenced DEF IInv
<1> QED BY <1>1, <1>2, PTL DEF Spec

(* Every variable keeps its type; in particular no reference count leaves  *)
(* 0 .. the number of processes and one pin.                               *)
THEOREM TypeCorrect == Spec => []TypeOK
<1>1. IInv => TypeOK
  <2> SUFFICES ASSUME IInv PROVE TypeOK
    OBVIOUS
  <2>1. Types /\ RefcntExact
    BY DEF IInv, Shape
  <2>2. ASSUME NEW b \in Buf PROVE refcnt[b] \in 0 .. Cardinality(Proc) + 1
    <3>1. /\ Cardinality(Referrers(b)) \in Nat /\ Cardinality(Proc) \in Nat
          /\ Cardinality(Referrers(b)) <= Cardinality(Proc)
      <4>1. Referrers(b) \in SUBSET Proc
        BY DEF Referrers
      <4> QED BY <4>1, FS_Subset, FS_CardinalityType, ConstantsAssumption
    <3> QED BY <3>1, <2>1 DEF RefcntExact
  <2> QED BY <2>1, <2>2 DEF Types, TypeOK, Using, Evicting
<1> QED BY <1>1, Invariance, PTL

(* No two buffers cache one block, whatever misses and evictions race.     *)
THEOREM OneCopy == Spec => []OneBufferPerBlock
<1>1. IInv => OneBufferPerBlock
  BY DEF IInv, Shape
<1> QED BY <1>1, Invariance, PTL

(* Reference counts are exact: they count the processes that have looked   *)
(* the buffer up and not yet let go of it, and the pin of the log.         *)
THEOREM CountsExact == Spec => []RefcntExact
<1>1. IInv => RefcntExact
  BY DEF IInv
<1> QED BY <1>1, Invariance, PTL

(* Whoever holds a buffer has its block's last contents before him.        *)
THEOREM HoldersSeeLatest == Spec => []HolderSeesLatest
<1>1. IInv => HolderSeesLatest
  <2> SUFFICES ASSUME IInv, NEW p \in Proc, pc[p] \in {"held", "flushed"}
               PROVE  valid[at[p]] /\ data[at[p]] = latest[want[p]]
    BY DEF HolderSeesLatest
  <2>1. Shape /\ Referenced
    BY CountsReferenced DEF IInv
  <2>2. at[p] \in Buf /\ want[p] \in Block /\ valid[at[p]]
    BY <2>1 DEF Shape, Types, Owned
  <2>3. Caches(at[p], want[p])
    <3>1. dev[at[p]] = RootDev /\ blockno[at[p]] = want[p]
      BY <2>1 DEF Shape, Identity, Using
    <3>2. ~Detached(at[p])
      BY <2>1 DEF Shape, Scanning, Referenced, Using, Detached
    <3> QED BY <3>1, <3>2 DEF Caches
  <2> QED BY <2>1, <2>2, <2>3 DEF Shape, Current
<1> QED BY <1>1, Invariance, PTL

-----------------------------------------------------------------------------
(* The scan.  Ahead(b) is how many buffers the hand passes before b.       *)
Ahead(b) == IF b >= hand THEN b - hand ELSE b - hand + NBUF

(* Buffers that have been idle since the scan began are still ahead of the *)
(* hand, within the NBUF - n turns that are left.                          *)
StillAhead ==
  \A p \in Proc :
    /\ pc[p] \notin {"scan", "panic"} => n[p] = 0
    /\ pc[p] = "scan" => \A b \in stayedIdle[p] : b \in Idle /\ Ahead(b) + n[p] < NBUF

(* How far the hand is from a buffer, and what one step of it changes.     *)
LEMMA HandFacts ==
  ASSUME hand \in Buf, hand' = (hand + 1) % NBUF, NEW b \in Buf
  PROVE  /\ Ahead(b) \in 0 .. NBUF - 1 /\ (Ahead(b) = 0 <=> b = hand)
         /\ b # hand => Ahead(b)' = Ahead(b) - 1
BY ConstantsAssumption, ConstFacts DEF Ahead, Buf

(* Before the first scan nothing has been passed.                          *)
LEMMA InitStillAhead == ScanInit => StillAhead
BY DEF ScanInit, Init, StillAhead

(* Steps that leave the hand alone and take no scan to another place.      *)
LEMMA HandStill ==
  ASSUME IInv, StillAhead, Observe, hand' = hand, n' = n,
         \A q \in Proc : pc[q] \in {"scan", "panic"} => pc'[q] = pc[q]
  PROVE  StillAhead'
<1>1. hand \in Buf /\ \A q \in Proc : n[q] \in Buf
  BY DEF IInv, Shape, Types
<1>2. ASSUME NEW q \in Proc, pc'[q] = "scan", NEW b \in stayedIdle'[q]
      PROVE  b \in Idle' /\ Ahead(b)' + n'[q] < NBUF
  <2>1. Ahead(b)' = Ahead(b)
    BY DEF Ahead
  <2>2. CASE pc[q] = "scan"
    <3>1. b \in stayedIdle[q] /\ b \in Idle'
      BY <1>2, <2>2 DEF Observe
    <3> QED BY <2>1, <2>2, <3>1 DEF StillAhead
  <2>3. CASE pc[q] # "scan"
    <3>1. stayedIdle'[q] = Idle'
      BY <1>2, <2>3 DEF Observe
    <3>2. b \in Idle' /\ b \in Buf
      BY <1>2, <3>1 DEF Idle
    <3>3. n[q] = 0
      BY <1>2, <2>3 DEF StillAhead
    <3>4. Ahead(b) + 0 < NBUF
      BY <1>1, <3>2, ConstantsAssumption DEF Ahead, Buf
    <3> QED BY <2>1, <3>2, <3>3, <3>4
  <2> QED BY <2>2, <2>3
<1>3. ASSUME NEW q \in Proc, pc'[q] \notin {"scan", "panic"} PROVE n'[q] = 0
  BY <1>3 DEF StillAhead
<1> QED BY <1>2, <1>3 DEF StillAhead

(* While one process scans no other does.                                  *)
LEMMA OneScan ==
  ASSUME IInv, NEW p \in Proc, NEW q \in Proc, pc[p] = "scan", pc[q] \in {"scan", "panic"}
  PROVE  q = p
BY DEF IInv, Shape, Scanning, Evicting

(* Moving the hand by one takes one buffer out of what is ahead.           *)
LEMMA HandMoves ==
  ASSUME IInv, StillAhead, Observe, NEW p \in Proc, ScanTake(p) \/ ScanSkip(p)
  PROVE  StillAhead'
<1>1. hand \in Buf /\ n \in [Proc -> Buf] /\ pc[p] = "scan" /\ hand' = (hand + 1) % NBUF /\ pc \in [Proc -> {"idle", "miss", "released"} \cup Using \cup Evicting]
  BY DEF IInv, Shape, Types, ScanTake, ScanSkip
<1>2. ASSUME NEW q \in Proc \ {p} PROVE pc'[q] = pc[q] /\ n'[q] = n[q] /\ pc'[q] \notin {"scan", "panic"}
  <2>1. pc'[q] = pc[q] /\ n'[q] = n[q]
    BY <1>1 DEF ScanTake, ScanSkip, Goto
  <2> QED BY <2>1, <1>1, OneScan
<1>3. CASE ScanTake(p)
  <2>1. n'[p] = 0 /\ pc'[p] = "detached"
    BY <1>1, <1>3 DEF ScanTake, Goto
  <2> QED BY <2>1, <1>2 DEF StillAhead
<1>4. CASE ScanSkip(p)
  <2>1. pc'[p] \in {"scan", "panic"} /\ (pc'[p] = "scan" => n'[p] = n[p] + 1)
    BY <1>1, <1>4 DEF ScanSkip, Goto
  <2>2. ASSUME pc'[p] = "scan", NEW b \in stayedIdle'[p]
        PROVE  b \in Idle' /\ Ahead(b)' + n'[p] < NBUF
    <3>1. b \in stayedIdle[p] /\ b \in Idle' /\ b \in Buf
      BY <1>1, <2>2 DEF Observe, Idle
    <3>2. Idle' = Idle /\ hand \notin Idle
      <4>1. refcnt' = refcnt /\ refcnt[hand] > 0 /\ refcnt \in [Buf -> Nat]
        BY <1>4 DEF ScanSkip, bufVars, IInv, Shape, Types
      <4> QED BY <4>1 DEF Idle
    <3>3. b # hand /\ Ahead(b) + n[p] < NBUF /\ n[p] \in Nat
      BY <1>1, <3>1, <3>2 DEF StillAhead, Buf
    <3>4. Ahead(b)' = Ahead(b) - 1 /\ Ahead(b) \in Nat
      BY <1>1, <3>1, <3>3, HandFacts
    <3> HIDE DEF Ahead
    <3> QED BY <2>1, <2>2, <3>1, <3>3, <3>4, ConstantsAssumption
  <2> QED BY <1>2, <2>1, <2>2 DEF StillAhead
<1> QED BY <1>3, <1>4

(* Every step keeps what the scan knows.                                   *)
LEMMA StillAheadStep ==
  ASSUME IInv, StillAhead, [ScanNext]_scanVars
  PROVE  StillAhead'
<1>a. pc \in [Proc -> {"idle", "miss", "released"} \cup Using \cup Evicting]
  BY DEF IInv, Shape, Types
<1> USE DEF Goto, Hit, procVars
<1>1. ASSUME NEW p \in Proc, NEW k \in Block, Lookup(p, k), Observe PROVE StillAhead'
  <2>1. CASE Found(k) # {}
    BY <2>1, <1>1, <1>a, HandStill DEF Lookup
  <2>2. CASE Found(k) = {}
    BY <2>2, <1>1, <1>a, HandStill DEF Lookup
  <2> QED BY <2>1, <2>2
<1>2. ASSUME NEW p \in Proc, LookAgain(p), Observe PROVE StillAhead'
  <2>1. CASE Found(want[p]) # {}
    BY <2>1, <1>2, <1>a, HandStill DEF LookAgain
  <2>2. CASE Found(want[p]) = {}
    BY <2>2, <1>2, <1>a, HandStill DEF LookAgain
  <2> QED BY <2>1, <2>2
<1>3. ASSUME NEW p \in Proc, ScanTake(p) \/ ScanSkip(p), Observe PROVE StillAhead'
  BY <1>3, HandMoves
<1>4. ASSUME NEW p \in Proc, Install(p) \/ Lock(p) \/ Load(p), Observe PROVE StillAhead'
  BY <1>4, <1>a, HandStill DEF Install, Lock, Load
<1>5. ASSUME NEW p \in Proc, NEW v \in Value, LogWrite(p, v), Observe PROVE StillAhead'
  BY <1>5, HandStill DEF LogWrite
<1>6. ASSUME NEW p \in Proc, Bwrite(p) \/ Bunpin(p) \/ Brelse(p) \/ Deref(p), Observe PROVE StillAhead'
  BY <1>6, <1>a, HandStill DEF Bwrite, Bunpin, Brelse, Deref
<1>7. ASSUME UNCHANGED scanVars PROVE StillAhead'
  BY <1>7 DEF scanVars, vars, bufVars, StillAhead, Ahead, Idle
<1> QED BY <1>1, <1>2, <1>3, <1>4, <1>5, <1>6, <1>7 DEF ScanNext

(* The history variable restricts nothing.                                 *)
LEMMA ScanNextIsNext == [ScanNext]_scanVars => [Next]_vars
BY DEF ScanNext, scanVars, Next, Bget

(* Both invariants hold with the history variable.                         *)
LEMMA ScanInvariance == ScanSpec => [](IInv /\ StillAhead)
<1>1. ScanInit => IInv /\ StillAhead
  BY InitShape, InitCounts, InitStillAhead DEF IInv, ScanInit
<1>2. IInv /\ StillAhead /\ [ScanNext]_scanVars => (IInv /\ StillAhead)'
  BY ScanNextIsNext, ShapeStep, CountStep, CountsReferenced, StillAheadStep DEF IInv
<1> QED BY <1>1, <1>2, PTL DEF ScanSpec

(* A scan panics only if it found every buffer referenced at some moment:  *)
(* no buffer stayed idle from its first turn to its last.                  *)
THEOREM ScanMissesNothing == ScanSpec => PanicMeansNothingStayedIdle
<1>1. IInv /\ StillAhead /\ [ScanNext]_scanVars =>
        [\A p \in Proc : Panics(p) => stayedIdle[p] = {}]_scanVars
  <2> SUFFICES ASSUME IInv, StillAhead, ScanNext, NEW p \in Proc, Panics(p)
               PROVE  stayedIdle[p] = {}
    OBVIOUS
  <2>1. pc \in [Proc -> {"idle", "miss", "released"} \cup Using \cup Evicting] /\ hand \in Buf /\ n[p] \in Buf /\ refcnt \in [Buf -> Nat]
    BY DEF IInv, Shape, Types
  <2>2. ScanSkip(p)
    <3> USE <2>1 DEF Panics, Goto, Hit, procVars
    <3>1. ASSUME NEW q \in Proc, NEW k \in Block, Lookup(q, k) PROVE FALSE
      BY <3>1 DEF Lookup
    <3>2. ASSUME NEW q \in Proc, LookAgain(q) PROVE FALSE
      BY <3>2 DEF LookAgain
    <3>3. ASSUME NEW q \in Proc, ScanTake(q) PROVE FALSE
      BY <3>3 DEF ScanTake
    <3>4. ASSUME NEW q \in Proc, ScanSkip(q) PROVE q = p
      BY <3>4 DEF ScanSkip
    <3>5. ASSUME NEW q \in Proc, Install(q) \/ Lock(q) \/ Load(q) PROVE FALSE
      BY <3>5 DEF Install, Lock, Load
    <3>6. ASSUME NEW q \in Proc, NEW v \in Value, LogWrite(q, v) PROVE FALSE
      BY <3>6 DEF LogWrite
    <3>7. ASSUME NEW q \in Proc, Bwrite(q) \/ Bunpin(q) \/ Brelse(q) \/ Deref(q) PROVE FALSE
      BY <3>7 DEF Bwrite, Bunpin, Brelse, Deref
    <3> QED BY <3>1, <3>2, <3>3, <3>4, <3>5, <3>6, <3>7 DEF ScanNext
  <2>3. refcnt[hand] > 0 /\ ~(n[p] + 1 < NBUF)
    BY <2>1, <2>2 DEF ScanSkip, Panics
  <2>4. ASSUME NEW b \in stayedIdle[p] PROVE FALSE
    <3>1. b \in Idle /\ Ahead(b) + n[p] < NBUF /\ b \in Buf
      BY DEF StillAhead, Panics, Idle
    <3>2. b # hand
      BY <2>1, <2>3, <3>1 DEF Idle
    <3>3. Ahead(b) \in Nat \ {0}
      BY <2>1, <3>1, <3>2, ConstantsAssumption, SMTT(30) DEF Ahead, Buf
    <3>4. n[p] \in Nat /\ NBUF \in Nat
      BY <2>1, ConstantsAssumption DEF Buf
    <3> HIDE DEF Ahead
    <3> QED BY <2>3, <3>1, <3>3, <3>4
  <2> QED BY <2>4
<1> QED BY <1>1, ScanInvariance, PTL DEF ScanSpec, PanicMeansNothingStayedIdle
=============================================================================
