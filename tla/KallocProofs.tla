---------------------------- MODULE KallocProofs ----------------------------
(***************************************************************************)
(* Proofs about Kalloc for every number of CPUs, pages and batch size.     *)
(***************************************************************************)
EXTENDS KallocScan, SequenceTheorems, TLAPS

-----------------------------------------------------------------------------
(* Lemmas about the list operators the actions are built from.             *)

(* Concatenating two lists without duplicates and without common pages.    *)
LEMMA ConcatParts ==
  ASSUME NEW S, NEW s \in Seq(S), NEW t \in Seq(S)
  PROVE  /\ s \o t \in Seq(S)
         /\ Range(s \o t) = Range(s) \cup Range(t)
         /\ IsInjective(s) /\ IsInjective(t) /\ Range(s) \cap Range(t) = {}
              => IsInjective(s \o t)
<1>1. /\ s \o t \in Seq(S)
      /\ Len(s \o t) = Len(s) + Len(t)
      /\ \A i \in 1 .. Len(s) + Len(t) :
           (s \o t)[i] = IF i <= Len(s) THEN s[i] ELSE t[i - Len(s)]
  BY ConcatProperties
<1>2. /\ Len(s) \in Nat /\ Len(t) \in Nat
      /\ DOMAIN s = 1 .. Len(s) /\ DOMAIN t = 1 .. Len(t)
      /\ DOMAIN (s \o t) = 1 .. Len(s \o t)
  BY <1>1, LenProperties
<1>3. Range(s \o t) = Range(s) \cup Range(t)
  BY RangeConcatenation
<1>4. ASSUME IsInjective(s), IsInjective(t), Range(s) \cap Range(t) = {}
      PROVE  IsInjective(s \o t)
  <2> SUFFICES ASSUME NEW i \in 1 .. Len(s) + Len(t),
                      NEW j \in 1 .. Len(s) + Len(t),
                      (s \o t)[i] = (s \o t)[j]
               PROVE  i = j
    BY <1>1, <1>2 DEF IsInjective
  <2>1. CASE i <= Len(s) /\ j <= Len(s)
    BY <2>1, <1>1, <1>2, <1>4 DEF IsInjective
  <2>2. CASE i > Len(s) /\ j > Len(s)
    <3>1. i - Len(s) \in DOMAIN t /\ j - Len(s) \in DOMAIN t
      BY <2>2, <1>2
    <3>2. t[i - Len(s)] = t[j - Len(s)]
      BY <2>2, <1>1, <1>2
    <3>3. i - Len(s) = j - Len(s)
      BY <3>1, <3>2, <1>4 DEF IsInjective
    <3> QED BY <3>3, <1>2
  <2>3. CASE i <= Len(s) /\ j > Len(s)
    <3>1. i \in DOMAIN s /\ j - Len(s) \in DOMAIN t /\ s[i] = t[j - Len(s)]
      BY <2>3, <1>1, <1>2
    <3> QED BY <3>1, <1>4 DEF Range
  <2>4. CASE i > Len(s) /\ j <= Len(s)
    <3>1. j \in DOMAIN s /\ i - Len(s) \in DOMAIN t /\ s[j] = t[i - Len(s)]
      BY <2>4, <1>1, <1>2
    <3> QED BY <3>1, <1>4 DEF Range
  <2> QED BY <2>1, <2>2, <2>3, <2>4, <1>2
<1> QED BY <1>1, <1>3, <1>4

(* Cutting a list after its first n pages.                                 *)
LEMMA CutParts ==
  ASSUME NEW S, NEW s \in Seq(S), NEW n \in 0 .. Len(s)
  PROVE  /\ SubSeq(s, 1, n) \in Seq(S) /\ Len(SubSeq(s, 1, n)) = n
         /\ SubSeq(s, n + 1, Len(s)) \in Seq(S)
         /\ Range(s) = Range(SubSeq(s, 1, n)) \cup Range(SubSeq(s, n + 1, Len(s)))
         /\ IsInjective(s) =>
              /\ IsInjective(SubSeq(s, 1, n))
              /\ IsInjective(SubSeq(s, n + 1, Len(s)))
              /\ Range(SubSeq(s, 1, n)) \cap Range(SubSeq(s, n + 1, Len(s))) = {}
<1> DEFINE a == SubSeq(s, 1, n)
           b == SubSeq(s, n + 1, Len(s))
<1>1. Len(s) \in Nat /\ DOMAIN s = 1 .. Len(s) /\ \A i \in 1 .. Len(s) : s[i] \in S
  BY LenProperties, ElementOfSeq
<1>2. a \in Seq(S) /\ Len(a) = n /\ \A i \in 1 .. n : a[i] = s[i]
  <2>1. \A i \in 1 .. n : s[i] \in S
    BY <1>1
  <2>2. /\ a \in Seq(S)
        /\ Len(a) = IF 1 <= n THEN n - 1 + 1 ELSE 0
        /\ \A i \in 1 .. n - 1 + 1 : a[i] = s[1 + i - 1]
    BY <2>1, <1>1, SubSeqProperties
  <2> QED BY <2>2, <1>1
<1>3. b \in Seq(S) /\ Len(b) = Len(s) - n /\ \A i \in 1 .. Len(s) - n : b[i] = s[n + i]
  <2>1. \A i \in n + 1 .. Len(s) : s[i] \in S
    BY <1>1
  <2>2. /\ b \in Seq(S)
        /\ Len(b) = IF n + 1 <= Len(s) THEN Len(s) - (n + 1) + 1 ELSE 0
        /\ \A i \in 1 .. Len(s) - (n + 1) + 1 : b[i] = s[(n + 1) + i - 1]
    BY <2>1, <1>1, SubSeqProperties
  <2> HIDE DEF b
  <2>3. Len(s) - (n + 1) + 1 = Len(s) - n
    BY <1>1
  <2>4. Len(b) = Len(s) - n
    <3>1. Len(b) = IF n + 1 <= Len(s) THEN Len(s) - (n + 1) + 1 ELSE 0
      BY <2>2
    <3>2. Len(s) \in Nat /\ n \in Nat /\ n <= Len(s)
      BY <1>1
    <3>3. (IF n + 1 <= Len(s) THEN Len(s) - (n + 1) + 1 ELSE 0) = Len(s) - n
      BY <3>2
    <3> QED BY <3>1, <3>3
  <2>5. ASSUME NEW i \in 1 .. Len(s) - n
        PROVE  b[i] = s[n + i]
    <3>1. i \in 1 .. Len(s) - (n + 1) + 1 /\ (n + 1) + i - 1 = n + i
      BY <2>3, <1>1
    <3> QED BY <3>1, <2>2
  <2> QED BY <2>2, <2>4, <2>5
<1>4. DOMAIN a = 1 .. n /\ DOMAIN b = 1 .. Len(s) - n
  BY <1>2, <1>3, LenProperties
<1> HIDE DEF a, b
<1>5. Range(s) = Range(a) \cup Range(b)
  <2>1. \A i \in 1 .. Len(s) : s[i] \in Range(a) \cup Range(b)
    <3> TAKE i \in 1 .. Len(s)
    <3>1. CASE i <= n
      BY <3>1, <1>1, <1>2, <1>4 DEF Range
    <3>2. CASE i > n
      <4>1. i - n \in 1 .. Len(s) - n /\ b[i - n] = s[i]
        BY <3>2, <1>1, <1>3
      <4> QED BY <4>1, <1>4 DEF Range
    <3> QED BY <3>1, <3>2, <1>1
  <2>2. \A i \in 1 .. n : a[i] \in Range(s)
    BY <1>1, <1>2 DEF Range
  <2>3. \A i \in 1 .. Len(s) - n : b[i] \in Range(s)
    BY <1>1, <1>3 DEF Range
  <2> QED BY <2>1, <2>2, <2>3, <1>1, <1>4 DEF Range
<1>6. ASSUME IsInjective(s)
      PROVE  IsInjective(a) /\ IsInjective(b) /\ Range(a) \cap Range(b) = {}
  <2>1. IsInjective(a)
    BY <1>1, <1>2, <1>4, <1>6 DEF IsInjective
  <2>2. IsInjective(b)
    <3> SUFFICES ASSUME NEW i \in 1 .. Len(s) - n, NEW j \in 1 .. Len(s) - n,
                        b[i] = b[j]
                 PROVE  i = j
      BY <1>4 DEF IsInjective
    <3>1. n + i \in DOMAIN s /\ n + j \in DOMAIN s /\ s[n + i] = s[n + j]
      BY <1>1, <1>3
    <3>2. n + i = n + j
      BY <3>1, <1>6 DEF IsInjective
    <3> QED BY <3>2
  <2>3. \A i \in 1 .. n, j \in 1 .. Len(s) - n : a[i] # b[j]
    <3> TAKE i \in 1 .. n, j \in 1 .. Len(s) - n
    <3>1. i \in DOMAIN s /\ n + j \in DOMAIN s /\ i # n + j
      BY <1>1
    <3>2. s[i] # s[n + j]
      BY <3>1, <1>6 DEF IsInjective
    <3> QED BY <3>2, <1>2, <1>3
  <2> QED BY <2>1, <2>2, <2>3, <1>4 DEF Range
<1> QED BY <1>2, <1>3, <1>5, <1>6 DEF a, b

(* Pushing a page in front of a list.                                      *)
LEMMA PushParts ==
  ASSUME NEW S, NEW s \in Seq(S), NEW p \in S
  PROVE  /\ Push(s, p) \in Seq(S)
         /\ Range(Push(s, p)) = {p} \cup Range(s)
         /\ IsInjective(s) /\ p \notin Range(s) => IsInjective(Push(s, p))
<1> DEFINE one == <<p>>
<1>1. one \in Seq(S) /\ Range(one) = {p} /\ IsInjective(one)
  BY DEF Range, IsInjective
<1>2. Push(s, p) = one \o s
  BY DEF Push
<1> HIDE DEF one
<1>3. /\ one \o s \in Seq(S)
      /\ Range(one \o s) = Range(one) \cup Range(s)
      /\ IsInjective(one) /\ IsInjective(s) /\ Range(one) \cap Range(s) = {}
           => IsInjective(one \o s)
  BY <1>1, ConcatParts
<1>4. p \notin Range(s) => Range(one) \cap Range(s) = {}
  BY <1>1
<1> QED BY <1>1, <1>2, <1>3, <1>4

(* Taking the first page off a list.                                       *)
LEMMA HeadParts ==
  ASSUME NEW S, NEW s \in Seq(S), s # << >>
  PROVE  /\ Head(s) \in S /\ Tail(s) \in Seq(S)
         /\ Range(s) = {Head(s)} \cup Range(Tail(s))
         /\ IsInjective(s) => IsInjective(Tail(s)) /\ Head(s) \notin Range(Tail(s))
<1>1. Len(s) \in Nat \ {0} /\ DOMAIN s = 1 .. Len(s)
  BY EmptySeq, LenProperties
<1>2. /\ Head(s) \in S /\ Tail(s) \in Seq(S) /\ Len(Tail(s)) = Len(s) - 1
      /\ \A i \in 1 .. Len(Tail(s)) : Tail(s)[i] = s[i + 1]
  BY HeadTailProperties
<1>3. DOMAIN Tail(s) = 1 .. Len(s) - 1
  BY <1>2, LenProperties
<1>4. Head(s) = s[1]
  BY <1>1
<1>5. Range(s) = {Head(s)} \cup Range(Tail(s))
  <2>1. \A i \in 1 .. Len(s) : s[i] \in {Head(s)} \cup Range(Tail(s))
    <3> TAKE i \in 1 .. Len(s)
    <3>1. CASE i = 1
      BY <3>1, <1>4
    <3>2. CASE i # 1
      <4>1. i - 1 \in 1 .. Len(s) - 1 /\ Tail(s)[i - 1] = s[i]
        BY <3>2, <1>1, <1>2
      <4> QED BY <4>1, <1>3 DEF Range
    <3> QED BY <3>1, <3>2
  <2>2. \A i \in 1 .. Len(s) - 1 : Tail(s)[i] \in Range(s)
    BY <1>1, <1>2 DEF Range
  <2>3. Head(s) \in Range(s)
    BY <1>1, <1>4 DEF Range
  <2> QED BY <2>1, <2>2, <2>3, <1>1, <1>3 DEF Range
<1>6. ASSUME IsInjective(s)
      PROVE  IsInjective(Tail(s)) /\ Head(s) \notin Range(Tail(s))
  <2>1. \A i \in 1 .. Len(s) - 1 : i + 1 \in DOMAIN s /\ 1 \in DOMAIN s /\ i + 1 # 1
    BY <1>1
  <2>2. \A i, j \in 1 .. Len(s) - 1 : Tail(s)[i] = Tail(s)[j] => i = j
    <3> TAKE i, j \in 1 .. Len(s) - 1
    <3> HAVE Tail(s)[i] = Tail(s)[j]
    <3>1. s[i + 1] = s[j + 1]
      BY <1>1, <1>2
    <3>2. i + 1 = j + 1
      BY <3>1, <2>1, <1>6 DEF IsInjective
    <3> QED BY <3>2
  <2>3. \A i \in 1 .. Len(s) - 1 : Tail(s)[i] # s[1]
    <3> TAKE i \in 1 .. Len(s) - 1
    <3>1. s[i + 1] # s[1]
      BY <2>1, <1>6 DEF IsInjective
    <3> QED BY <3>1, <1>1, <1>2
  <2> QED BY <2>2, <2>3, <1>3, <1>4 DEF IsInjective, Range
<1> QED BY <1>2, <1>5, <1>6

-----------------------------------------------------------------------------
(* The donor a scan looks at is a CPU.                                     *)
LEMMA DonorIsCPU ==
  ASSUME TypeOK, NEW c \in CPU
  PROVE  Donor(c) \in CPU
<1>1. NCPU \in Nat \ {0} /\ offset[c] \in 0 .. NCPU /\ c \in Nat
  BY ConstantsAssumption DEF ConstantsAssumption, TypeOK, CPU
<1>2. PICK x \in Nat : x = c + offset[c]
  BY <1>1
<1>3. x % NCPU \in 0 .. NCPU - 1
  BY <1>1
<1> QED BY <1>2, <1>3 DEF Donor, CPU

(* Cutting a batch off a donor's list.                                     *)
LEMMA BatchParts ==
  ASSUME NEW list \in Seq(Page)
  PROVE  /\ BatchOf(list) \in 0 .. Len(list) /\ BatchOf(list) <= Batch
         /\ BatchOf(list) > 0 => list # << >>
         /\ Detached(list) \in Seq(Page) /\ Len(Detached(list)) = BatchOf(list)
         /\ LeftBehind(list) \in Seq(Page)
         /\ Range(list) = Range(Detached(list)) \cup Range(LeftBehind(list))
         /\ IsInjective(list) =>
              /\ IsInjective(Detached(list)) /\ IsInjective(LeftBehind(list))
              /\ Range(Detached(list)) \cap Range(LeftBehind(list)) = {}
<1>1. Len(list) \in Nat
  BY LenProperties
<1>2. BatchOf(list) \in 0 .. Len(list) /\ BatchOf(list) <= Batch
  BY <1>1, ConstantsAssumption DEF BatchOf, Min
<1>3. BatchOf(list) > 0 => list # << >>
  BY <1>1, <1>2, EmptySeq
<1> QED BY <1>2, <1>3, CutParts DEF Detached, LeftBehind

(* A batch of one page is just the head of the list.                       *)
LEMMA BatchOfOne ==
  ASSUME NEW list \in Seq(Page), BatchOf(list) = 1
  PROVE  /\ list # << >> /\ Head(list) \in Page
         /\ Range(Detached(list)) = {Head(list)}
<1>0. BatchOf(list) > 0
  OBVIOUS
<1>1. list # << >> /\ Len(Detached(list)) = 1 /\ Detached(list) \in Seq(Page)
  BY <1>0, BatchParts
<1>2. Head(list) \in Page /\ Head(list) = list[1] /\ Len(list) \in Nat \ {0}
  BY <1>1, HeadTailProperties, EmptySeq
<1>3. Detached(list)[1] = list[1]
  <2>1. 1 \in 1 .. Len(list) /\ list[1] \in Page
    BY <1>2, ElementOfSeq
  <2>2. \A i \in 1 .. 1 : list[i] \in Page
    BY <2>1
  <2>3. \A i \in 1 .. 1 - 1 + 1 : SubSeq(list, 1, 1)[i] = list[1 + i - 1]
    BY <2>2, SubSeqProperties
  <2>4. SubSeq(list, 1, 1)[1] = list[1]
    BY <2>3
  <2> QED BY <2>4 DEF Detached
<1>4. DOMAIN Detached(list) = {1}
  BY <1>1, LenProperties
<1> QED BY <1>1, <1>2, <1>3, <1>4 DEF Range

-----------------------------------------------------------------------------
(* While freerange runs no other CPU is inside the allocator.              *)
BootQuiet == Booted \/ \A c \in CPU : pc[c] = "idle"

(* The inductive invariant: a publishing CPU needs its chain to be there   *)
(* for the types, and freerange needs NoLeak to know that the page it      *)
(* frees is not yet anywhere.                                              *)
IInv == /\ TypeOK
        /\ ChainWhilePublishing
        /\ BootQuiet
        /\ OwnListEmptyInKalloc
        /\ OnePlace
        /\ NoLeak

(* Boot starts in the invariant.                                           *)
LEMMA InitIInv == Init => IInv
<1> SUFFICES ASSUME Init PROVE IInv
  OBVIOUS
<1> USE ConstantsAssumption DEF Init
<1>1. TypeOK
  BY EmptySeq DEF TypeOK
<1>2. ChainWhilePublishing /\ BootQuiet /\ OwnListEmptyInKalloc
  BY DEF ChainWhilePublishing, BootQuiet, OwnListEmptyInKalloc
<1>3. \A c \in CPU : Range(freelist[c]) = {} /\ Range(chain[c]) = {}
  BY DEF Range
<1>4. OnePlace
  BY <1>3 DEF OnePlace, FreePages, Listed, InTransit, IsInjective
<1>5. NoLeak
  BY <1>3 DEF NoLeak, FreePages, Listed, InTransit
<1> QED BY <1>1, <1>2, <1>4, <1>5 DEF IInv

(* Every step keeps the types.                                             *)
LEMMA TypeStep ==
  ASSUME TypeOK, ChainWhilePublishing, [Next]_vars
  PROVE  TypeOK' /\ ChainWhilePublishing'
<1> USE ConstantsAssumption DEF TypeOK, ChainWhilePublishing
<1>1. CASE FreeRange
  <2>1. nextPage \in Page /\ nextPage % NCPU \in CPU
    BY <1>1 DEF FreeRange, Page, CPU
  <2>2. \A c \in CPU : Push(freelist[c], nextPage) \in Seq(Page)
    BY <2>1 DEF Push
  <2> QED BY <1>1, <2>1, <2>2 DEF FreeRange
<1>2. ASSUME NEW c \in CPU, NEW p \in Page, Kfree(c, p)
      PROVE  TypeOK' /\ ChainWhilePublishing'
  <2>1. Push(freelist[c], p) \in Seq(Page)
    BY DEF Push
  <2> QED BY <1>2, <2>1 DEF Kfree
<1>3. ASSUME NEW c \in CPU, KallocLocal(c)
      PROVE  TypeOK' /\ ChainWhilePublishing'
  BY <1>3, HeadTailProperties DEF KallocLocal
<1>4. ASSUME NEW c \in CPU, KallocMiss(c)
      PROVE  TypeOK' /\ ChainWhilePublishing'
  BY <1>4 DEF KallocMiss
<1>5. ASSUME NEW c \in CPU, SkipDonor(c)
      PROVE  TypeOK' /\ ChainWhilePublishing'
  BY <1>5 DEF SkipDonor
<1>6. ASSUME NEW c \in CPU, StealBatch(c)
      PROVE  TypeOK' /\ ChainWhilePublishing'
  <2> DEFINE list == freelist[Donor(c)]
  <2>1. Donor(c) \in CPU /\ list \in Seq(Page) /\ Len(list) \in Nat
    BY DonorIsCPU, LenProperties
  <2> HIDE DEF list
  <2>3. /\ Detached(list) \in Seq(Page) /\ LeftBehind(list) \in Seq(Page)
        /\ Len(Detached(list)) = BatchOf(list)
        /\ BatchOf(list) \in 0 .. Len(list) /\ BatchOf(list) <= Batch
    BY <2>1, BatchParts
  <2>4. BatchOf(list) > 1
    BY <1>6 DEF StealBatch, list
  <2>2. /\ Detached(list) \in Seq(Page) /\ LeftBehind(list) \in Seq(Page)
        /\ Len(Detached(list)) \in 2 .. Batch
    BY <2>1, <2>3, <2>4
  <2> QED BY <1>6, <2>1, <2>2 DEF StealBatch, list
<1>7. ASSUME NEW c \in CPU, StealOne(c)
      PROVE  TypeOK' /\ ChainWhilePublishing'
  <2> DEFINE list == freelist[Donor(c)]
  <2>1. Donor(c) \in CPU /\ list \in Seq(Page) /\ BatchOf(list) = 1
    BY <1>7, DonorIsCPU DEF StealOne
  <2>2. LeftBehind(list) \in Seq(Page) /\ Head(list) \in Page
    BY <2>1, BatchParts, BatchOfOne
  <2> QED BY <1>7, <2>1, <2>2 DEF StealOne
<1>8. ASSUME NEW c \in CPU, Publish(c)
      PROVE  TypeOK' /\ ChainWhilePublishing'
  <2>1. chain[c] \in Seq(Page) /\ chain[c] # << >>
    BY <1>8, EmptySeq DEF Publish
  <2>2. Head(chain[c]) \in Page /\ Tail(chain[c]) \in Seq(Page)
    BY <2>1, HeadTailProperties
  <2>3. Tail(chain[c]) \o freelist[c] \in Seq(Page)
    BY <2>2
  <2> QED BY <1>8, <2>2, <2>3 DEF Publish
<1>9. ASSUME NEW c \in CPU, KallocFail(c)
      PROVE  TypeOK' /\ ChainWhilePublishing'
  BY <1>9 DEF KallocFail
<1>10. CASE UNCHANGED vars
  BY <1>10 DEF vars
<1> QED BY <1>1, <1>2, <1>3, <1>4, <1>5, <1>6, <1>7, <1>8, <1>9, <1>10
        DEF Next, CPUStep

(* A CPU's own list stays empty while it is inside kalloc.                 *)
LEMMA OwnListStep ==
  ASSUME TypeOK, BootQuiet, OwnListEmptyInKalloc, [Next]_vars
  PROVE  BootQuiet' /\ OwnListEmptyInKalloc'
<1> USE ConstantsAssumption DEF TypeOK, BootQuiet, OwnListEmptyInKalloc, Booted
<1>1. CASE FreeRange
  BY <1>1 DEF FreeRange
<1>2. ASSUME NEW c \in CPU, NEW p \in Page, Kfree(c, p)
      PROVE  BootQuiet' /\ OwnListEmptyInKalloc'
  BY <1>2 DEF Kfree
<1>3. ASSUME NEW c \in CPU, KallocLocal(c)
      PROVE  BootQuiet' /\ OwnListEmptyInKalloc'
  BY <1>3 DEF KallocLocal
<1>4. ASSUME NEW c \in CPU, KallocMiss(c)
      PROVE  BootQuiet' /\ OwnListEmptyInKalloc'
  BY <1>4 DEF KallocMiss
<1>5. ASSUME NEW c \in CPU, SkipDonor(c)
      PROVE  BootQuiet' /\ OwnListEmptyInKalloc'
  BY <1>5 DEF SkipDonor
<1>6. ASSUME NEW c \in CPU, StealBatch(c)
      PROVE  BootQuiet' /\ OwnListEmptyInKalloc'
  <2> DEFINE list == freelist[Donor(c)]
  <2>1. Donor(c) \in CPU /\ list \in Seq(Page)
    BY DonorIsCPU
  <2> HIDE DEF list
  <2>2. BatchOf(list) > 0 => list # << >>
    BY <2>1, BatchParts
  <2>3. BatchOf(list) \in Int
    BY <2>1, BatchParts, LenProperties
  <2>4. BatchOf(list) > 0
    BY <1>6, <2>3 DEF StealBatch, list
  <2> QED BY <1>6, <2>1, <2>2, <2>4 DEF StealBatch, list
<1>7. ASSUME NEW c \in CPU, StealOne(c)
      PROVE  BootQuiet' /\ OwnListEmptyInKalloc'
  <2> DEFINE list == freelist[Donor(c)]
  <2>1. Donor(c) \in CPU /\ list \in Seq(Page)
    BY DonorIsCPU
  <2> HIDE DEF list
  <2>2. BatchOf(list) > 0 => list # << >>
    BY <2>1, BatchParts
  <2>3. BatchOf(list) \in Int
    BY <2>1, BatchParts, LenProperties
  <2>4. BatchOf(list) > 0
    BY <1>7, <2>3 DEF StealOne, list
  <2> QED BY <1>7, <2>1, <2>2, <2>4 DEF StealOne, list
<1>8. ASSUME NEW c \in CPU, Publish(c)
      PROVE  BootQuiet' /\ OwnListEmptyInKalloc'
  BY <1>8 DEF Publish
<1>9. ASSUME NEW c \in CPU, KallocFail(c)
      PROVE  BootQuiet' /\ OwnListEmptyInKalloc'
  BY <1>9 DEF KallocFail
<1>10. CASE UNCHANGED vars
  BY <1>10 DEF vars
<1> QED BY <1>1, <1>2, <1>3, <1>4, <1>5, <1>6, <1>7, <1>8, <1>9, <1>10
        DEF Next, CPUStep

(* What a step must do to the sets of pages on the lists and in the chains *)
(* for OnePlace and NoLeak to survive it.                                  *)
LEMMA PlaceStep ==
  ASSUME IInv, TypeOK', ChainWhilePublishing', [Next]_vars
  PROVE  OnePlace' /\ NoLeak'
<1>u. /\ \A x : x \in FreePages <=>
             \E c \in CPU : x \in Range(freelist[c]) \/ x \in Range(chain[c])
      /\ \A x : x \in FreePages' <=>
             \E c \in CPU : x \in Range(freelist'[c]) \/ x \in Range(chain'[c])
  BY DEF FreePages, Listed, InTransit
<1> USE ConstantsAssumption DEF IInv, OnePlace, NoLeak
<1>t. /\ \A c \in CPU : freelist[c] \in Seq(Page) /\ chain[c] \in Seq(Page)
      /\ \A c \in CPU : freelist'[c] \in Seq(Page) /\ chain'[c] \in Seq(Page)
      /\ freelist \in [CPU -> Seq(Page)] /\ chain \in [CPU -> Seq(Page)]
      /\ nextPage \in FirstPage .. PhysTop /\ used \subseteq Page
  BY DEF TypeOK
<1>1. CASE FreeRange
  <2> DEFINE k == nextPage % NCPU
  <2>1. nextPage \in Page /\ k \in CPU
    BY <1>1, <1>t DEF FreeRange, Page, CPU
  <2>2. nextPage \notin FreePages \cup used
    BY <1>t
  <2> HIDE DEF k
  <2>3. /\ freelist'[k] = Push(freelist[k], nextPage)
        /\ \A c \in CPU \ {k} : freelist'[c] = freelist[c]
        /\ chain' = chain /\ used' = used /\ nextPage' = nextPage + 1
    BY <1>1, <2>1, <1>t DEF FreeRange, k
  <2>4. nextPage \notin Range(freelist[k]) /\ IsInjective(freelist[k])
    BY <2>1, <2>2, <1>u
  <2>5. /\ Range(freelist'[k]) = {nextPage} \cup Range(freelist[k])
        /\ IsInjective(freelist'[k])
    BY <2>1, <2>3, <2>4, <1>t, PushParts
  <2>6. FreePages' = FreePages \cup {nextPage}
    BY <2>1, <2>3, <2>5, <1>u
  <2>7. OnePlace'
    <3>1. /\ \A c \in CPU : IsInjective(freelist'[c]) /\ IsInjective(chain'[c])
          /\ \A c \in CPU : nextPage \notin Range(freelist[c])
          /\ \A c \in CPU : nextPage \notin Range(chain[c])
      BY <2>2, <2>3, <2>5, <1>u
    <3>2. FreePages' \cap used' = {}
      BY <2>2, <2>3, <2>6
    <3>3. ASSUME NEW c \in CPU, NEW d \in CPU
          PROVE  /\ c # d => Range(freelist'[c]) \cap Range(freelist'[d]) = {}
                 /\ c # d => Range(chain'[c]) \cap Range(chain'[d]) = {}
                 /\ Range(freelist'[c]) \cap Range(chain'[d]) = {}
      BY <2>1, <2>3, <2>5, <3>1
    <3> QED BY <3>1, <3>2, <3>3
  <2>8. NoLeak'
    BY <2>3, <2>6, <1>t
  <2> QED BY <2>7, <2>8
<1>2. ASSUME NEW c \in CPU, NEW p \in Page, Kfree(c, p)
      PROVE  OnePlace' /\ NoLeak'
  <2>1. p \in used /\ p \notin FreePages
    BY <1>2 DEF Kfree
  <2>2. /\ freelist'[c] = Push(freelist[c], p)
        /\ \A d \in CPU \ {c} : freelist'[d] = freelist[d]
        /\ chain' = chain /\ used' = used \ {p} /\ nextPage' = nextPage
    BY <1>2, <1>t DEF Kfree
  <2>3. p \notin Range(freelist[c]) /\ IsInjective(freelist[c])
    BY <2>1, <1>u
  <2>4. /\ Range(freelist'[c]) = {p} \cup Range(freelist[c])
        /\ IsInjective(freelist'[c])
    BY <2>2, <2>3, <1>t, PushParts
  <2>5. FreePages' = FreePages \cup {p}
    BY <2>2, <2>4, <1>u
  <2>6. OnePlace'
    <3>1. /\ \A d \in CPU : IsInjective(freelist'[d]) /\ IsInjective(chain'[d])
          /\ \A d \in CPU : p \notin Range(freelist[d])
          /\ \A d \in CPU : p \notin Range(chain[d])
      BY <2>1, <2>2, <2>4, <1>u
    <3>2. FreePages' \cap used' = {}
      BY <2>1, <2>2, <2>5
    <3>3. ASSUME NEW d \in CPU, NEW e \in CPU
          PROVE  /\ d # e => Range(freelist'[d]) \cap Range(freelist'[e]) = {}
                 /\ d # e => Range(chain'[d]) \cap Range(chain'[e]) = {}
                 /\ Range(freelist'[d]) \cap Range(chain'[e]) = {}
      BY <2>2, <2>4, <3>1
    <3> QED BY <3>1, <3>2, <3>3
  <2>7. NoLeak'
    BY <2>1, <2>2, <2>5
  <2> QED BY <2>6, <2>7
<1>3. ASSUME NEW c \in CPU, KallocLocal(c)
      PROVE  OnePlace' /\ NoLeak'
  <2> DEFINE h == Head(freelist[c])
  <2>1. /\ freelist'[c] = Tail(freelist[c])
        /\ \A d \in CPU \ {c} : freelist'[d] = freelist[d]
        /\ chain' = chain /\ used' = used \cup {h} /\ nextPage' = nextPage
    BY <1>3, <1>t DEF KallocLocal
  <2>2. /\ Range(freelist[c]) = {h} \cup Range(freelist'[c])
        /\ IsInjective(freelist'[c]) /\ h \notin Range(freelist'[c])
    BY <1>3, <2>1, <1>t, HeadParts DEF KallocLocal
  <2> HIDE DEF h
  <2>3. /\ \A e \in CPU : Range(freelist'[e]) = Range(freelist[e]) \ {h}
        /\ \A e \in CPU : IsInjective(freelist'[e])
        /\ h \in Range(freelist[c])
    BY <2>1, <2>2
  <2>4. \A e \in CPU : h \notin Range(chain[e])
    BY <2>3
  <2>5. FreePages' = FreePages \ {h} /\ h \in FreePages
    BY <2>1, <2>3, <2>4, <1>u, SMTT(30)
  <2>6. OnePlace'
    BY <2>1, <2>3, <2>5
  <2>7. NoLeak'
    BY <2>1, <2>5
  <2> QED BY <2>6, <2>7
<1>4. ASSUME NEW c \in CPU, KallocMiss(c) \/ SkipDonor(c) \/ KallocFail(c)
      PROVE  OnePlace' /\ NoLeak'
  <2>1. UNCHANGED <<freelist, chain, used, nextPage>>
    BY <1>4 DEF KallocMiss, SkipDonor, KallocFail
  <2>2. FreePages' = FreePages
    BY <2>1 DEF FreePages, Listed, InTransit
  <2>3. OnePlace'
    BY <2>1, <2>2
  <2>4. NoLeak'
    BY <2>1, <2>2
  <2> QED BY <2>3, <2>4
<1>5. ASSUME NEW c \in CPU, StealBatch(c)
      PROVE  OnePlace' /\ NoLeak'
  <2> DEFINE d == Donor(c)
             list == freelist[d]
             b == Detached(list)
  <2>1. d \in CPU /\ list \in Seq(Page)
    BY DonorIsCPU, <1>t
  <2>2. chain[c] = << >> /\ Range(chain[c]) = {}
    BY <1>5 DEF StealBatch, ChainWhilePublishing, Range
  <2>3. /\ freelist'[d] = LeftBehind(list)
        /\ \A e \in CPU \ {d} : freelist'[e] = freelist[e]
        /\ chain'[c] = b
        /\ \A e \in CPU \ {c} : chain'[e] = chain[e]
        /\ used' = used /\ nextPage' = nextPage
    BY <1>5, <2>1, <1>t DEF StealBatch
  <2>4. /\ Range(list) = Range(b) \cup Range(LeftBehind(list))
        /\ IsInjective(b) /\ IsInjective(LeftBehind(list))
        /\ Range(b) \cap Range(LeftBehind(list)) = {}
    BY <2>1, BatchParts
  <2> HIDE DEF d, b
  <2>5. FreePages' = FreePages
    <3>1. ASSUME NEW x \in FreePages PROVE x \in FreePages'
      <4>1. PICK e \in CPU : x \in Range(freelist[e]) \/ x \in Range(chain[e])
        BY <3>1, <1>u
      <4>2. CASE x \in Range(chain[e])
        BY <4>2, <2>2, <2>3, <1>u
      <4>3. CASE x \in Range(freelist[e]) /\ e # d
        BY <4>3, <2>3, <1>u
      <4>4. CASE x \in Range(freelist[e]) /\ e = d
        BY <4>4, <2>1, <2>3, <2>4, <1>u
      <4> QED BY <4>1, <4>2, <4>3, <4>4
    <3>2. ASSUME NEW x \in FreePages' PROVE x \in FreePages
      <4>1. PICK e \in CPU : x \in Range(freelist'[e]) \/ x \in Range(chain'[e])
        BY <3>2, <1>u
      <4>2. CASE x \in Range(chain'[e])
        BY <4>2, <2>1, <2>3, <2>4, <1>u
      <4>3. CASE x \in Range(freelist'[e])
        BY <4>3, <2>1, <2>3, <2>4, <1>u
      <4> QED BY <4>1, <4>2, <4>3
    <3> QED BY <3>1, <3>2
  <2>6. \A e \in CPU : IsInjective(freelist'[e]) /\ IsInjective(chain'[e])
    BY <2>3, <2>4
  <2>7. \A e \in CPU : Range(freelist'[e]) \subseteq Range(freelist[e])
    BY <2>3, <2>4
  <2>8. Range(b) \subseteq Range(freelist[d]) /\ Range(b) \cap Range(freelist'[d]) = {}
    BY <2>3, <2>4
  <2>9. ASSUME NEW e \in CPU, NEW f \in CPU
        PROVE  /\ e # f => Range(freelist'[e]) \cap Range(freelist'[f]) = {}
               /\ e # f => Range(chain'[e]) \cap Range(chain'[f]) = {}
               /\ Range(freelist'[e]) \cap Range(chain'[f]) = {}
    <3>1. e # f => Range(freelist'[e]) \cap Range(freelist'[f]) = {}
      BY <2>7
    <3>2. \A g \in CPU : Range(b) \cap Range(chain[g]) = {}
      BY <2>1, <2>8
    <3>3. e # f => Range(chain'[e]) \cap Range(chain'[f]) = {}
      BY <2>3, <3>2
    <3>4. Range(freelist'[e]) \cap Range(b) = {}
      BY <2>1, <2>3, <2>7, <2>8
    <3>5. Range(freelist'[e]) \cap Range(chain'[f]) = {}
      BY <2>3, <2>7, <3>4
    <3> QED BY <3>1, <3>3, <3>5
  <2>10. OnePlace'
    BY <2>3, <2>5, <2>6, <2>9
  <2>11. NoLeak'
    BY <2>3, <2>5
  <2> QED BY <2>10, <2>11
<1>6. ASSUME NEW c \in CPU, StealOne(c)
      PROVE  OnePlace' /\ NoLeak'
  <2> DEFINE d == Donor(c)
             list == freelist[d]
             h == Head(list)
  <2>1. d \in CPU /\ list \in Seq(Page) /\ BatchOf(list) = 1 /\ IsInjective(list)
    BY <1>6, DonorIsCPU, <1>t DEF StealOne
  <2>2. /\ freelist'[d] = LeftBehind(list)
        /\ \A e \in CPU \ {d} : freelist'[e] = freelist[e]
        /\ chain' = chain /\ used' = used \cup {h} /\ nextPage' = nextPage
    BY <1>6, <2>1, <1>t DEF StealOne
  <2>3. /\ Range(list) = Range(Detached(list)) \cup Range(LeftBehind(list))
        /\ IsInjective(LeftBehind(list))
        /\ Range(Detached(list)) \cap Range(LeftBehind(list)) = {}
    BY <2>1, BatchParts
  <2>4. Range(Detached(list)) = {h}
    BY <2>1, BatchOfOne
  <2> HIDE DEF d, h
  <2>5. /\ Range(freelist'[d]) = Range(freelist[d]) \ {h} /\ h \in Range(freelist[d])
        /\ IsInjective(freelist'[d])
    BY <2>2, <2>3, <2>4
  <2>6. /\ \A e \in CPU : Range(freelist'[e]) = Range(freelist[e]) \ {h}
        /\ \A e \in CPU : IsInjective(freelist'[e])
    BY <2>1, <2>2, <2>5
  <2>7. \A e \in CPU : h \notin Range(chain[e])
    BY <2>1, <2>5
  <2>8. FreePages' = FreePages \ {h} /\ h \in FreePages
    BY <2>1, <2>2, <2>5, <2>6, <2>7, <1>u
  <2>9. OnePlace'
    BY <2>2, <2>6, <2>8
  <2>10. NoLeak'
    BY <2>2, <2>8
  <2> QED BY <2>9, <2>10
<1>7. ASSUME NEW c \in CPU, Publish(c)
      PROVE  OnePlace' /\ NoLeak'
  <2> DEFINE h == Head(chain[c])
             spare == Tail(chain[c])
  <2>1. chain[c] \in Seq(Page) /\ chain[c] # << >>
    BY <1>7, <1>t, EmptySeq DEF Publish, ChainWhilePublishing
  <2>2. /\ spare \in Seq(Page) /\ Range(chain[c]) = {h} \cup Range(spare)
        /\ IsInjective(spare) /\ h \notin Range(spare)
    BY <2>1, HeadParts
  <2>3. /\ freelist'[c] = spare \o freelist[c]
        /\ \A d \in CPU \ {c} : freelist'[d] = freelist[d] /\ chain'[d] = chain[d]
        /\ chain'[c] = << >> /\ Range(chain'[c]) = {} /\ IsInjective(chain'[c])
        /\ used' = used \cup {h} /\ nextPage' = nextPage
    BY <1>7, <1>t DEF Publish, Range, IsInjective
  <2> HIDE DEF h, spare
  <2>4. Range(spare) \cap Range(freelist[c]) = {}
    BY <2>2
  <2>5. /\ Range(freelist'[c]) = Range(spare) \cup Range(freelist[c])
        /\ IsInjective(freelist'[c])
    BY <2>2, <2>3, <2>4, <1>t, ConcatParts
  <2>6. Range(freelist'[c]) = (Range(freelist[c]) \cup Range(chain[c])) \ {h}
    BY <2>2, <2>5
  <2>7. h \in Range(chain[c])
    BY <2>2
  <2>8. FreePages' = FreePages \ {h} /\ h \in FreePages
    <3>1. h \in FreePages
      BY <2>7, <1>u
    <3>2. ASSUME NEW x \in FreePages, x # h PROVE x \in FreePages'
      <4>1. PICK d \in CPU : x \in Range(freelist[d]) \/ x \in Range(chain[d])
        BY <1>u
      <4>2. CASE d = c
        <5>1. x \in Range(freelist'[c])
          BY <2>6, <3>2, <4>1, <4>2
        <5> QED BY <1>u, <5>1
      <4>3. CASE d # c
        BY <1>u, <2>3, <4>1, <4>3
      <4> QED BY <4>2, <4>3
    <3>3. ASSUME NEW x \in FreePages' PROVE x \in FreePages /\ x # h
      <4>1. PICK d \in CPU : x \in Range(freelist'[d]) \/ x \in Range(chain'[d])
        BY <3>3, <1>u
      <4>2. CASE d = c
        BY <4>1, <4>2, <2>3, <2>6, <1>u
      <4>3. CASE d # c
        <5>1. x \in Range(freelist[d]) \/ x \in Range(chain[d])
          BY <4>1, <4>3, <2>3
        <5>2. h \notin Range(freelist[d]) /\ h \notin Range(chain[d])
          BY <4>3, <2>7
        <5> QED BY <5>1, <5>2, <1>u
      <4> QED BY <4>2, <4>3
    <3> QED BY <3>1, <3>2, <3>3
  <2>9. OnePlace'
    <3>1. \A d \in CPU : IsInjective(freelist'[d]) /\ IsInjective(chain'[d])
      BY <2>3, <2>5
    <3>2. ASSUME NEW a \in CPU, NEW b \in CPU, a # b
          PROVE  Range(freelist'[a]) \cap Range(freelist'[b]) = {}
      <4>1. ASSUME NEW d \in CPU, d # c
            PROVE  /\ Range(freelist'[d]) = Range(freelist[d])
                   /\ Range(freelist'[c]) \cap Range(freelist[d]) = {}
        BY <4>1, <2>3, <2>6
      <4>2. CASE a = c
        BY <3>2, <4>1, <4>2
      <4>3. CASE b = c
        BY <3>2, <4>1, <4>3
      <4>4. CASE a # c /\ b # c
        BY <3>2, <4>1, <4>4
      <4> QED BY <4>2, <4>3, <4>4
    <3>3. ASSUME NEW a \in CPU, NEW b \in CPU, a # b
          PROVE  Range(chain'[a]) \cap Range(chain'[b]) = {}
      BY <3>3, <2>3
    <3>4. ASSUME NEW a \in CPU, NEW b \in CPU
          PROVE  Range(freelist'[a]) \cap Range(chain'[b]) = {}
      BY <2>3, <2>6
    <3>5. FreePages' \cap used' = {}
      BY <2>3, <2>8
    <3> QED BY <3>1, <3>2, <3>3, <3>4, <3>5
  <2>10. NoLeak'
    BY <2>3, <2>8
  <2> QED BY <2>9, <2>10
<1>8. CASE UNCHANGED vars
  <2>1. UNCHANGED <<freelist, chain, used, nextPage>>
    BY <1>8 DEF vars
  <2> QED BY <2>1, <1>u
<1> QED BY <1>1, <1>2, <1>3, <1>4, <1>5, <1>6, <1>7, <1>8
        DEF Next, CPUStep

(* The invariant is inductive.                                             *)
LEMMA StepIInv == IInv /\ [Next]_vars => IInv'
BY TypeStep, OwnListStep, PlaceStep DEF IInv

(* The invariant holds in every state the program reaches.                 *)
LEMMA Invariant == Spec => []IInv
BY InitIInv, StepIInv, PTL DEF Spec

(* Every variable keeps its type, whatever CPUs and pages there are.       *)
THEOREM TypeInvariant == Spec => []TypeOK
<1>1. IInv => TypeOK
  BY DEF IInv
<1> QED BY <1>1, Invariant, PTL

(* No page is ever in two places: on two lists, twice on one, in a private *)
(* chain as well, or free while in use.                                    *)
THEOREM PagesInOnePlace == Spec => []OnePlace
<1>1. IInv => OnePlace
  BY DEF IInv
<1> QED BY <1>1, Invariant, PTL

(* No interleaving of steals and frees loses a page.                       *)
THEOREM NoPageLost == Spec => []NoLeak
<1>1. IInv => NoLeak
  BY DEF IInv
<1> QED BY <1>1, Invariant, PTL

(* A CPU inside kalloc finds its own list empty when it publishes.         *)
THEOREM PublishOnEmptyList == Spec => []OwnListEmptyInKalloc
<1>1. IInv => OwnListEmptyInKalloc
  BY DEF IInv
<1> QED BY <1>1, Invariant, PTL

-----------------------------------------------------------------------------
(* By the invariant the free pages are those freerange has freed and no    *)
(* caller holds, so the abstract step can be read off used and nextPage.   *)
LEMMA FreeFromUsed ==
  ASSUME IInv
  PROVE  /\ FreePages = (FirstPage .. nextPage - 1) \ used
         /\ used \subseteq FirstPage .. nextPage - 1
         /\ nextPage \in FirstPage .. PhysTop
BY DEF IInv, OnePlace, NoLeak, TypeOK

(* Every step is a step of the abstract allocator, or one it does not see. *)
LEMMA StepRefines ==
  ASSUME IInv, IInv', [Next]_vars
  PROVE  [Allocator!Next]_(Allocator!vars)
<1> DEFINE mUsed == used \cup nextPage .. PhysTop - 1
<1>1. /\ FreePages = (FirstPage .. nextPage - 1) \ used
      /\ used \subseteq FirstPage .. nextPage - 1
      /\ nextPage \in FirstPage .. PhysTop
  BY FreeFromUsed
<1>2. /\ FreePages' = (FirstPage .. nextPage' - 1) \ used'
      /\ used' \subseteq FirstPage .. nextPage' - 1
      /\ nextPage' \in FirstPage .. PhysTop
  BY FreeFromUsed, ConstantsAssumption
     DEF IInv, OnePlace, NoLeak, TypeOK
<1> USE ConstantsAssumption
<1>3. ASSUME NEW p \in Page, p \in FreePages,
             used' = used \cup {p}, nextPage' = nextPage
      PROVE  Allocator!Alloc(p)
  <2>1. FreePages' = FreePages \ {p}
    BY <1>1, <1>2, <1>3
  <2>2. mUsed' = mUsed \cup {p}
    BY <1>3
  <2> QED BY <1>3, <2>1, <2>2 DEF Allocator!Alloc
<1>4. ASSUME NEW p \in Page, p \in used,
             used' = used \ {p}, nextPage' = nextPage
      PROVE  Allocator!Free(p)
  <2>1. FreePages' = FreePages \cup {p}
    BY <1>1, <1>2, <1>4
  <2>2. mUsed' = mUsed \ {p} /\ p \in mUsed
    BY <1>1, <1>4 DEF Page
  <2> QED BY <2>1, <2>2 DEF Allocator!Free
<1>5. ASSUME UNCHANGED <<used, nextPage>>
      PROVE  UNCHANGED Allocator!vars
  BY <1>1, <1>2, <1>5 DEF Allocator!vars
<1>t. /\ freelist \in [CPU -> Seq(Page)] /\ chain \in [CPU -> Seq(Page)]
      /\ \A c \in CPU : freelist[c] \in Seq(Page) /\ chain[c] \in Seq(Page)
  BY DEF IInv, TypeOK
<1>6. CASE FreeRange
  <2>1. nextPage \in Page /\ nextPage' = nextPage + 1 /\ used' = used
    BY <1>1, <1>6 DEF FreeRange, Page
  <2>2. FreePages' = FreePages \cup {nextPage}
    BY <1>1, <1>2, <2>1
  <2>3. mUsed' = mUsed \ {nextPage} /\ nextPage \in mUsed
    BY <1>1, <2>1 DEF Page
  <2>4. Allocator!Free(nextPage)
    BY <2>2, <2>3 DEF Allocator!Free
  <2> QED BY <2>1, <2>4 DEF Allocator!Next
<1>7. ASSUME NEW c \in CPU, NEW p \in Page, Kfree(c, p)
      PROVE  Allocator!Next
  BY <1>4, <1>7 DEF Kfree, Allocator!Next
<1>8. ASSUME NEW c \in CPU, KallocLocal(c)
      PROVE  Allocator!Next
  <2> DEFINE h == Head(freelist[c])
  <2>1. h \in Page /\ h \in Range(freelist[c])
    BY <1>8, <1>t, HeadParts DEF KallocLocal
  <2>2. h \in FreePages /\ used' = used \cup {h} /\ nextPage' = nextPage
    BY <1>8, <2>1 DEF KallocLocal, FreePages, Listed
  <2> HIDE DEF h
  <2> QED BY <1>3, <2>1, <2>2 DEF Allocator!Next
<1>9. ASSUME NEW c \in CPU, StealOne(c)
      PROVE  Allocator!Next
  <2> DEFINE d == Donor(c)
             h == Head(freelist[d])
  <2>1. d \in CPU /\ freelist[d] \in Seq(Page) /\ BatchOf(freelist[d]) = 1
    BY <1>9, <1>t, DonorIsCPU DEF StealOne, IInv
  <2>2. freelist[d] # << >>
    BY <2>1, BatchOfOne
  <2>3. h \in Page /\ h \in Range(freelist[d])
    BY <2>1, <2>2, HeadParts
  <2>4. used' = used \cup {h} /\ nextPage' = nextPage
    BY <1>9 DEF StealOne
  <2> HIDE DEF d, h
  <2>5. h \in FreePages
    BY <2>1, <2>3 DEF FreePages, Listed
  <2> QED BY <1>3, <2>3, <2>4, <2>5 DEF Allocator!Next
<1>10. ASSUME NEW c \in CPU, Publish(c)
       PROVE  Allocator!Next
  <2> DEFINE h == Head(chain[c])
  <2>1. chain[c] # << >>
    BY <1>10, <1>t, EmptySeq DEF Publish, IInv, ChainWhilePublishing
  <2>2. h \in Page /\ h \in Range(chain[c])
    BY <2>1, <1>t, HeadParts
  <2>3. h \in FreePages /\ used' = used \cup {h} /\ nextPage' = nextPage
    BY <1>10, <2>2 DEF Publish, FreePages, InTransit
  <2> HIDE DEF h
  <2> QED BY <1>3, <2>2, <2>3 DEF Allocator!Next
<1>11. ASSUME NEW c \in CPU,
              \/ KallocMiss(c) \/ SkipDonor(c) \/ StealBatch(c) \/ KallocFail(c)
       PROVE  UNCHANGED Allocator!vars
  <2>1. UNCHANGED <<used, nextPage>>
    BY <1>11 DEF KallocMiss, SkipDonor, StealBatch, KallocFail
  <2> QED BY <1>5, <2>1
<1>12. CASE UNCHANGED vars
  BY <1>5, <1>12 DEF vars
<1> QED BY <1>6, <1>7, <1>8, <1>9, <1>10, <1>11, <1>12 DEF Next, CPUStep

(* Before boot frees the pages none is free.                               *)
LEMMA InitRefines == Init => Allocator!Init
<1> SUFFICES ASSUME Init PROVE Allocator!Init
  OBVIOUS
<1>1. IInv
  BY InitIInv
<1>2. FreePages = {} /\ used \cup nextPage .. PhysTop - 1 = Page
  BY <1>1, FreeFromUsed, ConstantsAssumption DEF Init, Page
<1> QED BY <1>2 DEF Allocator!Init

(* The per-CPU lists with stealing implement the plain allocator.          *)
THEOREM Refinement == Spec => ImplementsAllocator
<1>1. IInv /\ IInv' /\ [Next]_vars => [Allocator!Next]_(Allocator!vars)
  BY StepRefines
<1> QED BY <1>1, InitRefines, Invariant, PTL
        DEF Spec, ImplementsAllocator, Allocator!Spec

-----------------------------------------------------------------------------
(* The scan.  No page that has stayed on its list is on a list the scan    *)
(* has passed, the CPU's own included.                                     *)
Behind ==
  \A c \in CPU : pc[c] = "steal" =>
    \A p \in stayed[c] :
      /\ HomesOf(p) # {}
      /\ \A k \in 0 .. offset[c] - 1 : (c + k) % NCPU \notin HomesOf(p)

ScanIInv == TypeOK /\ ChainWhilePublishing /\ Behind

(* A scan with NCPU behind it has passed every list.                       *)
LEMMA AllPassed ==
  ASSUME NEW c \in CPU, NEW d \in CPU
  PROVE  \E k \in 0 .. NCPU - 1 : (c + k) % NCPU = d
<1>1. CASE d >= c
  <2>1. d - c \in 0 .. NCPU - 1 /\ (c + (d - c)) % NCPU = d
    BY <1>1, ConstantsAssumption DEF ConstantsAssumption, CPU
  <2> QED BY <2>1
<1>2. CASE d < c
  <2>1. d - c + NCPU \in 0 .. NCPU - 1
    BY <1>2, ConstantsAssumption DEF ConstantsAssumption, CPU
  <2>2. (c + (d - c + NCPU)) % NCPU = d
    <3>1. c + (d - c + NCPU) = d + NCPU
      BY ConstantsAssumption DEF ConstantsAssumption, CPU
    <3>2. (d + NCPU) % NCPU = d
      BY ConstantsAssumption DEF ConstantsAssumption, CPU
    <3> QED BY <3>1, <3>2
  <2> QED BY <2>1, <2>2
<1> QED BY <1>1, <1>2 DEF CPU

(* The history variable changes nothing.                                   *)
LEMMA ScanIsNext == [ScanNext]_scanVars => [Next]_vars
BY DEF ScanNext, Next, CPUStep, scanVars

(* A page stays where it is or is forgotten, whatever a step does; a page  *)
(* that is new to a scan is not on the list the scan has found empty.      *)
LEMMA BehindStep ==
  ASSUME ScanIInv, [ScanNext]_scanVars
  PROVE  Behind'
<1>1. TypeOK /\ ChainWhilePublishing /\ Behind
  BY DEF ScanIInv
<1>2. CASE UNCHANGED scanVars
  BY <1>1, <1>2 DEF scanVars, vars, Behind, HomesOf
<1>3. CASE ScanNext
  <2>1. Observe
    BY <1>3 DEF ScanNext
  <2> SUFFICES ASSUME NEW c \in CPU, pc'[c] = "steal", NEW p \in stayed'[c]
               PROVE  /\ HomesOf(p)' # {}
                      /\ \A k \in 0 .. offset'[c] - 1 : (c + k) % NCPU \notin HomesOf(p)'
    BY DEF Behind
  <2>2. [Next]_vars
    BY <1>3, ScanIsNext
  <2>3. CASE Missed(c)
    <3>1. stayed'[c] = Listed'
      <4>1. ~(pc[c] = "steal" /\ pc'[c] = "steal")
        BY <2>3 DEF Missed
      <4> QED BY <2>1, <2>3, <4>1 DEF Observe
    <3>2. HomesOf(p)' # {}
      BY <3>1 DEF Listed, HomesOf
    <3>3. offset'[c] = 1 /\ freelist'[c] = << >>
      BY <1>1, <1>3, <2>3 DEF ScanNext, Missed, TypeOK, FreeRange, Kfree, KallocLocal, KallocMiss,
         SkipDonor, StealBatch, StealOne, Publish, KallocFail
    <3>4. (c + 0) % NCPU = c
      BY ConstantsAssumption DEF ConstantsAssumption, CPU
    <3>5. Range(freelist'[c]) = {}
      BY <3>3 DEF Range
    <3> QED BY <3>2, <3>3, <3>4, <3>5 DEF HomesOf
  <2>4. CASE ~Missed(c)
    <3>1. p \in stayed[c] /\ HomesOf(p)' = HomesOf(p)
      BY <2>1, <2>4 DEF Observe
    <3>2. pc[c] = "steal"
      BY <1>1, <1>3, <2>4 DEF ScanNext, Missed, TypeOK, FreeRange, Kfree, KallocLocal, KallocMiss,
         SkipDonor, StealBatch, StealOne, Publish, KallocFail
    <3>3. /\ HomesOf(p) # {}
          /\ \A k \in 0 .. offset[c] - 1 : (c + k) % NCPU \notin HomesOf(p)
      BY <1>1, <3>1, <3>2 DEF Behind
    <3>4. \/ offset'[c] = offset[c]
          \/ offset'[c] = offset[c] + 1 /\ freelist[Donor(c)] = << >>
      BY <1>1, <1>3, <3>2 DEF ScanNext, TypeOK, FreeRange, Kfree, KallocLocal, KallocMiss,
         SkipDonor, StealBatch, StealOne, Publish, KallocFail
    <3>5. CASE offset'[c] = offset[c]
      BY <3>1, <3>3, <3>5
    <3>6. CASE offset'[c] = offset[c] + 1 /\ freelist[Donor(c)] = << >>
      <4>1. (c + offset[c]) % NCPU \notin HomesOf(p)
        BY <3>6 DEF HomesOf, Range, Donor
      <4>2. \A k \in 0 .. offset'[c] - 1 : k \in 0 .. offset[c] - 1 \/ k = offset[c]
        BY <1>1, <3>6 DEF TypeOK
      <4> QED BY <3>1, <3>3, <4>1, <4>2
    <3> QED BY <3>4, <3>5, <3>6
  <2> QED BY <2>3, <2>4
<1> QED BY <1>2, <1>3

(* When kalloc answers 0, no page sat on one list from the moment the CPU  *)
(* found its own list empty until the answer.                              *)
THEOREM NullMissedNothing == ScanSpec => NullMeansNothingStayed
<1>1. ScanInit => ScanIInv
  <2> SUFFICES ASSUME ScanInit PROVE ScanIInv
    OBVIOUS
  <2>1. TypeOK /\ ChainWhilePublishing
    BY InitIInv DEF ScanInit, IInv
  <2>2. \A c \in CPU : pc[c] # "steal"
    BY DEF ScanInit, Init
  <2> QED BY <2>1, <2>2 DEF ScanIInv, Behind
<1>2. ScanIInv /\ [ScanNext]_scanVars => ScanIInv'
  BY ScanIsNext, TypeStep, BehindStep DEF ScanIInv
<1>3. ScanIInv /\ [ScanNext]_scanVars =>
        [\A c \in CPU : KallocFail(c) => stayed[c] = {}]_scanVars
  <2> SUFFICES ASSUME ScanIInv, NEW c \in CPU, KallocFail(c), NEW p \in stayed[c]
               PROVE  FALSE
    OBVIOUS
  <2>1. pc[c] = "steal" /\ offset[c] = NCPU
    BY DEF KallocFail
  <2>2. HomesOf(p) # {} /\ \A k \in 0 .. NCPU - 1 : (c + k) % NCPU \notin HomesOf(p)
    BY <2>1 DEF ScanIInv, Behind
  <2>3. PICK d \in CPU : d \in HomesOf(p)
    BY <2>2 DEF HomesOf
  <2> QED BY <2>2, <2>3, AllPassed
<1> QED BY <1>1, <1>2, <1>3, PTL DEF ScanSpec, NullMeansNothingStayed
=============================================================================
