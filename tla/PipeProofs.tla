----------------------------- MODULE PipeProofs -----------------------------
(***************************************************************************)
(* Proofs about pipes, for any number of processes, any size of the pipe   *)
(* and any width of its counters that the size divides; and, below, about  *)
(* the AI runs that are built on pipes, for any number of workers and      *)
(* records, records of any length, and results the pipes can hold.         *)
(***************************************************************************)
EXTENDS Pipe, AiInfer, FiniteSetTheorems, SequenceTheorems, TLAPS

Writing == {"write", "sleepW", "asleepW", "wokenW"}
Reading == {"read", "await", "sleepR", "asleepR", "wokenR"}
Locked == {"write", "read", "await", "sleepW", "sleepR"}

(* Every variable has its type; that counts are no less than 0 follows.    *)
Types ==
  /\ data \in [0 .. PIPESIZE - 1 -> Byte]
  /\ nread \in 0 .. UintSpan - 1 /\ nwrite \in 0 .. UintSpan - 1
  /\ readopen \in BOOLEAN /\ writeopen \in BOOLEAN /\ freed \in BOOLEAN
  /\ lock \in Proc \cup {None}
  /\ ref \in [End -> Int] /\ ofile \in [Proc -> SUBSET End]
  /\ killed \in [Proc -> BOOLEAN] /\ left \in [Proc -> 0 .. MaxCount]
  /\ pc \in [Proc -> Writing \cup Reading \cup {"out", "closeW", "closeR"}]

(* Who is inside pipewrite or piperead has that end open, and holds the    *)
(* lock where the code holds it.                                           *)
Inside ==
  \A p \in Proc :
    /\ pc[p] \in Writing => "W" \in ofile[p]
    /\ pc[p] \in Reading => "R" \in ofile[p]
    /\ pc[p] \in Locked <=> lock = p

(* f->ref counts the descriptors of an end.                                *)
Holders(e) == {p \in Proc : e \in ofile[p]}
Counted == \A e \in End : ref[e] = Cardinality(Holders(e))

(* An end is open until the one process that has closed its last           *)
(* descriptor has been through pipeclose.                                  *)
Ends ==
  /\ writeopen <=> \E p \in Proc : "W" \in ofile[p] \/ pc[p] = "closeW"
  /\ readopen <=> \E p \in Proc : "R" \in ofile[p] \/ pc[p] = "closeR"
  /\ \A p, q \in Proc : pc[p] = "closeW" => "W" \notin ofile[q] /\ (pc[q] = "closeW" => q = p)
  /\ \A p, q \in Proc : pc[p] = "closeR" => "R" \notin ofile[q] /\ (pc[q] = "closeR" => q = p)
  /\ freed <=> ~readopen /\ ~writeopen

(* A sleeper has a reason to sleep, or somebody who will wake it holds the *)
(* lock.                                                                   *)
Sleepers ==
  \A p \in Proc :
    /\ pc[p] = "sleepW" => Full /\ readopen
    /\ pc[p] = "asleepW" => readopen /\ (Full \/ \E q \in Proc : pc[q] = "read")
    /\ pc[p] \in {"sleepR", "asleepR"} => writeopen

(* No more bytes are under way than the pipe holds.                        *)
UnderWay == (nwrite - nread) % UintSpan
Fits == UnderWay <= PIPESIZE

IInv == Types /\ Inside /\ Counted /\ Ends /\ Sleepers /\ Fits

-----------------------------------------------------------------------------
(* Arithmetic: remainders are unique.                                      *)
LEMMA ModUnique ==
  ASSUME NEW P \in Nat \ {0}, NEW m \in Int, NEW r \in 0 .. P - 1
  PROVE  (P * m + r) % P = r
OBVIOUS

(* Quotient and remainder.                                                 *)
LEMMA ModIs ==
  ASSUME NEW P \in Nat \ {0}, NEW x \in Int
  PROVE  /\ x % P \in 0 .. P - 1 /\ x \div P \in Int
         /\ x = P * (x \div P) + (x % P)
OBVIOUS

(* Wrapping once, in either direction.                                     *)
LEMMA WrapIs ==
  ASSUME NEW P \in Nat \ {0}, NEW x \in 0 .. P - 1
  PROVE  /\ x % P = x /\ (x + P) % P = x /\ (x - P) % P = x
OBVIOUS

(* A multiple of P does not matter modulo P.                               *)
LEMMA Divides ==
  ASSUME NEW P \in Nat \ {0}, NEW U \in Nat, U % P = 0, NEW x \in Int
  PROVE  (x - U) % P = x % P
<1> DEFINE k == U \div P
           q == x \div P
           r == x % P
<1>1. U = P * k /\ k \in Int
  BY ModIs
<1>2. x = P * q + r /\ q \in Int /\ r \in 0 .. P - 1
  BY ModIs
<1> HIDE DEF k, q, r
<1>3. x - U = P * (q - k) + r
  BY <1>1, <1>2
<1>4. (P * (q - k) + r) % P = r
  BY <1>1, <1>2, ModUnique
<1> QED BY <1>3, <1>4 DEF r

(* Fewer than P apart means different modulo P.                            *)
LEMMA OtherSlot ==
  ASSUME NEW P \in Nat \ {0}, NEW x \in Nat, NEW y \in Nat, x < y, y - x < P
  PROVE  x % P # y % P
<1> DEFINE q == x \div P
           s == y \div P
           r == x % P
<1> SUFFICES ASSUME y % P = r PROVE FALSE
  OBVIOUS
<1>1. x = P * q + r /\ q \in Int /\ r \in 0 .. P - 1
  BY ModIs
<1>2. y = P * s + r /\ s \in Int
  BY ModIs
<1> HIDE DEF q, r, s
<1>3. P * (s - q) > 0 /\ P * (s - q) < P
  BY <1>1, <1>2
<1>4. s - q >= 1 \/ s - q <= 0
  BY <1>1, <1>2
<1> QED BY <1>1, <1>2, <1>3, <1>4

(* The pipe's sizes.                                                       *)
LEMMA Sizes ==
  /\ PIPESIZE \in Nat \ {0} /\ UintSpan \in Nat \ {0} /\ UintSpan >= 2 * PIPESIZE
  /\ UintSpan % PIPESIZE = 0 /\ 0 \in 0 .. UintSpan - 1
BY PipeAssumption DEF PipeAssumption

(* How far the write counter w is ahead of the read counter r, and where   *)
(* the bytes are.                                                          *)
Ahead(r, w) == (w - r) % UintSpan

(* The distance without a remainder.                                       *)
LEMMA AheadIs ==
  ASSUME NEW r \in 0 .. UintSpan - 1, NEW w \in 0 .. UintSpan - 1
  PROVE  /\ Ahead(r, w) = IF w >= r THEN w - r ELSE w - r + UintSpan
         /\ Ahead(r, w) \in 0 .. UintSpan - 1
<1>1. CASE w >= r
  BY <1>1, Sizes, WrapIs DEF Ahead
<1>2. CASE w < r
  <2>1. w - r + UintSpan \in 0 .. UintSpan - 1
    BY <1>2, Sizes
  <2>2. ((w - r + UintSpan) - UintSpan) % UintSpan = w - r + UintSpan
    BY <2>1, Sizes, WrapIs
  <2>3. (w - r + UintSpan) - UintSpan = w - r
    BY Sizes
  <2> QED BY <1>2, <2>1, <2>2, <2>3 DEF Ahead
<1> QED BY <1>1, <1>2

(* The next counter without a remainder.                                   *)
LEMMA IncIs ==
  ASSUME NEW r \in 0 .. UintSpan - 1
  PROVE  /\ Inc(r) = IF r = UintSpan - 1 THEN 0 ELSE r + 1
         /\ Inc(r) \in 0 .. UintSpan - 1
<1>1. CASE r = UintSpan - 1
  BY <1>1, Sizes, WrapIs DEF Inc
<1>2. CASE r # UintSpan - 1
  BY <1>2, Sizes, WrapIs DEF Inc
<1> QED BY <1>1, <1>2

(* Empty and Full in terms of the distance, and what one byte changes.     *)
LEMMA CounterFacts ==
  ASSUME NEW r \in 0 .. UintSpan - 1, NEW w \in 0 .. UintSpan - 1, Ahead(r, w) <= PIPESIZE
  PROVE  /\ r = w <=> Ahead(r, w) = 0
         /\ w = (r + PIPESIZE) % UintSpan <=> Ahead(r, w) = PIPESIZE
         /\ Ahead(r, w) < PIPESIZE => Ahead(r, Inc(w)) = Ahead(r, w) + 1
         /\ Ahead(r, w) > 0 => Ahead(Inc(r), w) = Ahead(r, w) - 1
<1>1. PIPESIZE < UintSpan /\ PIPESIZE > 0
  BY Sizes
<1>2. (r + PIPESIZE) % UintSpan = IF r + PIPESIZE < UintSpan THEN r + PIPESIZE
                                  ELSE r + PIPESIZE - UintSpan
  <2>1. CASE r + PIPESIZE < UintSpan
    <3>1. r + PIPESIZE \in 0 .. UintSpan - 1
      BY <2>1, Sizes
    <3> QED BY <2>1, <3>1, Sizes, WrapIs
  <2>2. CASE r + PIPESIZE >= UintSpan
    <3>1. PICK x \in 0 .. UintSpan - 1 : r + PIPESIZE = x + UintSpan
      <4>1. r + PIPESIZE - UintSpan \in 0 .. UintSpan - 1
        BY <1>1, <2>2, Sizes
      <4>2. r + PIPESIZE = (r + PIPESIZE - UintSpan) + UintSpan
        BY Sizes
      <4> QED BY <4>1, <4>2
    <3>2. (x + UintSpan) % UintSpan = x
      BY Sizes, WrapIs
    <3>3. x = r + PIPESIZE - UintSpan
      BY <3>1, Sizes
    <3> QED BY <2>2, <3>1, <3>2, <3>3, Sizes
  <2> QED BY <2>1, <2>2, Sizes
<1>3. Ahead(r, w) = IF w >= r THEN w - r ELSE w - r + UintSpan
  BY AheadIs
<1>4. Ahead(r, Inc(w)) = IF Inc(w) >= r THEN Inc(w) - r ELSE Inc(w) - r + UintSpan
  BY AheadIs, IncIs
<1>5. Ahead(Inc(r), w) = IF w >= Inc(r) THEN w - Inc(r) ELSE w - Inc(r) + UintSpan
  BY AheadIs, IncIs
<1>6. UintSpan \in Nat /\ PIPESIZE \in Nat
  BY Sizes
<1>7. /\ Inc(r) = IF r = UintSpan - 1 THEN 0 ELSE r + 1
      /\ Inc(w) = IF w = UintSpan - 1 THEN 0 ELSE w + 1
  BY IncIs
<1>8. r = w <=> Ahead(r, w) = 0
  BY <1>3, <1>6
<1>9. w = (r + PIPESIZE) % UintSpan <=> Ahead(r, w) = PIPESIZE
  BY <1>1, <1>2, <1>3, <1>6
<1>10. Ahead(r, w) < PIPESIZE => Ahead(r, Inc(w)) = Ahead(r, w) + 1
  BY <1>1, <1>3, <1>4, <1>6, <1>7
<1>11. Ahead(r, w) > 0 => Ahead(Inc(r), w) = Ahead(r, w) - 1
  BY <1>1, <1>3, <1>5, <1>6, <1>7
<1> QED BY <1>8, <1>9, <1>10, <1>11

(* The slot of the k-th byte under way, and the same slot after a byte has *)
(* been taken; the next byte's slot is nobody else's.                      *)
LEMMA SlotFacts ==
  ASSUME NEW r \in 0 .. UintSpan - 1, NEW w \in 0 .. UintSpan - 1, Ahead(r, w) <= PIPESIZE
  PROVE  /\ \A k \in Nat : (r + k) % PIPESIZE \in 0 .. PIPESIZE - 1
         /\ w % PIPESIZE = (r + Ahead(r, w)) % PIPESIZE
         /\ \A k \in Nat : (Inc(r) + k) % PIPESIZE = (r + k + 1) % PIPESIZE
         /\ \A k \in Nat : k < Ahead(r, w) /\ Ahead(r, w) < PIPESIZE =>
              (r + k) % PIPESIZE # w % PIPESIZE
<1>1. \A k \in Nat : (r + k) % PIPESIZE \in 0 .. PIPESIZE - 1
  BY Sizes, ModIs
<1>2. w % PIPESIZE = (r + Ahead(r, w)) % PIPESIZE
  <2>1. CASE w >= r
    <3>1. r + Ahead(r, w) = w
      BY <2>1, Sizes, AheadIs
    <3> QED BY <3>1
  <2>2. CASE w < r
    <3>1. r + Ahead(r, w) = w + UintSpan
      BY <2>2, Sizes, AheadIs
    <3>2. PICK x \in Int : x = w + UintSpan
      BY Sizes
    <3>3. (x - UintSpan) % PIPESIZE = x % PIPESIZE
      BY Sizes, Divides
    <3>4. x - UintSpan = w
      BY <3>2, Sizes
    <3> QED BY <3>1, <3>2, <3>3, <3>4
  <2> QED BY <2>1, <2>2
<1>3. ASSUME NEW k \in Nat PROVE (Inc(r) + k) % PIPESIZE = (r + k + 1) % PIPESIZE
  <2>1. CASE r = UintSpan - 1
    <3>1. PICK x \in Int : x = r + k + 1
      BY Sizes
    <3>2. Inc(r) + k = x - UintSpan
      BY <2>1, <3>1, Sizes, IncIs
    <3>3. (x - UintSpan) % PIPESIZE = x % PIPESIZE
      BY Sizes, Divides
    <3> QED BY <3>1, <3>2, <3>3
  <2>2. CASE r # UintSpan - 1
    <3>1. Inc(r) + k = r + k + 1
      BY <2>2, Sizes, IncIs
    <3> QED BY <3>1
  <2> QED BY <2>1, <2>2
<1>4. ASSUME NEW k \in Nat, k < Ahead(r, w), Ahead(r, w) < PIPESIZE
      PROVE  (r + k) % PIPESIZE # w % PIPESIZE
  <2>1. Ahead(r, w) \in Nat
    BY Sizes, AheadIs
  <2>2. (r + k) % PIPESIZE # (r + Ahead(r, w)) % PIPESIZE
    <3> DEFINE x == r + k
               y == r + Ahead(r, w)
    <3>1. x \in Nat /\ y \in Nat /\ x < y /\ y - x < PIPESIZE
      BY <1>4, <2>1, Sizes
    <3> HIDE DEF x, y
    <3>2. x % PIPESIZE # y % PIPESIZE
      BY <3>1, Sizes, OtherSlot
    <3> QED BY <3>2 DEF x, y
  <2> QED BY <1>2, <2>2
<1> QED BY <1>1, <1>2, <1>3, <1>4

-----------------------------------------------------------------------------
(* What exact counts say of a process that closes a descriptor.            *)
LEMMA CountsMean ==
  ASSUME Counted, NEW p \in Proc, NEW e \in End, e \in ofile[p]
  PROVE  /\ ref[e] >= 1
         /\ ref[e] > 1 <=> \E q \in Proc \ {p} : e \in ofile[q]
<1>1. IsFiniteSet(Holders(e)) /\ p \in Holders(e) /\ ref[e] = Cardinality(Holders(e))
  BY PipeAssumption, FS_Subset DEF PipeAssumption, Holders, Counted
<1>2. /\ Cardinality(Holders(e)) \in Nat /\ Cardinality(Holders(e)) # 0
      /\ Cardinality(Holders(e)) = 1 <=> Holders(e) = {p}
  BY <1>1, FS_CardinalityType, FS_EmptySet, FS_Singleton
<1>3. Holders(e) = {p} <=> \A q \in Proc \ {p} : e \notin ofile[q]
  BY <1>1 DEF Holders
<1> QED BY <1>1, <1>2, <1>3

(* After pipealloc the invariant holds.                                    *)
LEMMA InitIInv == Init => IInv
<1> SUFFICES ASSUME Init PROVE IInv
  OBVIOUS
<1>1. PICK p \in Proc : ofile = [q \in Proc |-> IF q = p THEN End ELSE {}]
  BY DEF Init
<1> USE Sizes DEF Init
<1>2. Types
  <2>1. (CHOOSE b \in Byte : TRUE) \in Byte
    BY PipeAssumption DEF PipeAssumption
  <2>2. data \in [0 .. PIPESIZE - 1 -> Byte]
    BY <2>1
  <2>3. left \in [Proc -> 0 .. MaxCount]
    BY PipeAssumption DEF PipeAssumption
  <2>4. ofile \in [Proc -> SUBSET End]
    BY <1>1
  <2>5. lock \in Proc \cup {None} /\ ref \in [End -> Int]
    OBVIOUS
  <2> QED BY <2>2, <2>3, <2>4, <2>5 DEF Types
<1>3. Inside
  BY PipeAssumption DEF Inside, PipeAssumption, Writing, Reading, Locked
<1>4. Counted
  <2>1. \A e \in End : Holders(e) = {p}
    BY <1>1 DEF Holders
  <2> QED BY <2>1, FS_Singleton DEF Counted
<1>5. Ends
  BY <1>1 DEF Ends, End
<1>6. Sleepers
  BY DEF Sleepers
<1>7. Fits
  BY AheadIs DEF Fits, UnderWay, Ahead
<1> QED BY <1>2, <1>3, <1>4, <1>5, <1>6, <1>7 DEF IInv

(* pipeclose in its two cases.                                             *)
Closed(p) ==
  /\ freed' \in BOOLEAN /\ (freed' <=> ~readopen' /\ ~writeopen')
  /\ UNCHANGED <<data, nread, nwrite, lock, ref, ofile, killed, left>> /\ lock = None
  /\ \/ /\ pc[p] = "closeW" /\ writeopen' = FALSE /\ readopen' = readopen
        /\ pc' = [q \in Proc |-> IF q = p THEN "out" ELSE
                                 IF pc[q] = "asleepR" THEN "wokenR" ELSE pc[q]]
     \/ /\ pc[p] = "closeR" /\ readopen' = FALSE /\ writeopen' = writeopen
        /\ pc' = [q \in Proc |-> IF q = p THEN "out" ELSE
                                 IF pc[q] = "asleepW" THEN "wokenW" ELSE pc[q]]

(* Closed is what pipeclose does.                                          *)
LEMMA PipecloseFacts ==
  ASSUME NEW p \in Proc, Pipeclose(p)
  PROVE  Closed(p)
<1>1. freed' = (~readopen' /\ ~writeopen')
  BY DEF Pipeclose
<1>2. freed' \in BOOLEAN /\ (freed' <=> ~readopen' /\ ~writeopen')
  BY <1>1, Zenon
<1>3. CASE pc[p] = "closeW"
  <2>1. /\ writeopen' = FALSE /\ readopen' = readopen
        /\ pc' = [q \in Proc |-> IF q = p THEN "out" ELSE
                                 IF pc[q] = "asleepR" THEN "wokenR" ELSE pc[q]]
    BY <1>3 DEF Pipeclose, WakeReaders, Woken
  <2> QED BY <1>2, <1>3, <2>1 DEF Pipeclose, Closed
<1>4. CASE pc[p] = "closeR"
  <2>1. /\ readopen' = FALSE /\ writeopen' = writeopen
        /\ pc' = [q \in Proc |-> IF q = p THEN "out" ELSE
                                 IF pc[q] = "asleepW" THEN "wokenW" ELSE pc[q]]
    BY <1>4 DEF Pipeclose, WakeWriters, Woken
  <2> QED BY <1>2, <1>4, <2>1 DEF Pipeclose, Closed
<1> QED BY <1>3, <1>4 DEF Pipeclose

(* Every step keeps types, the places of processes and the state of the ends. *)
LEMMA ShapeStep ==
  ASSUME Types, Inside, Ends, Counted, [Next]_vars
  PROVE  (Types /\ Inside /\ Ends)'
<1>0. \A p \in Proc : Pipeclose(p) => Closed(p)
  BY PipecloseFacts
<1> USE PipeAssumption, Sizes
    DEF PipeAssumption, Types, Inside, Ends, Writing, Reading, Locked, End, Goto, Woken,
        WakeReaders, WakeWriters, pipe, vars
<1>1. ASSUME NEW p \in Proc, NEW q \in Proc, Fork(p, q) PROVE (Types /\ Inside /\ Ends)'
  <2>1. Types'
    BY <1>1 DEF Fork
  <2>2. Inside'
    BY <1>1 DEF Fork
  <2>3. Ends'
    BY <1>1 DEF Fork
  <2> QED BY <2>1, <2>2, <2>3
<1>2. ASSUME NEW p \in Proc, NEW e \in End, Fileclose(p, e) PROVE (Types /\ Inside /\ Ends)'
  <2>1. Types'
    <3>1. pc' \in [Proc -> Writing \cup Reading \cup {"out", "closeW", "closeR"}]
      <4>1. CASE ref[e] > 1
        BY <1>2, <4>1 DEF Fileclose
      <4>2. CASE ~(ref[e] > 1)
        BY <1>2, <4>2 DEF Fileclose
      <4> QED BY <4>1, <4>2
    <3>2. ref' \in [End -> Int] /\ ofile' \in [Proc -> SUBSET End]
      BY <1>2 DEF Fileclose
    <3> QED BY <1>2, <3>1, <3>2 DEF Fileclose
  <2>2. Inside'
    BY <1>2 DEF Fileclose
  <2>3. Ends'
    <3>1. ref[e] > 1 <=> \E q \in Proc \ {p} : e \in ofile[q]
      BY <1>2, CountsMean DEF Fileclose
    <3> QED BY <1>2, <3>1 DEF Fileclose
  <2> QED BY <2>1, <2>2, <2>3
<1>3. ASSUME NEW p \in Proc, Pipeclose(p) PROVE (Types /\ Inside /\ Ends)'
  <2>1. Types'
    <3>1. pc' \in [Proc -> Writing \cup Reading \cup {"out", "closeW", "closeR"}]
      BY <1>3, <1>0 DEF Closed
    <3>2. Closed(p)
      BY <1>3, <1>0
    <3>3. readopen' \in BOOLEAN /\ writeopen' \in BOOLEAN /\ freed' \in BOOLEAN
      BY <3>2, Zenon DEF Closed
    <3>4. UNCHANGED <<data, nread, nwrite, lock, ref, ofile, killed, left>>
      BY <3>2 DEF Closed
    <3> QED BY <3>1, <3>3, <3>4
  <2>2. Inside'
    BY <1>3 DEF Pipeclose
  <2>3. Ends'
    <3>1. Closed(p)
      BY <1>3, <1>0
    <3>2. freed' <=> ~readopen' /\ ~writeopen'
      BY <3>1 DEF Closed
    <3>3. ofile' = ofile
      BY <3>1 DEF Closed
    <3>4. CASE pc[p] = "closeW"
      <4>1. /\ ~writeopen' /\ (readopen' <=> readopen)
            /\ pc' = [q \in Proc |-> IF q = p THEN "out" ELSE
                                     IF pc[q] = "asleepR" THEN "wokenR" ELSE pc[q]]
        BY <3>1, <3>4 DEF Closed
      <4>2. /\ pc'[p] = "out" /\ \A q \in Proc : pc'[q] = "closeR" <=> pc[q] = "closeR"
            /\ \A q \in Proc : pc'[q] # "closeW"
        BY <3>4, <4>1
      <4> QED BY <3>2, <3>3, <3>4, <4>1, <4>2
    <3>5. CASE pc[p] = "closeR"
      <4>1. /\ ~readopen' /\ (writeopen' <=> writeopen)
            /\ pc' = [q \in Proc |-> IF q = p THEN "out" ELSE
                                     IF pc[q] = "asleepW" THEN "wokenW" ELSE pc[q]]
        BY <3>1, <3>5 DEF Closed
      <4>2. /\ pc'[p] = "out" /\ \A q \in Proc : pc'[q] = "closeW" <=> pc[q] = "closeW"
            /\ \A q \in Proc : pc'[q] # "closeR"
        BY <3>5, <4>1
      <4> QED BY <3>2, <3>3, <3>5, <4>1, <4>2
    <3> QED BY <3>1, <3>4, <3>5 DEF Closed
  <2> QED BY <2>1, <2>2, <2>3
<1>4. ASSUME NEW p \in Proc, Pipewrite(p) PROVE (Types /\ Inside /\ Ends)'
  <2>1. Types'
    BY <1>4 DEF Pipewrite, Call
  <2>2. Inside'
    BY <1>4 DEF Pipewrite, Call
  <2>3. Ends'
    BY <1>4 DEF Pipewrite, Call
  <2> QED BY <2>1, <2>2, <2>3
<1>5. ASSUME NEW p \in Proc, NEW b \in Byte, WriteByte(p, b) PROVE (Types /\ Inside /\ Ends)'
  <2>1. Types'
    <3>1. nwrite' \in 0 .. UintSpan - 1
      BY <1>5, IncIs DEF WriteByte
    <3>2. data' \in [0 .. PIPESIZE - 1 -> Byte]
      BY <1>5 DEF WriteByte
    <3>3. left' \in [Proc -> 0 .. MaxCount]
      BY <1>5 DEF WriteByte
    <3> QED BY <1>5, <3>1, <3>2, <3>3 DEF WriteByte
  <2>2. Inside'
    BY <1>5 DEF WriteByte
  <2>3. Ends'
    BY <1>5 DEF WriteByte
  <2> QED BY <2>1, <2>2, <2>3
<1>6. ASSUME NEW p \in Proc, WriteReturn(p) PROVE (Types /\ Inside /\ Ends)'
  <2>1. Types'
    BY <1>6 DEF WriteReturn
  <2>2. Inside'
    BY <1>6 DEF WriteReturn
  <2>3. Ends'
    BY <1>6 DEF WriteReturn
  <2> QED BY <2>1, <2>2, <2>3
<1>7. ASSUME NEW p \in Proc, WriteFail(p) PROVE (Types /\ Inside /\ Ends)'
  <2>1. Types'
    BY <1>7 DEF WriteFail
  <2>2. Inside'
    BY <1>7 DEF WriteFail
  <2>3. Ends'
    BY <1>7 DEF WriteFail
  <2> QED BY <2>1, <2>2, <2>3
<1>8. ASSUME NEW p \in Proc, WriteFull(p) PROVE (Types /\ Inside /\ Ends)'
  <2>1. Types'
    BY <1>8 DEF WriteFull
  <2>2. Inside'
    BY <1>8 DEF WriteFull
  <2>3. Ends'
    BY <1>8 DEF WriteFull
  <2> QED BY <2>1, <2>2, <2>3
<1>9. ASSUME NEW p \in Proc, Piperead(p) PROVE (Types /\ Inside /\ Ends)'
  <2>1. Types'
    BY <1>9 DEF Piperead, Call
  <2>2. Inside'
    BY <1>9 DEF Piperead, Call
  <2>3. Ends'
    BY <1>9 DEF Piperead, Call
  <2> QED BY <2>1, <2>2, <2>3
<1>10. ASSUME NEW p \in Proc, ReadEmpty(p) PROVE (Types /\ Inside /\ Ends)'
  <2>1. Types'
    BY <1>10 DEF ReadEmpty
  <2>2. Inside'
    BY <1>10 DEF ReadEmpty
  <2>3. Ends'
    BY <1>10 DEF ReadEmpty
  <2> QED BY <2>1, <2>2, <2>3
<1>11. ASSUME NEW p \in Proc, ReadFail(p) PROVE (Types /\ Inside /\ Ends)'
  <2>1. Types'
    BY <1>11 DEF ReadFail
  <2>2. Inside'
    BY <1>11 DEF ReadFail
  <2>3. Ends'
    BY <1>11 DEF ReadFail
  <2> QED BY <2>1, <2>2, <2>3
<1>12. ASSUME NEW p \in Proc, ReadStart(p) PROVE (Types /\ Inside /\ Ends)'
  <2>1. Types'
    BY <1>12 DEF ReadStart
  <2>2. Inside'
    BY <1>12 DEF ReadStart
  <2>3. Ends'
    BY <1>12 DEF ReadStart
  <2> QED BY <2>1, <2>2, <2>3
<1>13. ASSUME NEW p \in Proc, ReadByte(p) PROVE (Types /\ Inside /\ Ends)'
  <2>1. Types'
    <3>1. nread' \in 0 .. UintSpan - 1
      BY <1>13, IncIs DEF ReadByte
    <3>2. left' \in [Proc -> 0 .. MaxCount]
      BY <1>13 DEF ReadByte
    <3> QED BY <1>13, <3>1, <3>2 DEF ReadByte
  <2>2. Inside'
    BY <1>13 DEF ReadByte
  <2>3. Ends'
    BY <1>13 DEF ReadByte
  <2> QED BY <2>1, <2>2, <2>3
<1>14. ASSUME NEW p \in Proc, ReadReturn(p) PROVE (Types /\ Inside /\ Ends)'
  <2>1. Types'
    <3>1. nread' \in 0 .. UintSpan - 1
      <4>1. Inc(nread) \in 0 .. UintSpan - 1
        BY IncIs
      <4>2. nread' = nread \/ nread' = Inc(nread)
        BY <1>14 DEF ReadReturn
      <4> QED BY <4>1, <4>2
    <3>2. left' \in [Proc -> 0 .. MaxCount]
      BY <1>14 DEF ReadReturn
    <3>3. pc' \in [Proc -> Writing \cup Reading \cup {"out", "closeW", "closeR"}]
      BY <1>14 DEF ReadReturn
    <3> QED BY <1>14, <3>1, <3>2, <3>3 DEF ReadReturn
  <2>2. Inside'
    BY <1>14 DEF ReadReturn
  <2>3. Ends'
    BY <1>14 DEF ReadReturn
  <2> QED BY <2>1, <2>2, <2>3
<1>15. ASSUME NEW p \in Proc, Sleep(p) PROVE (Types /\ Inside /\ Ends)'
  <2>1. Types'
    BY <1>15 DEF Sleep
  <2>2. Inside'
    BY <1>15 DEF Sleep
  <2>3. Ends'
    BY <1>15 DEF Sleep
  <2> QED BY <2>1, <2>2, <2>3
<1>16. ASSUME NEW p \in Proc, Reacquire(p) PROVE (Types /\ Inside /\ Ends)'
  <2>1. Types'
    BY <1>16 DEF Reacquire
  <2>2. Inside'
    BY <1>16 DEF Reacquire
  <2>3. Ends'
    BY <1>16 DEF Reacquire
  <2> QED BY <2>1, <2>2, <2>3
<1>17. ASSUME NEW p \in Proc, Kill(p) PROVE (Types /\ Inside /\ Ends)'
  <2>1. Types'
    BY <1>17 DEF Kill
  <2>2. Inside'
    BY <1>17 DEF Kill
  <2>3. Ends'
    <3>1. \A q \in Proc : /\ pc'[q] = "closeW" <=> pc[q] = "closeW"
                          /\ pc'[q] = "closeR" <=> pc[q] = "closeR"
      BY <1>17 DEF Kill
    <3> QED BY <1>17, <3>1 DEF Kill
  <2> QED BY <2>1, <2>2, <2>3
<1>18. ASSUME UNCHANGED vars PROVE (Types /\ Inside /\ Ends)'
  <2>1. Types'
    BY <1>18 DEF vars
  <2>2. Inside'
    BY <1>18 DEF vars
  <2>3. Ends'
    BY <1>18 DEF vars
  <2> QED BY <2>1, <2>2, <2>3
<1> HIDE DEF Types, Inside, Ends
<1> QED
  BY <1>1, <1>2, <1>3, <1>4, <1>5, <1>6, <1>7, <1>8, <1>9,
     <1>10, <1>11, <1>12, <1>13, <1>14, <1>15, <1>16, <1>17, <1>18
  DEF Next, Write, Read

(* Every step that takes a sleeper's reason away wakes it.                 *)
LEMMA SleepersStep ==
  ASSUME Types, Inside, Ends, Fits, Sleepers, [Next]_vars
  PROVE  Sleepers'
<1>0. \A p \in Proc : Pipeclose(p) => Closed(p)
  BY PipecloseFacts
<1> USE Sizes
    DEF Types, Inside, Ends, Sleepers, Full, Empty, Writing, Reading, Locked, End, Goto, Woken,
        WakeReaders, WakeWriters, pipe, vars
<1>1. ASSUME NEW p \in Proc, NEW q \in Proc, Fork(p, q) PROVE Sleepers'
  BY <1>1 DEF Fork
<1>2. ASSUME NEW p \in Proc, NEW e \in End, Fileclose(p, e) PROVE Sleepers'
  BY <1>2 DEF Fileclose
<1>3. ASSUME NEW p \in Proc, Pipeclose(p) PROVE Sleepers'
  <2>1. Closed(p)
    BY <1>3, <1>0
  <2>2. \A q \in Proc : pc[q] \notin {"sleepR", "sleepW", "read"}
    BY <2>1, PipeAssumption DEF Closed, PipeAssumption
  <2>3. Full' <=> Full
    BY <2>1 DEF Closed
  <2>4. CASE pc[p] = "closeW"
    BY <2>1, <2>2, <2>4 DEF Closed
  <2>5. CASE pc[p] = "closeR"
    BY <2>1, <2>2, <2>5 DEF Closed
  <2> QED BY <2>1, <2>4, <2>5 DEF Closed
<1>4. ASSUME NEW p \in Proc, Pipewrite(p) PROVE Sleepers'
  BY <1>4 DEF Pipewrite, Call
<1>5. ASSUME NEW p \in Proc, NEW b \in Byte, WriteByte(p, b) PROVE Sleepers'
  BY <1>5 DEF WriteByte
<1>6. ASSUME NEW p \in Proc, WriteReturn(p) PROVE Sleepers'
  BY <1>6 DEF WriteReturn
<1>7. ASSUME NEW p \in Proc, WriteFail(p) PROVE Sleepers'
  BY <1>7 DEF WriteFail
<1>8. ASSUME NEW p \in Proc, WriteFull(p) PROVE Sleepers'
  BY <1>8 DEF WriteFull
<1>9. ASSUME NEW p \in Proc, Piperead(p) PROVE Sleepers'
  BY <1>9 DEF Piperead, Call
<1>10. ASSUME NEW p \in Proc, ReadEmpty(p) PROVE Sleepers'
  BY <1>10 DEF ReadEmpty
<1>11. ASSUME NEW p \in Proc, ReadFail(p) PROVE Sleepers'
  BY <1>11 DEF ReadFail
<1>12. ASSUME NEW p \in Proc, ReadStart(p) PROVE Sleepers'
  BY <1>12 DEF ReadStart
<1>13. ASSUME NEW p \in Proc, ReadByte(p) PROVE Sleepers'
  BY <1>13 DEF ReadByte
<1>14. ASSUME NEW p \in Proc, ReadReturn(p) PROVE Sleepers'
  BY <1>14 DEF ReadReturn
<1>15. ASSUME NEW p \in Proc, Sleep(p) PROVE Sleepers'
  BY <1>15 DEF Sleep
<1>16. ASSUME NEW p \in Proc, Reacquire(p) PROVE Sleepers'
  BY <1>16 DEF Reacquire
<1>17. ASSUME NEW p \in Proc, Kill(p) PROVE Sleepers'
  BY <1>17 DEF Kill
<1>18. ASSUME UNCHANGED vars PROVE Sleepers'
  BY <1>18 DEF vars
<1> HIDE DEF Sleepers
<1> QED
  BY <1>1, <1>2, <1>3, <1>4, <1>5, <1>6, <1>7, <1>8, <1>9,
     <1>10, <1>11, <1>12, <1>13, <1>14, <1>15, <1>16, <1>17, <1>18
  DEF Next, Write, Read

(* f->ref is kept by fork and fileclose and by nothing else.               *)
LEMMA CountedStep ==
  ASSUME Types, Counted, [Next]_vars
  PROVE  Counted'
<1> USE DEF Types, Counted, pipe, vars
<1>1. ASSUME NEW p \in Proc, NEW q \in Proc, Fork(p, q) PROVE Counted'
  <2> SUFFICES ASSUME NEW e \in End PROVE ref'[e] = Cardinality(Holders(e)')
    BY DEF Counted
  <2>1. IsFiniteSet(Holders(e)) /\ ref[e] = Cardinality(Holders(e)) /\ q \notin Holders(e)
    BY <1>1, PipeAssumption, FS_Subset DEF Fork, PipeAssumption, Holders
  <2>2. CASE e \in ofile[p]
    <3>1. Holders(e)' = Holders(e) \cup {q} /\ ref'[e] = ref[e] + 1
      BY <1>1, <2>2 DEF Fork, Holders
    <3>2. Cardinality(Holders(e) \cup {q}) = Cardinality(Holders(e)) + 1
      BY <2>1, FS_AddElement
    <3> QED BY <2>1, <3>1, <3>2
  <2>3. CASE e \notin ofile[p]
    <3>1. Holders(e)' = Holders(e) /\ ref'[e] = ref[e]
      BY <1>1, <2>3 DEF Fork, Holders
    <3> QED BY <2>1, <3>1
  <2> QED BY <2>2, <2>3
<1>2. ASSUME NEW p \in Proc, NEW e \in End, Fileclose(p, e) PROVE Counted'
  <2> SUFFICES ASSUME NEW c \in End PROVE ref'[c] = Cardinality(Holders(c)')
    BY DEF Counted
  <2>1. IsFiniteSet(Holders(c)) /\ ref[c] = Cardinality(Holders(c))
    BY PipeAssumption, FS_Subset DEF PipeAssumption, Holders
  <2>2. CASE c = e
    <3>1. Holders(c)' = Holders(c) \ {p} /\ p \in Holders(c) /\ ref'[c] = ref[c] - 1
      BY <1>2, <2>2 DEF Fileclose, Holders
    <3> QED BY <2>1, <3>1, FS_RemoveElement
  <2>3. CASE c # e
    <3>1. Holders(c)' = Holders(c) /\ ref'[c] = ref[c]
      BY <1>2, <2>3 DEF Fileclose, Holders
    <3> QED BY <2>1, <3>1
  <2> QED BY <2>2, <2>3
<1>3. ASSUME NEW p \in Proc, Pipeclose(p) PROVE Counted'
  BY <1>3 DEF Pipeclose, Holders
<1>4. ASSUME NEW p \in Proc, Pipewrite(p) PROVE Counted'
  BY <1>4 DEF Pipewrite, Call, Holders
<1>5. ASSUME NEW p \in Proc, NEW b \in Byte, WriteByte(p, b) PROVE Counted'
  BY <1>5 DEF WriteByte, Holders
<1>6. ASSUME NEW p \in Proc, WriteReturn(p) PROVE Counted'
  BY <1>6 DEF WriteReturn, Holders
<1>7. ASSUME NEW p \in Proc, WriteFail(p) PROVE Counted'
  BY <1>7 DEF WriteFail, Holders
<1>8. ASSUME NEW p \in Proc, WriteFull(p) PROVE Counted'
  BY <1>8 DEF WriteFull, Holders
<1>9. ASSUME NEW p \in Proc, Piperead(p) PROVE Counted'
  BY <1>9 DEF Piperead, Call, Holders
<1>10. ASSUME NEW p \in Proc, ReadEmpty(p) PROVE Counted'
  BY <1>10 DEF ReadEmpty, Holders
<1>11. ASSUME NEW p \in Proc, ReadFail(p) PROVE Counted'
  BY <1>11 DEF ReadFail, Holders
<1>12. ASSUME NEW p \in Proc, ReadStart(p) PROVE Counted'
  BY <1>12 DEF ReadStart, Holders
<1>13. ASSUME NEW p \in Proc, ReadByte(p) PROVE Counted'
  BY <1>13 DEF ReadByte, Holders
<1>14. ASSUME NEW p \in Proc, ReadReturn(p) PROVE Counted'
  BY <1>14 DEF ReadReturn, Holders
<1>15. ASSUME NEW p \in Proc, Sleep(p) PROVE Counted'
  BY <1>15 DEF Sleep, Holders
<1>16. ASSUME NEW p \in Proc, Reacquire(p) PROVE Counted'
  BY <1>16 DEF Reacquire, Holders
<1>17. ASSUME NEW p \in Proc, Kill(p) PROVE Counted'
  BY <1>17 DEF Kill, Holders
<1>18. ASSUME UNCHANGED vars PROVE Counted'
  BY <1>18 DEF vars, Holders
<1> HIDE DEF Counted
<1> QED
  BY <1>1, <1>2, <1>3, <1>4, <1>5, <1>6, <1>7, <1>8, <1>9,
     <1>10, <1>11, <1>12, <1>13, <1>14, <1>15, <1>16, <1>17, <1>18
  DEF Next, Write, Read

(* A byte less under way.                                                  *)
LEMMA TakeFits ==
  ASSUME Types, Fits, ~Empty, nwrite' = nwrite, nread' = Inc(nread)
  PROVE  Fits'
<1>1. nread \in 0 .. UintSpan - 1 /\ nwrite \in 0 .. UintSpan - 1
  BY DEF Types
<1>2. Ahead(nread, nwrite) \in Nat /\ Ahead(nread, nwrite) <= PIPESIZE
  BY <1>1, Sizes, AheadIs DEF Fits, UnderWay, Ahead
<1>3. Ahead(Inc(nread), nwrite) = Ahead(nread, nwrite) - 1
  BY <1>1, <1>2, CounterFacts DEF Empty
<1>4. Ahead(Inc(nread), nwrite) <= PIPESIZE
  BY <1>2, <1>3, Sizes
<1> QED BY <1>4 DEF Fits, UnderWay, Ahead

(* A byte more, as the pipe was not full.                                  *)
LEMMA PutFits ==
  ASSUME Types, Fits, ~Full, nread' = nread, nwrite' = Inc(nwrite)
  PROVE  Fits'
<1>1. nread \in 0 .. UintSpan - 1 /\ nwrite \in 0 .. UintSpan - 1
  BY DEF Types
<1>2. Ahead(nread, nwrite) \in Nat /\ Ahead(nread, nwrite) <= PIPESIZE
  BY <1>1, Sizes, AheadIs DEF Fits, UnderWay, Ahead
<1>3. Ahead(nread, nwrite) < PIPESIZE
  BY <1>1, <1>2, Sizes, CounterFacts DEF Full
<1>4. Ahead(nread, Inc(nwrite)) = Ahead(nread, nwrite) + 1
  BY <1>1, <1>2, <1>3, CounterFacts
<1>5. Ahead(nread, Inc(nwrite)) <= PIPESIZE
  BY <1>2, <1>3, <1>4, Sizes
<1> QED BY <1>5 DEF Fits, UnderWay, Ahead

(* No byte goes into a full pipe, and the counters wrap.                   *)
LEMMA FitsStep ==
  ASSUME Types, Fits, [Next]_vars
  PROVE  Fits'
<1> USE Sizes DEF UnderWay, pipe, vars
<1>1. ASSUME NEW p \in Proc, NEW q \in Proc, Fork(p, q) PROVE Fits'
  BY <1>1 DEF Fork, Fits
<1>2. ASSUME NEW p \in Proc, NEW e \in End, Fileclose(p, e) PROVE Fits'
  BY <1>2 DEF Fileclose, Fits
<1>3. ASSUME NEW p \in Proc, Pipeclose(p) PROVE Fits'
  BY <1>3 DEF Pipeclose, Fits
<1>4. ASSUME NEW p \in Proc, Pipewrite(p) PROVE Fits'
  BY <1>4 DEF Pipewrite, Call, Fits
<1>5. ASSUME NEW p \in Proc, NEW b \in Byte, WriteByte(p, b) PROVE Fits'
  <2>1. nread' = nread /\ nwrite' = Inc(nwrite) /\ ~Full
    BY <1>5 DEF WriteByte
  <2> QED BY <2>1, PutFits
<1>6. ASSUME NEW p \in Proc, WriteReturn(p) PROVE Fits'
  BY <1>6 DEF WriteReturn, Fits
<1>7. ASSUME NEW p \in Proc, WriteFail(p) PROVE Fits'
  BY <1>7 DEF WriteFail, Fits
<1>8. ASSUME NEW p \in Proc, WriteFull(p) PROVE Fits'
  BY <1>8 DEF WriteFull, Fits
<1>9. ASSUME NEW p \in Proc, Piperead(p) PROVE Fits'
  BY <1>9 DEF Piperead, Call, Fits
<1>10. ASSUME NEW p \in Proc, ReadEmpty(p) PROVE Fits'
  BY <1>10 DEF ReadEmpty, Fits
<1>11. ASSUME NEW p \in Proc, ReadFail(p) PROVE Fits'
  BY <1>11 DEF ReadFail, Fits
<1>12. ASSUME NEW p \in Proc, ReadStart(p) PROVE Fits'
  BY <1>12 DEF ReadStart, Fits
<1>13. ASSUME NEW p \in Proc, ReadByte(p) PROVE Fits'
  <2>1. nwrite' = nwrite /\ nread' = Inc(nread) /\ ~Empty
    BY <1>13 DEF ReadByte
  <2> QED BY <2>1, TakeFits
<1>14. ASSUME NEW p \in Proc, ReadReturn(p) PROVE Fits'
  <2>1. nwrite' = nwrite /\ (nread' = nread \/ (~Empty /\ nread' = Inc(nread)))
    BY <1>14 DEF ReadReturn, Empty
  <2>2. CASE nread' = nread
    BY <2>1, <2>2 DEF Fits
  <2>3. CASE ~Empty /\ nread' = Inc(nread)
    BY <2>1, <2>3, TakeFits
  <2> QED BY <2>1, <2>2, <2>3
<1>15. ASSUME NEW p \in Proc, Sleep(p) PROVE Fits'
  BY <1>15 DEF Sleep, Fits
<1>16. ASSUME NEW p \in Proc, Reacquire(p) PROVE Fits'
  BY <1>16 DEF Reacquire, Fits
<1>17. ASSUME NEW p \in Proc, Kill(p) PROVE Fits'
  BY <1>17 DEF Kill, Fits
<1>18. ASSUME UNCHANGED vars PROVE Fits'
  BY <1>18 DEF vars, Fits
<1> HIDE DEF Fits
<1> QED
  BY <1>1, <1>2, <1>3, <1>4, <1>5, <1>6, <1>7, <1>8, <1>9,
     <1>10, <1>11, <1>12, <1>13, <1>14, <1>15, <1>16, <1>17, <1>18
  DEF Next, Write, Read

-----------------------------------------------------------------------------
(* The invariant holds in every state the program reaches.                 *)
LEMMA Invariance == Spec => []IInv
<1>1. IInv /\ [Next]_vars => IInv'
  BY ShapeStep, SleepersStep, CountedStep, FitsStep DEF IInv
<1> QED BY <1>1, InitIInv, PTL DEF Spec

(* Every variable keeps its type; in particular no descriptor count ever   *)
(* becomes negative and the counters stay uints.                           *)
THEOREM TypeCorrect == Spec => []TypeOK
<1>1. IInv => TypeOK
  <2> SUFFICES ASSUME IInv PROVE TypeOK
    OBVIOUS
  <2>1. Types /\ Counted
    BY DEF IInv
  <2>2. ref \in [End -> Nat]
    <3>1. ASSUME NEW e \in End PROVE ref[e] \in Nat
      <4>1. IsFiniteSet(Holders(e))
        BY PipeAssumption, FS_Subset DEF PipeAssumption, Holders
      <4> QED BY <2>1, <4>1, FS_CardinalityType DEF Counted
    <3> QED BY <2>1, <3>1 DEF Types
  <2> QED BY <2>1, <2>2 DEF Types, TypeOK, Writing, Reading
<1> QED BY <1>1, Invariance, PTL

(* The page of a pipe is freed exactly when the last process is done with  *)
(* both ends: nobody is in the pipe's code then or will be.                *)
THEOREM FreedOnce == Spec => []FreedByTheLast
<1>1. IInv => FreedByTheLast
  <2> SUFFICES ASSUME IInv PROVE FreedByTheLast
    OBVIOUS
  <2>1. Types /\ Inside /\ Ends
    BY DEF IInv
  <2>2. freed <=> \A p \in Proc : /\ "W" \notin ofile[p] /\ pc[p] # "closeW"
                                  /\ "R" \notin ofile[p] /\ pc[p] # "closeR"
    BY <2>1 DEF Ends
  <2>3. ASSUME NEW p \in Proc
        PROVE  /\ ofile[p] = {} <=> "W" \notin ofile[p] /\ "R" \notin ofile[p]
               /\ ofile[p] = {} /\ pc[p] \notin {"closeW", "closeR"} => pc[p] = "out"
    <3>1. ofile[p] \subseteq {"R", "W"}
      BY <2>1 DEF Types, End
    <3>2. ofile[p] = {} <=> "W" \notin ofile[p] /\ "R" \notin ofile[p]
      BY <3>1
    <3>3. ofile[p] = {} => pc[p] \notin Writing \cup Reading
      BY <2>1, <3>2 DEF Inside
    <3> QED BY <2>1, <3>2, <3>3 DEF Types
  <2> QED BY <2>2, <2>3 DEF FreedByTheLast
<1> QED BY <1>1, Invariance, PTL

(* Whoever sleeps in pipewrite or piperead while nobody holds the lock has *)
(* a full pipe or an open other end to wait for.                           *)
THEOREM NoLostWakeup == Spec => []SleepersMustWait
<1>1. IInv => SleepersMustWait
  <2> SUFFICES ASSUME IInv, lock = None PROVE SleepersMustWait
    BY DEF SleepersMustWait
  <2>1. \A q \in Proc : pc[q] # "read"
    BY PipeAssumption DEF IInv, Inside, Locked, PipeAssumption
  <2> QED BY <2>1 DEF IInv, Sleepers, SleepersMustWait
<1> QED BY <1>1, Invariance, PTL

-----------------------------------------------------------------------------
(* The refinement: the queue between two counters r and w.                 *)
Queue(d, r, w) == [i \in 1 .. Ahead(r, w) |-> d[(r + i - 1) % PIPESIZE]]

(* The queue as a sequence.                                                *)
LEMMA QueueFacts ==
  ASSUME NEW r \in 0 .. UintSpan - 1, NEW w \in 0 .. UintSpan - 1, Ahead(r, w) <= PIPESIZE,
         NEW d \in [0 .. PIPESIZE - 1 -> Byte]
  PROVE  /\ Queue(d, r, w) \in Seq(Byte) /\ Len(Queue(d, r, w)) = Ahead(r, w)
         /\ Ahead(r, w) \in Nat
         /\ \A i \in 1 .. Ahead(r, w) : Queue(d, r, w)[i] = d[(r + (i - 1)) % PIPESIZE]
<1>1. Ahead(r, w) \in Nat
  BY Sizes, AheadIs
<1>2. ASSUME NEW i \in 1 .. Ahead(r, w)
      PROVE  /\ d[(r + (i - 1)) % PIPESIZE] \in Byte
             /\ r + i - 1 = r + (i - 1)
  <2>1. i - 1 \in Nat /\ r + i - 1 = r + (i - 1)
    BY <1>1, Sizes
  <2>2. (r + (i - 1)) % PIPESIZE \in 0 .. PIPESIZE - 1
    BY <2>1, SlotFacts
  <2> QED BY <2>1, <2>2
<1>3. Queue(d, r, w) = [i \in 1 .. Ahead(r, w) |-> d[(r + (i - 1)) % PIPESIZE]]
  BY <1>2 DEF Queue
<1>4. Queue(d, r, w) \in [1 .. Ahead(r, w) -> Byte]
  BY <1>2, <1>3
<1>5. Queue(d, r, w) \in Seq(Byte) /\ Len(Queue(d, r, w)) = Ahead(r, w)
  <2> DEFINE q == Queue(d, r, w)
             n == Ahead(r, w)
  <2>1. n \in Nat /\ q \in [1 .. n -> Byte]
    BY <1>1, <1>4
  <2> HIDE DEF q, n
  <2>2. q \in Seq(Byte)
    BY <2>1
  <2>3. Len(q) = n
    BY <2>1, <2>2
  <2> QED BY <2>2, <2>3 DEF q, n
<1> QED BY <1>1, <1>3, <1>5

(* A byte that is written joins the end of the queue.                      *)
LEMMA PutIs ==
  ASSUME NEW r \in 0 .. UintSpan - 1, NEW w \in 0 .. UintSpan - 1, Ahead(r, w) < PIPESIZE,
         NEW d \in [0 .. PIPESIZE - 1 -> Byte], NEW b \in Byte
  PROVE  Queue([d EXCEPT ![w % PIPESIZE] = b], r, Inc(w)) = Append(Queue(d, r, w), b)
<1> DEFINE e == [d EXCEPT ![w % PIPESIZE] = b]
           n == Ahead(r, w)
<1>1. /\ n \in Nat /\ n < PIPESIZE /\ PIPESIZE \in Nat /\ n <= PIPESIZE
      /\ Ahead(r, Inc(w)) = n + 1 /\ Ahead(r, Inc(w)) <= PIPESIZE
  <2>1. Ahead(r, w) \in Nat /\ PIPESIZE \in Nat
    BY Sizes, AheadIs
  <2>2. Ahead(r, w) <= PIPESIZE
    BY <2>1
  <2>3. Ahead(r, Inc(w)) = Ahead(r, w) + 1
    BY <2>2, CounterFacts
  <2> QED BY <2>1, <2>2, <2>3
<1>2. w % PIPESIZE \in 0 .. PIPESIZE - 1
  BY Sizes, ModIs
<1>3. e \in [0 .. PIPESIZE - 1 -> Byte]
  BY <1>2
<1>4. Inc(w) \in 0 .. UintSpan - 1
  BY IncIs
<1>5. /\ Queue(e, r, Inc(w)) \in Seq(Byte) /\ Len(Queue(e, r, Inc(w))) = n + 1
      /\ \A i \in 1 .. n + 1 : Queue(e, r, Inc(w))[i] = e[(r + (i - 1)) % PIPESIZE]
  <2> HIDE DEF e, n
  <2>1. /\ Queue(e, r, Inc(w)) \in Seq(Byte) /\ Len(Queue(e, r, Inc(w))) = Ahead(r, Inc(w))
        /\ \A i \in 1 .. Ahead(r, Inc(w)) :
             Queue(e, r, Inc(w))[i] = e[(r + (i - 1)) % PIPESIZE]
    BY <1>1, <1>3, <1>4, QueueFacts
  <2> QED BY <1>1, <2>1
<1>6. /\ Queue(d, r, w) \in Seq(Byte) /\ Len(Queue(d, r, w)) = n
      /\ \A i \in 1 .. n : Queue(d, r, w)[i] = d[(r + (i - 1)) % PIPESIZE]
  BY <1>1, QueueFacts
<1>7. /\ Append(Queue(d, r, w), b) \in Seq(Byte) /\ Len(Append(Queue(d, r, w), b)) = n + 1
      /\ \A i \in 1 .. n : Append(Queue(d, r, w), b)[i] = Queue(d, r, w)[i]
      /\ Append(Queue(d, r, w), b)[n + 1] = b
  BY <1>6, AppendProperties
<1>8. ASSUME NEW i \in 1 .. n PROVE e[(r + (i - 1)) % PIPESIZE] = d[(r + (i - 1)) % PIPESIZE]
  <2>1. i - 1 \in Nat /\ i - 1 < n
    BY <1>1
  <2>2. /\ (r + (i - 1)) % PIPESIZE # w % PIPESIZE
        /\ (r + (i - 1)) % PIPESIZE \in 0 .. PIPESIZE - 1
    BY <1>1, <2>1, SlotFacts
  <2> QED BY <2>2
<1>9. e[(r + ((n + 1) - 1)) % PIPESIZE] = b
  <2>1. (r + n) % PIPESIZE = w % PIPESIZE
    BY <1>1, SlotFacts
  <2>2. (n + 1) - 1 = n
    BY <1>1
  <2> QED BY <1>2, <2>1, <2>2
<1> HIDE DEF e, n
<1>10. \A i \in 1 .. n + 1 : Queue(e, r, Inc(w))[i] = Append(Queue(d, r, w), b)[i]
  <2> SUFFICES ASSUME NEW i \in 1 .. n + 1
               PROVE  Queue(e, r, Inc(w))[i] = Append(Queue(d, r, w), b)[i]
    OBVIOUS
  <2>1. i = n + 1 \/ i \in 1 .. n
    BY <1>1
  <2>2. CASE i = n + 1
    BY <1>1, <1>5, <1>7, <1>9, <2>2
  <2>3. CASE i \in 1 .. n
    BY <1>5, <1>6, <1>7, <1>8, <2>3
  <2> QED BY <2>1, <2>2, <2>3
<1>11. Queue(e, r, Inc(w)) = Append(Queue(d, r, w), b)
  BY <1>5, <1>7, <1>10, SeqEqual
<1> QED BY <1>11 DEF e

(* A byte that is read leaves the front of the queue.                      *)
LEMMA TakeIs ==
  ASSUME NEW r \in 0 .. UintSpan - 1, NEW w \in 0 .. UintSpan - 1, Ahead(r, w) <= PIPESIZE,
         NEW d \in [0 .. PIPESIZE - 1 -> Byte], r # w
  PROVE  Queue(d, r, w) # <<>> /\ Queue(d, Inc(r), w) = Tail(Queue(d, r, w))
<1> DEFINE n == Ahead(r, w)
<1>1. /\ n \in Nat /\ n > 0 /\ n <= PIPESIZE /\ PIPESIZE \in Nat
      /\ Ahead(Inc(r), w) = n - 1 /\ Ahead(Inc(r), w) <= PIPESIZE
  <2>1. Ahead(r, w) \in Nat /\ PIPESIZE \in Nat
    BY Sizes, AheadIs
  <2>2. Ahead(r, w) # 0
    BY CounterFacts
  <2>3. Ahead(r, w) > 0
    BY <2>1, <2>2
  <2>4. Ahead(Inc(r), w) = Ahead(r, w) - 1
    BY <2>3, CounterFacts
  <2> QED BY <2>1, <2>3, <2>4
<1>2. Inc(r) \in 0 .. UintSpan - 1
  BY IncIs
<1>3. /\ Queue(d, r, w) \in Seq(Byte) /\ Len(Queue(d, r, w)) = n
      /\ \A i \in 1 .. n : Queue(d, r, w)[i] = d[(r + (i - 1)) % PIPESIZE]
  BY <1>1, QueueFacts
<1>4. /\ Queue(d, Inc(r), w) \in Seq(Byte) /\ Len(Queue(d, Inc(r), w)) = n - 1
      /\ \A i \in 1 .. n - 1 : Queue(d, Inc(r), w)[i] = d[(Inc(r) + (i - 1)) % PIPESIZE]
  <2>1. /\ Queue(d, Inc(r), w) \in Seq(Byte) /\ Len(Queue(d, Inc(r), w)) = Ahead(Inc(r), w)
        /\ \A i \in 1 .. Ahead(Inc(r), w) :
             Queue(d, Inc(r), w)[i] = d[(Inc(r) + (i - 1)) % PIPESIZE]
    BY <1>1, <1>2, QueueFacts
  <2> HIDE DEF n
  <2> QED BY <1>1, <2>1
<1>5. ASSUME NEW i \in 1 .. n - 1
      PROVE  (Inc(r) + (i - 1)) % PIPESIZE = (r + ((i + 1) - 1)) % PIPESIZE
  <2>1. i - 1 \in Nat /\ r + (i - 1) + 1 = r + ((i + 1) - 1)
    BY <1>1, Sizes
  <2> QED BY <1>1, <2>1, SlotFacts
<1>6. Queue(d, r, w) # <<>>
  BY <1>1, <1>3
<1>7. /\ Tail(Queue(d, r, w)) \in Seq(Byte) /\ Len(Tail(Queue(d, r, w))) = n - 1
      /\ \A i \in 1 .. n - 1 : Tail(Queue(d, r, w))[i] = Queue(d, r, w)[i + 1]
  BY <1>3, <1>6, HeadTailProperties
<1>8. ASSUME NEW i \in 1 .. n - 1
      PROVE  Queue(d, Inc(r), w)[i] = Tail(Queue(d, r, w))[i]
  <2>1. i + 1 \in 1 .. n
    BY <1>1
  <2> QED BY <1>3, <1>4, <1>5, <1>7, <2>1
<1> HIDE DEF n
<1>9. Queue(d, Inc(r), w) = Tail(Queue(d, r, w))
  BY <1>4, <1>7, <1>8, SeqEqual
<1> QED BY <1>6, <1>9

-----------------------------------------------------------------------------
(* What the invariant says of the two counters.                            *)
LEMMA UnderWayIs ==
  ASSUME Types, Fits
  PROVE  /\ nread \in 0 .. UintSpan - 1 /\ nwrite \in 0 .. UintSpan - 1
         /\ Ahead(nread, nwrite) \in Nat /\ Ahead(nread, nwrite) <= PIPESIZE
<1>1. nread \in 0 .. UintSpan - 1 /\ nwrite \in 0 .. UintSpan - 1
  BY DEF Types
<1> QED BY <1>1, Sizes, AheadIs DEF Fits, UnderWay, Ahead

(* pipewrite's byte is a Put.                                              *)
LEMMA WriteIsPut ==
  ASSUME IInv, NEW p \in Proc, NEW b \in Byte, WriteByte(p, b)
  PROVE  Fifo!Put(b)
<1>1. Types /\ Inside /\ Ends /\ Fits
  BY DEF IInv
<1>2. "W" \in ofile[p]
  BY <1>1 DEF Inside, Writing, WriteByte
<1>3. writeopen
  BY <1>1, <1>2 DEF Ends, Types
<1>4. Ahead(nread, nwrite) < PIPESIZE
  <2>1. Ahead(nread, nwrite) # PIPESIZE
    BY <1>1, UnderWayIs, CounterFacts DEF WriteByte, Full
  <2> QED BY <1>1, <2>1, UnderWayIs, Sizes
<1>5. data \in [0 .. PIPESIZE - 1 -> Byte]
  BY <1>1 DEF Types
<1>6. /\ data' = [data EXCEPT ![nwrite % PIPESIZE] = b] /\ nwrite' = Inc(nwrite)
      /\ nread' = nread /\ writeopen' = writeopen /\ readopen' = readopen
  BY DEF WriteByte
<1>7. Queue(data', nread', nwrite') = Append(Queue(data, nread, nwrite), b)
  BY <1>1, <1>4, <1>5, <1>6, UnderWayIs, PutIs
<1>8. Len(Queue(data, nread, nwrite)) < PIPESIZE
  BY <1>1, <1>4, <1>5, UnderWayIs, QueueFacts
<1>9. /\ [i \in 1 .. (nwrite - nread) % UintSpan |-> data[(nread + i - 1) % PIPESIZE]]
           = Queue(data, nread, nwrite)
      /\ [i \in 1 .. (nwrite' - nread') % UintSpan |-> data'[(nread' + i - 1) % PIPESIZE]]
           = Queue(data', nread', nwrite')
  BY DEF Queue, Ahead
<1> QED BY <1>3, <1>6, <1>7, <1>8, <1>9 DEF Fifo!Put

(* A step that moves nread is a Take by somebody who has the read end.     *)
LEMMA ReadIsTake ==
  ASSUME IInv, NEW p \in Proc, pc[p] = "read", ~Empty, nread' = Inc(nread),
         UNCHANGED <<data, nwrite, readopen, writeopen>>
  PROVE  Fifo!Take
<1>1. Types /\ Inside /\ Ends /\ Fits
  BY DEF IInv
<1>2. "R" \in ofile[p]
  BY <1>1 DEF Inside, Reading
<1>3. readopen
  BY <1>1, <1>2 DEF Ends, Types
<1>4. data \in [0 .. PIPESIZE - 1 -> Byte]
  BY <1>1 DEF Types
<1>5. /\ Queue(data, nread, nwrite) # <<>>
      /\ Queue(data', nread', nwrite') = Tail(Queue(data, nread, nwrite))
  <2>1. nread # nwrite
    BY DEF Empty
  <2> QED BY <1>1, <1>4, <2>1, UnderWayIs, TakeIs
<1>6. /\ [i \in 1 .. (nwrite - nread) % UintSpan |-> data[(nread + i - 1) % PIPESIZE]]
           = Queue(data, nread, nwrite)
      /\ [i \in 1 .. (nwrite' - nread') % UintSpan |-> data'[(nread' + i - 1) % PIPESIZE]]
           = Queue(data', nread', nwrite')
  BY DEF Queue, Ahead
<1> QED BY <1>3, <1>5, <1>6 DEF Fifo!Take

(* pipeclose closes one side.                                              *)
LEMMA CloseIsClose ==
  ASSUME IInv, NEW p \in Proc, Pipeclose(p)
  PROVE  Fifo!CloseSend \/ Fifo!CloseReceive
<1>1. Types /\ Ends
  BY DEF IInv
<1>2. Closed(p) /\ UNCHANGED <<data, nread, nwrite>>
  BY PipecloseFacts DEF Pipeclose
<1>3. CASE pc[p] = "closeW"
  <2>1. writeopen /\ writeopen' = FALSE /\ readopen' = readopen
    BY <1>1, <1>2, <1>3 DEF Ends, Closed, Types
  <2> QED BY <1>2, <2>1 DEF Fifo!CloseSend
<1>4. CASE pc[p] = "closeR"
  <2>1. readopen /\ readopen' = FALSE /\ writeopen' = writeopen
    BY <1>1, <1>2, <1>4 DEF Ends, Closed, Types
  <2> QED BY <1>2, <2>1 DEF Fifo!CloseReceive
<1> QED BY <1>3, <1>4 DEF Pipeclose

(* Every step of a pipe is a step of the bounded FIFO or leaves it as it is. *)
LEMMA StepMaps ==
  ASSUME IInv, [Next]_vars
  PROVE  [Fifo!Next]_(Fifo!vars)
<1> DEFINE Still == UNCHANGED <<data, nread, nwrite, readopen, writeopen>>
<1>1. Still => UNCHANGED Fifo!vars
  BY DEF Fifo!vars
<1>2. ASSUME NEW p \in Proc, NEW q \in Proc, Fork(p, q) PROVE Still
  BY <1>2 DEF Fork, pipe
<1>3. ASSUME NEW p \in Proc, NEW e \in End, Fileclose(p, e) PROVE Still
  BY <1>3 DEF Fileclose, pipe
<1>4. ASSUME NEW p \in Proc, Pipeclose(p) PROVE Fifo!Next
  BY <1>4, CloseIsClose DEF Fifo!Next
<1>5. ASSUME NEW p \in Proc, Pipewrite(p) \/ Piperead(p) PROVE Still
  BY <1>5 DEF Pipewrite, Piperead, Call, pipe
<1>6. ASSUME NEW p \in Proc, Write(p) PROVE Still \/ Fifo!Next
  <2>1. ASSUME NEW b \in Byte, WriteByte(p, b) PROVE Fifo!Next
    BY <2>1, WriteIsPut DEF Fifo!Next
  <2>2. ASSUME WriteReturn(p) \/ WriteFail(p) \/ WriteFull(p) PROVE Still
    BY <2>2 DEF WriteReturn, WriteFail, WriteFull, pipe
  <2> QED BY <1>6, <2>1, <2>2 DEF Write
<1>7. ASSUME NEW p \in Proc, Read(p) PROVE Still \/ Fifo!Next
  <2>1. ASSUME ReadEmpty(p) \/ ReadFail(p) \/ ReadStart(p) PROVE Still
    BY <2>1 DEF ReadEmpty, ReadFail, ReadStart, pipe
  <2>2. ASSUME ReadByte(p) PROVE Fifo!Next
    <3>1. /\ pc[p] = "read" /\ ~Empty /\ nread' = Inc(nread)
          /\ UNCHANGED <<data, nwrite, readopen, writeopen>>
      BY <2>2 DEF ReadByte
    <3> QED BY <3>1, ReadIsTake DEF Fifo!Next
  <2>3. ASSUME ReadReturn(p) PROVE Still \/ Fifo!Next
    <3>1. /\ pc[p] = "read" /\ UNCHANGED <<data, nwrite, readopen, writeopen>>
          /\ nread' = nread \/ (~Empty /\ nread' = Inc(nread))
      BY <2>3 DEF ReadReturn
    <3>2. CASE nread' = nread
      BY <3>1, <3>2
    <3>3. CASE ~Empty /\ nread' = Inc(nread)
      BY <3>1, <3>3, ReadIsTake DEF Fifo!Next
    <3> QED BY <3>1, <3>2, <3>3
  <2> QED BY <1>7, <2>1, <2>2, <2>3 DEF Read
<1>8. ASSUME NEW p \in Proc, Sleep(p) \/ Reacquire(p) \/ Kill(p) PROVE Still
  BY <1>8 DEF Sleep, Reacquire, Kill, pipe
<1>9. UNCHANGED vars => Still
  BY DEF vars, pipe
<1> HIDE DEF Still
<1> QED BY <1>1, <1>2, <1>3, <1>4, <1>5, <1>6, <1>7, <1>8, <1>9 DEF Next

(* A pipe is a bounded FIFO: at most PIPESIZE bytes are under way, they    *)
(* come out in the order they went in, each once, also where the byte      *)
(* counters wrap.                                                          *)
THEOREM Refinement == Spec => ImplementsFifo
<1>1. Init => Fifo!Init
  <2> SUFFICES ASSUME Init PROVE Fifo!Init
    OBVIOUS
  <2>1. nread = 0 /\ nwrite = 0 /\ readopen = TRUE /\ writeopen = TRUE
    BY DEF Init
  <2>2. (nwrite - nread) % UintSpan = 0
    BY <2>1, Sizes
  <2>3. [i \in 1 .. (nwrite - nread) % UintSpan |-> data[(nread + i - 1) % PIPESIZE]] = <<>>
    BY <2>2
  <2> QED BY <2>1, <2>3 DEF Fifo!Init
<1>2. IInv /\ [Next]_vars => [Fifo!Next]_(Fifo!vars)
  BY StepMaps
<1> QED BY <1>1, <1>2, Invariance, PTL DEF Spec, ImplementsFifo, Fifo!Spec

-----------------------------------------------------------------------------
(* The AI runs.  Units, and the processes' places.                         *)
Unit == Nat \X Nat
MainPlaces == {"fork", "start", "wait", "collect", "done", "failed"}
BeforePrefetch == {"none", "born", "barrier", "write", "store", "read", "begin"}
WorkerPlaces ==
  BeforePrefetch \cup {"next", "wait", "restore", "stuck", "end", "reap", "result", "ended", "done", "failed"}
HelperPlaces == {"none", "open", "command", "send", "done", "failed"}
Windows == {"NONE", "EMPTY", "PENDING", "READY", "FAILED"}

EndsOf == [Pipes -> [r : SUBSET Process, w : SUBSET Process]]
Places == MainPlaces \cup WorkerPlaces \cup HelperPlaces
PlaceTypes ==
  /\ point \in [Process -> Places] /\ point[main] \in MainPlaces
  /\ \A w \in Worker : point[worker(w)] \in WorkerPlaces /\ point[helper(w)] \in HelperPlaces
FlowTypes == queue \in [Pipes -> Seq(Unit)] /\ part \in [Process -> Seq(Unit)]
EndsTypes == ends \in EndsOf
DataTypes ==
  /\ mode \in {"student", "prefetch"} /\ fault \in BOOLEAN
  /\ turn \in [Process -> Nat] /\ turn[main] # 0
  /\ window \in [Worker -> Windows] /\ restored \in [Worker -> Seq(Seq(Unit))]
RunTypes == PlaceTypes /\ FlowTypes /\ EndsTypes /\ DataTypes

(* q carries the units of record k from its o-th on; the reply to its      *)
(* request comes first, as <<k, 0>>.                                       *)
Carries(q, k, o) == \A j \in 1 .. Len(q) : q[j] = <<k, o + j - 1>>

(* What worker w has asked for, what its helper has sent, what has arrived *)
(* and what the helper has yet to send.                                    *)
Asking(w) == queue[PipeOf("command", w)]
Coming(w) == queue[PipeOf("data", w)]
Here(w) == part[worker(w)]
There(w) == part[helper(w)]
Due(w) == turn[worker(w)]

(* The helper expects request k, or is gone.                               *)
HelperReady(w, k) ==
  \/ point[helper(w)] \in Ended
  \/ /\ There(w) = <<>>
     /\ \/ point[helper(w)] \in {"open", "command"} /\ turn[helper(w)] = k
        \/ point[helper(w)] = "send" /\ turn[helper(w)] + 1 = k

(* A request on its way: not made, in the pipe, with the helper, being     *)
(* answered, answered as far as it will be.                                *)
NotAsked(w) ==
  Asking(w) = <<>> /\ Coming(w) = <<>> /\ Here(w) = <<>> /\ HelperReady(w, Due(w))
Asked(w) ==
  Asking(w) = <<<<Due(w), 0>>>> /\ Coming(w) = <<>> /\ Here(w) = <<>> /\ HelperReady(w, Due(w))
Taken(w) ==
  /\ Asking(w) = <<>> /\ Coming(w) = <<>> /\ Here(w) = <<>>
  /\ point[helper(w)] = "command" /\ There(w) = <<<<Due(w), 0>>>> /\ turn[helper(w)] = Due(w)
Arriving(w) ==
  /\ Asking(w) = <<>>
  /\ Carries(Here(w), Due(w), 0) /\ Carries(Coming(w), Due(w), Len(Here(w)))
Answering(w) ==
  /\ Arriving(w)
  /\ point[helper(w)] = "send" /\ There(w) # <<>> /\ turn[helper(w)] = Due(w)
  /\ Carries(There(w), Due(w), Len(Here(w)) + Len(Coming(w)))
  /\ Len(Here(w)) + Len(Coming(w)) + Len(There(w)) = RECORD + 1
Answered(w) ==
  /\ Arriving(w)
  /\ \/ point[helper(w)] \in Ended /\ Len(Here(w)) + Len(Coming(w)) <= RECORD + 1
     \/ HelperReady(w, Due(w) + 1) /\ Len(Here(w)) + Len(Coming(w)) = RECORD + 1

(* What has been handed out is right.                                      *)
Handed(w) ==
  Len(restored[w]) = Due(w) /\ \A i \in 1 .. Len(restored[w]) : restored[w][i] = Record(i - 1)

(* Before the prefetch nothing is under way.                               *)
Fresh(w) ==
  point[worker(w)] \in BeforePrefetch =>
    /\ Asking(w) = <<>> /\ Coming(w) = <<>> /\ There(w) = <<>>
    /\ point[helper(w)] = "none" /\ turn[helper(w)] = 0 /\ Due(w) = 0
    /\ (point[worker(w)] # "barrier" => Here(w) = <<>>)

(* What is under way while the worker asks and waits.                      *)
Protocol(w) ==
  /\ point[worker(w)] = "next" => NotAsked(w)
  /\ point[worker(w)] = "wait" => Asked(w) \/ Taken(w) \/ Answering(w) \/ Answered(w)
  /\ (point[worker(w)] = "restore" /\ mode = "prefetch") => Answered(w) /\ Len(Here(w)) = RECORD + 1
Unused(w) ==
  mode = "student" =>
    /\ Asking(w) = <<>> /\ Coming(w) = <<>> /\ window[w] = "NONE" /\ point[helper(w)] = "none"
    /\ point[worker(w)] \notin {"begin", "next", "wait", "reap"}
    /\ (point[worker(w)] = "restore" => Here(w) = <<>>)

(* Worker and helper hold the ends they need.                              *)
Prefetching(w) ==
  point[worker(w)] \in {"next", "wait"} \/ (point[worker(w)] = "restore" /\ mode = "prefetch")
EndsHeld(w) ==
  /\ Prefetching(w) =>
       /\ worker(w) \in ends[PipeOf("data", w)].r /\ worker(w) \in ends[PipeOf("command", w)].w
       /\ point[helper(w)] \notin {"done", "none"}
  /\ point[helper(w)] \in {"open", "command", "send"} => helper(w) \in ends[PipeOf("data", w)].w

SessionInv(w) == Handed(w) /\ Fresh(w) /\ Protocol(w) /\ Unused(w) /\ EndsHeld(w)

(* As long as nothing went wrong: after the last record nothing is under   *)
(* way, and nobody has failed.                                             *)
Finished(w) ==
  /\ point[worker(w)] \in {"end", "reap", "result", "done"} =>
       /\ Due(w) = Requests /\ Asking(w) = <<>> /\ Coming(w) = <<>>
       /\ (mode = "prefetch" => HelperReady(w, Due(w)))
       /\ (point[worker(w)] \in {"end", "reap"} => Here(w) = <<>>)
  /\ point[worker(w)] \notin {"stuck", "ended", "failed"}
  /\ point[helper(w)] # "failed"

(* A worker's result is in its hands, in the pipe or with run_path.        *)
Result(w) == queue[PipeOf("result", w)]
Collected(w) == IF point[main] = "collect" /\ turn[main] = w THEN Len(part[main]) ELSE 0
Uncollected(w) ==
  point[main] \in {"fork", "start", "wait"} \/ (point[main] = "collect" /\ turn[main] <= w)
ResultKept(w) ==
  /\ point[worker(w)] = "result" => Len(Result(w)) + Len(Here(w)) = RESULT
  /\ point[worker(w)] = "done" /\ Uncollected(w) => Len(Result(w)) + Collected(w) = RESULT
  /\ point[worker(w)] \notin {"result", "done"} => Result(w) = <<>>
  /\ point[main] = "fork" => (point[worker(w)] = "none" <=> w >= turn[main])
  /\ point[main] # "fork" => point[worker(w)] # "none"
  /\ point[main] = "collect" => point[worker(w)] \in Ended

(* There is a token for every worker that has yet to take one.             *)
Waiting ==
  {w \in Worker : \/ point[worker(w)] \in {"none", "born"}
                  \/ point[worker(w)] = "barrier" /\ Here(w) = <<>>}
Tokens == Len(queue[start]) + (IF point[main] = "start" THEN Len(part[main]) ELSE 0)
StartInv ==
  /\ point[main] # "fork" => Cardinality(Waiting) <= Tokens
  /\ point[main] \in {"fork", "start"} => main \in ends[start].w
  /\ point[main] = "wait" => part[main] = <<>>

(* A worker still to be forked is not there.                               *)
Unforked ==
  point[main] = "fork" => \A w \in Worker : w >= turn[main] => point[worker(w)] = "none"

NoFault ==
  /\ \A w \in Worker : Finished(w) /\ ResultKept(w)
  /\ StartInv /\ point[main] # "failed"

RunInv == RunTypes /\ (\A w \in Worker : SessionInv(w)) /\ Unforked /\ (fault \/ NoFault)

-----------------------------------------------------------------------------
(* What is assumed of the constants, and who is who, as facts.             *)
LEMMA RunConst ==
  /\ W \in Nat \ {0} /\ Requests \in Nat \ {0} /\ CAPACITY \in Nat \ {0}
  /\ RECORD \in Nat \ {0} /\ RESULT \in Nat \ {0}
  /\ Worker = 1 .. W /\ IsFiniteSet(Worker) /\ Cardinality(Worker) = W
<1>1. /\ W \in Nat \ {0} /\ Requests \in Nat \ {0} /\ CAPACITY \in Nat \ {0}
      /\ RECORD \in Nat \ {0} /\ RESULT \in Nat \ {0}
  BY AiInferAssumption DEF AiInferAssumption
<1>2. Worker = 1 .. W
  BY DEF Worker
<1>3. IsFiniteSet(1 .. W) /\ Cardinality(1 .. W) = W
  BY <1>1, FS_Interval
<1> QED BY <1>1, <1>2, <1>3

LEMMA WhoIsWho ==
  /\ main \in Process
  /\ \A w \in Worker : /\ worker(w) \in Process /\ helper(w) \in Process
                       /\ worker(w) # main /\ helper(w) # main
  /\ \A v, w \in Worker : /\ worker(v) # helper(w)
                          /\ worker(v) = worker(w) => v = w
                          /\ helper(v) = helper(w) => v = w
  /\ \A p \in Process : p = main \/ \E w \in Worker : p \in {worker(w), helper(w)}
BY DEF Process, main, worker, helper

LEMMA PipeIsPipe ==
  /\ start \in Pipes
  /\ \A w \in Worker : \A kind \in {"result", "command", "data"} :
       PipeOf(kind, w) \in Pipes /\ PipeOf(kind, w) # start
  /\ \A v, w \in Worker : \A kind, other \in {"result", "command", "data"} :
       PipeOf(kind, v) = PipeOf(other, w) => kind = other /\ v = w
BY DEF Pipes, start, PipeOf

(* The front of a sequence, and what is left.                              *)
LEMMA CutFacts ==
  ASSUME NEW S, NEW q \in Seq(S), NEW k \in 0 .. Len(q)
  PROVE  /\ SubSeq(q, 1, k) \in Seq(S) /\ Len(SubSeq(q, 1, k)) = k
         /\ \A j \in 1 .. k : SubSeq(q, 1, k)[j] = q[j]
         /\ SubSeq(q, k + 1, Len(q)) \in Seq(S) /\ Len(SubSeq(q, k + 1, Len(q))) = Len(q) - k
         /\ \A j \in 1 .. Len(q) - k : SubSeq(q, k + 1, Len(q))[j] = q[k + j]
<1>1. Len(q) \in Nat
  OBVIOUS
<1>2. /\ SubSeq(q, 1, k) \in Seq(S) /\ Len(SubSeq(q, 1, k)) = k
      /\ \A j \in 1 .. k : SubSeq(q, 1, k)[j] = q[j]
  BY <1>1
<1>3. /\ SubSeq(q, k + 1, Len(q)) \in Seq(S) /\ Len(SubSeq(q, k + 1, Len(q))) = Len(q) - k
      /\ \A j \in 1 .. Len(q) - k : SubSeq(q, k + 1, Len(q))[j] = q[k + j]
  BY <1>1
<1> QED BY <1>2, <1>3

LEMMA CarriesCut ==
  ASSUME NEW q \in Seq(Unit), NEW k \in Nat, NEW o \in Nat, NEW x \in 0 .. Len(q), Carries(q, k, o)
  PROVE  Carries(SubSeq(q, 1, x), k, o) /\ Carries(SubSeq(q, x + 1, Len(q)), k, o + x)
<1>1. PICK f, g : f = SubSeq(q, 1, x) /\ g = SubSeq(q, x + 1, Len(q))
  OBVIOUS
<1>2. /\ Len(f) = x /\ \A j \in 1 .. x : f[j] = q[j]
      /\ Len(g) = Len(q) - x /\ \A j \in 1 .. Len(q) - x : g[j] = q[x + j]
  BY <1>1, CutFacts
<1>3. Len(q) \in Nat
  OBVIOUS
<1>4. Carries(f, k, o)
  BY <1>2, <1>3 DEF Carries
<1>5. Carries(g, k, o + x)
  <2> SUFFICES ASSUME NEW j \in 1 .. Len(g) PROVE g[j] = <<k, (o + x) + j - 1>>
    BY DEF Carries
  <2>1. x + j \in 1 .. Len(q) /\ g[j] = q[x + j]
    BY <1>2, <1>3
  <2>2. q[x + j] = <<k, o + (x + j) - 1>>
    BY <2>1 DEF Carries
  <2>3. o + (x + j) - 1 = (o + x) + j - 1
    BY <1>2, <1>3
  <2> QED BY <2>1, <2>2, <2>3
<1> QED BY <1>1, <1>4, <1>5

LEMMA CarriesJoin ==
  ASSUME NEW q \in Seq(Unit), NEW s \in Seq(Unit), NEW k \in Nat, NEW o \in Nat,
         Carries(q, k, o), Carries(s, k, o + Len(q))
  PROVE  Carries(q \o s, k, o)
<1>1. PICK h : h = q \o s
  OBVIOUS
<1>2. /\ Len(q) \in Nat /\ Len(s) \in Nat /\ Len(h) = Len(q) + Len(s)
      /\ \A j \in 1 .. Len(q) + Len(s) : h[j] = IF j <= Len(q) THEN q[j] ELSE s[j - Len(q)]
  BY <1>1, ConcatProperties
<1>3. ASSUME NEW j \in 1 .. Len(h) PROVE h[j] = <<k, o + j - 1>>
  <2>1. CASE j <= Len(q)
    <3>1. j \in 1 .. Len(q) /\ h[j] = q[j]
      BY <1>2, <2>1
    <3> QED BY <3>1 DEF Carries
  <2>2. CASE ~(j <= Len(q))
    <3>1. j - Len(q) \in 1 .. Len(s) /\ h[j] = s[j - Len(q)]
      BY <1>2, <2>2
    <3>2. s[j - Len(q)] = <<k, (o + Len(q)) + (j - Len(q)) - 1>>
      BY <3>1 DEF Carries
    <3>3. (o + Len(q)) + (j - Len(q)) - 1 = o + j - 1
      BY <1>2
    <3> QED BY <3>1, <3>2, <3>3
  <2> QED BY <2>1, <2>2
<1> QED BY <1>1, <1>3 DEF Carries

(* A whole reply is its request and the record.                            *)
LEMMA RecordIs ==
  ASSUME NEW k \in Nat
  PROVE  /\ Record(k) \in Seq(Unit) /\ Len(Record(k)) = RECORD
         /\ <<<<k, 0>>>> \o Record(k) \in Seq(Unit) /\ Len(<<<<k, 0>>>> \o Record(k)) = RECORD + 1
         /\ Carries(<<<<k, 0>>>> \o Record(k), k, 0)
<1>1. PICK d : d = Record(k)
  OBVIOUS
<1>2. d \in [1 .. RECORD -> Unit] /\ \A j \in 1 .. RECORD : d[j] = <<k, j>>
  BY <1>1, RunConst DEF Record, Unit
<1>3. d \in Seq(Unit) /\ Len(d) = RECORD
  BY <1>2, RunConst
<1>4. PICK f : f = <<<<k, 0>>>>
  OBVIOUS
<1>5. f \in Seq(Unit) /\ Len(f) = 1 /\ f[1] = <<k, 0>>
  BY <1>4 DEF Unit
<1>6. Carries(f, k, 0)
  BY <1>5 DEF Carries
<1>7. Carries(d, k, 0 + Len(f))
  BY <1>2, <1>3, <1>5, RunConst DEF Carries
<1>8. f \o d \in Seq(Unit) /\ Len(f \o d) = RECORD + 1
  <2>1. f \o d \in Seq(Unit) /\ Len(f \o d) = Len(f) + Len(d)
    BY <1>3, <1>5, ConcatProperties
  <2> QED BY <1>3, <1>5, <2>1, RunConst
<1>9. Carries(f \o d, k, 0)
  BY <1>3, <1>5, <1>6, <1>7, CarriesJoin
<1> QED BY <1>1, <1>3, <1>4, <1>8, <1>9

LEMMA TailIsRecord ==
  ASSUME NEW q \in Seq(Unit), NEW k \in Nat, Carries(q, k, 0), Len(q) = RECORD + 1
  PROVE  Tail(q) = Record(k)
<1>1. PICK d, f : d = Record(k) /\ f = Tail(q)
  OBVIOUS
<1>2. d \in Seq(Unit) /\ Len(d) = RECORD /\ \A j \in 1 .. RECORD : d[j] = <<k, j>>
  BY <1>1, RecordIs DEF Record
<1>3. RECORD \in Nat /\ q # <<>>
  BY RunConst
<1>4. f \in Seq(Unit) /\ Len(f) = RECORD /\ \A j \in 1 .. RECORD : f[j] = q[j + 1]
  BY <1>1, <1>3, HeadTailProperties
<1>5. ASSUME NEW j \in 1 .. RECORD PROVE f[j] = d[j]
  <2>1. j + 1 \in 1 .. Len(q) /\ 0 + (j + 1) - 1 = j
    BY <1>3
  <2>2. q[j + 1] = <<k, 0 + (j + 1) - 1>>
    BY <2>1 DEF Carries
  <2> QED BY <1>2, <1>4, <2>1, <2>2
<1>6. f = d
  BY <1>2, <1>4, <1>5, SeqEqual
<1> QED BY <1>1, <1>6

-----------------------------------------------------------------------------
(* Types.  What going somewhere does.                                      *)
LEMMA Goes ==
  ASSUME PlaceTypes, NEW p \in Process, NEW there, Go(p, there)
  PROVE  /\ p = main /\ there \in MainPlaces => PlaceTypes'
         /\ \A w \in Worker : p = worker(w) /\ there \in WorkerPlaces => PlaceTypes'
         /\ \A w \in Worker : p = helper(w) /\ there \in HelperPlaces => PlaceTypes'
<1>1. point' = [point EXCEPT ![p] = there]
  BY DEF Go
<1>2. \A x \in Process : point'[x] = IF x = p THEN there ELSE point[x]
  BY <1>1 DEF PlaceTypes
<1>3. there \in Places => point' \in [Process -> Places]
  BY <1>1 DEF PlaceTypes
<1>4. ASSUME p = main, there \in MainPlaces PROVE PlaceTypes'
  <2>1. there \in Places
    BY <1>4 DEF Places
  <2> QED BY <1>2, <1>3, <1>4, <2>1, WhoIsWho DEF PlaceTypes
<1>5. ASSUME NEW w \in Worker, p = worker(w), there \in WorkerPlaces PROVE PlaceTypes'
  <2>1. there \in Places
    BY <1>5 DEF Places
  <2> QED BY <1>2, <1>3, <1>5, <2>1, WhoIsWho DEF PlaceTypes
<1>6. ASSUME NEW w \in Worker, p = helper(w), there \in HelperPlaces PROVE PlaceTypes'
  <2>1. there \in Places
    BY <1>6 DEF Places
  <2> QED BY <1>2, <1>3, <1>6, <2>1, WhoIsWho DEF PlaceTypes
<1> QED BY <1>4, <1>5, <1>6

(* A step of a worker or its helper but PrefetchBegin goes to one place.   *)
LEMMA WorkerGoes ==
  ASSUME NEW w \in Worker, WorkerStep(w) \/ GiveUp(w) \/ EndEarly(w), ~PrefetchBegin(w)
  PROVE  UNCHANGED point \/ \E there \in WorkerPlaces : Go(worker(w), there)
<1> USE DEF WorkerPlaces, BeforePrefetch
<1>1. CASE Begin(w) \/ Barrier(w) \/ BarrierBroken(w) \/ KvBeginWrite(w) \/ KvStore(w) \/ KvEndWrite(w)
  BY <1>1 DEF Begin, Barrier, BarrierBroken, KvBeginWrite, KvStore, KvEndWrite, Fail, Exit
<1>2. CASE KvBeginRead(w) \/ KvRestore(w) \/ PrefetchNext(w) \/ PrefetchWait(w) \/ PrefetchWaitFails(w)
  BY <1>2 DEF KvBeginRead, KvRestore, PrefetchNext, PrefetchWait, PrefetchWaitFails
<1>3. CASE PrefetchRestore(w) \/ PrefetchEnd(w) \/ SessionEnd(w) \/ WorkerResult(w) \/ WorkerExits(w)
  BY <1>3 DEF PrefetchRestore, PrefetchEnd, SessionEnd, WorkerResult, WorkerExits, Fail, Exit
<1>4. CASE GiveUp(w) \/ EndEarly(w)
  BY <1>4 DEF GiveUp, EndEarly, Exit
<1> QED BY <1>1, <1>2, <1>3, <1>4 DEF WorkerStep

LEMMA HelperGoes ==
  ASSUME NEW w \in Worker, HelperStep(w) \/ HelperFails(w)
  PROVE  UNCHANGED point \/ \E there \in HelperPlaces : Go(helper(w), there)
BY DEF HelperPlaces, HelperStep, HelperOpens, HelperCommand, HelperSend, HelperExits, HelperFails, Fail, Exit

LEMMA MainGoes ==
  ASSUME MainStep \/ MainGivesUp, ~ForkWorker
  PROVE  UNCHANGED point \/ \E there \in MainPlaces : Go(main, there)
BY DEF MainPlaces, MainStep, MainGivesUp, Forked, Start, WaitWorkers, Collect, MainExits, Fail, Exit

LEMMA PlaceTypesStep ==
  ASSUME PlaceTypes, DataTypes, RunNext
  PROVE  PlaceTypes'
<1>1. UNCHANGED point => PlaceTypes'
  BY DEF PlaceTypes
<1>2. CASE ForkWorker
  <2>1. turn[main] \in Worker
    BY <1>2, RunConst, WhoIsWho DEF ForkWorker, DataTypes
  <2>2. UNCHANGED point \/ Go(worker(turn[main]), "born")
    BY <1>2 DEF ForkWorker
  <2> QED BY <1>1, <2>1, <2>2, Goes, WhoIsWho DEF WorkerPlaces, BeforePrefetch
<1>3. CASE (MainStep \/ MainGivesUp) /\ ~ForkWorker
  BY <1>1, <1>3, MainGoes, Goes, WhoIsWho
<1>4. ASSUME NEW w \in Worker, PrefetchBegin(w) PROVE PlaceTypes'
  <2>1. point' = [point EXCEPT ![worker(w)] = "next", ![helper(w)] = "open"]
    BY <1>4 DEF PrefetchBegin
  <2>2. {"next", "open"} \subseteq Places /\ "next" \in WorkerPlaces /\ "open" \in HelperPlaces
    BY DEF Places, WorkerPlaces, HelperPlaces
  <2>3. point' \in [Process -> Places]
    BY <2>1, <2>2 DEF PlaceTypes
  <2>4. \A x \in Process : point'[x] = IF x = helper(w) THEN "open"
                                     ELSE IF x = worker(w) THEN "next" ELSE point[x]
    BY <2>1, WhoIsWho DEF PlaceTypes
  <2> QED BY <2>2, <2>3, <2>4, WhoIsWho DEF PlaceTypes
<1>5. ASSUME NEW w \in Worker, WorkerStep(w) \/ GiveUp(w) \/ EndEarly(w), ~PrefetchBegin(w) PROVE PlaceTypes'
  BY <1>1, <1>5, WorkerGoes, Goes, WhoIsWho
<1>6. ASSUME NEW w \in Worker, HelperStep(w) \/ HelperFails(w) PROVE PlaceTypes'
  BY <1>1, <1>6, HelperGoes, Goes, WhoIsWho
<1> QED BY <1>2, <1>3, <1>4, <1>5, <1>6 DEF RunNext

(* Ends of pipes.                                                          *)
LEMMA DropIs ==
  ASSUME EndsTypes, NEW p \in Process, NEW reads, NEW writes
  PROVE  Drop(p, reads, writes) \in EndsOf
BY DEF Drop, EndsTypes, EndsOf

LEMMA InheritIs ==
  ASSUME NEW e \in EndsOf, NEW p \in Process, NEW child \in Process
  PROVE  Inherit(e, p, child) \in EndsOf
BY DEF Inherit, EndsOf

LEMMA EndsTypesStep ==
  ASSUME EndsTypes, DataTypes, RunNext
  PROVE  EndsTypes'
<1>1. UNCHANGED ends => EndsTypes'
  BY DEF EndsTypes
<1>2. ASSUME NEW p \in Process, NEW reads, NEW writes, ends' = Drop(p, reads, writes) PROVE EndsTypes'
  BY <1>2, DropIs DEF EndsTypes
<1>3. CASE ForkWorker
  <2>1. turn[main] \in Worker
    BY <1>3, RunConst, WhoIsWho DEF ForkWorker, DataTypes
  <2>2. UNCHANGED ends \/ ends' = Inherit(ends, main, worker(turn[main]))
    BY <1>3 DEF ForkWorker
  <2> QED BY <1>1, <2>1, <2>2, InheritIs, WhoIsWho DEF EndsTypes
<1>4. CASE Forked \/ Start \/ WaitWorkers \/ Collect \/ MainExits \/ MainGivesUp
  BY <1>1, <1>2, <1>4, WhoIsWho DEF Forked, Start, WaitWorkers, Collect, MainExits, MainGivesUp, Fail, Exit
<1>5. ASSUME NEW w \in Worker, PrefetchBegin(w) PROVE EndsTypes'
  <2> DEFINE c == PipeOf("command", w)
             d == PipeOf("data", w)
             new == [b \in Pipes |-> IF b \in {c, d} THEN [r |-> {worker(w)}, w |-> {worker(w)}] ELSE ends[b]]
             own == Inherit(new, worker(w), helper(w))
  <2>1. worker(w) \in Process /\ helper(w) \in Process /\ c \in Pipes /\ d \in Pipes
    BY WhoIsWho, PipeIsPipe
  <2>2. new \in EndsOf
    BY <2>1 DEF EndsTypes, EndsOf
  <2>3. own \in EndsOf
    BY <2>1, <2>2, InheritIs
  <2>4. ends' = [own EXCEPT ![c].r = @ \ {worker(w)}, ![d].w = @ \ {worker(w)}]
    BY <1>5 DEF PrefetchBegin
  <2> HIDE DEF c, d, own
  <2>5. ends' \in EndsOf
    BY <2>1, <2>3, <2>4 DEF EndsOf
  <2> QED BY <2>5 DEF EndsTypes
<1>6. ASSUME NEW w \in Worker, WorkerStep(w) \/ GiveUp(w) \/ EndEarly(w), ~PrefetchBegin(w) PROVE EndsTypes'
  <2>1. UNCHANGED ends \/ \E reads, writes : ends' = Drop(worker(w), reads, writes)
    <3>1. CASE Begin(w) \/ Barrier(w) \/ BarrierBroken(w) \/ KvBeginWrite(w) \/ KvStore(w) \/ KvEndWrite(w)
      BY <3>1 DEF Begin, Barrier, BarrierBroken, KvBeginWrite, KvStore, KvEndWrite, Fail, Exit
    <3>2. CASE KvBeginRead(w) \/ KvRestore(w) \/ PrefetchNext(w) \/ PrefetchWait(w) \/ PrefetchWaitFails(w)
      BY <3>2 DEF KvBeginRead, KvRestore, PrefetchNext, PrefetchWait, PrefetchWaitFails
    <3>3. CASE PrefetchRestore(w) \/ PrefetchEnd(w) \/ SessionEnd(w) \/ WorkerResult(w) \/ WorkerExits(w)
      BY <3>3 DEF PrefetchRestore, PrefetchEnd, SessionEnd, WorkerResult, WorkerExits, Fail, Exit
    <3>4. CASE GiveUp(w) \/ EndEarly(w)
      BY <3>4 DEF GiveUp, EndEarly, Exit
    <3> QED BY <1>6, <3>1, <3>2, <3>3, <3>4 DEF WorkerStep
  <2> QED BY <1>1, <1>2, <2>1, WhoIsWho
<1>7. ASSUME NEW w \in Worker, HelperStep(w) \/ HelperFails(w) PROVE EndsTypes'
  <2>1. UNCHANGED ends \/ \E reads, writes : ends' = Drop(helper(w), reads, writes)
    BY <1>7 DEF HelperStep, HelperOpens, HelperCommand, HelperSend, HelperExits, HelperFails, Fail, Exit
  <2> QED BY <1>1, <1>2, <2>1, WhoIsWho
<1> QED BY <1>3, <1>4, <1>5, <1>6, <1>7 DEF RunNext, MainStep

(* What receiving and sending do.                                          *)
LEMMA ReceiveIs ==
  ASSUME FlowTypes, NEW p \in Process, NEW c \in Pipes, NEW need \in Nat \ {0}, Receive(p, c, need)
  PROVE  /\ queue[c] # <<>>
         /\ \E x \in 1 .. Len(queue[c]) :
              /\ x <= need /\ (x = need \/ x = Len(queue[c]))
              /\ part' = [part EXCEPT ![p] = part[p] \o SubSeq(queue[c], 1, x)]
              /\ queue' = [queue EXCEPT ![c] = SubSeq(queue[c], x + 1, Len(queue[c]))]
         /\ FlowTypes'
<1>1. part \in [Process -> Seq(Unit)] /\ queue \in [Pipes -> Seq(Unit)] /\ queue[c] \in Seq(Unit)
  BY DEF FlowTypes
<1>2. queue[c] # <<>>
  BY DEF Receive
<1>3. Len(queue[c]) \in Nat \ {0}
  BY <1>1, <1>2
<1>4. PICK x : x = Least(need, Len(queue[c]))
  OBVIOUS
<1>5. x \in 1 .. Len(queue[c]) /\ x <= need /\ (x = need \/ x = Len(queue[c]))
  BY <1>3, <1>4 DEF Least
<1>6. /\ part' = [part EXCEPT ![p] = part[p] \o SubSeq(queue[c], 1, x)]
      /\ queue' = [queue EXCEPT ![c] = SubSeq(queue[c], x + 1, Len(queue[c]))]
  BY <1>1, <1>4 DEF Receive
<1>7. SubSeq(queue[c], 1, x) \in Seq(Unit) /\ SubSeq(queue[c], x + 1, Len(queue[c])) \in Seq(Unit)
  BY <1>1, <1>5, CutFacts
<1>8. part[p] \o SubSeq(queue[c], 1, x) \in Seq(Unit)
  BY <1>1, <1>7, ConcatProperties
<1>9. FlowTypes'
  BY <1>1, <1>6, <1>7, <1>8 DEF FlowTypes
<1> QED BY <1>2, <1>5, <1>6, <1>9

LEMMA SendIs ==
  ASSUME FlowTypes, NEW p \in Process, NEW c \in Pipes, Send(p, c)
  PROVE  /\ \E x \in 0 .. Len(part[p]) :
              /\ part[p] # <<>> => x > 0
              /\ queue' = [queue EXCEPT ![c] = queue[c] \o SubSeq(part[p], 1, x)]
              /\ part' = [part EXCEPT ![p] = SubSeq(part[p], x + 1, Len(part[p]))]
         /\ FlowTypes'
<1>1. /\ part \in [Process -> Seq(Unit)] /\ queue \in [Pipes -> Seq(Unit)]
      /\ part[p] \in Seq(Unit) /\ queue[c] \in Seq(Unit)
  BY DEF FlowTypes
<1>2. Len(queue[c]) \in Nat /\ Len(part[p]) \in Nat /\ Len(queue[c]) < CAPACITY /\ CAPACITY \in Nat
  BY <1>1, RunConst DEF Send
<1>3. PICK x : x = Least(CAPACITY - Len(queue[c]), Len(part[p]))
  OBVIOUS
<1>4. x \in 0 .. Len(part[p]) /\ (Len(part[p]) > 0 => x > 0)
  BY <1>2, <1>3 DEF Least
<1>5. part[p] # <<>> => x > 0
  BY <1>1, <1>4
<1>6. /\ queue' = [queue EXCEPT ![c] = queue[c] \o SubSeq(part[p], 1, x)]
      /\ part' = [part EXCEPT ![p] = SubSeq(part[p], x + 1, Len(part[p]))]
  BY <1>1, <1>3 DEF Send
<1>7. SubSeq(part[p], 1, x) \in Seq(Unit) /\ SubSeq(part[p], x + 1, Len(part[p])) \in Seq(Unit)
  BY <1>1, <1>4, CutFacts
<1>8. queue[c] \o SubSeq(part[p], 1, x) \in Seq(Unit)
  BY <1>1, <1>7, ConcatProperties
<1>9. FlowTypes'
  BY <1>1, <1>6, <1>7, <1>8 DEF FlowTypes
<1> QED BY <1>4, <1>5, <1>6, <1>9

LEMMA FlowTypesStep ==
  ASSUME FlowTypes, DataTypes, RunNext
  PROVE  FlowTypes'
<1>1. UNCHANGED <<queue, part>> => FlowTypes'
  BY DEF FlowTypes
<1>2. ASSUME NEW p \in Process, NEW s \in Seq(Unit), part' = [part EXCEPT ![p] = s], UNCHANGED queue
      PROVE  FlowTypes'
  BY <1>2 DEF FlowTypes
<1>3. <<>> \in Seq(Unit)
  OBVIOUS
<1>4. ASSUME NEW p \in Process, NEW status, Exit(p, status) PROVE FlowTypes'
  BY <1>2, <1>3, <1>4 DEF Exit
<1>5. ASSUME NEW w \in Worker, WorkerStep(w) \/ GiveUp(w) \/ EndEarly(w) PROVE FlowTypes'
  <2>1. /\ worker(w) \in Process /\ start \in Pipes /\ PipeOf("data", w) \in Pipes
        /\ PipeOf("result", w) \in Pipes
    BY WhoIsWho, PipeIsPipe
  <2>2. CASE \/ Begin(w) \/ KvBeginWrite(w) \/ KvStore(w) \/ KvEndWrite(w) \/ KvBeginRead(w)
             \/ KvRestore(w) \/ PrefetchBegin(w) \/ PrefetchEnd(w) \/ EndEarly(w)
    BY <1>1, <2>2 DEF Begin, KvBeginWrite, KvStore, KvEndWrite, KvBeginRead, KvRestore, PrefetchBegin,
       PrefetchEnd, EndEarly
  <2>3. CASE BarrierBroken(w) \/ WorkerExits(w) \/ GiveUp(w)
    BY <1>4, <2>1, <2>3 DEF BarrierBroken, WorkerExits, GiveUp, Fail
  <2>4. CASE Barrier(w)
    <3>1. CASE Receive(worker(w), start, 1)
      BY <2>1, <3>1, ReceiveIs
    <3>2. CASE part' = [part EXCEPT ![worker(w)] = <<>>] /\ UNCHANGED queue
      BY <1>2, <1>3, <2>1, <3>2
    <3> QED BY <2>4, <3>1, <3>2 DEF Barrier
  <2>5. CASE PrefetchNext(w)
    <3>1. <<Due(w), 0>> \in Unit
      BY <2>1 DEF Due, Unit, DataTypes
    <3>2. /\ PipeOf("command", w) \in Pipes
          /\ queue' = [queue EXCEPT ![PipeOf("command", w)] = Append(@, <<Due(w), 0>>)]
          /\ UNCHANGED part
      BY <2>5, PipeIsPipe DEF PrefetchNext, Due
    <3> QED BY <3>1, <3>2 DEF FlowTypes
  <2>6. CASE PrefetchWait(w)
    <3>1. PICK need : need = IF Reply(w) = <<>> THEN 1 ELSE 1 + RECORD - Len(Reply(w))
      OBVIOUS
    <3>2. need \in Int
      BY <2>1, <3>1, RunConst DEF Reply, FlowTypes
    <3>3. (Receive(worker(w), PipeOf("data", w), need) /\ need > 0) \/ UNCHANGED <<queue, part>>
      BY <2>6, <3>1 DEF PrefetchWait
    <3> QED BY <1>1, <2>1, <3>2, <3>3, ReceiveIs
  <2>7. CASE PrefetchWaitFails(w) \/ PrefetchRestore(w)
    BY <1>2, <1>3, <2>1, <2>7 DEF PrefetchWaitFails, PrefetchRestore
  <2>8. CASE SessionEnd(w)
    <3>1. [k \in 1 .. RESULT |-> <<w, k>>] \in Seq(Unit)
      <4>1. [k \in 1 .. RESULT |-> <<w, k>>] \in [1 .. RESULT -> Unit]
        BY RunConst DEF Unit
      <4> QED BY <4>1, RunConst
    <3> QED BY <1>2, <1>3, <2>1, <2>8, <3>1 DEF SessionEnd
  <2>9. CASE WorkerResult(w)
    BY <2>1, <2>9, SendIs DEF WorkerResult
  <2> QED BY <1>5, <2>2, <2>3, <2>4, <2>5, <2>6, <2>7, <2>8, <2>9 DEF WorkerStep
<1>6. ASSUME NEW w \in Worker, HelperStep(w) \/ HelperFails(w) PROVE FlowTypes'
  <2>1. helper(w) \in Process /\ PipeOf("data", w) \in Pipes /\ PipeOf("command", w) \in Pipes
    BY WhoIsWho, PipeIsPipe
  <2>2. CASE HelperOpens(w)
    BY <1>1, <2>2 DEF HelperOpens
  <2>3. CASE HelperCommand(w)
    <3>1. CASE Receive(helper(w), PipeOf("command", w), 1)
      BY <2>1, <3>1, ReceiveIs
    <3>2. CASE part' = [part EXCEPT ![helper(w)] = @ \o Record(turn[helper(w)])] /\ UNCHANGED queue
      <4>1. turn[helper(w)] \in Nat
        BY <2>1 DEF DataTypes
      <4>2. part[helper(w)] \in Seq(Unit) /\ Record(turn[helper(w)]) \in Seq(Unit)
        BY <2>1, <4>1, RecordIs DEF FlowTypes
      <4>3. part[helper(w)] \o Record(turn[helper(w)]) \in Seq(Unit)
        BY <4>2, ConcatProperties
      <4>4. part' = [part EXCEPT ![helper(w)] = part[helper(w)] \o Record(turn[helper(w)])]
        BY <3>2
      <4> QED BY <1>2, <2>1, <3>2, <4>3, <4>4
    <3> QED BY <2>3, <3>1, <3>2 DEF HelperCommand
  <2>4. CASE HelperSend(w)
    BY <1>1, <2>1, <2>4, SendIs DEF HelperSend
  <2>5. CASE HelperExits(w) \/ HelperFails(w)
    BY <1>4, <2>1, <2>5 DEF HelperExits, HelperFails, Fail
  <2> QED BY <1>6, <2>2, <2>3, <2>4, <2>5 DEF HelperStep
<1>7. CASE MainStep \/ MainGivesUp
  <2>1. main \in Process /\ start \in Pipes
    BY WhoIsWho, PipeIsPipe
  <2>2. CASE ForkWorker \/ WaitWorkers
    BY <1>1, <2>2 DEF ForkWorker, WaitWorkers
  <2>3. CASE Forked
    <3>1. [w \in Worker |-> <<0, 0>>] \in Seq(Unit)
      <4>1. [w \in 1 .. W |-> <<0, 0>>] \in [1 .. W -> Unit]
        BY DEF Unit
      <4> QED BY <4>1, RunConst
    <3> QED BY <1>2, <2>1, <2>3, <3>1 DEF Forked
  <2>4. CASE Start
    BY <1>1, <2>1, <2>4, SendIs DEF Start
  <2>5. CASE Collect
    <3>1. turn[main] \in Worker /\ Len(part[main]) \in Nat /\ RESULT \in Nat
      BY <2>1, <2>5, RunConst DEF Collect, DataTypes, FlowTypes
    <3>2. PipeOf("result", turn[main]) \in Pipes
      BY <3>1, PipeIsPipe
    <3>3. CASE Len(part[main]) < RESULT
      <4>1. RESULT - Len(part[main]) \in Nat \ {0}
        BY <3>1, <3>3
      <4>2. Receive(main, PipeOf("result", turn[main]), RESULT - Len(part[main]))
        BY <2>5, <3>3 DEF Collect
      <4> QED BY <2>1, <3>2, <4>1, <4>2, ReceiveIs
    <3>4. CASE ~(Len(part[main]) < RESULT)
      BY <1>2, <1>3, <2>1, <2>5, <3>4 DEF Collect
    <3> QED BY <3>3, <3>4
  <2>6. CASE MainExits \/ MainGivesUp
    BY <1>4, <2>1, <2>6 DEF MainExits, MainGivesUp, Fail
  <2> QED BY <1>7, <2>2, <2>3, <2>4, <2>5, <2>6 DEF MainStep
<1> QED BY <1>5, <1>6, <1>7 DEF RunNext

(* What PrefetchRestore hands out is a whole reply.                        *)
LEMMA ReplyIsWhole ==
  ASSUME DataTypes, NEW w \in Worker, SessionInv(w), PrefetchRestore(w)
  PROVE  mode = "prefetch" /\ Answered(w) /\ Len(Here(w)) = RECORD + 1
<1>1. point[worker(w)] = "restore" /\ window[w] = "READY"
  BY DEF PrefetchRestore, At
<1>2. mode = "prefetch"
  BY <1>1 DEF SessionInv, Unused, DataTypes
<1> QED BY <1>1, <1>2 DEF SessionInv, Protocol

LEMMA DataTypesStep ==
  ASSUME FlowTypes, DataTypes, \A w \in Worker : SessionInv(w), RunNext
  PROVE  DataTypes'
<1>1. UNCHANGED <<mode, turn, window, restored>> => (fault' \in BOOLEAN => DataTypes')
  BY DEF DataTypes
<1>2. ASSUME NEW p \in Process, NEW status, Exit(p, status) PROVE UNCHANGED <<mode, turn, window, restored>>
  BY <1>2 DEF Exit, session
<1>3. ASSUME NEW w \in Worker, WorkerStep(w) \/ GiveUp(w) \/ EndEarly(w) PROVE DataTypes'
  <2>1. worker(w) \in Process /\ turn[worker(w)] + 1 \in Nat /\ worker(w) # main
    BY WhoIsWho DEF DataTypes
  <2>2. CASE Begin(w) \/ Barrier(w) \/ KvBeginWrite(w) \/ KvStore(w) \/ KvEndWrite(w) \/ KvBeginRead(w)
    BY <1>1, <2>2 DEF Begin, Barrier, KvBeginWrite, KvStore, KvEndWrite, KvBeginRead, session, DataTypes
  <2>3. CASE PrefetchEnd(w) \/ WorkerResult(w) \/ EndEarly(w)
    BY <1>1, <2>3 DEF PrefetchEnd, WorkerResult, EndEarly, session, DataTypes
  <2>4. CASE BarrierBroken(w) \/ WorkerExits(w) \/ GiveUp(w)
    BY <1>1, <1>2, <2>1, <2>4 DEF BarrierBroken, WorkerExits, GiveUp, Fail, DataTypes
  <2>5. CASE PrefetchBegin(w) \/ PrefetchNext(w) \/ PrefetchWait(w) \/ PrefetchWaitFails(w) \/ SessionEnd(w)
    BY <2>5 DEF PrefetchBegin, PrefetchNext, PrefetchWait, PrefetchWaitFails, SessionEnd, DataTypes, Windows
  <2>6. ASSUME NEW s \in Seq(Unit), restored' = [restored EXCEPT ![w] = Append(@, s)]
        PROVE  restored' \in [Worker -> Seq(Seq(Unit))]
    <3>1. restored[w] \in Seq(Seq(Unit))
      BY DEF DataTypes
    <3>2. Append(restored[w], s) \in Seq(Seq(Unit))
      BY <2>6, <3>1, AppendProperties
    <3> QED BY <2>6, <3>2 DEF DataTypes
  <2>7. CASE KvRestore(w)
    <3>1. Record(turn[worker(w)]) \in Seq(Unit)
      BY <2>1, RecordIs DEF DataTypes
    <3>2. restored' \in [Worker -> Seq(Seq(Unit))]
      BY <2>6, <2>7, <3>1 DEF KvRestore
    <3> QED BY <2>1, <2>7, <3>2 DEF KvRestore, DataTypes
  <2>8. CASE PrefetchRestore(w)
    <3>1. Reply(w) \in Seq(Unit) /\ Len(Reply(w)) = RECORD + 1
      BY <2>1, <2>8, ReplyIsWhole DEF Reply, Here, FlowTypes
    <3>2. Reply(w) # <<>>
      BY <3>1, RunConst
    <3>3. Tail(Reply(w)) \in Seq(Unit)
      BY <3>1, <3>2, HeadTailProperties
    <3>4. restored' \in [Worker -> Seq(Seq(Unit))]
      BY <2>6, <2>8, <3>3 DEF PrefetchRestore
    <3> QED BY <2>1, <2>8, <3>4 DEF PrefetchRestore, DataTypes, Windows
  <2> QED BY <1>3, <2>2, <2>3, <2>4, <2>5, <2>7, <2>8 DEF WorkerStep
<1>4. ASSUME NEW w \in Worker, HelperStep(w) \/ HelperFails(w) PROVE DataTypes'
  <2>1. helper(w) \in Process /\ turn[helper(w)] + 1 \in Nat /\ helper(w) # main
    BY WhoIsWho DEF DataTypes
  <2>2. CASE HelperOpens(w) \/ HelperCommand(w)
    BY <1>1, <2>2 DEF HelperOpens, HelperCommand, session, DataTypes
  <2>3. CASE HelperSend(w)
    <3>1. UNCHANGED <<mode, window, restored, fault>>
      BY <2>3 DEF HelperSend, session
    <3>2. UNCHANGED turn \/ turn' = [turn EXCEPT ![helper(w)] = turn[helper(w)] + 1]
      BY <2>3 DEF HelperSend
    <3>3. turn' \in [Process -> Nat] /\ turn'[main] # 0
      BY <2>1, <3>2, WhoIsWho DEF DataTypes
    <3> QED BY <3>1, <3>3 DEF DataTypes
  <2>4. CASE HelperExits(w) \/ HelperFails(w)
    BY <1>1, <1>2, <2>1, <2>4 DEF HelperExits, HelperFails, Fail, DataTypes
  <2> QED BY <1>4, <2>2, <2>3, <2>4 DEF HelperStep
<1>5. CASE MainStep \/ MainGivesUp
  <2>1. main \in Process /\ turn[main] + 1 \in Nat \ {0}
    BY WhoIsWho DEF DataTypes
  <2>2. CASE Forked \/ WaitWorkers
    BY <1>1, <2>2 DEF Forked, WaitWorkers, session, DataTypes
  <2>3. CASE ForkWorker \/ Start \/ Collect
    <3>1. UNCHANGED <<mode, window, restored>> /\ fault' \in BOOLEAN
      BY <2>3 DEF ForkWorker, Start, Collect, session, DataTypes
    <3>2. \E x \in {turn[main], turn[main] + 1, 1} : turn' = [turn EXCEPT ![main] = x]
      BY <2>3 DEF ForkWorker, Start, Collect, DataTypes
    <3>3. turn' \in [Process -> Nat] /\ turn'[main] # 0
      BY <2>1, <3>2 DEF DataTypes
    <3> QED BY <3>1, <3>3 DEF DataTypes
  <2>4. CASE MainExits \/ MainGivesUp
    BY <1>1, <1>2, <2>1, <2>4 DEF MainExits, MainGivesUp, Fail, DataTypes
  <2> QED BY <1>5, <2>2, <2>3, <2>4 DEF MainStep
<1> QED BY <1>3, <1>4, <1>5 DEF RunNext

-----------------------------------------------------------------------------
(* Who leaves what alone.                                                  *)
Alone(p) ==
  \A x \in Process \ {p} :
    /\ point'[x] = point[x] /\ turn'[x] = turn[x] /\ part'[x] = part[x]
    /\ \A c \in Pipes : /\ x \in ends[c].r => x \in ends'[c].r
                        /\ x \in ends[c].w => x \in ends'[c].w
QueuesAlone(Q) == \A c \in Pipes \ Q : queue'[c] = queue[c]
SessionsAlone(V) ==
  mode' = mode /\ \A v \in Worker \ V : window'[v] = window[v] /\ restored'[v] = restored[v]
PipesOf(w) == {start, PipeOf("result", w), PipeOf("command", w), PipeOf("data", w)}

LEMMA EndsAlone ==
  ASSUME NEW p \in Process, UNCHANGED ends \/ \E reads, writes : ends' = Drop(p, reads, writes)
  PROVE  \A x \in Process \ {p} : \A c \in Pipes : /\ x \in ends[c].r => x \in ends'[c].r
                                                   /\ x \in ends[c].w => x \in ends'[c].w
BY DEF Drop

LEMMA ExitAlone ==
  ASSUME RunTypes, NEW p \in Process, NEW status, Exit(p, status)
  PROVE  Alone(p) /\ QueuesAlone({}) /\ SessionsAlone({})
<1>1. ends' = Drop(p, Pipes, Pipes)
  BY DEF Exit
<1>2. \A x \in Process \ {p} : point'[x] = point[x] /\ turn'[x] = turn[x] /\ part'[x] = part[x]
  BY DEF Exit, Go, RunTypes, PlaceTypes, FlowTypes
<1>3. Alone(p)
  BY <1>1, <1>2, EndsAlone DEF Alone
<1>4. QueuesAlone({}) /\ SessionsAlone({})
  BY DEF Exit, session, QueuesAlone, SessionsAlone
<1> QED BY <1>3, <1>4

LEMMA ReceiveAlone ==
  ASSUME RunTypes, NEW p \in Process, NEW c \in Pipes, NEW need, Receive(p, c, need)
  PROVE  (\A x \in Process \ {p} : part'[x] = part[x]) /\ QueuesAlone({c})
BY DEF Receive, RunTypes, FlowTypes, QueuesAlone

LEMMA SendAlone ==
  ASSUME RunTypes, NEW p \in Process, NEW c \in Pipes, Send(p, c)
  PROVE  (\A x \in Process \ {p} : part'[x] = part[x]) /\ QueuesAlone({c})
BY DEF Send, RunTypes, FlowTypes, QueuesAlone

LEMMA WorkerAlone ==
  ASSUME RunTypes, NEW w \in Worker, WorkerStep(w) \/ GiveUp(w) \/ EndEarly(w), ~PrefetchBegin(w)
  PROVE  Alone(worker(w)) /\ QueuesAlone(PipesOf(w)) /\ SessionsAlone({w})
<1> DEFINE p == worker(w)
<1>0. p \in Process /\ PipesOf(w) \subseteq Pipes
  BY WhoIsWho, PipeIsPipe DEF PipesOf
<1>1. ASSUME NEW c \in PipesOf(w), QueuesAlone({c}) \/ UNCHANGED queue PROVE QueuesAlone(PipesOf(w))
  BY <1>1 DEF QueuesAlone
<1>2. ASSUME NEW status, Exit(p, status)
      PROVE  Alone(p) /\ QueuesAlone(PipesOf(w)) /\ SessionsAlone({w})
  BY <1>0, <1>2, ExitAlone DEF QueuesAlone, SessionsAlone
<1>3. CASE BarrierBroken(w) \/ WorkerExits(w) \/ GiveUp(w)
  BY <1>2, <1>3 DEF BarrierBroken, WorkerExits, GiveUp, Fail
<1>4. CASE ~(BarrierBroken(w) \/ WorkerExits(w) \/ GiveUp(w))
  <2>1. UNCHANGED ends \/ \E reads, writes : ends' = Drop(p, reads, writes)
    <3>1. CASE Begin(w) \/ Barrier(w) \/ KvBeginWrite(w) \/ KvStore(w) \/ KvEndWrite(w) \/ KvBeginRead(w)
      BY <3>1 DEF Begin, Barrier, KvBeginWrite, KvStore, KvEndWrite, KvBeginRead
    <3>2. CASE KvRestore(w) \/ PrefetchNext(w) \/ PrefetchWait(w) \/ PrefetchWaitFails(w) \/ EndEarly(w)
      BY <3>2 DEF KvRestore, PrefetchNext, PrefetchWait, PrefetchWaitFails, EndEarly
    <3>3. CASE PrefetchRestore(w) \/ PrefetchEnd(w) \/ SessionEnd(w) \/ WorkerResult(w)
      BY <3>3 DEF PrefetchRestore, PrefetchEnd, SessionEnd, WorkerResult
    <3> QED BY <1>4, <3>1, <3>2, <3>3 DEF WorkerStep
  <2>2. \A x \in Process \ {p} : point'[x] = point[x]
    <3>1. UNCHANGED point \/ \E there \in WorkerPlaces : Go(p, there)
      BY WorkerGoes
    <3> QED BY <3>1 DEF Go, RunTypes, PlaceTypes
  <2>3. \A x \in Process \ {p} : turn'[x] = turn[x]
    <3>1. CASE Begin(w) \/ Barrier(w) \/ KvBeginWrite(w) \/ KvStore(w) \/ KvEndWrite(w) \/ KvBeginRead(w)
      BY <3>1 DEF Begin, Barrier, KvBeginWrite, KvStore, KvEndWrite, KvBeginRead
    <3>2. CASE KvRestore(w) \/ PrefetchRestore(w)
      BY <3>2 DEF KvRestore, PrefetchRestore, RunTypes, DataTypes
    <3>3. CASE PrefetchNext(w) \/ PrefetchWait(w) \/ PrefetchWaitFails(w) \/ EndEarly(w)
      BY <3>3 DEF PrefetchNext, PrefetchWait, PrefetchWaitFails, EndEarly
    <3>4. CASE PrefetchEnd(w) \/ SessionEnd(w) \/ WorkerResult(w)
      BY <3>4 DEF PrefetchEnd, SessionEnd, WorkerResult
    <3> QED BY <1>4, <3>1, <3>2, <3>3, <3>4 DEF WorkerStep
  <2>4. (\A x \in Process \ {p} : part'[x] = part[x]) /\ QueuesAlone(PipesOf(w))
    <3>1. ASSUME NEW c \in PipesOf(w), NEW need, Receive(p, c, need)
          PROVE  (\A x \in Process \ {p} : part'[x] = part[x]) /\ QueuesAlone(PipesOf(w))
      BY <1>0, <1>1, <3>1, ReceiveAlone
    <3>2. ASSUME NEW c \in PipesOf(w), Send(p, c)
          PROVE  (\A x \in Process \ {p} : part'[x] = part[x]) /\ QueuesAlone(PipesOf(w))
      BY <1>0, <1>1, <3>2, SendAlone
    <3>3. ASSUME UNCHANGED queue, UNCHANGED part \/ \E s : part' = [part EXCEPT ![p] = s]
          PROVE  (\A x \in Process \ {p} : part'[x] = part[x]) /\ QueuesAlone(PipesOf(w))
      BY <3>3 DEF RunTypes, FlowTypes, QueuesAlone
    <3>4. CASE Begin(w) \/ KvBeginWrite(w) \/ KvStore(w) \/ KvEndWrite(w) \/ KvBeginRead(w) \/ KvRestore(w)
      BY <3>3, <3>4 DEF Begin, KvBeginWrite, KvStore, KvEndWrite, KvBeginRead, KvRestore
    <3>5. CASE PrefetchWaitFails(w) \/ PrefetchRestore(w) \/ PrefetchEnd(w) \/ SessionEnd(w) \/ EndEarly(w)
      BY <3>3, <3>5 DEF PrefetchWaitFails, PrefetchRestore, PrefetchEnd, SessionEnd, EndEarly
    <3>6. CASE Barrier(w)
      <4>1. CASE Receive(p, start, 1)
        BY <3>1, <4>1 DEF PipesOf
      <4>2. CASE part' = [part EXCEPT ![p] = <<>>] /\ UNCHANGED queue
        BY <3>3, <4>2
      <4> QED BY <3>6, <4>1, <4>2 DEF Barrier
    <3>7. CASE PrefetchNext(w)
      <4>1. PICK s : queue' = [queue EXCEPT ![PipeOf("command", w)] = s] /\ UNCHANGED part
        BY <3>7 DEF PrefetchNext
      <4>2. PipeOf("command", w) \in PipesOf(w)
        BY DEF PipesOf
      <4> QED BY <4>1, <4>2 DEF RunTypes, FlowTypes, QueuesAlone
    <3>8. CASE PrefetchWait(w)
      <4>1. UNCHANGED <<queue, part>> \/ \E need : Receive(p, PipeOf("data", w), need)
        BY <3>8 DEF PrefetchWait
      <4>2. PipeOf("data", w) \in PipesOf(w)
        BY DEF PipesOf
      <4> QED BY <3>1, <3>3, <4>1, <4>2
    <3>9. CASE WorkerResult(w)
      <4>1. Send(p, PipeOf("result", w)) /\ PipeOf("result", w) \in PipesOf(w)
        BY <3>9 DEF WorkerResult, PipesOf
      <4> QED BY <3>2, <4>1
    <3> QED BY <1>4, <3>4, <3>5, <3>6, <3>7, <3>8, <3>9 DEF WorkerStep
  <2>5. SessionsAlone({w})
    <3>1. CASE Begin(w) \/ Barrier(w) \/ KvBeginWrite(w) \/ KvStore(w) \/ KvEndWrite(w) \/ KvBeginRead(w)
      BY <3>1 DEF Begin, Barrier, KvBeginWrite, KvStore, KvEndWrite, KvBeginRead, session, SessionsAlone
    <3>2. CASE KvRestore(w) \/ PrefetchNext(w) \/ PrefetchWait(w) \/ PrefetchWaitFails(w) \/ EndEarly(w)
      BY <3>2 DEF KvRestore, PrefetchNext, PrefetchWait, PrefetchWaitFails, EndEarly, session, SessionsAlone,
         RunTypes, DataTypes
    <3>3. CASE PrefetchRestore(w) \/ PrefetchEnd(w) \/ SessionEnd(w) \/ WorkerResult(w)
      BY <3>3 DEF PrefetchRestore, PrefetchEnd, SessionEnd, WorkerResult, session, SessionsAlone, RunTypes,
         DataTypes
    <3> QED BY <1>4, <3>1, <3>2, <3>3 DEF WorkerStep
  <2>6. Alone(p)
    <3> HIDE DEF p
    <3> QED BY <1>0, <2>1, <2>2, <2>3, <2>4, EndsAlone DEF Alone
  <2> QED BY <2>4, <2>5, <2>6
<1> QED BY <1>3, <1>4

LEMMA HelperAlone ==
  ASSUME RunTypes, NEW w \in Worker, HelperStep(w) \/ HelperFails(w)
  PROVE  Alone(helper(w)) /\ QueuesAlone(PipesOf(w)) /\ SessionsAlone({})
<1> DEFINE p == helper(w)
<1>0. p \in Process /\ PipesOf(w) \subseteq Pipes
  BY WhoIsWho, PipeIsPipe DEF PipesOf
<1>1. {PipeOf("command", w), PipeOf("data", w)} \subseteq PipesOf(w)
  BY DEF PipesOf
<1>2. CASE HelperExits(w) \/ HelperFails(w)
  <2>1. \E status : Exit(p, status)
    BY <1>2 DEF HelperExits, HelperFails, Fail
  <2> QED BY <1>0, <2>1, ExitAlone DEF QueuesAlone, SessionsAlone
<1>3. CASE HelperOpens(w) \/ HelperCommand(w) \/ HelperSend(w)
  <2>1. UNCHANGED ends \/ \E reads, writes : ends' = Drop(p, reads, writes)
    BY <1>3 DEF HelperOpens, HelperCommand, HelperSend
  <2>2. \A x \in Process \ {p} : point'[x] = point[x] /\ turn'[x] = turn[x]
    BY <1>3 DEF HelperOpens, HelperCommand, HelperSend, Go, RunTypes, PlaceTypes, DataTypes
  <2>3. (\A x \in Process \ {p} : part'[x] = part[x]) /\ QueuesAlone(PipesOf(w))
    <3>1. CASE UNCHANGED queue /\ (UNCHANGED part \/ \E s : part' = [part EXCEPT ![p] = s])
      BY <3>1 DEF RunTypes, FlowTypes, QueuesAlone
    <3>2. CASE Receive(p, PipeOf("command", w), 1)
      BY <1>0, <1>1, <3>2, ReceiveAlone DEF QueuesAlone
    <3>3. CASE Send(p, PipeOf("data", w))
      BY <1>0, <1>1, <3>3, SendAlone DEF QueuesAlone
    <3> QED BY <1>3, <3>1, <3>2, <3>3 DEF HelperOpens, HelperCommand, HelperSend
  <2>4. SessionsAlone({})
    BY <1>3 DEF HelperOpens, HelperCommand, HelperSend, session, SessionsAlone
  <2>5. Alone(p)
    <3> HIDE DEF p
    <3> QED BY <1>0, <2>1, <2>2, <2>3, EndsAlone DEF Alone
  <2> QED BY <2>3, <2>4, <2>5
<1> QED BY <1>2, <1>3 DEF HelperStep

(* run_path leaves the sessions alone but for the workers it forks.        *)
LEMMA MainAlone ==
  ASSUME RunTypes, MainStep \/ MainGivesUp
  PROVE  /\ \/ Alone(main)
            \/ \E w \in Worker : /\ w = turn[main] /\ ForkWorker /\ point'[worker(w)] = "born"
                                 /\ \A x \in Process \ {worker(w)} : point'[x] = point[x]
                                 /\ turn' = [turn EXCEPT ![main] = w + 1]
                                 /\ part' = part
                                 /\ \A x \in Process : \A c \in Pipes :
                                      /\ x \in ends[c].r => x \in ends'[c].r
                                      /\ x \in ends[c].w => x \in ends'[c].w
         /\ QueuesAlone({start} \cup {PipeOf("result", w) : w \in Worker}) /\ SessionsAlone({})
<1>0. main \in Process /\ start \in Pipes
  BY WhoIsWho, PipeIsPipe
<1>1. CASE MainExits \/ MainGivesUp
  <2>1. \E status : Exit(main, status)
    BY <1>1 DEF MainExits, MainGivesUp, Fail
  <2> QED BY <1>0, <2>1, ExitAlone DEF QueuesAlone
<1>2. CASE ForkWorker
  <2>1. turn[main] \in Worker
    BY <1>0, <1>2, RunConst DEF ForkWorker, RunTypes, DataTypes
  <2>2. UNCHANGED <<queue, part, session, mode>> /\ turn' = [turn EXCEPT ![main] = turn[main] + 1]
    BY <1>2 DEF ForkWorker
  <2>3. CASE UNCHANGED <<point, ends>>
    BY <2>2, <2>3 DEF Alone, QueuesAlone, SessionsAlone, session, RunTypes, DataTypes
  <2>4. CASE Go(worker(turn[main]), "born") /\ ends' = Inherit(ends, main, worker(turn[main]))
    <3>1. /\ point'[worker(turn[main])] = "born"
          /\ \A x \in Process \ {worker(turn[main])} : point'[x] = point[x]
      BY <2>1, <2>4, WhoIsWho DEF Go, RunTypes, PlaceTypes
    <3>2. \A x \in Process : \A c \in Pipes : /\ x \in ends[c].r => x \in ends'[c].r
                                              /\ x \in ends[c].w => x \in ends'[c].w
      BY <2>4 DEF Inherit
    <3> QED BY <1>2, <2>1, <2>2, <3>1, <3>2 DEF QueuesAlone, SessionsAlone, session, ForkWorker
  <2> QED BY <1>2, <2>3, <2>4 DEF ForkWorker
<1>3. CASE Forked \/ Start \/ WaitWorkers \/ Collect
  <2>1. UNCHANGED ends \/ \E reads, writes : ends' = Drop(main, reads, writes)
    BY <1>3 DEF Forked, Start, WaitWorkers, Collect
  <2>2. \A x \in Process \ {main} : point'[x] = point[x] /\ turn'[x] = turn[x]
    BY <1>3 DEF Forked, Start, WaitWorkers, Collect, Go, RunTypes, PlaceTypes, DataTypes
  <2>3. /\ \A x \in Process \ {main} : part'[x] = part[x]
        /\ QueuesAlone({start} \cup {PipeOf("result", w) : w \in Worker})
    <3>1. CASE UNCHANGED queue /\ (UNCHANGED part \/ \E s : part' = [part EXCEPT ![main] = s])
      BY <3>1 DEF RunTypes, FlowTypes, QueuesAlone
    <3>2. CASE Start /\ Send(main, start)
      BY <1>0, <3>2, SendAlone DEF QueuesAlone
    <3>3. CASE Collect /\ \E need : Receive(main, PipeOf("result", turn[main]), need)
      <4>1. turn[main] \in Worker
        BY <1>0, <3>3, RunConst DEF Collect, RunTypes, DataTypes
      <4>2. PipeOf("result", turn[main]) \in Pipes
        BY <4>1, PipeIsPipe
      <4> QED BY <1>0, <3>3, <4>1, <4>2, ReceiveAlone DEF QueuesAlone
    <3>4. CASE Forked \/ WaitWorkers
      BY <3>1, <3>4 DEF Forked, WaitWorkers
    <3>5. CASE Start
      BY <3>1, <3>2, <3>5 DEF Start
    <3>6. CASE Collect
      BY <3>1, <3>3, <3>6 DEF Collect
    <3> QED BY <1>3, <3>4, <3>5, <3>6
  <2>4. SessionsAlone({})
    BY <1>3 DEF Forked, Start, WaitWorkers, Collect, session, SessionsAlone
  <2>5. Alone(main)
    BY <1>0, <2>1, <2>2, <2>3, EndsAlone DEF Alone
  <2> QED BY <2>3, <2>4, <2>5
<1> QED BY <1>1, <1>2, <1>3 DEF MainStep

LEMMA PrefetchBeginAlone ==
  ASSUME RunTypes, NEW w \in Worker, PrefetchBegin(w)
  PROVE  /\ \A x \in Process \ {worker(w), helper(w)} :
              /\ point'[x] = point[x]
              /\ \A c \in Pipes \ {PipeOf("command", w), PipeOf("data", w)} :
                   /\ x \in ends[c].r => x \in ends'[c].r
                   /\ x \in ends[c].w => x \in ends'[c].w
         /\ point'[worker(w)] = "next" /\ point'[helper(w)] = "open"
         /\ worker(w) \in ends'[PipeOf("data", w)].r /\ worker(w) \in ends'[PipeOf("command", w)].w
         /\ helper(w) \in ends'[PipeOf("data", w)].w
         /\ UNCHANGED <<mode, queue, turn, part, restored>>
         /\ SessionsAlone({w})
<1> DEFINE c == PipeOf("command", w)
           d == PipeOf("data", w)
           new == [b \in Pipes |-> IF b \in {c, d} THEN [r |-> {worker(w)}, w |-> {worker(w)}] ELSE ends[b]]
           own == Inherit(new, worker(w), helper(w))
<1>1. /\ worker(w) \in Process /\ helper(w) \in Process /\ worker(w) # helper(w)
      /\ c \in Pipes /\ d \in Pipes /\ c # d
  BY WhoIsWho, PipeIsPipe
<1>2. new \in EndsOf
  BY <1>1 DEF RunTypes, EndsTypes, EndsOf
<1>3. own \in EndsOf
  BY <1>1, <1>2, InheritIs
<1>4. ends' = [own EXCEPT ![c].r = @ \ {worker(w)}, ![d].w = @ \ {worker(w)}]
  BY DEF PrefetchBegin
<1>5. /\ \A b \in Pipes \ {c, d} : \A x \in Process : /\ x \in ends[b].r => x \in own[b].r
                                                      /\ x \in ends[b].w => x \in own[b].w
      /\ own[c].w = {worker(w), helper(w)} /\ own[d].r = {worker(w), helper(w)}
      /\ own[d].w = {worker(w), helper(w)}
  BY <1>1 DEF Inherit
<1> HIDE DEF c, d, own, new
<1>6. /\ \A b \in Pipes \ {c, d} : ends'[b] = own[b]
      /\ ends'[c].w = own[c].w /\ ends'[d].r = own[d].r /\ ends'[d].w = own[d].w \ {worker(w)}
  BY <1>1, <1>3, <1>4 DEF EndsOf
<1>7. /\ \A x \in Process \ {worker(w), helper(w)} : point'[x] = point[x]
      /\ point'[worker(w)] = "next" /\ point'[helper(w)] = "open"
  <2>1. point' = [point EXCEPT ![worker(w)] = "next", ![helper(w)] = "open"]
    BY DEF PrefetchBegin
  <2> QED BY <1>1, <2>1 DEF RunTypes, PlaceTypes
<1>8. UNCHANGED <<mode, queue, turn, part, restored>> /\ SessionsAlone({w})
  BY DEF PrefetchBegin, SessionsAlone, RunTypes, DataTypes
<1> QED BY <1>1, <1>5, <1>6, <1>7, <1>8 DEF c, d

(* A session a step does not touch.                                        *)
Kept(w) ==
  /\ \A p \in {worker(w), helper(w)} : point'[p] = point[p] /\ turn'[p] = turn[p] /\ part'[p] = part[p]
  /\ Asking(w)' = Asking(w) /\ Coming(w)' = Coming(w)
  /\ mode' = mode /\ window'[w] = window[w] /\ restored'[w] = restored[w]
  /\ worker(w) \in ends[PipeOf("data", w)].r => worker(w) \in ends'[PipeOf("data", w)].r
  /\ worker(w) \in ends[PipeOf("command", w)].w => worker(w) \in ends'[PipeOf("command", w)].w
  /\ helper(w) \in ends[PipeOf("data", w)].w => helper(w) \in ends'[PipeOf("data", w)].w

LEMMA KeptSession ==
  ASSUME NEW w \in Worker, Kept(w), SessionInv(w)
  PROVE  SessionInv(w)'
<1>1. Handed(w)' /\ Fresh(w)' /\ Unused(w)' /\ EndsHeld(w)'
  BY DEF Kept, SessionInv, Handed, Fresh, Unused, EndsHeld, Prefetching, Due, Here, There, Asking, Coming
<1>2. /\ HelperReady(w, Due(w)) => HelperReady(w, Due(w))'
      /\ HelperReady(w, Due(w) + 1) => HelperReady(w, Due(w) + 1)'
  BY DEF Kept, HelperReady, Due, There
<1>3. (NotAsked(w) => NotAsked(w)') /\ (Asked(w) => Asked(w)') /\ (Taken(w) => Taken(w)')
  BY <1>2 DEF Kept, NotAsked, Asked, Taken, Due, Here, There, Asking, Coming
<1>4. Arriving(w) => Arriving(w)'
  BY DEF Kept, Arriving, Carries, Due, Here, Asking, Coming
<1>5. Answering(w) => Answering(w)'
  BY <1>4 DEF Kept, Answering, Carries, Due, Here, There, Asking, Coming
<1>6. Answered(w) => Answered(w)'
  BY <1>2, <1>4 DEF Kept, Answered, Due, Here, There, Asking, Coming
<1>7. Protocol(w)'
  BY <1>3, <1>5, <1>6 DEF Kept, SessionInv, Protocol, Here
<1> QED BY <1>1, <1>7 DEF SessionInv

LEMMA OthersKept ==
  ASSUME RunTypes, NEW p \in Process, Alone(p), NEW Q, QueuesAlone(Q), NEW V, SessionsAlone(V),
         NEW w \in Worker \ V, p \notin {worker(w), helper(w)}, PipeOf("command", w) \notin Q,
         PipeOf("data", w) \notin Q
  PROVE  Kept(w)
<1>1. /\ worker(w) \in Process \ {p} /\ helper(w) \in Process \ {p}
      /\ PipeOf("command", w) \in Pipes \ Q /\ PipeOf("data", w) \in Pipes \ Q
  BY WhoIsWho, PipeIsPipe
<1> QED BY <1>1 DEF Alone, QueuesAlone, SessionsAlone, Kept, Asking, Coming

(* No step of one worker's session, or of run_path, disturbs another's.    *)
LEMMA SessionOfOther ==
  ASSUME RunTypes, NEW v \in Worker, NEW w \in Worker \ {v},
         WorkerStep(v) \/ GiveUp(v) \/ EndEarly(v) \/ HelperStep(v) \/ HelperFails(v)
  PROVE  Kept(w)
<1>1. /\ worker(v) \in Process /\ helper(v) \in Process
      /\ worker(v) \notin {worker(w), helper(w)} /\ helper(v) \notin {worker(w), helper(w)}
      /\ PipeOf("command", w) \notin PipesOf(v) /\ PipeOf("data", w) \notin PipesOf(v)
  BY WhoIsWho, PipeIsPipe DEF PipesOf
<1>2. CASE PrefetchBegin(v)
  <2>1. /\ worker(w) \in Process \ {worker(v), helper(v)} /\ helper(w) \in Process \ {worker(v), helper(v)}
        /\ PipeOf("command", w) \in Pipes \ {PipeOf("command", v), PipeOf("data", v)}
        /\ PipeOf("data", w) \in Pipes \ {PipeOf("command", v), PipeOf("data", v)}
    BY WhoIsWho, PipeIsPipe
  <2> QED BY <1>2, <2>1, PrefetchBeginAlone DEF SessionsAlone, Kept, Asking, Coming
<1>3. CASE (WorkerStep(v) \/ GiveUp(v) \/ EndEarly(v)) /\ ~PrefetchBegin(v)
  BY <1>1, <1>3, WorkerAlone, OthersKept
<1>4. CASE HelperStep(v) \/ HelperFails(v)
  BY <1>1, <1>4, HelperAlone, OthersKept
<1> QED BY <1>2, <1>3, <1>4

LEMMA SessionOfMain ==
  ASSUME RunTypes, Unforked, MainStep \/ MainGivesUp, NEW w \in Worker, SessionInv(w)
  PROVE  SessionInv(w)'
<1> DEFINE Q == {start} \cup {PipeOf("result", v) : v \in Worker}
<1>1. /\ main \in Process /\ main \notin {worker(w), helper(w)} /\ worker(w) # helper(w)
      /\ worker(w) \in Process /\ helper(w) \in Process
      /\ PipeOf("command", w) \in Pipes \ Q /\ PipeOf("data", w) \in Pipes \ Q
  BY WhoIsWho, PipeIsPipe
<1>2. CASE Alone(main)
  BY <1>1, <1>2, MainAlone, OthersKept, KeptSession
<1>3. CASE \E v \in Worker : /\ v = turn[main] /\ ForkWorker /\ point'[worker(v)] = "born"
                             /\ \A x \in Process \ {worker(v)} : point'[x] = point[x]
                             /\ turn' = [turn EXCEPT ![main] = v + 1]
                             /\ part' = part
                             /\ \A x \in Process : \A c \in Pipes : /\ x \in ends[c].r => x \in ends'[c].r
                                                                    /\ x \in ends[c].w => x \in ends'[c].w
  <2>1. PICK v \in Worker : /\ v = turn[main] /\ ForkWorker /\ point'[worker(v)] = "born"
                            /\ \A x \in Process \ {worker(v)} : point'[x] = point[x]
                            /\ turn' = [turn EXCEPT ![main] = v + 1]
                            /\ part' = part
                            /\ \A x \in Process : \A c \in Pipes : /\ x \in ends[c].r => x \in ends'[c].r
                                                                   /\ x \in ends[c].w => x \in ends'[c].w
    BY <1>3
  <2>2. QueuesAlone(Q) /\ SessionsAlone({})
    BY MainAlone
  <2>3. \A x \in Process \ {main} : turn'[x] = turn[x]
    BY <2>1 DEF RunTypes, DataTypes
  <2>4. /\ Asking(w)' = Asking(w) /\ Coming(w)' = Coming(w)
        /\ mode' = mode /\ window'[w] = window[w] /\ restored'[w] = restored[w]
    BY <1>1, <2>2 DEF QueuesAlone, SessionsAlone, Asking, Coming
  <2>5. CASE w # v
    <3>1. worker(w) # worker(v) /\ helper(w) # worker(v)
      BY <2>5, WhoIsWho
    <3>2. Kept(w)
      BY <1>1, <2>1, <2>3, <2>4, <3>1 DEF Kept
    <3> QED BY <3>2, KeptSession
  <2>6. CASE w = v
    <3>1. point[worker(w)] = "none"
      BY <1>1, <2>1, <2>6 DEF Unforked, ForkWorker, At, RunTypes, DataTypes
    <3>2. /\ point'[worker(w)] = "born" /\ point'[helper(w)] = point[helper(w)]
          /\ turn'[worker(w)] = turn[worker(w)] /\ turn'[helper(w)] = turn[helper(w)]
      BY <1>1, <2>1, <2>3, <2>6
    <3>3. Here(w)' = Here(w) /\ There(w)' = There(w) /\ Due(w)' = Due(w)
      BY <2>1, <3>2 DEF Here, There, Due
    <3>4. Handed(w)'
      BY <2>4, <3>3 DEF SessionInv, Handed
    <3>5. Fresh(w) /\ Unused(w)
      BY DEF SessionInv
    <3>6. Fresh(w)' /\ Protocol(w)'
      BY <2>4, <3>1, <3>2, <3>3, <3>5 DEF Fresh, BeforePrefetch, Protocol
    <3>7. Unused(w)' /\ EndsHeld(w)'
      BY <2>4, <3>1, <3>2, <3>3, <3>5 DEF Fresh, BeforePrefetch, Unused, EndsHeld, Prefetching
    <3> QED BY <3>4, <3>6, <3>7 DEF SessionInv
  <2> QED BY <2>5, <2>6
<1> QED BY <1>2, <1>3, MainAlone

-----------------------------------------------------------------------------
(* The steps of a session itself.  What its worker does leaves the helper  *)
(* where it is.                                                            *)
LEMMA HelperStays ==
  ASSUME RunTypes, NEW w \in Worker, WorkerStep(w) \/ GiveUp(w) \/ EndEarly(w), ~PrefetchBegin(w)
  PROVE  /\ mode' = mode /\ point'[helper(w)] = point[helper(w)] /\ turn'[helper(w)] = turn[helper(w)]
         /\ There(w)' = There(w)
         /\ helper(w) \in ends[PipeOf("data", w)].w => helper(w) \in ends'[PipeOf("data", w)].w
<1>1. helper(w) \in Process \ {worker(w)} /\ PipeOf("data", w) \in Pipes
  BY WhoIsWho, PipeIsPipe
<1> QED BY <1>1, WorkerAlone DEF Alone, SessionsAlone, There

(* Nothing that leaves prefetch and records alone does harm.               *)
LEMMA SessionOver ==
  ASSUME RunTypes, NEW w \in Worker, WorkerStep(w) \/ GiveUp(w) \/ EndEarly(w), ~PrefetchBegin(w),
         SessionInv(w),
         point'[worker(w)] \in {"stuck", "end", "reap", "result", "ended", "done", "failed"},
         Due(w)' = Due(w), restored'[w] = restored[w],
         mode = "student" => /\ Asking(w)' = Asking(w) /\ Coming(w)' = Coming(w) /\ window'[w] = "NONE"
                             /\ point'[worker(w)] # "reap"
  PROVE  SessionInv(w)'
<1>1. Handed(w)'
  BY DEF SessionInv, Handed
<1>2. Fresh(w)' /\ Protocol(w)'
  BY DEF Fresh, BeforePrefetch, Protocol
<1>3. Unused(w)'
  BY HelperStays DEF SessionInv, Unused
<1>4. EndsHeld(w)'
  BY HelperStays DEF SessionInv, EndsHeld, Prefetching
<1> QED BY <1>1, <1>2, <1>3, <1>4 DEF SessionInv

LEMMA SessionExit ==
  ASSUME RunTypes, NEW w \in Worker, WorkerStep(w) \/ GiveUp(w), SessionInv(w),
         NEW status \in Ended, Exit(worker(w), status)
  PROVE  SessionInv(w)'
<1>1. worker(w) \in Process /\ point'[worker(w)] = status
  BY WhoIsWho DEF Exit, Go, RunTypes, PlaceTypes
<1>2. UNCHANGED <<queue, turn, window, restored>>
  BY DEF Exit, session
<1>3. ~PrefetchBegin(w)
  BY <1>1, PrefetchBeginAlone DEF Ended
<1>4. /\ Due(w)' = Due(w) /\ restored'[w] = restored[w]
      /\ Asking(w)' = Asking(w) /\ Coming(w)' = Coming(w) /\ window'[w] = window[w]
  BY <1>2 DEF Due, Asking, Coming
<1> QED BY <1>1, <1>3, <1>4, SessionOver DEF Ended, SessionInv, Unused

LEMMA SessionBeforePrefetch ==
  ASSUME RunTypes, NEW w \in Worker, SessionInv(w),
         \/ Begin(w) \/ Barrier(w) \/ KvBeginWrite(w) \/ KvStore(w)
         \/ KvEndWrite(w) \/ KvBeginRead(w)
  PROVE  SessionInv(w)'
<1>1. worker(w) \in Process /\ start \in Pipes
  BY WhoIsWho, PipeIsPipe
<1>2. WorkerStep(w)
  BY DEF WorkerStep
<1>3. /\ point[worker(w)] \in {"born", "barrier", "write", "store", "read"}
      /\ \/ point'[worker(w)] \in {"barrier", "write", "store", "read"}
         \/ mode = "prefetch" /\ point'[worker(w)] = "begin"
         \/ mode = "student" /\ point'[worker(w)] = "restore"
  BY <1>1 DEF Begin, Barrier, KvBeginWrite, KvStore, KvEndWrite, KvBeginRead, At, Go, RunTypes, PlaceTypes,
     DataTypes
<1>4. ~PrefetchBegin(w)
  BY <1>3, PrefetchBeginAlone
<1>5. UNCHANGED <<turn, window, restored>>
  BY DEF Begin, Barrier, KvBeginWrite, KvStore, KvEndWrite, KvBeginRead, session
<1>6. Asking(w)' = Asking(w) /\ Coming(w)' = Coming(w)
  <2>1. CASE Begin(w) \/ KvBeginWrite(w) \/ KvStore(w) \/ KvEndWrite(w) \/ KvBeginRead(w)
    BY <2>1 DEF Begin, KvBeginWrite, KvStore, KvEndWrite, KvBeginRead, Asking, Coming
  <2>2. CASE Barrier(w)
    <3>1. UNCHANGED queue \/ Receive(worker(w), start, 1)
      BY <2>2 DEF Barrier
    <3>2. UNCHANGED queue \/ QueuesAlone({start})
      BY <1>1, <3>1, ReceiveAlone
    <3> QED BY <3>2, PipeIsPipe DEF QueuesAlone, Asking, Coming
  <2> QED BY <2>1, <2>2
<1>7. Here(w)' = <<>> \/ Here(w)' = Here(w) \/ point'[worker(w)] = "barrier"
  BY <1>1 DEF Begin, Barrier, KvBeginWrite, KvStore, KvEndWrite, KvBeginRead, Here, RunTypes, FlowTypes,
     PlaceTypes, At
<1>8. point'[worker(w)] # "barrier" => Here(w)' = <<>>
  BY <1>1, <1>3 DEF Begin, Barrier, KvBeginWrite, KvStore, KvEndWrite, KvBeginRead, Here, RunTypes, FlowTypes,
     PlaceTypes, At, SessionInv, Fresh, BeforePrefetch
<1>9. Handed(w)'
  BY <1>5 DEF SessionInv, Handed, Due
<1>10. Fresh(w)' /\ Protocol(w)'
  BY <1>2, <1>3, <1>4, <1>5, <1>6, <1>8, HelperStays DEF SessionInv, Fresh, BeforePrefetch, Protocol, Due
<1>11. Unused(w)' /\ EndsHeld(w)'
  BY <1>2, <1>3, <1>4, <1>5, <1>6, <1>8, HelperStays DEF SessionInv, Fresh, BeforePrefetch, Unused, EndsHeld,
     Prefetching
<1> QED BY <1>9, <1>10, <1>11 DEF SessionInv

(* One more record in a list of them.                                      *)
LEMMA HandedMore ==
  ASSUME RunTypes, NEW w \in Worker, Handed(w),
         restored' = [restored EXCEPT ![w] = Append(@, Record(Due(w)))], Due(w)' = Due(w) + 1
  PROVE  Handed(w)'
<1>1. Due(w) \in Nat /\ restored[w] \in Seq(Seq(Unit)) /\ Record(Due(w)) \in Seq(Unit)
  BY WhoIsWho, RecordIs DEF RunTypes, DataTypes, Due
<1>2. PICK q, r, k : q = restored[w] /\ r = Record(Due(w)) /\ k = Due(w)
  OBVIOUS
<1>3. restored'[w] = Append(q, r)
  BY <1>2 DEF RunTypes, DataTypes
<1>4. /\ q \in Seq(Seq(Unit)) /\ r \in Seq(Unit) /\ k \in Nat
      /\ Len(q) = k /\ \A i \in 1 .. k : q[i] = Record(i - 1)
  BY <1>1, <1>2 DEF Handed
<1>5. Len(Append(q, r)) = k + 1
  BY <1>4, AppendProperties
<1>6. ASSUME NEW i \in 1 .. k + 1 PROVE Append(q, r)[i] = Record(i - 1)
  <2>1. CASE i <= k
    <3>1. i \in 1 .. k
      BY <1>4, <2>1
    <3>2. Append(q, r)[i] = q[i]
      BY <1>4, <3>1, AppendProperties
    <3> QED BY <1>4, <3>1, <3>2
  <2>2. CASE ~(i <= k)
    <3>1. i = k + 1 /\ i - 1 = k
      BY <1>4, <2>2
    <3>2. Append(q, r)[i] = r
      BY <1>4, <3>1, AppendProperties
    <3> QED BY <1>2, <3>1, <3>2
  <2> QED BY <2>1, <2>2
<1> QED BY <1>2, <1>3, <1>5, <1>6 DEF Handed

LEMMA SessionKvRestore ==
  ASSUME RunTypes, NEW w \in Worker, SessionInv(w), KvRestore(w)
  PROVE  SessionInv(w)'
<1>1. worker(w) \in Process /\ WorkerStep(w)
  BY WhoIsWho DEF WorkerStep
<1>2. /\ mode = "student" /\ point[worker(w)] = "restore" /\ point'[worker(w)] \in {"restore", "end"}
      /\ UNCHANGED <<queue, part, window>>
  BY <1>1 DEF KvRestore, At, Go, RunTypes, PlaceTypes
<1>3. ~PrefetchBegin(w)
  BY <1>2, PrefetchBeginAlone
<1>4. Handed(w)'
  <2>1. restored' = [restored EXCEPT ![w] = Append(@, Record(Due(w)))]
    BY DEF KvRestore, Due
  <2>2. Due(w)' = Due(w) + 1
    BY <1>1 DEF KvRestore, Due, RunTypes, DataTypes
  <2> QED BY <2>1, <2>2, HandedMore DEF SessionInv
<1>5. /\ Asking(w)' = Asking(w) /\ Coming(w)' = Coming(w) /\ Here(w)' = Here(w) /\ There(w)' = There(w)
      /\ window'[w] = window[w]
  BY <1>2 DEF Asking, Coming, Here, There
<1>6. Fresh(w)' /\ Protocol(w)' /\ Unused(w)' /\ EndsHeld(w)'
  BY <1>1, <1>2, <1>3, <1>5, HelperStays DEF SessionInv, Fresh, BeforePrefetch, Protocol, Unused, EndsHeld,
     Prefetching
<1> QED BY <1>4, <1>6 DEF SessionInv

LEMMA SessionPrefetchBegin ==
  ASSUME RunTypes, NEW w \in Worker, SessionInv(w), PrefetchBegin(w)
  PROVE  SessionInv(w)'
<1>1. point[worker(w)] = "begin"
  BY DEF PrefetchBegin, At
<1>2. /\ Asking(w)' = Asking(w) /\ Coming(w)' = Coming(w) /\ Here(w)' = Here(w) /\ There(w)' = There(w)
      /\ Due(w)' = Due(w) /\ turn'[helper(w)] = turn[helper(w)] /\ restored'[w] = restored[w] /\ mode' = mode
  BY PrefetchBeginAlone DEF Asking, Coming, Here, There, Due
<1>3. Fresh(w) /\ Unused(w) /\ Handed(w)
  BY DEF SessionInv
<1>4. mode # "student"
  BY <1>1, <1>3 DEF Unused
<1>5. Handed(w)' /\ Fresh(w)' /\ Unused(w)' /\ EndsHeld(w)'
  BY <1>2, <1>3, <1>4, PrefetchBeginAlone DEF Handed, Fresh, BeforePrefetch, Unused, EndsHeld
<1>6. NotAsked(w)'
  BY <1>1, <1>2, <1>3, PrefetchBeginAlone DEF Fresh, BeforePrefetch, NotAsked, HelperReady
<1>7. Protocol(w)'
  BY <1>6, PrefetchBeginAlone DEF Protocol
<1> QED BY <1>5, <1>7 DEF SessionInv

(* The request is made.                                                    *)
LEMMA SessionPrefetchNext ==
  ASSUME RunTypes, NEW w \in Worker, SessionInv(w), PrefetchNext(w)
  PROVE  SessionInv(w)'
<1>1. worker(w) \in Process /\ WorkerStep(w) /\ PipeOf("command", w) \in Pipes /\ PipeOf("data", w) \in Pipes
  BY WhoIsWho, PipeIsPipe DEF WorkerStep
<1>2. point[worker(w)] = "next" /\ point'[worker(w)] = "wait"
  BY <1>1 DEF PrefetchNext, At, Go, RunTypes, PlaceTypes
<1>3. ~PrefetchBegin(w)
  BY <1>2, PrefetchBeginAlone
<1>4. UNCHANGED <<ends, turn, part, restored, mode>> /\ NotAsked(w)
  BY <1>2 DEF PrefetchNext, SessionInv, Protocol
<1>5. queue' = [queue EXCEPT ![PipeOf("command", w)] = Append(queue[PipeOf("command", w)], <<Due(w), 0>>)]
  BY DEF PrefetchNext, Due
<1>6. Asking(w)' = Append(Asking(w), <<Due(w), 0>>) /\ Coming(w)' = Coming(w)
  BY <1>1, <1>5, PipeIsPipe DEF Asking, Coming, RunTypes, FlowTypes
<1>7. Asking(w)' = <<<<Due(w), 0>>>>
  <2>1. Asking(w) = <<>>
    BY <1>4 DEF NotAsked
  <2> QED BY <1>6, <2>1
<1>8. Here(w)' = Here(w) /\ There(w)' = There(w) /\ Due(w)' = Due(w) /\ restored'[w] = restored[w]
  BY <1>4 DEF Here, There, Due
<1>9. Asked(w)'
  BY <1>1, <1>3, <1>4, <1>6, <1>7, <1>8, HelperStays DEF NotAsked, Asked, HelperReady
<1>10. mode # "student"
  BY <1>2 DEF SessionInv, Unused
<1>11. Handed(w)' /\ Fresh(w)' /\ Protocol(w)' /\ Unused(w)'
  BY <1>2, <1>4, <1>8, <1>9, <1>10 DEF SessionInv, Handed, Fresh, BeforePrefetch, Protocol, Unused
<1>12. EndsHeld(w)'
  BY <1>1, <1>2, <1>3, <1>4, HelperStays DEF SessionInv, EndsHeld, Prefetching
<1> QED BY <1>11, <1>12 DEF SessionInv

(* A reply of RECORD + 1 units comes in pieces.                            *)
LEMMA ReplyComes ==
  ASSUME RunTypes, NEW w \in Worker, Arriving(w), NEW x \in 1 .. Len(Coming(w)),
         Here(w)' = Here(w) \o SubSeq(Coming(w), 1, x), Coming(w)' = SubSeq(Coming(w), x + 1, Len(Coming(w))),
         Asking(w)' = Asking(w), Due(w)' = Due(w)
  PROVE  /\ Arriving(w)'
         /\ Len(Here(w)') = Len(Here(w)) + x /\ Len(Coming(w)') = Len(Coming(w)) - x
<1>1. Here(w) \in Seq(Unit) /\ Coming(w) \in Seq(Unit) /\ Due(w) \in Nat
  BY WhoIsWho, PipeIsPipe DEF RunTypes, FlowTypes, DataTypes, Here, Coming, Due
<1>2. PICK q, h, k, f, g : /\ q = Coming(w) /\ h = Here(w) /\ k = Due(w)
                           /\ f = SubSeq(q, 1, x) /\ g = SubSeq(q, x + 1, Len(q))
  OBVIOUS
<1>3. /\ q \in Seq(Unit) /\ h \in Seq(Unit) /\ k \in Nat /\ x \in 0 .. Len(q) /\ Len(h) \in Nat
      /\ Len(q) \in Nat
      /\ Carries(h, k, 0) /\ Carries(q, k, Len(h)) /\ x \in Nat
  BY <1>1, <1>2 DEF Arriving
<1>4. f \in Seq(Unit) /\ Len(f) = x /\ g \in Seq(Unit) /\ Len(g) = Len(q) - x
  BY <1>2, <1>3, CutFacts
<1>5. Carries(f, k, Len(h)) /\ Carries(g, k, Len(h) + x)
  BY <1>2, <1>3, CarriesCut
<1>6. 0 + Len(h) = Len(h)
  BY <1>3
<1>7. Carries(h \o f, k, 0)
  BY <1>3, <1>4, <1>5, <1>6, CarriesJoin
<1>8. Len(h \o f) = Len(h) + x
  BY <1>3, <1>4, ConcatProperties
<1>9. Here(w)' = h \o f /\ Coming(w)' = g /\ Due(w)' = k
  BY <1>2
<1>10. Arriving(w)'
  <2>1. Asking(w)' = <<>>
    BY DEF Arriving
  <2>2. Carries(Here(w)', Due(w)', 0) /\ Carries(Coming(w)', Due(w)', Len(Here(w)'))
    BY <1>5, <1>7, <1>8, <1>9
  <2> QED BY <2>1, <2>2 DEF Arriving, Carries
<1> QED BY <1>2, <1>4, <1>8, <1>9, <1>10

LEMMA SessionPrefetchWait ==
  ASSUME RunTypes, NEW w \in Worker, SessionInv(w), PrefetchWait(w)
  PROVE  SessionInv(w)'
<1>1. worker(w) \in Process /\ WorkerStep(w) /\ PipeOf("command", w) \in Pipes /\ PipeOf("data", w) \in Pipes
  BY WhoIsWho, PipeIsPipe DEF WorkerStep
<1>2. point[worker(w)] = "wait"
  BY DEF PrefetchWait, At
<1>3. ~PrefetchBegin(w)
  BY <1>1, <1>2, PrefetchBeginAlone DEF PrefetchWait, Go, RunTypes, PlaceTypes
<1>4. UNCHANGED <<ends, turn, restored, mode>> /\ mode # "student"
  BY <1>2 DEF PrefetchWait, SessionInv, Unused
<1>5. /\ Due(w)' = Due(w) /\ restored'[w] = restored[w] /\ point'[helper(w)] = point[helper(w)]
      /\ turn'[helper(w)] = turn[helper(w)] /\ There(w)' = There(w)
      /\ helper(w) \in ends[PipeOf("data", w)].w => helper(w) \in ends'[PipeOf("data", w)].w
  BY <1>1, <1>3, <1>4, HelperStays DEF Due
<1>6. Asked(w) \/ Taken(w) \/ Answering(w) \/ Answered(w)
  BY <1>2 DEF SessionInv, Protocol
<1>7. Here(w) \in Seq(Unit) /\ Coming(w) \in Seq(Unit) /\ There(w) \in Seq(Unit) /\ RECORD \in Nat \ {0}
  BY WhoIsWho, PipeIsPipe, RunConst DEF RunTypes, FlowTypes, Here, There, Coming
<1>8. PICK need : need = IF Reply(w) = <<>> THEN 1 ELSE 1 + RECORD - Len(Reply(w))
  OBVIOUS
<1>9. need \in Int /\ ((need = 1 /\ Here(w) = <<>>) \/ need = 1 + RECORD - Len(Here(w)))
  <2>1. Reply(w) = Here(w)
    BY DEF Reply, Here
  <2>2. (need = 1 /\ Here(w) = <<>>) \/ need = 1 + RECORD - Len(Here(w))
    BY <1>8, <2>1
  <2>3. Len(Here(w)) \in Nat
    BY <1>7
  <2> QED BY <1>7, <2>2, <2>3
<1>10. CASE need > 0
  <2>1. Receive(worker(w), PipeOf("data", w), need) /\ UNCHANGED <<point, window>>
    BY <1>8, <1>10 DEF PrefetchWait
  <2>2. need \in Nat \ {0} /\ FlowTypes
    BY <1>9, <1>10 DEF RunTypes
  <2>3. PICK x \in 1 .. Len(Coming(w)) :
          /\ part' = [part EXCEPT ![worker(w)] = Here(w) \o SubSeq(Coming(w), 1, x)]
          /\ queue' = [queue EXCEPT ![PipeOf("data", w)] = SubSeq(Coming(w), x + 1, Len(Coming(w)))]
          /\ Coming(w) # <<>>
    BY <1>1, <2>1, <2>2, ReceiveIs DEF Here, Coming
  <2>4. Here(w)' = Here(w) \o SubSeq(Coming(w), 1, x)
    BY <1>1, <2>3 DEF Here, RunTypes, FlowTypes
  <2>5. Coming(w)' = SubSeq(Coming(w), x + 1, Len(Coming(w))) /\ Asking(w)' = Asking(w)
    BY <1>1, <2>3, PipeIsPipe DEF Coming, Asking, RunTypes, FlowTypes
  <2>6. Answering(w) \/ Answered(w)
    BY <1>6, <2>3 DEF Asked, Taken
  <2>7. Arriving(w)
    BY <2>6 DEF Answering, Answered
  <2>8. /\ Arriving(w)'
        /\ Len(Here(w)') = Len(Here(w)) + x /\ Len(Coming(w)') = Len(Coming(w)) - x
    BY <1>5, <2>4, <2>5, <2>7, ReplyComes
  <2>9. Len(Here(w)') + Len(Coming(w)') = Len(Here(w)) + Len(Coming(w))
    <3>1. Len(Here(w)) \in Nat /\ Len(Coming(w)) \in Nat /\ x \in Nat
      BY <1>7
    <3> QED BY <2>8, <3>1
  <2>10. Answering(w) => Answering(w)'
    <3> SUFFICES ASSUME Answering(w) PROVE Answering(w)'
      OBVIOUS
    <3>1. point'[helper(w)] = "send" /\ There(w)' # <<>> /\ turn'[helper(w)] = Due(w)'
      BY <1>5 DEF Answering
    <3>2. Carries(There(w)', Due(w)', Len(Here(w)') + Len(Coming(w)'))
      BY <1>5, <2>9 DEF Answering
    <3>3. Len(Here(w)') + Len(Coming(w)') + Len(There(w)') = RECORD + 1
      BY <1>5, <2>9 DEF Answering
    <3> QED BY <2>8, <3>1, <3>2, <3>3 DEF Answering, Carries
  <2>11. Answered(w) => Answered(w)'
    BY <1>5, <2>8, <2>9 DEF Answered, HelperReady
  <2>12. point'[worker(w)] = "wait" /\ point'[helper(w)] = point[helper(w)]
    BY <1>2, <2>1
  <2>13. Handed(w)' /\ Fresh(w)' /\ Protocol(w)' /\ Unused(w)'
    BY <1>4, <1>5, <2>6, <2>10, <2>11, <2>12 DEF SessionInv, Handed, Fresh, BeforePrefetch, Protocol, Unused
  <2>14. EndsHeld(w)'
    BY <1>2, <1>4, <1>5, <2>12 DEF SessionInv, EndsHeld, Prefetching
  <2> QED BY <2>13, <2>14 DEF SessionInv
<1>11. CASE ~(need > 0)
  <2>1. point'[worker(w)] = "restore" /\ UNCHANGED <<queue, part>>
    BY <1>1, <1>8, <1>11 DEF PrefetchWait, Go, RunTypes, PlaceTypes
  <2>2. Here(w)' = Here(w) /\ Coming(w)' = Coming(w) /\ Asking(w)' = Asking(w)
    BY <2>1 DEF Here, Coming, Asking
  <2>3. Len(Here(w)) >= RECORD + 1
    BY <1>7, <1>9, <1>11
  <2>4. Here(w) # <<>>
    BY <1>7, <2>3
  <2>5. Answering(w) \/ Answered(w)
    BY <1>6, <2>4 DEF Asked, Taken
  <2>6. Len(Here(w)) \in Nat /\ Len(Coming(w)) \in Nat /\ Len(There(w)) \in Nat
    BY <1>7
  <2>7. ~Answering(w)
    <3> SUFFICES ASSUME There(w) # <<>>, Len(Here(w)) + Len(Coming(w)) + Len(There(w)) = RECORD + 1
                 PROVE FALSE
      BY DEF Answering
    <3>1. Len(There(w)) # 0
      BY <1>7
    <3> QED BY <1>7, <2>3, <2>6, <3>1
  <2>8. Answered(w) /\ Len(Here(w)) = RECORD + 1
    BY <1>7, <2>3, <2>5, <2>6, <2>7 DEF Answered
  <2>9. Answered(w)' /\ Len(Here(w)') = RECORD + 1
    BY <1>5, <2>2, <2>8 DEF Answered, Arriving, Carries, HelperReady
  <2>10. Handed(w)' /\ Fresh(w)' /\ Protocol(w)' /\ Unused(w)'
    BY <1>4, <1>5, <2>1, <2>9 DEF SessionInv, Handed, Fresh, BeforePrefetch, Protocol, Unused
  <2>11. EndsHeld(w)'
    BY <1>2, <1>4, <1>5, <2>1 DEF SessionInv, EndsHeld, Prefetching
  <2> QED BY <2>10, <2>11 DEF SessionInv
<1> QED BY <1>10, <1>11

LEMMA ReplyIsTaken ==
  ASSUME RunTypes, NEW w \in Worker, SessionInv(w), PrefetchRestore(w)
  PROVE  SessionInv(w)' /\ NotAsked(w)'
<1>1. worker(w) \in Process /\ WorkerStep(w)
  BY WhoIsWho DEF WorkerStep
<1>2. point[worker(w)] = "restore" /\ point'[worker(w)] \in {"next", "end"}
  BY <1>1 DEF PrefetchRestore, At, Go, RunTypes, PlaceTypes
<1>3. ~PrefetchBegin(w)
  BY <1>2 DEF PrefetchBegin, At
<1>4. mode = "prefetch" /\ Answered(w) /\ Len(Here(w)) = RECORD + 1
  BY ReplyIsWhole DEF RunTypes
<1>5. Here(w) \in Seq(Unit) /\ Coming(w) \in Seq(Unit) /\ Due(w) \in Nat /\ RECORD \in Nat
  BY <1>1, PipeIsPipe, RunConst DEF RunTypes, FlowTypes, DataTypes, Here, Coming, Due
<1>6. /\ UNCHANGED <<mode, queue, ends>> /\ Due(w)' = Due(w) + 1 /\ Here(w)' = <<>>
      /\ restored' = [restored EXCEPT ![w] = Append(@, Tail(Here(w)))]
  BY <1>1 DEF PrefetchRestore, RunTypes, FlowTypes, DataTypes, Due, Here, Reply
<1>7. Carries(Here(w), Due(w), 0) /\ Asking(w) = <<>>
  BY <1>4 DEF Answered, Arriving
<1>8. Tail(Here(w)) = Record(Due(w))
  BY <1>4, <1>5, <1>7, TailIsRecord
<1>9. Handed(w)'
  BY <1>6, <1>8, HandedMore DEF SessionInv
<1>10. Coming(w) = <<>> /\ HelperReady(w, Due(w) + 1)
  <2>1. Len(Coming(w)) \in Nat /\ (Len(Coming(w)) = 0 => Coming(w) = <<>>)
    BY <1>5
  <2>2. Len(Here(w)) + Len(Coming(w)) <= RECORD + 1
    BY <1>4, <1>5, <2>1 DEF Answered
  <2>3. Len(Coming(w)) = 0
    BY <1>4, <1>5, <2>1, <2>2
  <2> QED BY <1>4, <2>1, <2>3 DEF Answered, HelperReady
<1>11. /\ point'[helper(w)] = point[helper(w)] /\ turn'[helper(w)] = turn[helper(w)] /\ There(w)' = There(w)
       /\ helper(w) \in ends[PipeOf("data", w)].w => helper(w) \in ends'[PipeOf("data", w)].w
  BY <1>1, <1>3, HelperStays
<1>12. NotAsked(w)'
  <2>1. Asking(w)' = <<>> /\ Coming(w)' = <<>>
    BY <1>6, <1>7, <1>10 DEF Asking, Coming
  <2>2. HelperReady(w, Due(w))'
    BY <1>6, <1>10, <1>11 DEF HelperReady
  <2> QED BY <1>6, <2>1, <2>2 DEF NotAsked
<1>13. Fresh(w)' /\ Protocol(w)' /\ Unused(w)'
  BY <1>2, <1>4, <1>6, <1>12 DEF Fresh, BeforePrefetch, Protocol, Unused
<1>14. EndsHeld(w)'
  BY <1>2, <1>4, <1>6, <1>11 DEF SessionInv, EndsHeld, Prefetching
<1> QED BY <1>9, <1>12, <1>13, <1>14 DEF SessionInv

(* The session of worker w stays right under its worker's own steps.       *)
LEMMA SessionOfWorker ==
  ASSUME RunTypes, NEW w \in Worker, SessionInv(w), WorkerStep(w) \/ GiveUp(w) \/ EndEarly(w)
  PROVE  SessionInv(w)'
<1>0. worker(w) \in Process /\ PipeOf("result", w) \in Pipes /\ "done" \in Ended /\ "failed" \in Ended
  BY WhoIsWho, PipeIsPipe DEF Ended
<1>1. CASE \/ Begin(w) \/ Barrier(w) \/ KvBeginWrite(w) \/ KvStore(w)
           \/ KvEndWrite(w) \/ KvBeginRead(w)
  BY <1>1, SessionBeforePrefetch
<1>2. CASE KvRestore(w) \/ PrefetchBegin(w) \/ PrefetchNext(w) \/ PrefetchWait(w) \/ PrefetchRestore(w)
  BY <1>2, SessionKvRestore, SessionPrefetchBegin, SessionPrefetchNext, SessionPrefetchWait, ReplyIsTaken
<1>3. CASE BarrierBroken(w) \/ WorkerExits(w) \/ GiveUp(w)
  <2>1. PICK status \in Ended : Exit(worker(w), status)
    BY <1>0, <1>3 DEF BarrierBroken, WorkerExits, GiveUp, Fail
  <2>2. WorkerStep(w) \/ GiveUp(w)
    BY <1>3 DEF WorkerStep
  <2> QED BY <2>1, <2>2, SessionExit
<1>4. CASE PrefetchWaitFails(w) \/ PrefetchEnd(w) \/ SessionEnd(w) \/ EndEarly(w)
  <2>1. point'[worker(w)] \in {"stuck", "end", "reap", "result", "ended"}
    BY <1>0, <1>4 DEF PrefetchWaitFails, PrefetchEnd, SessionEnd, EndEarly, Go, RunTypes, PlaceTypes
  <2>2. UNCHANGED <<queue, turn, restored>>
    BY <1>4 DEF PrefetchWaitFails, PrefetchEnd, SessionEnd, EndEarly, session
  <2>3. Due(w)' = Due(w) /\ restored'[w] = restored[w] /\ Asking(w)' = Asking(w) /\ Coming(w)' = Coming(w)
    BY <2>2 DEF Due, Asking, Coming
  <2>4. mode = "student" => window'[w] = "NONE" /\ point'[worker(w)] # "reap"
    BY <1>0, <1>4 DEF PrefetchWaitFails, PrefetchEnd, SessionEnd, EndEarly, At, Go, RunTypes, PlaceTypes,
       DataTypes, SessionInv, Unused, session
  <2>5. WorkerStep(w) \/ EndEarly(w)
    BY <1>4 DEF WorkerStep
  <2>6. ~PrefetchBegin(w)
    BY <2>1, PrefetchBeginAlone
  <2> QED BY <2>1, <2>3, <2>4, <2>5, <2>6, SessionOver
<1>5. CASE WorkerResult(w)
  <2>1. /\ point'[worker(w)] = "result" /\ UNCHANGED <<turn, restored, window>>
        /\ Send(worker(w), PipeOf("result", w))
    BY <1>5 DEF WorkerResult, At, session
  <2>2. QueuesAlone({PipeOf("result", w)})
    BY <1>0, <2>1, SendAlone
  <2>3. Due(w)' = Due(w) /\ restored'[w] = restored[w] /\ Asking(w)' = Asking(w) /\ Coming(w)' = Coming(w)
    BY <2>1, <2>2, PipeIsPipe DEF Due, QueuesAlone, Asking, Coming
  <2>4. WorkerStep(w) /\ ~PrefetchBegin(w)
    BY <1>5, <2>1, PrefetchBeginAlone DEF WorkerStep
  <2> QED BY <2>1, <2>3, <2>4, SessionOver DEF SessionInv, Unused
<1> QED BY <1>1, <1>2, <1>3, <1>4, <1>5 DEF WorkerStep

(* What its helper does leaves the worker where it is.                     *)
LEMMA WorkerStays ==
  ASSUME RunTypes, NEW w \in Worker, HelperStep(w) \/ HelperFails(w)
  PROVE  /\ mode' = mode /\ window'[w] = window[w] /\ restored'[w] = restored[w]
         /\ point'[worker(w)] = point[worker(w)] /\ Due(w)' = Due(w) /\ Here(w)' = Here(w)
         /\ worker(w) \in ends[PipeOf("data", w)].r => worker(w) \in ends'[PipeOf("data", w)].r
         /\ worker(w) \in ends[PipeOf("command", w)].w => worker(w) \in ends'[PipeOf("command", w)].w
<1>1. worker(w) \in Process \ {helper(w)} /\ PipeOf("data", w) \in Pipes /\ PipeOf("command", w) \in Pipes
  BY WhoIsWho, PipeIsPipe
<1> QED BY <1>1, HelperAlone DEF Alone, SessionsAlone, Due, Here

(* A helper at work: the session has begun, and is a prefetch.             *)
LEMMA HelperWorks ==
  ASSUME RunTypes, NEW w \in Worker, SessionInv(w), HelperStep(w) \/ HelperFails(w)
  PROVE  /\ point[helper(w)] \in {"open", "command", "send"}
         /\ point[worker(w)] \notin BeforePrefetch /\ mode = "prefetch" /\ helper(w) \in Process
         /\ (Prefetching(w) => \/ point[worker(w)] = "next" /\ NotAsked(w)
                               \/ /\ point[worker(w)] = "wait"
                                  /\ Asked(w) \/ Taken(w) \/ Answering(w) \/ Answered(w)
                               \/ point[worker(w)] = "restore" /\ Answered(w) /\ Len(Here(w)) = RECORD + 1)
<1>1. point[helper(w)] \in {"open", "command", "send"}
  BY DEF HelperStep, HelperFails, HelperOpens, HelperCommand, HelperSend, HelperExits, Refuses, At
<1>2. point[worker(w)] \notin BeforePrefetch /\ mode = "prefetch"
  BY <1>1 DEF SessionInv, Fresh, Unused, RunTypes, DataTypes
<1>3. Prefetching(w) => \/ point[worker(w)] = "next" /\ NotAsked(w)
                        \/ /\ point[worker(w)] = "wait"
                           /\ Asked(w) \/ Taken(w) \/ Answering(w) \/ Answered(w)
                        \/ point[worker(w)] = "restore" /\ Answered(w) /\ Len(Here(w)) = RECORD + 1
  BY DEF SessionInv, Protocol, Prefetching
<1> QED BY <1>1, <1>2, <1>3, WhoIsWho

(* What has to be shown of a step of a helper.                             *)
LEMMA SessionAfterHelper ==
  ASSUME RunTypes, NEW w \in Worker, SessionInv(w), HelperStep(w) \/ HelperFails(w),
         point'[helper(w)] \in {"command", "send", "done", "failed"},
         (point'[helper(w)] \in {"command", "send"} /\ helper(w) \in ends[PipeOf("data", w)].w) =>
            helper(w) \in ends'[PipeOf("data", w)].w,
         Prefetching(w) =>
           /\ point'[helper(w)] # "done"
           /\ NotAsked(w) => NotAsked(w)'
           /\ Asked(w) => Asked(w)' \/ Taken(w)'
           /\ Taken(w) => Taken(w)' \/ Answering(w)' \/ Answered(w)'
           /\ Answering(w) => Answering(w)' \/ Answered(w)'
           /\ Answered(w) => Answered(w)'
  PROVE  SessionInv(w)'
<1>1. Handed(w)'
  BY WorkerStays DEF SessionInv, Handed
<1>2. Fresh(w)' /\ Unused(w)'
  BY HelperWorks, WorkerStays DEF Fresh, Unused
<1>3. EndsHeld(w)'
  BY HelperWorks, WorkerStays DEF SessionInv, EndsHeld, Prefetching
<1>4. Protocol(w)'
  <2>1. point[worker(w)] = "next" => NotAsked(w)'
    BY HelperWorks DEF Prefetching
  <2>2. point[worker(w)] = "wait" => Asked(w)' \/ Taken(w)' \/ Answering(w)' \/ Answered(w)'
    BY HelperWorks DEF Prefetching
  <2>3. point[worker(w)] = "restore" => Answered(w)' /\ Len(Here(w)) = RECORD + 1
    BY HelperWorks DEF Prefetching
  <2> QED BY <2>1, <2>2, <2>3, WorkerStays DEF Protocol
<1> QED BY <1>1, <1>2, <1>3, <1>4 DEF SessionInv

(* As long as its worker needs it, no helper exits but for a fault.        *)
LEMMA HelperNeeded ==
  ASSUME RunTypes, NEW w \in Worker, SessionInv(w), Prefetching(w)
  PROVE  ~HelperExits(w)
<1>1. CASE /\ At(helper(w), "command") /\ part[helper(w)] = <<>> /\ Eof(PipeOf("command", w))
           /\ Exit(helper(w), "done")
  BY <1>1 DEF SessionInv, EndsHeld, Eof
<1>2. SUFFICES ASSUME HelperExits(w), Refuses(w) PROVE FALSE
  BY <1>1 DEF HelperExits
<1>3. HelperStep(w)
  BY <1>2 DEF HelperStep
<1>4. NotAsked(w) \/ Asked(w) \/ Taken(w) \/ Answering(w) \/ Answered(w)
  BY <1>3, HelperWorks
<1>5. CASE At(helper(w), "command") /\ part[helper(w)] \notin {<<>>, <<<<turn[helper(w)], 0>>>>}
  BY <1>4, <1>5 DEF At, NotAsked, Asked, Taken, Answering, Answered, HelperReady, Ended, There
<1>6. CASE At(helper(w), "send") /\ part[helper(w)] # <<>> /\ Broken(PipeOf("data", w))
  BY <1>6 DEF SessionInv, EndsHeld, Broken
<1> QED BY <1>2, <1>5, <1>6 DEF Refuses

LEMMA SessionHelperExit ==
  ASSUME RunTypes, NEW w \in Worker, SessionInv(w), HelperExits(w) \/ HelperFails(w)
  PROVE  SessionInv(w)'
<1>1. HelperStep(w) \/ HelperFails(w)
  BY DEF HelperStep
<1>2. helper(w) \in Process
  BY WhoIsWho
<1>3. PICK status \in Ended : Exit(helper(w), status) /\ (HelperFails(w) => status = "failed")
  BY DEF HelperExits, HelperFails, Fail, Ended
<1>4. point'[helper(w)] = status /\ There(w)' = <<>> /\ UNCHANGED queue
  BY <1>2, <1>3 DEF Exit, Go, RunTypes, PlaceTypes, FlowTypes, There
<1>5. Asking(w)' = Asking(w) /\ Coming(w)' = Coming(w)
  BY <1>4 DEF Asking, Coming
<1>6. Prefetching(w) => point'[helper(w)] # "done"
  BY <1>3, <1>4, HelperNeeded
<1>7. Here(w) \in Seq(Unit) /\ Coming(w) \in Seq(Unit) /\ There(w) \in Seq(Unit) /\ RECORD \in Nat
  BY <1>2, WhoIsWho, PipeIsPipe, RunConst DEF RunTypes, FlowTypes, Here, There, Coming
<1>8. (NotAsked(w) => NotAsked(w)') /\ (Asked(w) => Asked(w)')
  BY <1>1, <1>4, <1>5, WorkerStays DEF NotAsked, Asked, HelperReady
<1>9. Arriving(w) => Arriving(w)'
  BY <1>1, <1>5, WorkerStays DEF Arriving, Carries
<1>10. Arriving(w) /\ Len(Here(w)) + Len(Coming(w)) <= RECORD + 1 => Answered(w)'
  BY <1>1, <1>4, <1>5, <1>9, WorkerStays DEF Answered
<1>11. Taken(w) => Answered(w)'
  <2> SUFFICES ASSUME Taken(w) PROVE Answered(w)'
    OBVIOUS
  <2>1. Here(w) = <<>> /\ Coming(w) = <<>> /\ Asking(w) = <<>>
    BY DEF Taken
  <2>2. Arriving(w)
    BY <2>1 DEF Arriving, Carries
  <2>3. Len(Here(w)) + Len(Coming(w)) <= RECORD + 1
    BY <1>7, <2>1
  <2> QED BY <1>10, <2>2, <2>3
<1>12. Answering(w) => Answered(w)'
  <2> SUFFICES ASSUME Answering(w) PROVE Answered(w)'
    OBVIOUS
  <2>1. Arriving(w) /\ Len(Here(w)) + Len(Coming(w)) + Len(There(w)) = RECORD + 1
    BY DEF Answering
  <2>2. Len(Here(w)) + Len(Coming(w)) <= RECORD + 1
    <3>1. Len(Here(w)) \in Nat /\ Len(Coming(w)) \in Nat /\ Len(There(w)) \in Nat
      BY <1>7
    <3> QED BY <1>7, <2>1, <3>1
  <2> QED BY <1>10, <2>1, <2>2
<1>13. Answered(w) => Answered(w)'
  <2> SUFFICES ASSUME Answered(w) PROVE Answered(w)'
    OBVIOUS
  <2>1. Arriving(w) /\ Len(Here(w)) + Len(Coming(w)) <= RECORD + 1
    BY <1>7 DEF Answered
  <2> QED BY <1>10, <2>1
<1> QED BY <1>1, <1>3, <1>4, <1>6, <1>8, <1>11, <1>12, <1>13, SessionAfterHelper DEF Ended

LEMMA SessionHelperOpens ==
  ASSUME RunTypes, NEW w \in Worker, SessionInv(w), HelperOpens(w)
  PROVE  SessionInv(w)'
<1>1. /\ HelperStep(w) /\ helper(w) \in Process /\ PipeOf("data", w) \in Pipes
      /\ PipeOf("data", w) # PipeOf("command", w)
  BY WhoIsWho, PipeIsPipe DEF HelperStep
<1>2. point[helper(w)] = "open" /\ point'[helper(w)] = "command" /\ UNCHANGED <<queue, part, turn>>
  BY <1>1 DEF HelperOpens, At, Go, RunTypes, PlaceTypes
<1>3. helper(w) \in ends[PipeOf("data", w)].w => helper(w) \in ends'[PipeOf("data", w)].w
  BY <1>1 DEF HelperOpens, Drop
<1>4. Asking(w)' = Asking(w) /\ Coming(w)' = Coming(w) /\ There(w)' = There(w)
  BY <1>2 DEF Asking, Coming, There
<1>5. /\ HelperReady(w, Due(w)) => HelperReady(w, Due(w))'
      /\ HelperReady(w, Due(w) + 1) => HelperReady(w, Due(w) + 1)'
  BY <1>1, <1>2, <1>4, WorkerStays DEF HelperReady, Ended
<1>6. (NotAsked(w) => NotAsked(w)') /\ (Asked(w) => Asked(w)') /\ ~Taken(w) /\ ~Answering(w)
  BY <1>1, <1>2, <1>4, <1>5, WorkerStays DEF NotAsked, Asked, Taken, Answering
<1>7. Answered(w) => Answered(w)'
  BY <1>1, <1>2, <1>4, <1>5, WorkerStays DEF Answered, Arriving, Carries, Ended
<1> QED BY <1>1, <1>2, <1>3, <1>6, <1>7, SessionAfterHelper

LEMMA SessionHelperCommand ==
  ASSUME RunTypes, NEW w \in Worker, SessionInv(w), HelperCommand(w)
  PROVE  SessionInv(w)'
<1>1. /\ HelperStep(w) /\ helper(w) \in Process /\ PipeOf("data", w) \in Pipes
      /\ PipeOf("command", w) \in Pipes
      /\ PipeOf("data", w) # PipeOf("command", w)
  BY WhoIsWho, PipeIsPipe DEF HelperStep
<1>2. point[helper(w)] = "command" /\ UNCHANGED <<ends, turn>>
  BY <1>1 DEF HelperCommand, At
<1>3. /\ Here(w) \in Seq(Unit) /\ Coming(w) \in Seq(Unit) /\ There(w) \in Seq(Unit)
      /\ Asking(w) \in Seq(Unit) /\ Due(w) \in Nat
  BY <1>1, WhoIsWho DEF RunTypes, FlowTypes, DataTypes, Here, There, Coming, Asking, Due
<1>4. CASE There(w) = <<>>
  <2>1. Receive(helper(w), PipeOf("command", w), 1) /\ UNCHANGED point
    BY <1>4 DEF HelperCommand, There
  <2>2. PICK x \in 1 .. Len(Asking(w)) :
          /\ x <= 1
          /\ part' = [part EXCEPT ![helper(w)] = There(w) \o SubSeq(Asking(w), 1, x)]
          /\ queue' = [queue EXCEPT ![PipeOf("command", w)] = SubSeq(Asking(w), x + 1, Len(Asking(w)))]
          /\ Asking(w) # <<>>
    BY <1>1, <2>1, ReceiveIs DEF RunTypes, There, Asking
  <2>3. There(w)' = There(w) \o SubSeq(Asking(w), 1, 1)
    BY <1>1, <2>2 DEF There, RunTypes, FlowTypes
  <2>4. Asking(w)' = SubSeq(Asking(w), 2, Len(Asking(w))) /\ Coming(w)' = Coming(w)
    BY <1>1, <2>2 DEF Coming, Asking, RunTypes, FlowTypes
  <2>5. Asking(w) # <<>>
    BY <2>2
  <2>6. ~NotAsked(w) /\ ~Taken(w) /\ ~Answering(w) /\ ~Answered(w)
    BY <2>5 DEF NotAsked, Taken, Answering, Answered, Arriving
  <2>7. Asked(w) => Taken(w)'
    <3> SUFFICES ASSUME Asked(w) PROVE Taken(w)'
      OBVIOUS
    <3>1. Asking(w) = <<<<Due(w), 0>>>> /\ turn[helper(w)] = Due(w)
      BY <1>2 DEF Asked, HelperReady, Ended
    <3>2. There(w)' = <<<<Due(w), 0>>>> /\ Asking(w)' = <<>>
      <4>1. PICK u : u = <<Due(w), 0>>
        OBVIOUS
      <4>2. There(w)' = <<>> \o SubSeq(<<u>>, 1, 1) /\ Asking(w)' = SubSeq(<<u>>, 2, Len(<<u>>))
        BY <1>4, <2>3, <2>4, <3>1, <4>1
      <4>3. PICK s, f, g : s = <<u>> /\ f = SubSeq(s, 1, 1) /\ g = SubSeq(s, 1 + 1, Len(s))
        OBVIOUS
      <4>4. s \in Seq(Unit) /\ Len(s) = 1 /\ 1 \in 0 .. Len(s)
        BY <1>3, <4>1, <4>3 DEF Unit
      <4>5. /\ f \in Seq(Unit) /\ Len(f) = 1 /\ \A j \in 1 .. 1 : f[j] = s[j]
            /\ g \in Seq(Unit) /\ Len(g) = Len(s) - 1
        BY <4>3, <4>4, CutFacts
      <4>6. f = s
        BY <4>4, <4>5, SeqEqual
      <4>7. g = <<>> /\ 1 + 1 = 2
        BY <4>4, <4>5
      <4>8. <<>> \o f = f
        BY <4>5, ConcatEmptySeq
      <4>9. There(w)' = <<>> \o f /\ Asking(w)' = g
        BY <4>2, <4>3, <4>7
      <4> QED BY <4>1, <4>3, <4>6, <4>7, <4>8, <4>9
    <3> QED BY <1>1, <1>2, <2>1, <2>4, <3>1, <3>2, WorkerStays DEF Asked, Taken
  <2> QED BY <1>1, <1>2, <2>1, <2>6, <2>7, SessionAfterHelper
<1>5. CASE There(w) # <<>>
  <2>1. /\ There(w) = <<<<turn[helper(w)], 0>>>> /\ UNCHANGED queue
        /\ part' = [part EXCEPT ![helper(w)] = @ \o Record(turn[helper(w)])]
        /\ point'[helper(w)] = "send"
    BY <1>1, <1>5 DEF HelperCommand, There, Go, RunTypes, PlaceTypes
  <2>2. There(w)' = <<<<turn[helper(w)], 0>>>> \o Record(turn[helper(w)])
    BY <1>1, <2>1 DEF There, RunTypes, FlowTypes
  <2>3. Asking(w)' = Asking(w) /\ Coming(w)' = Coming(w)
    BY <2>1 DEF Asking, Coming
  <2>4. ~NotAsked(w) /\ ~Asked(w) /\ ~Answering(w) /\ ~Answered(w)
    BY <1>2, <1>5 DEF NotAsked, Asked, Answering, Answered, HelperReady, Ended
  <2>5. Taken(w) => Answering(w)'
    <3> SUFFICES ASSUME Taken(w) PROVE Answering(w)'
      OBVIOUS
    <3>1. /\ turn[helper(w)] = Due(w) /\ Due(w) \in Nat /\ Asking(w) = <<>>
          /\ Coming(w) = <<>> /\ Here(w) = <<>>
      BY WhoIsWho DEF Taken, Due, RunTypes, DataTypes
    <3>2. There(w)' \in Seq(Unit) /\ Len(There(w)') = RECORD + 1 /\ Carries(There(w)', Due(w), 0)
      BY <2>2, <3>1, RecordIs
    <3>3. Here(w)' = <<>> /\ Coming(w)' = <<>> /\ Due(w)' = Due(w)
      BY <1>1, <2>3, <3>1, WorkerStays
    <3>4. Arriving(w)'
      BY <2>3, <3>1, <3>3 DEF Arriving, Carries
    <3>5. Len(Here(w)') = 0 /\ Len(Coming(w)') = 0 /\ There(w)' # <<>>
      BY <3>2, <3>3, RunConst
    <3>6. Len(Here(w)') + Len(Coming(w)') = 0 /\ Len(Here(w)') + Len(Coming(w)') + Len(There(w)') = RECORD + 1
      BY <3>2, <3>5, RunConst
    <3>7. Carries(There(w)', Due(w)', Len(Here(w)') + Len(Coming(w)'))
      BY <3>2, <3>3, <3>6
    <3> QED BY <1>2, <2>1, <3>1, <3>3, <3>4, <3>5, <3>6, <3>7 DEF Answering, Carries
  <2> QED BY <1>1, <1>2, <2>1, <2>4, <2>5, SessionAfterHelper
<1> QED BY <1>4, <1>5

LEMMA SessionHelperSend ==
  ASSUME RunTypes, NEW w \in Worker, SessionInv(w), HelperSend(w)
  PROVE  SessionInv(w)'
<1>1. /\ HelperStep(w) /\ helper(w) \in Process /\ PipeOf("data", w) \in Pipes
      /\ PipeOf("command", w) \in Pipes
      /\ PipeOf("data", w) # PipeOf("command", w)
  BY WhoIsWho, PipeIsPipe DEF HelperStep
<1>2. point[helper(w)] = "send" /\ UNCHANGED ends
  BY <1>1 DEF HelperSend, At
<1>3. /\ Here(w) \in Seq(Unit) /\ Coming(w) \in Seq(Unit) /\ There(w) \in Seq(Unit)
      /\ Due(w) \in Nat /\ RECORD \in Nat /\ turn[helper(w)] \in Nat
  BY <1>1, WhoIsWho, RunConst DEF RunTypes, FlowTypes, DataTypes, Here, There, Coming, Due
<1>4. CASE There(w) # <<>>
  <2>1. Send(helper(w), PipeOf("data", w)) /\ UNCHANGED <<point, turn>>
    BY <1>4 DEF HelperSend, There
  <2>2. PICK x \in 0 .. Len(There(w)) :
          /\ queue' = [queue EXCEPT ![PipeOf("data", w)] = Coming(w) \o SubSeq(There(w), 1, x)]
          /\ part' = [part EXCEPT ![helper(w)] = SubSeq(There(w), x + 1, Len(There(w)))]
    BY <1>1, <2>1, SendIs DEF RunTypes, There, Coming
  <2>3. There(w)' = SubSeq(There(w), x + 1, Len(There(w)))
    BY <1>1, <2>2 DEF There, RunTypes, FlowTypes
  <2>4. Coming(w)' = Coming(w) \o SubSeq(There(w), 1, x) /\ Asking(w)' = Asking(w)
    BY <1>1, <2>2 DEF Coming, Asking, RunTypes, FlowTypes
  <2>5. ~NotAsked(w) /\ ~Asked(w) /\ ~Taken(w) /\ ~Answered(w)
    BY <1>2, <1>4 DEF NotAsked, Asked, Taken, Answered, HelperReady, Ended
  <2>6. Answering(w) => Answering(w)' \/ Answered(w)'
    <3> SUFFICES ASSUME Answering(w) PROVE Answering(w)' \/ Answered(w)'
      OBVIOUS
    <3>1. PICK q, t, h, k, f, g : /\ q = Coming(w) /\ t = There(w) /\ h = Here(w) /\ k = Due(w)
                                  /\ f = SubSeq(t, 1, x) /\ g = SubSeq(t, x + 1, Len(t))
      OBVIOUS
    <3>2. /\ q \in Seq(Unit) /\ t \in Seq(Unit) /\ h \in Seq(Unit) /\ k \in Nat
          /\ Len(h) \in Nat /\ Len(q) \in Nat /\ x \in 0 .. Len(t) /\ Len(t) \in Nat /\ x \in Nat
          /\ Carries(h, k, 0) /\ Carries(q, k, Len(h)) /\ Carries(t, k, Len(h) + Len(q))
          /\ Len(h) + Len(q) + Len(t) = RECORD + 1
      BY <1>3, <3>1 DEF Answering, Arriving
    <3>3. f \in Seq(Unit) /\ Len(f) = x /\ g \in Seq(Unit) /\ Len(g) = Len(t) - x
      BY <3>1, <3>2, CutFacts
    <3>4. Len(h) + Len(q) \in Nat
      BY <3>2
    <3>5. Carries(f, k, Len(h) + Len(q)) /\ Carries(g, k, (Len(h) + Len(q)) + x)
      BY <3>1, <3>2, <3>4, CarriesCut
    <3>6. Carries(q \o f, k, Len(h))
      BY <3>2, <3>3, <3>5, CarriesJoin
    <3>7. q \o f \in Seq(Unit) /\ Len(q \o f) = Len(q) + x
      BY <3>2, <3>3, ConcatProperties
    <3>8. Len(h) + Len(q \o f) = (Len(h) + Len(q)) + x /\ Len(h) + Len(q \o f) + Len(g) = RECORD + 1
      <4>1. PICK a, b, c, d \in Nat : a = Len(h) /\ b = Len(q) /\ c = Len(t) /\ d = Len(q \o f)
        BY <3>2, <3>7
      <4>2. Len(g) = c - x /\ d = b + x /\ a + b + c = RECORD + 1
        BY <3>2, <3>3, <3>7, <4>1
      <4>3. x \in Nat
        BY <3>2
      <4>4. a + d = (a + b) + x
        BY <4>2, <4>3
      <4>5. (a + d) + (c - x) = (a + b) + c
        BY <4>2, <4>3, <4>4
      <4> QED BY <4>1, <4>2, <4>4, <4>5
    <3>9. Here(w)' = h /\ Coming(w)' = q \o f /\ There(w)' = g /\ Due(w)' = k
      BY <1>1, <2>3, <2>4, <3>1, WorkerStays
    <3>10. Arriving(w)'
      <4>1. Asking(w)' = <<>>
        BY <2>4 DEF Answering, Arriving
      <4> QED BY <3>2, <3>6, <3>9, <4>1 DEF Arriving, Carries
    <3>11. point'[helper(w)] = "send" /\ turn'[helper(w)] = k
      BY <1>2, <2>1, <3>1 DEF Answering
    <3>12. CASE g # <<>>
      <4>1. Carries(There(w)', Due(w)', Len(Here(w)') + Len(Coming(w)'))
        BY <3>5, <3>8, <3>9
      <4>2. Len(Here(w)') + Len(Coming(w)') + Len(There(w)') = RECORD + 1
        BY <3>8, <3>9
      <4> QED BY <3>9, <3>10, <3>11, <3>12, <4>1, <4>2 DEF Answering, Carries
    <3>13. CASE g = <<>>
      <4>1. Len(Here(w)') + Len(Coming(w)') = RECORD + 1
        <5>1. Len(g) = 0
          BY <3>13
        <5>2. Len(h) + Len(q \o f) = RECORD + 1
          BY <3>2, <3>7, <3>8, <5>1
        <5> QED BY <3>9, <5>2
      <4>2. HelperReady(w, Due(w) + 1)'
        BY <1>3, <3>1, <3>9, <3>11, <3>13 DEF HelperReady
      <4> QED BY <3>10, <4>1, <4>2 DEF Answered, HelperReady
    <3> QED BY <3>12, <3>13
  <2> QED BY <1>1, <1>2, <2>1, <2>5, <2>6, SessionAfterHelper
<1>5. CASE There(w) = <<>>
  <2>1. point'[helper(w)] = "command" /\ turn'[helper(w)] = turn[helper(w)] + 1 /\ UNCHANGED <<queue, part>>
    BY <1>1, <1>5 DEF HelperSend, There, Go, RunTypes, PlaceTypes, DataTypes
  <2>2. Asking(w)' = Asking(w) /\ Coming(w)' = Coming(w) /\ There(w)' = There(w)
    BY <2>1 DEF Asking, Coming, There
  <2>3. /\ HelperReady(w, Due(w)) => HelperReady(w, Due(w))'
        /\ HelperReady(w, Due(w) + 1) => HelperReady(w, Due(w) + 1)'
    BY <1>1, <1>2, <1>3, <2>1, <2>2, WorkerStays DEF HelperReady, Ended
  <2>4. (NotAsked(w) => NotAsked(w)') /\ (Asked(w) => Asked(w)') /\ ~Taken(w) /\ ~Answering(w)
    BY <1>1, <1>2, <1>5, <2>2, <2>3, WorkerStays DEF NotAsked, Asked, Taken, Answering
  <2>5. Answered(w) => Answered(w)'
    BY <1>1, <1>2, <2>2, <2>3, WorkerStays DEF Answered, Arriving, Carries, Ended
  <2> QED BY <1>1, <1>2, <2>1, <2>4, <2>5, SessionAfterHelper
<1> QED BY <1>4, <1>5

LEMMA SessionOfHelper ==
  ASSUME RunTypes, NEW w \in Worker, SessionInv(w), HelperStep(w) \/ HelperFails(w)
  PROVE  SessionInv(w)'
BY SessionHelperExit, SessionHelperOpens, SessionHelperCommand, SessionHelperSend DEF HelperStep

(* So every session stays right, whatever step is taken.                   *)
LEMMA SessionsStep ==
  ASSUME RunTypes, Unforked, \A w \in Worker : SessionInv(w), RunNext
  PROVE  \A w \in Worker : SessionInv(w)'
<1>1. CASE MainStep \/ MainGivesUp
  BY <1>1, SessionOfMain
<1>2. ASSUME NEW v \in Worker, WorkerStep(v) \/ HelperStep(v) \/ HelperFails(v) \/ GiveUp(v) \/ EndEarly(v),
             NEW w \in Worker
      PROVE  SessionInv(w)'
  <2>1. CASE v # w
    BY <1>2, <2>1, SessionOfOther, KeptSession
  <2>2. CASE v = w
    BY <1>2, <2>2, SessionOfWorker, SessionOfHelper
  <2> QED BY <2>1, <2>2
<1> QED BY <1>1, <1>2 DEF RunNext

LEMMA UnforkedStep ==
  ASSUME RunTypes, Unforked, RunNext
  PROVE  Unforked'
<1>1. CASE MainStep \/ MainGivesUp
  <2>1. CASE ForkWorker
    <3>1. turn[main] \in Worker /\ main \in Process
      BY <2>1, RunConst, WhoIsWho DEF ForkWorker, RunTypes, DataTypes
    <3>2. /\ turn'[main] = turn[main] + 1 /\ At(main, "fork")
          /\ (UNCHANGED point \/ Go(worker(turn[main]), "born"))
      BY <2>1, <3>1 DEF ForkWorker, RunTypes, DataTypes
    <3>3. \A x \in Process \ {worker(turn[main])} : point'[x] = point[x]
      BY <3>1, <3>2, WhoIsWho DEF Go, RunTypes, PlaceTypes
    <3>4. ASSUME NEW w \in Worker, w >= turn'[main] PROVE point'[worker(w)] = "none"
      <4>1. w \in Nat /\ turn[main] \in Nat
        BY <3>1, RunConst
      <4>2. w # turn[main] /\ w >= turn[main]
        BY <3>2, <3>4, <4>1
      <4>3. worker(w) \in Process \ {worker(turn[main])}
        BY <3>1, <4>2, WhoIsWho
      <4> QED BY <3>2, <3>3, <4>2, <4>3 DEF Unforked, At
    <3> QED BY <3>4 DEF Unforked
  <2>2. CASE ~ForkWorker
    <3>1. main \in Process /\ (UNCHANGED point \/ \E there \in MainPlaces : Go(main, there))
      BY <1>1, <2>2, MainGoes, WhoIsWho
    <3>2. \A w \in Worker : point'[worker(w)] = point[worker(w)]
      BY <3>1, WhoIsWho DEF Go, RunTypes, PlaceTypes
    <3>3. point'[main] = "fork" => point[main] = "fork" /\ UNCHANGED turn
      BY <1>1, <2>2, <3>1 DEF MainStep, MainGivesUp, Forked, Start, WaitWorkers, Collect, MainExits, Fail,
         Exit, Go, At, RunTypes, PlaceTypes
    <3> QED BY <3>2, <3>3 DEF Unforked
  <2> QED BY <2>1, <2>2
<1>2. ASSUME NEW v \in Worker, WorkerStep(v) \/ HelperStep(v) \/ HelperFails(v) \/ GiveUp(v) \/ EndEarly(v)
      PROVE  Unforked'
  <2>1. /\ main \in Process \ {worker(v), helper(v)} /\ worker(v) \in Process /\ helper(v) \in Process
        /\ worker(v) # helper(v)
    BY WhoIsWho
  <2>2. /\ point'[main] = point[main] /\ turn'[main] = turn[main]
        /\ \A w \in Worker \ {v} : point'[worker(w)] = point[worker(w)]
    <3>1. CASE PrefetchBegin(v)
      <4>1. \A w \in Worker \ {v} : worker(w) \in Process \ {worker(v), helper(v)}
        BY WhoIsWho
      <4> QED BY <2>1, <3>1, <4>1, PrefetchBeginAlone
    <3>2. CASE (WorkerStep(v) \/ GiveUp(v) \/ EndEarly(v)) /\ ~PrefetchBegin(v)
      BY <2>1, <3>2, WorkerAlone, WhoIsWho DEF Alone
    <3>3. CASE HelperStep(v) \/ HelperFails(v)
      BY <2>1, <3>3, HelperAlone, WhoIsWho DEF Alone
    <3> QED BY <1>2, <3>1, <3>2, <3>3
  <2>3. point[worker(v)] # "none" \/ point'[worker(v)] = point[worker(v)]
    <3>1. CASE HelperStep(v) \/ HelperFails(v)
      BY <3>1, WorkerStays
    <3>2. CASE WorkerStep(v) \/ GiveUp(v) \/ EndEarly(v)
      BY <3>2 DEF WorkerStep, Begin, Barrier, BarrierBroken, KvBeginWrite, KvStore, KvEndWrite, KvBeginRead,
         KvRestore, PrefetchBegin, PrefetchNext, PrefetchWait, PrefetchWaitFails, PrefetchRestore,
         PrefetchEnd, SessionEnd, WorkerResult, WorkerExits, GiveUp, EndEarly, At
    <3> QED BY <1>2, <3>1, <3>2
  <2> QED BY <2>2, <2>3 DEF Unforked
<1> QED BY <1>1, <1>2 DEF RunNext

-----------------------------------------------------------------------------
(* Nothing went wrong: what each step does to run_path and its pipes.      *)
MainKept ==
  /\ point'[main] = point[main] /\ turn'[main] = turn[main] /\ part'[main] = part[main]
  /\ main \in ends[start].w => main \in ends'[start].w

LEMMA MainOfOthers ==
  ASSUME RunTypes, NEW w \in Worker,
         WorkerStep(w) \/ HelperStep(w) \/ HelperFails(w) \/ GiveUp(w) \/ EndEarly(w)
  PROVE  MainKept
<1>1. /\ main \in Process \ {worker(w), helper(w)} /\ start \in Pipes
      /\ start \notin {PipeOf("command", w), PipeOf("data", w)}
  BY WhoIsWho, PipeIsPipe
<1>2. CASE PrefetchBegin(w)
  BY <1>1, <1>2, PrefetchBeginAlone DEF MainKept
<1>3. CASE (WorkerStep(w) \/ GiveUp(w) \/ EndEarly(w)) /\ ~PrefetchBegin(w)
  BY <1>1, <1>3, WorkerAlone DEF Alone, MainKept
<1>4. CASE HelperStep(w) \/ HelperFails(w)
  BY <1>1, <1>4, HelperAlone DEF Alone, MainKept
<1> QED BY <1>2, <1>3, <1>4

(* Only who passes the barrier takes from the start pipe, only who writes  *)
(* its result adds to the pipe of that.                                    *)
LEMMA WorkersQueues ==
  ASSUME RunTypes, NEW w \in Worker, WorkerStep(w)
  PROVE  /\ Barrier(w) \/ queue'[start] = queue[start]
         /\ WorkerResult(w) \/ Result(w)' = Result(w)
<1>1. /\ worker(w) \in Process /\ start \in Pipes
      /\ \A kind \in {"result", "command", "data"} : PipeOf(kind, w) \in Pipes /\ PipeOf(kind, w) # start
      /\ PipeOf("result", w) # PipeOf("command", w) /\ PipeOf("result", w) # PipeOf("data", w)
  BY WhoIsWho, PipeIsPipe
<1>2. ASSUME UNCHANGED queue PROVE queue'[start] = queue[start] /\ Result(w)' = Result(w)
  BY <1>2 DEF Result
<1>3. ASSUME NEW kind \in {"command", "data"}, QueuesAlone({PipeOf(kind, w)})
      PROVE  queue'[start] = queue[start] /\ Result(w)' = Result(w)
  BY <1>1, <1>3 DEF QueuesAlone, Result
<1>4. CASE \/ Begin(w) \/ BarrierBroken(w) \/ KvBeginWrite(w) \/ KvStore(w) \/ KvEndWrite(w)
           \/ KvBeginRead(w) \/ KvRestore(w)
  BY <1>2, <1>4 DEF Begin, BarrierBroken, KvBeginWrite, KvStore, KvEndWrite, KvBeginRead, KvRestore, Fail,
     Exit
<1>5. CASE \/ PrefetchBegin(w) \/ PrefetchWaitFails(w) \/ PrefetchRestore(w) \/ PrefetchEnd(w)
           \/ SessionEnd(w) \/ WorkerExits(w)
  BY <1>2, <1>5 DEF PrefetchBegin, PrefetchWaitFails, PrefetchRestore, PrefetchEnd, SessionEnd, WorkerExits,
     Fail, Exit
<1>6. CASE PrefetchNext(w)
  <2>1. QueuesAlone({PipeOf("command", w)})
    BY <1>1, <1>6 DEF PrefetchNext, QueuesAlone, RunTypes, FlowTypes
  <2> QED BY <1>3, <2>1
<1>7. CASE PrefetchWait(w)
  <2>1. UNCHANGED queue \/ \E need : Receive(worker(w), PipeOf("data", w), need)
    BY <1>7 DEF PrefetchWait
  <2>2. UNCHANGED queue \/ QueuesAlone({PipeOf("data", w)})
    BY <1>1, <2>1, ReceiveAlone
  <2> QED BY <1>2, <1>3, <2>2
<1>8. CASE Barrier(w)
  <2>1. UNCHANGED queue \/ Receive(worker(w), start, 1)
    BY <1>8 DEF Barrier
  <2>2. UNCHANGED queue \/ QueuesAlone({start})
    BY <1>1, <2>1, ReceiveAlone
  <2>3. Result(w)' = Result(w)
    BY <1>1, <2>2 DEF QueuesAlone, Result
  <2> QED BY <1>8, <2>3
<1>9. CASE WorkerResult(w)
  <2>1. QueuesAlone({PipeOf("result", w)})
    BY <1>1, <1>9, SendAlone DEF WorkerResult
  <2> QED BY <1>1, <1>9, <2>1 DEF QueuesAlone
<1> QED BY <1>4, <1>5, <1>6, <1>7, <1>8, <1>9 DEF WorkerStep

LEMMA HelpersQueues ==
  ASSUME RunTypes, NEW w \in Worker, HelperStep(w)
  PROVE  queue'[start] = queue[start] /\ Result(w)' = Result(w)
<1>1. /\ helper(w) \in Process /\ start \in Pipes
      /\ \A kind \in {"result", "command", "data"} : PipeOf(kind, w) \in Pipes /\ PipeOf(kind, w) # start
      /\ PipeOf("result", w) # PipeOf("command", w) /\ PipeOf("result", w) # PipeOf("data", w)
  BY WhoIsWho, PipeIsPipe
<1>2. \/ UNCHANGED queue
      \/ Receive(helper(w), PipeOf("command", w), 1)
      \/ Send(helper(w), PipeOf("data", w))
  BY DEF HelperStep, HelperOpens, HelperCommand, HelperSend, HelperExits, Fail, Exit
<1>3. UNCHANGED queue \/ QueuesAlone({PipeOf("command", w)}) \/ QueuesAlone({PipeOf("data", w)})
  BY <1>1, <1>2, ReceiveAlone, SendAlone
<1> QED BY <1>1, <1>3 DEF QueuesAlone, Result

(* Results of other workers.                                               *)
LEMMA ResultOfOther ==
  ASSUME RunTypes, NEW v \in Worker, NEW w \in Worker \ {v}, WorkerStep(v) \/ HelperStep(v)
  PROVE  Result(w)' = Result(w)
<1>1. PipeOf("result", w) \in Pipes /\ PipeOf("result", w) \notin PipesOf(v)
  BY PipeIsPipe DEF PipesOf
<1>2. CASE PrefetchBegin(v)
  BY <1>2, PrefetchBeginAlone DEF Result
<1>3. CASE WorkerStep(v) /\ ~PrefetchBegin(v)
  BY <1>1, <1>3, WorkerAlone DEF QueuesAlone, Result
<1>4. CASE HelperStep(v)
  BY <1>1, <1>4, HelperAlone DEF QueuesAlone, Result
<1> QED BY <1>2, <1>3, <1>4

(* A fault is not forgotten.                                               *)
LEMMA FaultStays ==
  ASSUME RunTypes, RunNext, fault
  PROVE  fault'
<1>1. CASE MainStep \/ MainGivesUp
  BY <1>1 DEF MainStep, MainGivesUp, ForkWorker, Forked, Start, WaitWorkers, Collect, MainExits, Fail
<1>2. ASSUME NEW w \in Worker, HelperStep(w) \/ HelperFails(w) \/ GiveUp(w) \/ EndEarly(w) PROVE fault'
  BY <1>2 DEF HelperStep, HelperOpens, HelperCommand, HelperSend, HelperExits, HelperFails, GiveUp, EndEarly,
     Fail
<1>3. ASSUME NEW w \in Worker, WorkerStep(w) PROVE fault'
  BY <1>3 DEF WorkerStep, Begin, Barrier, BarrierBroken, KvBeginWrite, KvStore, KvEndWrite, KvBeginRead,
     KvRestore, PrefetchBegin, PrefetchNext, PrefetchWait, PrefetchWaitFails, PrefetchRestore, PrefetchEnd,
     SessionEnd, WorkerResult, WorkerExits, Fail
<1> QED BY <1>1, <1>2, <1>3 DEF RunNext

(* Without one, these are the steps there are.                             *)
LEMMA NoFaultSteps ==
  ASSUME RunTypes, RunNext, ~fault'
  PROVE  ~fault /\ (MainStep \/ \E w \in Worker : WorkerStep(w) \/ HelperStep(w))
<1>1. ~fault
  BY FaultStays
<1>2. ~MainGivesUp /\ \A w \in Worker : ~HelperFails(w) /\ ~GiveUp(w) /\ ~EndEarly(w)
  BY DEF MainGivesUp, HelperFails, GiveUp, EndEarly
<1> QED BY <1>1, <1>2 DEF RunNext

-----------------------------------------------------------------------------
(* Nothing went wrong: the sessions.                                       *)
LEMMA FinishedKept ==
  ASSUME NEW w \in Worker, Kept(w), Finished(w)
  PROVE  Finished(w)'
<1>1. HelperReady(w, Due(w)) => HelperReady(w, Due(w))'
  BY DEF Kept, HelperReady, Due, There
<1> QED BY <1>1 DEF Kept, Finished, Due, Here, Asking, Coming

(* No helper refuses a request or fails to send a reply.                   *)
LEMMA NoneRefuses ==
  ASSUME RunTypes, NEW w \in Worker, SessionInv(w), Finished(w)
  PROVE  ~(Refuses(w) /\ Fail(helper(w)))
<1> SUFFICES ASSUME Refuses(w), Fail(helper(w)) PROVE FALSE
  OBVIOUS
<1>1. HelperExits(w) /\ HelperStep(w)
  BY DEF HelperExits, HelperStep
<1>2. ~Prefetching(w)
  BY <1>1, HelperNeeded
<1>3. /\ point[worker(w)] \notin BeforePrefetch /\ mode = "prefetch" /\ There(w) # <<>>
      /\ point[helper(w)] \in {"command", "send"}
  BY <1>1, HelperWorks DEF Refuses, There, At
<1>4. point[worker(w)] \in {"end", "reap", "result", "done"}
  BY <1>2, <1>3 DEF Prefetching, Finished, RunTypes, PlaceTypes, WorkerPlaces
<1>5. HelperReady(w, Due(w))
  BY <1>3, <1>4 DEF Finished
<1> QED BY <1>3, <1>5 DEF HelperReady, Ended

LEMMA FinishedHelper ==
  ASSUME RunTypes, NEW w \in Worker, SessionInv(w), Finished(w), HelperStep(w)
  PROVE  Finished(w)'
<1>1. helper(w) \in Process /\ turn[helper(w)] \in Nat /\ Due(w) \in Nat
  BY WhoIsWho DEF RunTypes, DataTypes, Due
<1>2. point'[helper(w)] # "failed"
  BY <1>1, NoneRefuses DEF HelperStep, HelperOpens, HelperCommand, HelperSend, HelperExits, Fail, Exit, Go,
     RunTypes, PlaceTypes, Finished
<1>3. SUFFICES ASSUME point[worker(w)] \in {"end", "reap", "result", "done"}
               PROVE  Asking(w)' = <<>> /\ Coming(w)' = <<>> /\ HelperReady(w, Due(w))'
  BY <1>2, WorkerStays DEF Finished
<1>4. /\ Asking(w) = <<>> /\ Coming(w) = <<>> /\ HelperReady(w, Due(w))
      /\ point[helper(w)] \in {"open", "command", "send"}
  BY <1>3, HelperWorks DEF Finished
<1>5. There(w) = <<>>
  BY <1>4 DEF HelperReady, Ended
<1>6. CASE HelperOpens(w)
  <2>1. point[helper(w)] = "open" /\ point'[helper(w)] = "command" /\ UNCHANGED <<queue, part, turn>>
    BY <1>1, <1>6 DEF HelperOpens, At, Go, RunTypes, PlaceTypes
  <2>2. /\ Asking(w)' = Asking(w) /\ Coming(w)' = Coming(w) /\ There(w)' = There(w)
        /\ turn'[helper(w)] = turn[helper(w)]
    BY <2>1 DEF Asking, Coming, There
  <2> QED BY <1>4, <1>5, <2>1, <2>2, WorkerStays DEF HelperReady, Ended
<1>7. CASE HelperCommand(w)
  <2>1. Receive(helper(w), PipeOf("command", w), 1)
    BY <1>5, <1>7 DEF HelperCommand, There
  <2> QED BY <1>4, <2>1 DEF Receive, Asking
<1>8. CASE HelperSend(w)
  <2>1. /\ point[helper(w)] = "send" /\ point'[helper(w)] = "command"
        /\ turn'[helper(w)] = turn[helper(w)] + 1 /\ UNCHANGED <<queue, part>>
    BY <1>1, <1>5, <1>8 DEF HelperSend, There, At, Go, RunTypes, PlaceTypes, DataTypes
  <2>2. Asking(w)' = Asking(w) /\ Coming(w)' = Coming(w) /\ There(w)' = There(w)
    BY <2>1 DEF Asking, Coming, There
  <2> QED BY <1>4, <1>5, <2>1, <2>2, WorkerStays DEF HelperReady, Ended
<1>9. CASE HelperExits(w)
  <2>1. point'[helper(w)] \in Ended /\ UNCHANGED queue
    BY <1>1, <1>9 DEF HelperExits, Fail, Exit, Go, RunTypes, PlaceTypes, Ended
  <2> QED BY <1>4, <2>1 DEF HelperReady, Asking, Coming
<1> QED BY <1>6, <1>7, <1>8, <1>9 DEF HelperStep

(* No reply is wrong, none stays out.                                      *)
LEMMA WaitSucceeds ==
  ASSUME RunTypes, NEW w \in Worker, SessionInv(w), Finished(w)
  PROVE  ~PrefetchWaitFails(w)
<1> SUFFICES ASSUME PrefetchWaitFails(w) PROVE FALSE
  OBVIOUS
<1>1. point[worker(w)] = "wait" /\ Here(w) \in Seq(Unit) /\ Due(w) \in Nat
  BY WhoIsWho DEF PrefetchWaitFails, At, RunTypes, FlowTypes, DataTypes, Here, Due
<1>2. Asked(w) \/ Taken(w) \/ Answering(w) \/ Answered(w)
  BY <1>1 DEF SessionInv, Protocol
<1>3. Here(w) # <<>> => Here(w)[1] = <<Due(w), 0>>
  <2> SUFFICES ASSUME Here(w) # <<>> PROVE Here(w)[1] = <<Due(w), 0>>
    OBVIOUS
  <2>1. Carries(Here(w), Due(w), 0)
    BY <1>2 DEF Asked, Taken, Answering, Answered, Arriving
  <2>2. 1 \in 1 .. Len(Here(w)) /\ 0 + 1 - 1 = 0
    BY <1>1
  <2>3. Here(w)[1] = <<Due(w), 0 + 1 - 1>>
    BY <2>1, <2>2 DEF Carries
  <2> QED BY <2>2, <2>3
<1>4. ~ReplyIsWrong(w)
  BY <1>3 DEF ReplyIsWrong, Reply, Here, Due
<1>5. point[helper(w)] \in {"open", "command", "send"}
  BY <1>1 DEF SessionInv, EndsHeld, Prefetching, Finished, RunTypes, PlaceTypes, HelperPlaces
<1>6. ~Eof(PipeOf("data", w))
  BY <1>5 DEF SessionInv, EndsHeld, Eof
<1> QED BY <1>4, <1>6 DEF PrefetchWaitFails

LEMMA FinishedWorker ==
  ASSUME RunTypes, NEW w \in Worker, SessionInv(w), Finished(w), WorkerStep(w), ~BarrierBroken(w)
  PROVE  Finished(w)'
<1>1. worker(w) \in Process /\ helper(w) \in Process /\ ~PrefetchWaitFails(w)
  BY WhoIsWho, WaitSucceeds
<1>2. CASE PrefetchBegin(w)
  BY <1>2, PrefetchBeginAlone DEF Finished
<1>3. CASE ~PrefetchBegin(w)
  <2>0. /\ mode' = mode /\ point'[helper(w)] = point[helper(w)] /\ turn'[helper(w)] = turn[helper(w)]
        /\ There(w)' = There(w) /\ point[helper(w)] # "failed"
    BY <1>3, HelperStays DEF Finished
  <2>1. CASE \/ Begin(w) \/ Barrier(w) \/ KvBeginWrite(w) \/ KvStore(w) \/ KvEndWrite(w)
             \/ KvBeginRead(w) \/ PrefetchNext(w) \/ PrefetchWait(w)
    <3>1. point'[worker(w)] \in {"barrier", "write", "store", "read", "begin", "restore", "wait"}
      BY <1>1, <2>1 DEF Begin, Barrier, KvBeginWrite, KvStore, KvEndWrite, KvBeginRead, PrefetchNext,
         PrefetchWait, At, Go, RunTypes, PlaceTypes
    <3> QED BY <2>0, <3>1 DEF Finished
  <2>2. CASE KvRestore(w)
    <3>1. /\ point[worker(w)] = "restore" /\ mode = "student" /\ UNCHANGED <<queue, part>>
          /\ point'[worker(w)] \in {"restore", "end"} /\ (point'[worker(w)] = "end" => Due(w)' = Requests)
      BY <1>1, <2>2 DEF KvRestore, At, Go, Due, RunTypes, PlaceTypes, DataTypes
    <3>2. Asking(w) = <<>> /\ Coming(w) = <<>> /\ Here(w) = <<>>
      BY <3>1 DEF SessionInv, Unused
    <3> QED BY <2>0, <3>1, <3>2 DEF Finished, Asking, Coming, Here
  <2>3. CASE PrefetchRestore(w)
    <3>1. point'[worker(w)] \in {"next", "end"} /\ (point'[worker(w)] = "end" => Due(w)' = Requests)
      BY <1>1, <2>3 DEF PrefetchRestore, Go, Due, RunTypes, PlaceTypes, DataTypes
    <3>2. NotAsked(w)'
      BY <2>3, ReplyIsTaken
    <3> QED BY <2>0, <3>1, <3>2 DEF Finished, NotAsked
  <2>4. CASE PrefetchEnd(w) \/ SessionEnd(w) \/ WorkerResult(w) \/ WorkerExits(w)
    <3>1. point[worker(w)] \in {"end", "reap", "result"}
      BY <1>1, <2>4 DEF PrefetchEnd, SessionEnd, WorkerResult, WorkerExits, At, Finished
    <3>2. /\ Due(w) = Requests /\ Asking(w) = <<>> /\ Coming(w) = <<>>
          /\ (mode = "prefetch" => HelperReady(w, Due(w)))
          /\ (point[worker(w)] \in {"end", "reap"} => Here(w) = <<>>)
      BY <3>1 DEF Finished
    <3>3. UNCHANGED turn /\ Asking(w)' = Asking(w) /\ Coming(w)' = Coming(w)
      <4>1. CASE PrefetchEnd(w) \/ SessionEnd(w) \/ WorkerExits(w)
        BY <4>1 DEF PrefetchEnd, SessionEnd, WorkerExits, Fail, Exit, Asking, Coming
      <4>2. CASE WorkerResult(w)
        <5>1. UNCHANGED turn /\ QueuesAlone({PipeOf("result", w)})
          BY <1>1, <4>2, PipeIsPipe, SendAlone DEF WorkerResult
        <5> QED BY <5>1, PipeIsPipe DEF QueuesAlone, Asking, Coming
      <4> QED BY <2>4, <4>1, <4>2
    <3>4. point'[worker(w)] \in {"reap", "result", "done"}
      BY <1>1, <2>4, <3>1, <3>2 DEF PrefetchEnd, SessionEnd, WorkerResult, WorkerExits, Exit, At, Go,
         RunTypes, PlaceTypes, Due
    <3>5. point'[worker(w)] = "reap" => Here(w)' = <<>>
      BY <1>1, <2>4, <3>1, <3>2 DEF PrefetchEnd, SessionEnd, WorkerResult, WorkerExits, Exit, At, Go,
         RunTypes, PlaceTypes, Due, Here
    <3>6. Due(w)' = Due(w) /\ (mode' = "prefetch" => HelperReady(w, Due(w))')
      BY <2>0, <3>2, <3>3 DEF HelperReady, Due
    <3> QED BY <2>0, <3>2, <3>3, <3>4, <3>5, <3>6 DEF Finished
  <2> QED BY <1>1, <1>3, <2>1, <2>2, <2>3, <2>4 DEF WorkerStep
<1> QED BY <1>2, <1>3

-----------------------------------------------------------------------------
(* Nothing went wrong: the results.                                        *)
LEMMA ResultOthers ==
  ASSUME RunTypes, NEW v \in Worker, NEW w \in Worker, ResultKept(w), WorkerStep(v) \/ HelperStep(v),
         v # w \/ HelperStep(v)
  PROVE  ResultKept(w)'
<1>1. MainKept
  BY MainOfOthers
<1>2. Result(w)' = Result(w) /\ point'[worker(w)] = point[worker(w)] /\ Here(w)' = Here(w)
  <2>1. CASE v # w
    BY <2>1, ResultOfOther, SessionOfOther DEF Kept, Here
  <2>2. CASE v = w
    BY <2>2, HelpersQueues, WorkerStays
  <2> QED BY <2>1, <2>2
<1> QED BY <1>1, <1>2 DEF MainKept, ResultKept, Uncollected, Collected

LEMMA ResultWorker ==
  ASSUME RunTypes, NEW w \in Worker, Finished(w), Finished(w)', ResultKept(w), WorkerStep(w),
         ~BarrierBroken(w)
  PROVE  ResultKept(w)'
<1>1. worker(w) \in Process /\ PipeOf("result", w) \in Pipes /\ RESULT \in Nat \ {0} /\ MainKept
  BY WhoIsWho, PipeIsPipe, RunConst, MainOfOthers
<1>2. point[worker(w)] \notin Ended \cup {"none"}
  BY DEF WorkerStep, Begin, Barrier, KvBeginWrite, KvStore, KvEndWrite, KvBeginRead, KvRestore,
     PrefetchBegin, PrefetchNext, PrefetchWait, PrefetchWaitFails, PrefetchRestore, PrefetchEnd, SessionEnd,
     WorkerResult, WorkerExits, At, Ended
<1>3. point[main] # "collect"
  BY <1>2 DEF ResultKept
<1>4. point'[worker(w)] # "none"
  <2>1. CASE PrefetchBegin(w)
    BY <2>1, PrefetchBeginAlone
  <2>2. CASE ~PrefetchBegin(w)
    BY <1>1, <1>2, <2>2 DEF WorkerStep, Begin, Barrier, KvBeginWrite, KvStore, KvEndWrite, KvBeginRead,
       KvRestore, PrefetchNext, PrefetchWait, PrefetchWaitFails, PrefetchRestore, PrefetchEnd, SessionEnd,
       WorkerResult, WorkerExits, Fail, Exit, Go, RunTypes, PlaceTypes
  <2> QED BY <2>1, <2>2
<1>5. /\ point[main] = "fork" => (point'[worker(w)] = "none" <=> w >= turn[main])
      /\ point[main] # "fork" => point'[worker(w)] # "none"
  BY <1>2, <1>4 DEF ResultKept
<1>6. SUFFICES /\ point'[worker(w)] = "result" => Len(Result(w)') + Len(Here(w)') = RESULT
               /\ point'[worker(w)] = "done" => Len(Result(w)') + 0 = RESULT
               /\ point'[worker(w)] \notin {"result", "done"} => Result(w)' = <<>>
  BY <1>1, <1>3, <1>5 DEF ResultKept, MainKept, Uncollected, Collected
<1>7. CASE WorkerResult(w)
  <2>1. point[worker(w)] = "result" /\ point'[worker(w)] = "result" /\ Send(worker(w), PipeOf("result", w))
    BY <1>7 DEF WorkerResult, At
  <2>2. PICK q, h : q = Result(w) /\ h = Here(w)
    OBVIOUS
  <2>3. q \in Seq(Unit) /\ h \in Seq(Unit) /\ Len(q) + Len(h) = RESULT
    BY <1>1, <2>1, <2>2 DEF RunTypes, FlowTypes, Result, Here, ResultKept
  <2>4. PICK x \in 0 .. Len(Here(w)) :
          /\ queue' = [queue EXCEPT ![PipeOf("result", w)] = Result(w) \o SubSeq(Here(w), 1, x)]
          /\ part' = [part EXCEPT ![worker(w)] = SubSeq(Here(w), x + 1, Len(Here(w)))]
    BY <1>1, <2>1, SendIs DEF RunTypes, Result, Here
  <2>5. /\ Result(w)' = Result(w) \o SubSeq(Here(w), 1, x)
        /\ Here(w)' = SubSeq(Here(w), x + 1, Len(Here(w)))
    BY <1>1, <2>4 DEF Result, Here, RunTypes, FlowTypes
  <2>6. /\ SubSeq(h, 1, x) \in Seq(Unit) /\ Len(SubSeq(h, 1, x)) = x
        /\ Len(SubSeq(h, x + 1, Len(h))) = Len(h) - x
    BY <2>2, <2>3, CutFacts
  <2>7. Len(q \o SubSeq(h, 1, x)) = Len(q) + x
    BY <2>3, <2>6, ConcatProperties
  <2>8. Len(q) \in Nat /\ Len(h) \in Nat /\ x \in Nat
    BY <2>3
  <2>9. (Len(q) + x) + (Len(h) - x) = Len(q) + Len(h)
    BY <2>8
  <2>10. Len(Result(w)') + Len(Here(w)') = RESULT
    BY <2>2, <2>3, <2>5, <2>6, <2>7, <2>9
  <2> QED BY <2>1, <2>10
<1>8. CASE ~WorkerResult(w)
  <2>1. Result(w)' = Result(w)
    BY <1>8, WorkersQueues
  <2>2. CASE WorkerExits(w)
    <3>1. point[worker(w)] = "result" /\ Here(w) = <<>> /\ point'[worker(w)] = "done"
      BY <1>1, <2>2 DEF WorkerExits, At, Here, Exit, Go, RunTypes, PlaceTypes, Finished
    <3>2. Len(Result(w)) + Len(Here(w)) = RESULT
      BY <3>1 DEF ResultKept
    <3>3. Len(Here(w)) = 0
      BY <3>1
    <3> QED BY <2>1, <3>1, <3>2, <3>3
  <2>3. CASE SessionEnd(w)
    <3>1. Due(w) = Requests /\ point[worker(w)] \in {"end", "reap"}
      BY <2>3 DEF Finished, SessionEnd, At
    <3>2. part'[worker(w)] = [k \in 1 .. RESULT |-> <<w, k>>] /\ point'[worker(w)] = "result"
      BY <1>1, <2>3, <3>1 DEF SessionEnd, Due, Go, RunTypes, PlaceTypes, FlowTypes
    <3>3. Len([k \in 1 .. RESULT |-> <<w, k>>]) = RESULT
      BY <1>1
    <3>4. Result(w)' = <<>>
      BY <2>1, <3>1 DEF ResultKept
    <3>5. Len(Here(w)') = RESULT /\ Len(Result(w)') = 0
      BY <3>2, <3>3, <3>4 DEF Here
    <3> QED BY <1>1, <3>2, <3>5
  <2>4. CASE ~WorkerExits(w) /\ ~SessionEnd(w)
    <3>1. point[worker(w)] \notin {"result", "done"} /\ point'[worker(w)] \notin {"result", "done"}
      <4>1. CASE PrefetchBegin(w)
        BY <4>1, PrefetchBeginAlone DEF PrefetchBegin, At
      <4>2. CASE ~PrefetchBegin(w)
        BY <1>1, <1>8, <2>4, <4>2 DEF WorkerStep, Begin, Barrier, KvBeginWrite, KvStore, KvEndWrite,
           KvBeginRead, KvRestore, PrefetchNext, PrefetchWait, PrefetchWaitFails, PrefetchRestore,
           PrefetchEnd, At, Go, RunTypes, PlaceTypes
      <4> QED BY <4>1, <4>2
    <3> QED BY <2>1, <3>1 DEF ResultKept
  <2> QED BY <2>2, <2>3, <2>4
<1> QED BY <1>7, <1>8

LEMMA MainsWorkers ==
  ASSUME RunTypes, MainStep, ~ForkWorker, NEW w \in Worker
  PROVE  point'[worker(w)] = point[worker(w)] /\ Kept(w) /\ Here(w)' = Here(w)
<1>1. /\ main \in Process /\ worker(w) \in Process \ {main} /\ main \notin {worker(w), helper(w)}
      /\ PipeOf("command", w) \notin {start} \cup {PipeOf("result", v) : v \in Worker}
      /\ PipeOf("data", w) \notin {start} \cup {PipeOf("result", v) : v \in Worker}
  BY WhoIsWho, PipeIsPipe
<1>2. Alone(main)
  BY MainAlone
<1>3. Kept(w)
  BY <1>1, <1>2, MainAlone, OthersKept
<1> QED BY <1>3 DEF Kept, Here

LEMMA MainQueues ==
  ASSUME RunTypes, MainStep
  PROVE  /\ Start \/ queue'[start] = queue[start]
         /\ \A w \in Worker : (Collect /\ w = turn[main]) \/ Result(w)' = Result(w)
<1>1. /\ main \in Process /\ start \in Pipes
      /\ \A v \in Worker : PipeOf("result", v) \in Pipes \ {start}
      /\ \A v, w \in Worker : v # w => PipeOf("result", v) # PipeOf("result", w)
  BY WhoIsWho, PipeIsPipe
<1>2. CASE ForkWorker \/ Forked \/ WaitWorkers \/ MainExits
  BY <1>2 DEF ForkWorker, Forked, WaitWorkers, MainExits, Fail, Exit, Result
<1>3. CASE Start
  <2>1. UNCHANGED queue \/ Send(main, start)
    BY <1>3 DEF Start
  <2>2. UNCHANGED queue \/ QueuesAlone({start})
    BY <1>1, <2>1, SendAlone
  <2> QED BY <1>1, <1>3, <2>2 DEF QueuesAlone, Result
<1>4. CASE Collect
  <2>1. turn[main] \in Worker
    BY <1>1, <1>4, RunConst DEF Collect, RunTypes, DataTypes
  <2>2. UNCHANGED queue \/ \E need : Receive(main, PipeOf("result", turn[main]), need)
    BY <1>4 DEF Collect
  <2>3. UNCHANGED queue \/ QueuesAlone({PipeOf("result", turn[main])})
    BY <1>1, <2>1, <2>2, ReceiveAlone
  <2> QED BY <1>1, <1>4, <2>1, <2>3 DEF QueuesAlone, Result
<1> QED BY <1>2, <1>3, <1>4 DEF MainStep

(* What run_path wants of the result it is at is still to come.            *)
LEMMA ResultComes ==
  ASSUME RunTypes, \A w \in Worker : Finished(w) /\ ResultKept(w), At(main, "collect"), turn[main] <= W
  PROVE  /\ turn[main] \in Worker
         /\ Len(Result(turn[main])) + Len(part[main]) = RESULT
<1>1. turn[main] \in Worker
  BY RunConst, WhoIsWho DEF RunTypes, DataTypes
<1>2. PICK w \in Worker : w = turn[main]
  BY <1>1
<1>3. point[worker(w)] = "done"
  BY <1>2 DEF At, Ended, ResultKept, Finished
<1>4. Uncollected(w) /\ Collected(w) = Len(part[main])
  BY <1>2, RunConst DEF At, Uncollected, Collected
<1> QED BY <1>1, <1>2, <1>3, <1>4 DEF ResultKept

LEMMA MainSucceeds ==
  ASSUME RunTypes, \A w \in Worker : Finished(w) /\ ResultKept(w), MainStep, point[main] # "failed"
  PROVE  point'[main] # "failed"
<1>1. main \in Process /\ RESULT \in Nat \ {0}
  BY WhoIsWho, RunConst
<1>2. CASE /\ At(main, "collect") /\ turn[main] <= W /\ Len(part[main]) < RESULT
           /\ Eof(PipeOf("result", turn[main]))
  <2>1. Result(turn[main]) = <<>> /\ Len(part[main]) \in Nat
    BY <1>1, <1>2 DEF Eof, Result, RunTypes, FlowTypes
  <2>2. Len(Result(turn[main])) + Len(part[main]) = RESULT
    BY <1>2, ResultComes
  <2> QED BY <1>1, <1>2, <2>1, <2>2
<1>3. CASE MainExits /\ At(main, "collect") /\ turn[main] > W /\ Exit(main, "done")
  BY <1>1, <1>3 DEF Exit, Go, RunTypes, PlaceTypes
<1>4. CASE ForkWorker
  <2>1. turn[main] \in Worker
    BY <1>1, <1>4, RunConst DEF ForkWorker, RunTypes, DataTypes
  <2> QED BY <1>1, <1>4, <2>1, WhoIsWho DEF ForkWorker, Go, RunTypes, PlaceTypes
<1>5. CASE Forked \/ Start \/ WaitWorkers \/ Collect
  BY <1>1, <1>5 DEF Forked, Start, WaitWorkers, Collect, Go, RunTypes, PlaceTypes
<1> QED BY <1>2, <1>3, <1>4, <1>5 DEF MainStep, MainExits

LEMMA ForkIs ==
  ASSUME RunTypes, ForkWorker, ~fault'
  PROVE  /\ turn[main] \in Worker /\ point[main] = "fork" /\ point'[main] = "fork"
         /\ turn'[main] = turn[main] + 1 /\ UNCHANGED <<queue, part, session>>
         /\ point'[worker(turn[main])] = "born"
         /\ \A x \in Process \ {worker(turn[main])} : point'[x] = point[x]
         /\ \A x \in Process \ {main} : turn'[x] = turn[x]
         /\ \A c \in Pipes : main \in ends[c].w => main \in ends'[c].w
<1>1. turn[main] \in Worker /\ main \in Process
  BY RunConst, WhoIsWho DEF ForkWorker, RunTypes, DataTypes
<1>2. worker(turn[main]) \in Process /\ worker(turn[main]) # main
  BY <1>1, WhoIsWho
<1>3. /\ At(main, "fork") /\ turn' = [turn EXCEPT ![main] = turn[main] + 1]
      /\ UNCHANGED <<queue, part, session>>
      /\ Go(worker(turn[main]), "born") /\ ends' = Inherit(ends, main, worker(turn[main]))
  BY DEF ForkWorker
<1>4. /\ point[main] = "fork" /\ point'[main] = "fork" /\ point'[worker(turn[main])] = "born"
      /\ \A x \in Process \ {worker(turn[main])} : point'[x] = point[x]
  BY <1>1, <1>2, <1>3 DEF At, Go, RunTypes, PlaceTypes
<1>5. turn'[main] = turn[main] + 1 /\ \A x \in Process \ {main} : turn'[x] = turn[x]
  BY <1>1, <1>3 DEF RunTypes, DataTypes
<1>6. \A c \in Pipes : main \in ends[c].w => main \in ends'[c].w
  BY <1>3 DEF Inherit
<1> QED BY <1>1, <1>3, <1>4, <1>5, <1>6

LEMMA FinishedFork ==
  ASSUME RunTypes, ForkWorker, ~fault', NEW w \in Worker, SessionInv(w), Finished(w), ResultKept(w)
  PROVE  Finished(w)' /\ ResultKept(w)'
<1>1. /\ worker(w) \in Process \ {main} /\ helper(w) \in Process \ {main}
      /\ \A v \in Worker : helper(w) # worker(v) /\ (worker(w) = worker(v) => w = v)
      /\ w \in Nat /\ turn[main] \in Nat
  BY WhoIsWho, RunConst DEF RunTypes, DataTypes
<1>2. /\ point'[helper(w)] = point[helper(w)] /\ Due(w)' = Due(w) /\ turn'[helper(w)] = turn[helper(w)]
      /\ mode' = mode /\ Asking(w)' = Asking(w) /\ Coming(w)' = Coming(w) /\ Result(w)' = Result(w)
      /\ Here(w)' = Here(w) /\ There(w)' = There(w)
  BY <1>1, ForkIs DEF Due, Asking, Coming, Result, Here, There, ForkWorker
<1>3. CASE w = turn[main]
  <2>1. point'[worker(w)] = "born" /\ point[worker(w)] = "none"
    BY <1>1, <1>3, ForkIs DEF ResultKept
  <2>2. ~(w >= turn[main] + 1)
    BY <1>1, <1>3
  <2>3. Result(w) = <<>>
    BY <2>1 DEF ResultKept
  <2> QED BY <1>1, <1>2, <2>1, <2>2, <2>3, ForkIs DEF Finished, ResultKept
<1>4. CASE w # turn[main]
  <2>1. point'[worker(w)] = point[worker(w)]
    BY <1>1, <1>4, ForkIs
  <2>2. Finished(w)'
    BY <1>2, <2>1 DEF Finished, HelperReady
  <2>3. w >= turn[main] <=> w >= turn[main] + 1
    BY <1>1, <1>4
  <2>4. Uncollected(w) /\ Uncollected(w)' /\ Collected(w) = 0 /\ Collected(w)' = 0
    BY ForkIs DEF Uncollected, Collected
  <2>5. ResultKept(w)'
    BY <1>2, <2>1, <2>3, <2>4, ForkIs DEF ResultKept
  <2> QED BY <2>2, <2>5
<1> QED BY <1>3, <1>4

(* Results under the steps of run_path.                                    *)
LEMMA ResultMain ==
  ASSUME RunTypes, MainStep, ~ForkWorker, \A w \in Worker : Finished(w) /\ ResultKept(w), StartInv,
         NEW w \in Worker
  PROVE  ResultKept(w)'
<1>1. /\ main \in Process /\ point'[worker(w)] = point[worker(w)] /\ Here(w)' = Here(w) /\ RESULT \in Nat
      /\ turn[main] \in Nat /\ w \in Nat /\ Worker = 1 .. W /\ W \in Nat
  BY WhoIsWho, MainsWorkers, RunConst DEF RunTypes, DataTypes
<1>2. CASE Forked \/ Start \/ WaitWorkers
  <2>1. Result(w)' = Result(w)
    BY <1>2, MainQueues DEF Forked, Start, WaitWorkers, Collect, At
  <2>2. /\ \/ point[main] = "fork" /\ turn[main] > W /\ point'[main] = "start"
           \/ point[main] = "start" /\ point'[main] \in {"start", "wait"}
           \/ /\ point[main] = "wait" /\ point'[main] = "collect" /\ part'[main] = <<>>
              /\ point[worker(w)] \in Ended \cup {"none"}
        /\ part[main] \in Seq(Unit)
    BY <1>1, <1>2 DEF Forked, Start, WaitWorkers, At, Go, RunTypes, PlaceTypes, FlowTypes, StartInv
  <2>3. point[worker(w)] # "none"
    BY <1>1, <2>2 DEF ResultKept
  <2>4. Uncollected(w) /\ Collected(w) = 0 /\ Collected(w)' = 0
    BY <2>2 DEF Uncollected, Collected
  <2> QED BY <1>1, <2>1, <2>2, <2>3, <2>4 DEF ResultKept
<1>3. CASE MainExits
  <2>1. point[main] = "collect" /\ point'[main] \in Ended /\ Result(w)' = Result(w)
    BY <1>1, <1>3, MainQueues DEF MainExits, Fail, Exit, Go, At, RunTypes, PlaceTypes, Ended, Result
  <2>2. ~Uncollected(w)'
    BY <2>1 DEF Uncollected, Ended
  <2> QED BY <1>1, <2>1, <2>2 DEF ResultKept, Ended
<1>4. CASE Collect /\ Len(part[main]) < RESULT
  <2>1. /\ At(main, "collect") /\ turn[main] <= W /\ UNCHANGED <<point, turn>>
        /\ Receive(main, PipeOf("result", turn[main]), RESULT - Len(part[main]))
    BY <1>4 DEF Collect
  <2>2. turn[main] \in Worker /\ Len(part[main]) \in Nat
    BY <1>1, <2>1, ResultComes DEF RunTypes, FlowTypes
  <2>3. CASE w # turn[main]
    <3>1. Result(w)' = Result(w)
      BY <2>3, MainQueues
    <3> QED BY <1>1, <2>1, <2>3, <3>1 DEF ResultKept, Uncollected, Collected
  <2>4. CASE w = turn[main]
    <3>1. PICK need \in Nat \ {0} : PipeOf("result", w) \in Pipes /\ Receive(main, PipeOf("result", w), need)
      <4>1. RESULT - Len(part[main]) \in Nat \ {0}
        BY <1>1, <1>4, <2>2
      <4> QED BY <2>1, <2>4, <4>1, PipeIsPipe
    <3>2. PICK q, h : q = Result(w) /\ h = part[main]
      OBVIOUS
    <3>3. PICK x \in 1 .. Len(Result(w)) :
            /\ part' = [part EXCEPT ![main] = part[main] \o SubSeq(Result(w), 1, x)]
            /\ queue' = [queue EXCEPT ![PipeOf("result", w)] = SubSeq(Result(w), x + 1, Len(Result(w)))]
      <4>1. PICK p \in Process, c \in Pipes :
              p = main /\ c = PipeOf("result", w) /\ FlowTypes /\ Receive(p, c, need)
        BY <1>1, <3>1 DEF RunTypes
      <4>2. FlowTypes /\ Receive(p, c, need)
        BY <4>1
      <4>3. PICK x \in 1 .. Len(queue[c]) :
              /\ x <= need /\ (x = need \/ x = Len(queue[c]))
              /\ part' = [part EXCEPT ![p] = part[p] \o SubSeq(queue[c], 1, x)]
              /\ queue' = [queue EXCEPT ![c] = SubSeq(queue[c], x + 1, Len(queue[c]))]
        BY <4>2, ReceiveIs
      <4> QED BY <4>1, <4>3 DEF Result
    <3>4. q \in Seq(Unit) /\ h \in Seq(Unit) /\ x \in 0 .. Len(q) /\ Len(q) + Len(h) = RESULT
      BY <1>1, <2>1, <2>4, <3>1, <3>2, <3>3, ResultComes DEF RunTypes, FlowTypes, Result
    <3>5. /\ part'[main] = part[main] \o SubSeq(Result(w), 1, x)
          /\ Result(w)' = SubSeq(Result(w), x + 1, Len(Result(w)))
      BY <1>1, <3>1, <3>3 DEF RunTypes, FlowTypes, Result
    <3>6. /\ SubSeq(q, 1, x) \in Seq(Unit) /\ Len(SubSeq(q, 1, x)) = x
          /\ Len(SubSeq(q, x + 1, Len(q))) = Len(q) - x
      BY <3>4, CutFacts
    <3>7. Len(h \o SubSeq(q, 1, x)) = Len(h) + x
      BY <3>4, <3>6, ConcatProperties
    <3>8. Len(q) \in Nat /\ Len(h) \in Nat /\ x \in Nat
      BY <3>4
    <3>9. Len(Result(w)') + Len(part'[main]) = RESULT
      <4>1. (Len(q) - x) + (Len(h) + x) = Len(q) + Len(h)
        BY <3>8
      <4> QED BY <3>2, <3>4, <3>5, <3>6, <3>7, <4>1
    <3>10. point[worker(w)] = "done"
      BY <2>1 DEF At, Ended, ResultKept, Finished
    <3>11. Collected(w)' = Len(part'[main])
      BY <2>1, <2>4 DEF Collected, At
    <3> QED BY <1>1, <2>1, <3>9, <3>10, <3>11 DEF ResultKept, At
  <2> QED BY <2>3, <2>4
<1>5. CASE Collect /\ ~(Len(part[main]) < RESULT)
  <2>1. /\ point[main] = "collect" /\ UNCHANGED <<point, queue>> /\ turn'[main] = turn[main] + 1
        /\ part'[main] = <<>>
    BY <1>1, <1>5 DEF Collect, At, RunTypes, DataTypes, FlowTypes
  <2>2. Result(w)' = Result(w) /\ Collected(w)' = 0
    BY <2>1 DEF Result, Collected
  <2>3. Uncollected(w)' => Uncollected(w) /\ Collected(w) = 0
    BY <1>1, <2>1 DEF Uncollected, Collected
  <2> QED BY <1>1, <2>1, <2>2, <2>3 DEF ResultKept
<1> QED BY <1>2, <1>3, <1>4, <1>5 DEF MainStep

LEMMA FinishedMain ==
  ASSUME RunTypes, MainStep, ~ForkWorker, NEW w \in Worker, Finished(w)
  PROVE  Finished(w)'
BY MainsWorkers, FinishedKept

-----------------------------------------------------------------------------
(* Nothing went wrong: the start.                                          *)
LEMMA WaitingIsFinite ==
  /\ Waiting \in SUBSET Worker /\ IsFiniteSet(Waiting) /\ Cardinality(Waiting) \in Nat
  /\ Cardinality(Waiting) <= W
<1>1. Waiting \in SUBSET Worker
  BY DEF Waiting
<1>2. IsFiniteSet(Worker) /\ Cardinality(Worker) = W /\ W \in Nat
  BY RunConst
<1>3. IsFiniteSet(Waiting) /\ Cardinality(Waiting) <= Cardinality(Worker)
  BY <1>1, <1>2, FS_Subset
<1>4. Cardinality(Waiting) \in Nat
  BY <1>3, FS_CardinalityType
<1> QED BY <1>1, <1>2, <1>3, <1>4

(* Fewer wait, or as many.                                                 *)
LEMMA WaitingShrinks ==
  ASSUME Waiting' \in SUBSET Waiting
  PROVE  /\ Cardinality(Waiting') \in Nat /\ Cardinality(Waiting') <= Cardinality(Waiting)
         /\ \A w \in Waiting : w \notin Waiting' => Cardinality(Waiting') + 1 <= Cardinality(Waiting)
<1>1. PICK s, t : s = Waiting /\ t = Waiting'
  OBVIOUS
<1>2. IsFiniteSet(s) /\ t \in SUBSET s
  BY <1>1, WaitingIsFinite
<1>3. IsFiniteSet(t) /\ Cardinality(t) <= Cardinality(s)
  BY <1>2, FS_Subset
<1>4. Cardinality(s) \in Nat /\ Cardinality(t) \in Nat
  BY <1>2, <1>3, FS_CardinalityType
<1>5. ASSUME NEW w \in s, w \notin t PROVE Cardinality(t) + 1 <= Cardinality(s)
  <2>1. IsFiniteSet(s \ {w}) /\ Cardinality(s \ {w}) = Cardinality(s) - 1
    BY <1>2, FS_RemoveElement
  <2>2. t \in SUBSET (s \ {w})
    BY <1>2, <1>5
  <2>3. Cardinality(t) <= Cardinality(s \ {w})
    BY <2>1, <2>2, FS_Subset
  <2> QED BY <1>4, <2>1, <2>3
<1> QED BY <1>1, <1>3, <1>4, <1>5

LEMMA TokensType ==
  ASSUME RunTypes
  PROVE  Tokens \in Nat /\ Len(queue[start]) \in Nat
<1>1. queue[start] \in Seq(Unit) /\ part[main] \in Seq(Unit)
  BY WhoIsWho, PipeIsPipe DEF RunTypes, FlowTypes
<1>2. PICK a, b \in Nat : a = Len(queue[start]) /\ b = Len(part[main])
  BY <1>1
<1>3. PICK c \in Nat : c = IF point[main] = "start" THEN b ELSE 0
  BY <1>2
<1>4. Tokens = a + c
  BY <1>2, <1>3 DEF Tokens
<1>5. a + c \in Nat
  OBVIOUS
<1>6. Tokens \in Nat
  BY <1>4, <1>5
<1> QED BY <1>2, <1>6

(* Every worker that waits at the barrier finds a token, or will.          *)
LEMMA BarrierHolds ==
  ASSUME RunTypes, StartInv, NEW w \in Worker
  PROVE  ~BarrierBroken(w)
<1> SUFFICES ASSUME BarrierBroken(w) PROVE FALSE
  OBVIOUS
<1>1. w \in Waiting /\ queue[start] = <<>> /\ ends[start].w = {}
  BY DEF BarrierBroken, At, Waiting, Here, Eof
<1>2. point[main] \notin {"fork", "start"}
  BY <1>1 DEF StartInv
<1>3. Tokens = 0
  BY <1>1, <1>2 DEF Tokens
<1>4. Cardinality(Waiting) = 0
  BY <1>2, <1>3, WaitingIsFinite DEF StartInv
<1>5. Waiting = {}
  BY <1>4, WaitingIsFinite, FS_EmptySet
<1> QED BY <1>1, <1>5

LEMMA StartWorker ==
  ASSUME RunTypes, StartInv, NEW v \in Worker, WorkerStep(v)
  PROVE  StartInv'
<1>1. MainKept /\ worker(v) \in Process /\ start \in Pipes
  BY MainOfOthers, WhoIsWho, PipeIsPipe
<1>2. /\ main \in ends[start].w => main \in ends'[start].w
      /\ point'[main] = point[main] /\ part'[main] = part[main]
  BY <1>1 DEF MainKept
<1>3. ASSUME NEW w \in Worker \ {v} PROVE w \in Waiting' <=> w \in Waiting
  <2>1. point'[worker(w)] = point[worker(w)] /\ Here(w)' = Here(w)
    BY SessionOfOther DEF Kept, Here
  <2> QED BY <2>1 DEF Waiting
<1>4. v \in Waiting' => v \in Waiting
  <2>1. CASE PrefetchBegin(v)
    BY <2>1, PrefetchBeginAlone DEF Waiting
  <2>2. CASE Begin(v) \/ Barrier(v)
    <3>1. CASE Begin(v)
      BY <3>1 DEF Begin, At, Waiting
    <3>2. CASE Barrier(v)
      <4>1. CASE part[worker(v)] = <<>>
        BY <3>2, <4>1 DEF Barrier, At, Waiting, Here
      <4>2. CASE part[worker(v)] # <<>>
        <5>1. point'[worker(v)] = "write"
          BY <1>1, <3>2, <4>2 DEF Barrier, Go, RunTypes, PlaceTypes
        <5> QED BY <5>1 DEF Waiting
      <4> QED BY <4>1, <4>2
    <3> QED BY <2>2, <3>1, <3>2
  <2>3. CASE ~PrefetchBegin(v) /\ ~Begin(v) /\ ~Barrier(v)
    <3>1. point'[worker(v)] \notin {"none", "born", "barrier"}
      BY <1>1, <2>3 DEF WorkerStep, BarrierBroken, KvBeginWrite, KvStore, KvEndWrite, KvBeginRead, KvRestore,
         PrefetchNext, PrefetchWait, PrefetchWaitFails, PrefetchRestore, PrefetchEnd, SessionEnd,
         WorkerResult, WorkerExits, Fail, Exit, At, Go, RunTypes, PlaceTypes
    <3> QED BY <3>1 DEF Waiting
  <2> QED BY <2>1, <2>2, <2>3
<1>5. Waiting' \in SUBSET Waiting
  <2>1. Waiting' \in SUBSET Worker
    BY DEF Waiting
  <2> QED BY <1>3, <1>4, <2>1
<1>6. SUFFICES ASSUME point[main] # "fork" PROVE Cardinality(Waiting') <= Tokens'
  BY <1>2 DEF StartInv
<1>7. /\ Cardinality(Waiting) <= Tokens /\ Tokens \in Nat /\ Cardinality(Waiting) \in Nat
      /\ Cardinality(Waiting') \in Nat
  BY <1>5, <1>6, TokensType, WaitingIsFinite, WaitingShrinks DEF StartInv
<1>8. CASE queue'[start] = queue[start]
  <2>1. Tokens' = Tokens
    BY <1>2, <1>8 DEF Tokens
  <2> QED BY <1>5, <1>7, <2>1, WaitingShrinks
<1>9. CASE queue'[start] # queue[start]
  <2>1. /\ part[worker(v)] = <<>> /\ point[worker(v)] = "barrier" /\ UNCHANGED point
        /\ Receive(worker(v), start, 1)
    BY <1>9, WorkersQueues DEF Barrier, At
  <2>2. PICK q : q = queue[start]
    OBVIOUS
  <2>3. PICK x \in 1 .. Len(queue[start]) :
          /\ x <= 1
          /\ part' = [part EXCEPT ![worker(v)] = part[worker(v)] \o SubSeq(queue[start], 1, x)]
          /\ queue' = [queue EXCEPT ![start] = SubSeq(queue[start], x + 1, Len(queue[start]))]
    <3>1. PICK need \in Nat \ {0} : need = 1 /\ Receive(worker(v), start, need)
      BY <2>1
    <3> QED BY <1>1, <3>1, ReceiveIs DEF RunTypes
  <2>4. q \in Seq(Unit) /\ Len(q) \in Nat /\ x = 1 /\ 1 \in 0 .. Len(q)
    BY <1>1, <2>2, <2>3, TokensType DEF RunTypes, FlowTypes
  <2>5. PICK f, g : f = SubSeq(q, 1, x) /\ g = SubSeq(q, x + 1, Len(q))
    OBVIOUS
  <2>6. /\ part'[worker(v)] = <<>> \o f /\ queue'[start] = g
        /\ f \in Seq(Unit) /\ Len(f) = 1 /\ Len(g) = Len(q) - 1
    <3>1. part'[worker(v)] = <<>> \o f /\ queue'[start] = g
      BY <1>1, <2>1, <2>2, <2>3, <2>5 DEF RunTypes, FlowTypes
    <3>2. x \in 0 .. Len(q)
      BY <2>4
    <3>3. f \in Seq(Unit) /\ Len(f) = x /\ Len(g) = Len(q) - x
      BY <2>4, <2>5, <3>2, CutFacts
    <3> QED BY <2>4, <3>1, <3>3
  <2>7. part'[worker(v)] # <<>>
    <3>1. <<>> \o f = f
      BY <2>6, ConcatEmptySeq
    <3>2. Len(f) # Len(<<>>)
      BY <2>6, EmptySeq
    <3> QED BY <2>6, <3>1, <3>2
  <2>8. v \in Waiting /\ v \notin Waiting'
    BY <2>1, <2>7 DEF Waiting, Here
  <2>9. Cardinality(Waiting') + 1 <= Cardinality(Waiting)
    BY <1>5, <2>8, WaitingShrinks
  <2>10. Tokens' = Tokens - 1
    <3>1. Len(queue'[start]) = Len(queue[start]) - 1 /\ Len(queue[start]) \in Nat
      BY <2>2, <2>4, <2>6
    <3>2. part[main] \in Seq(Unit)
      BY WhoIsWho DEF RunTypes, FlowTypes
    <3>3. Len(part[main]) \in Nat
      BY <3>2
    <3> QED BY <1>2, <3>1, <3>3 DEF Tokens
  <2> QED BY <1>7, <2>9, <2>10
<1> QED BY <1>8, <1>9

LEMMA StartHelper ==
  ASSUME RunTypes, StartInv, NEW v \in Worker, HelperStep(v)
  PROVE  StartInv'
<1>1. MainKept /\ queue'[start] = queue[start]
  BY MainOfOthers, HelpersQueues
<1>2. ASSUME NEW w \in Worker PROVE point'[worker(w)] = point[worker(w)] /\ Here(w)' = Here(w)
  <2>1. CASE w = v
    BY <2>1, WorkerStays
  <2>2. CASE w # v
    BY <2>2, SessionOfOther DEF Kept, Here
  <2> QED BY <2>1, <2>2
<1>3. Waiting' = Waiting
  BY <1>2 DEF Waiting
<1> QED BY <1>1, <1>3 DEF MainKept, StartInv, Tokens

LEMMA StartMain ==
  ASSUME RunTypes, StartInv, MainStep, ~fault'
  PROVE  StartInv'
<1>1. main \in Process /\ start \in Pipes /\ \A w \in Worker : PipeOf("result", w) # start
  BY WhoIsWho, PipeIsPipe
<1>2. CASE ForkWorker
  BY <1>1, <1>2, ForkIs DEF StartInv
<1>3. CASE ~ForkWorker
  <2>1. Waiting' = Waiting
    BY <1>3, MainsWorkers DEF Waiting
  <2>2. /\ Cardinality(Waiting) \in Nat /\ Cardinality(Waiting) <= W /\ W \in Nat
        /\ Tokens \in Nat /\ Len(queue[start]) \in Nat /\ part[main] \in Seq(Unit) /\ Len(part[main]) \in Nat
    BY <1>1, WaitingIsFinite, TokensType, RunConst DEF RunTypes, FlowTypes
  <2>3. CASE Forked
    <3>1. /\ point[main] = "fork" /\ point'[main] = "start" /\ queue'[start] = queue[start]
          /\ part'[main] = [w \in Worker |-> <<0, 0>>]
      BY <1>1, <2>3 DEF Forked, At, Go, RunTypes, PlaceTypes, FlowTypes
    <3>2. Len(part'[main]) = W
      <4>1. Len([w \in 1 .. W |-> <<0, 0>>]) = W
        BY <2>2
      <4> QED BY <3>1, <4>1 DEF Worker
    <3>3. main \in ends[start].w => main \in ends'[start].w
      BY <1>1, <2>3 DEF Forked, Drop
    <3> QED BY <2>1, <2>2, <3>1, <3>2, <3>3 DEF StartInv, Tokens
  <2>4. CASE Start /\ part[main] # <<>>
    <3>1. point[main] = "start" /\ UNCHANGED <<point, ends>> /\ Send(main, start)
      BY <2>4 DEF Start, At
    <3>2. PICK q, h : q = queue[start] /\ h = part[main]
      OBVIOUS
    <3>3. PICK x \in 0 .. Len(part[main]) :
            /\ queue' = [queue EXCEPT ![start] = queue[start] \o SubSeq(part[main], 1, x)]
            /\ part' = [part EXCEPT ![main] = SubSeq(part[main], x + 1, Len(part[main]))]
      BY <1>1, <3>1, SendIs DEF RunTypes
    <3>4. queue'[start] = q \o SubSeq(h, 1, x) /\ part'[main] = SubSeq(h, x + 1, Len(h))
      BY <1>1, <3>2, <3>3 DEF RunTypes, FlowTypes
    <3>5. /\ q \in Seq(Unit) /\ h \in Seq(Unit) /\ x \in 0 .. Len(h) /\ x \in Nat /\ Len(q) \in Nat
          /\ Len(h) \in Nat
      BY <1>1, <2>2, <3>2, <3>3 DEF RunTypes, FlowTypes
    <3>6. /\ SubSeq(h, 1, x) \in Seq(Unit) /\ Len(SubSeq(h, 1, x)) = x
          /\ Len(SubSeq(h, x + 1, Len(h))) = Len(h) - x
      BY <3>5, CutFacts
    <3>7. Len(q \o SubSeq(h, 1, x)) = Len(q) + x
      BY <3>5, <3>6, ConcatProperties
    <3>8. (Len(q) + x) + (Len(h) - x) = Len(q) + Len(h)
      BY <3>5
    <3>9. Tokens' = Tokens
      BY <3>1, <3>2, <3>4, <3>6, <3>7, <3>8 DEF Tokens
    <3> QED BY <2>1, <3>1, <3>9 DEF StartInv
  <2>5. CASE Start /\ part[main] = <<>>
    <3>1. point[main] = "start" /\ point'[main] = "wait" /\ UNCHANGED <<queue, part>>
      BY <1>1, <2>5 DEF Start, At, Go, RunTypes, PlaceTypes
    <3>2. Tokens' = Tokens
      BY <2>2, <2>5, <3>1 DEF Tokens
    <3> QED BY <2>1, <2>5, <3>1, <3>2 DEF StartInv
  <2>6. CASE WaitWorkers \/ Collect \/ MainExits
    <3>1. /\ point[main] \in {"wait", "collect"} /\ point'[main] \in {"collect", "done", "failed"}
      BY <1>1, <2>6 DEF WaitWorkers, Collect, MainExits, Fail, Exit, At, Go, RunTypes, PlaceTypes
    <3>2. queue'[start] = queue[start]
      BY <2>6, <3>1, MainQueues DEF Start, At
    <3>3. Tokens' = Tokens
      BY <3>1, <3>2 DEF Tokens
    <3> QED BY <2>1, <3>1, <3>3 DEF StartInv
  <2> QED BY <1>3, <2>3, <2>4, <2>5, <2>6 DEF MainStep
<1> QED BY <1>2, <1>3

-----------------------------------------------------------------------------
(* Nothing went wrong, and nothing does.                                   *)
LEMMA NoFaultStep ==
  ASSUME RunTypes, \A w \in Worker : SessionInv(w), NoFault, RunNext, ~fault'
  PROVE  NoFault'
<1>1. (\A w \in Worker : Finished(w) /\ ResultKept(w)) /\ StartInv /\ point[main] # "failed"
  BY DEF NoFault
<1>2. MainStep \/ \E w \in Worker : WorkerStep(w) \/ HelperStep(w)
  BY NoFaultSteps
<1>3. CASE MainStep
  <2>1. \A w \in Worker : Finished(w)' /\ ResultKept(w)'
    BY <1>1, <1>3, FinishedFork, FinishedMain, ResultMain
  <2> QED BY <1>1, <1>3, <2>1, StartMain, MainSucceeds DEF NoFault
<1>4. ASSUME NEW v \in Worker, WorkerStep(v) PROVE NoFault'
  <2>1. ~BarrierBroken(v)
    BY <1>1, BarrierHolds
  <2>2. \A w \in Worker \ {v} : Finished(w)' /\ ResultKept(w)'
    BY <1>1, <1>4, SessionOfOther, FinishedKept, ResultOthers
  <2>3. Finished(v)' /\ ResultKept(v)'
    BY <1>1, <1>4, <2>1, FinishedWorker, ResultWorker
  <2>4. StartInv' /\ point'[main] # "failed"
    BY <1>1, <1>4, StartWorker, MainOfOthers DEF MainKept
  <2> QED BY <2>2, <2>3, <2>4 DEF NoFault
<1>5. ASSUME NEW v \in Worker, HelperStep(v) PROVE NoFault'
  <2>1. \A w \in Worker \ {v} : Finished(w)'
    BY <1>1, <1>5, SessionOfOther, FinishedKept
  <2>2. Finished(v)' /\ \A w \in Worker : ResultKept(w)'
    BY <1>1, <1>5, FinishedHelper, ResultOthers
  <2>3. StartInv' /\ point'[main] # "failed"
    BY <1>1, <1>5, StartHelper, MainOfOthers DEF MainKept
  <2> QED BY <2>1, <2>2, <2>3 DEF NoFault
<1> QED BY <1>2, <1>3, <1>4, <1>5

-----------------------------------------------------------------------------
(* The invariant.                                                          *)
LEMMA RunInvInit ==
  ASSUME RunInit
  PROVE  RunInv
<1>1. /\ main \in Process /\ start \in Pipes
      /\ \A w \in Worker : worker(w) \in Process \ {main} /\ helper(w) \in Process \ {main}
      /\ \A w \in Worker : \A kind \in {"result", "command", "data"} : PipeOf(kind, w) \in Pipes
  BY WhoIsWho, PipeIsPipe
<1>2. <<>> \in Seq(Unit) /\ <<>> \in Seq(Seq(Unit)) /\ Len(<<>>) = 0
  OBVIOUS
<1>3. /\ point[main] = "fork" /\ turn[main] = 1
      /\ \A w \in Worker : /\ point[worker(w)] = "none" /\ point[helper(w)] = "none"
                           /\ turn[worker(w)] = 0 /\ turn[helper(w)] = 0
                           /\ part[worker(w)] = <<>> /\ part[helper(w)] = <<>>
                           /\ queue[PipeOf("command", w)] = <<>> /\ queue[PipeOf("data", w)] = <<>>
                           /\ queue[PipeOf("result", w)] = <<>> /\ window[w] = "NONE" /\ restored[w] = <<>>
  BY <1>1 DEF RunInit
<1>4. RunTypes
  <2>1. point \in [Process -> Places]
    BY DEF RunInit, Places, MainPlaces, WorkerPlaces, BeforePrefetch
  <2>2. PlaceTypes
    BY <1>3, <2>1 DEF PlaceTypes, MainPlaces, WorkerPlaces, HelperPlaces, BeforePrefetch
  <2>3. FlowTypes
    BY <1>2 DEF RunInit, FlowTypes
  <2>4. EndsTypes
    BY <1>1 DEF RunInit, EndsTypes, EndsOf, NoEnds
  <2>5. DataTypes
    <3>1. window \in [Worker -> Windows] /\ restored \in [Worker -> Seq(Seq(Unit))]
      BY <1>2 DEF RunInit, Windows
    <3>2. turn \in [Process -> Nat] /\ turn[main] # 0
      BY <1>3 DEF RunInit
    <3>3. mode \in {"student", "prefetch"} /\ fault \in BOOLEAN
      BY DEF RunInit
    <3> QED BY <3>1, <3>2, <3>3 DEF DataTypes
  <2> QED BY <2>2, <2>3, <2>4, <2>5 DEF RunTypes
<1>5. \A w \in Worker : SessionInv(w)
  BY <1>2, <1>3 DEF SessionInv, Handed, Fresh, Protocol, Unused, EndsHeld, Prefetching, Due, Here, There,
     Asking, Coming
<1>6. Unforked
  BY <1>3 DEF Unforked
<1>7. \A w \in Worker : Finished(w) /\ ResultKept(w)
  BY <1>2, <1>3, RunConst DEF Finished, ResultKept, Result
<1>8. main \in ends[start].w
  BY <1>1 DEF RunInit, start
<1>9. NoFault
  BY <1>3, <1>7, <1>8 DEF NoFault, StartInv
<1> QED BY <1>4, <1>5, <1>6, <1>9 DEF RunInv

LEMMA RunInvStep ==
  ASSUME RunInv, [RunNext]_runVars
  PROVE  RunInv'
<1>1. CASE RunNext
  <2>1. RunTypes'
    BY <1>1, PlaceTypesStep, FlowTypesStep, EndsTypesStep, DataTypesStep DEF RunInv, RunTypes
  <2>2. \A w \in Worker : SessionInv(w)'
    BY <1>1, SessionsStep DEF RunInv
  <2>3. Unforked'
    BY <1>1, UnforkedStep DEF RunInv
  <2>4. fault' \/ NoFault'
    BY <1>1, NoFaultStep, NoFaultSteps DEF RunInv
  <2> QED BY <2>1, <2>2, <2>3, <2>4 DEF RunInv
<1>2. CASE UNCHANGED runVars
  <2>1. UNCHANGED <<mode, queue, ends, point, turn, part, phase, open, stored, window, restored, fault>>
    BY <1>2 DEF runVars, session
  <2>2. RunTypes'
    BY <2>1 DEF RunInv, RunTypes, PlaceTypes, FlowTypes, EndsTypes, DataTypes
  <2>3. \A w \in Worker : Kept(w)
    BY <2>1 DEF Kept, Asking, Coming
  <2>4. \A w \in Worker : SessionInv(w)'
    BY <2>3, KeptSession DEF RunInv
  <2>5. Unforked'
    BY <2>1 DEF RunInv, Unforked
  <2>6. NoFault => NoFault'
    <3> SUFFICES ASSUME NoFault PROVE NoFault'
      OBVIOUS
    <3>1. \A w \in Worker : Finished(w)'
      BY <2>3, FinishedKept DEF NoFault
    <3>2. \A w \in Worker : ResultKept(w)'
      BY <2>1 DEF NoFault, ResultKept, Result, Here, Uncollected, Collected
    <3>3. StartInv' /\ point'[main] # "failed"
      BY <2>1 DEF NoFault, StartInv, Waiting, Tokens, Here
    <3> QED BY <3>1, <3>2, <3>3 DEF NoFault
  <2> QED BY <2>1, <2>2, <2>4, <2>5, <2>6 DEF RunInv
<1> QED BY <1>1, <1>2

LEMMA RunInvariance == RunSpec => []RunInv
<1>1. RunInit => RunInv
  BY RunInvInit
<1>2. RunInv /\ [RunNext]_runVars => RunInv'
  BY RunInvStep
<1> QED BY <1>1, <1>2, PTL DEF RunSpec

(* The records a session hands out are those it stored, in order and       *)
(* whole, however its helper's replies were cut up on their way and        *)
(* whatever failed (ai_student_kv_restore, ai_student_prefetch_wait).      *)
THEOREM PrefetchIsFaithful == RunSpec => []RestoredIsStored
<1>1. RunInv => RestoredIsStored
  BY DEF RunInv, SessionInv, Handed, RestoredIsStored
<1> QED BY <1>1, RunInvariance, PTL

(* A run fails only if some call of it failed, or a check that the parent  *)
(* makes of its figures, such as of the elapsed ticks (run_path): no order *)
(* in which processes close their pipe ends, exit and are waited for makes *)
(* it.                                                                     *)
THEOREM RunsDoNotFail == RunSpec => []FailsOnlyOnFault
<1>1. RunInv => FailsOnlyOnFault
  BY WhoIsWho DEF RunInv, NoFault, Finished, FailsOnlyOnFault
<1> QED BY <1>1, RunInvariance, PTL
=============================================================================
