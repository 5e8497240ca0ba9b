---------------------------- MODULE DriverProofs ----------------------------
(***************************************************************************)
(* Proofs about the two device drivers.  The disk driver, for every number *)
(* of callers, descriptors and values of a ring index; then the console    *)
(* and its UART, for every number of processes, sizes of cons.buf and      *)
(* uart_tx_buf, and range of a counter that the size of cons.buf divides.  *)
(***************************************************************************)
EXTENDS VirtioDisk, Console, FiniteSetTheorems, SequenceTheorems, TLAPS

(* Every variable has its type.                                            *)
Types ==
  /\ free \in SUBSET Desc /\ serving \in SUBSET Desc
  /\ next \in [Desc -> Desc \cup {None}]
  /\ header \in [Desc -> Proc \cup {None}] /\ info \in [Desc -> Proc \cup {None}]
  /\ status \in [Desc -> {0, 255}]
  /\ avail \in [Desc -> Desc \cup {None}] /\ used \in [Desc -> Desc \cup {None}]
  /\ availIdx \in 0 .. IdxSpan - 1 /\ usedIdx \in 0 .. IdxSpan - 1
  /\ seenIdx \in 0 .. IdxSpan - 1 /\ takenIdx \in 0 .. IdxSpan - 1
  /\ busy \in [Proc -> BOOLEAN]
  /\ inIntr \in BOOLEAN /\ panicked \in BOOLEAN
  /\ raised \in BOOLEAN /\ interrupt \in BOOLEAN
  /\ pc \in [Proc -> {"out", "call", "free", "freed", "disk", "done"}]
  /\ head \in [Proc -> Desc \cup {None}]

(* A caller has a request from Queue to Finish, and info[] knows whose it  *)
(* is; it is over when the device has written its status.                  *)
Requests ==
  \A p \in Proc :
    /\ head[p] # None <=> pc[p] \in {"disk", "done"}
    /\ head[p] # None => info[head[p]] = p
    /\ head[p] = None => ~busy[p]
    /\ head[p] # None /\ ~busy[p] => status[head[p]] = 0

(* A descriptor is free or in the chain of one request.                    *)
InChain(p, d) == head[p] # None /\ d \in Chain(head[p])
OneOwner ==
  \A d \in Desc :
    /\ d \in free <=> \A p \in Proc : ~InChain(p, d)
    /\ \A p, q \in Proc : InChain(p, d) /\ InChain(q, d) => p = q
Chained == \A p \in Proc : head[p] # None => next[head[p]] \in Desc \ {head[p]}

(* Descriptor i begins a request in progress, whose status is s.           *)
Pending(i, s) ==
  /\ i \in Desc /\ info[i] \in Proc
  /\ head[info[i]] = i /\ busy[info[i]] /\ status[i] = s

(* What is in the rings and what the device works on are different         *)
(* requests in progress; those in the used ring have been carried out.     *)
InRing(ring, i) == \E j \in Desc : ring[j] = i
Entries(ring, s) ==
  /\ \A j \in Desc : ring[j] # None => Pending(ring[j], s)
  /\ \A j, k \in Desc : ring[j] # None /\ ring[j] = ring[k] => j = k
Places ==
  /\ Entries(avail, 255) /\ Entries(used, 0)
  /\ \A i \in serving : Pending(i, 255) /\ ~InRing(avail, i)

(* The entries between two indices of a ring: from slot t to the one       *)
(* before slot a.                                                          *)
Between(t, a) == {j \in Desc : IF t <= a THEN t <= j /\ j < a ELSE t <= j \/ j < a}
Apart(t, a) == IF t <= a THEN a - t ELSE a - t + NUM
Behind(from, to) == IF from <= to THEN to - from ELSE to - from + IdxSpan
Window(ring, from, to) ==
  /\ \A j \in Desc : ring[j] # None <=> j \in Between(from % NUM, to % NUM)
  /\ Behind(from, to) = Apart(from % NUM, to % NUM)
Windows == Window(avail, takenIdx, availIdx) /\ Window(used, seenIdx, usedIdx)

IInv == Types /\ Requests /\ OneOwner /\ Chained /\ Places /\ Windows /\ ~panicked

-----------------------------------------------------------------------------
(* What is assumed of the constants, as facts.                             *)
LEMMA ConstFacts ==
  /\ NUM \in Nat \ {0} /\ IdxSpan \in Nat \ {0} /\ IdxSpan % NUM = 0 /\ NUM <= IdxSpan
  /\ None \notin Proc /\ None \notin Desc /\ 0 \in 0 .. IdxSpan - 1
  /\ IsFiniteSet(Desc) /\ Cardinality(Desc) = NUM
<1>1. NUM \in Nat \ {0} /\ IdxSpan \in Nat \ {0} /\ IdxSpan % NUM = 0
  BY VirtioAssumption DEF VirtioAssumption
<1>2. NUM <= IdxSpan
  <2>1. PICK n \in Nat \ {0}, m \in Nat \ {0} : n = NUM /\ m = IdxSpan /\ m % n = 0
    BY <1>1
  <2>2. m < n => m % n = m
    OBVIOUS
  <2> QED BY <2>1, <2>2
<1>3. None \notin Proc /\ None \notin Desc
  BY VirtioAssumption DEF VirtioAssumption, Desc
<1>4. IsFiniteSet(Desc) /\ Cardinality(Desc) = NUM
  <2>1. NUM - 1 \in Int /\ ~(0 > NUM - 1) /\ (NUM - 1) - 0 + 1 = NUM
    BY <1>1
  <2> QED BY <2>1, FS_Interval DEF Desc
<1> QED BY <1>1, <1>2, <1>3, <1>4

(* Remainders are unique.                                                  *)
LEMMA ModUnique ==
  ASSUME NEW P \in Nat \ {0}, NEW m \in Int, NEW x \in 0 .. P - 1
  PROVE  (P * m + x) % P = x
OBVIOUS

(* Quotient and remainder.                                                 *)
LEMMA ModIs ==
  ASSUME NEW P \in Nat \ {0}, NEW x \in Int
  PROVE  /\ x % P \in 0 .. P - 1 /\ x \div P \in Int
         /\ x = P * (x \div P) + (x % P)
OBVIOUS

(* The next index without a remainder.                                     *)
LEMMA IncIs ==
  ASSUME NEW x \in 0 .. IdxSpan - 1
  PROVE  /\ Inc(x) = IF x = IdxSpan - 1 THEN 0 ELSE x + 1
         /\ Inc(x) \in 0 .. IdxSpan - 1
<1>1. IdxSpan \in Nat \ {0}
  BY ConstFacts
<1>2. CASE x = IdxSpan - 1
  <2>1. (IdxSpan * 1 + 0) % IdxSpan = 0
    BY <1>1, ModUnique
  <2>2. x + 1 = IdxSpan * 1 + 0
    BY <1>1, <1>2
  <2> QED BY <1>1, <1>2, <2>1, <2>2 DEF Inc
<1>3. CASE x # IdxSpan - 1
  <2>1. x + 1 \in 0 .. IdxSpan - 1
    BY <1>1, <1>3
  <2>2. (IdxSpan * 0 + (x + 1)) % IdxSpan = x + 1
    BY <1>1, <2>1, ModUnique
  <2>3. x + 1 = IdxSpan * 0 + (x + 1)
    BY <1>1
  <2> QED BY <1>1, <1>3, <2>1, <2>2, <2>3 DEF Inc
<1> QED BY <1>2, <1>3

(* The slot of the next index is the next slot, also where the index wraps. *)
LEMMA SlotInc ==
  ASSUME NEW x \in 0 .. IdxSpan - 1
  PROVE  /\ x % NUM \in Desc
         /\ Inc(x) % NUM = IF x % NUM = NUM - 1 THEN 0 ELSE (x % NUM) + 1
<1> DEFINE q == x \div NUM
           s == x % NUM
           k == IdxSpan \div NUM
<1>1. NUM \in Nat \ {0} /\ IdxSpan \in Nat \ {0} /\ x \in Int
  BY ConstFacts
<1>2. x = NUM * q + s /\ q \in Int /\ s \in 0 .. NUM - 1
  BY <1>1, ModIs
<1>3. IdxSpan = NUM * k /\ k \in Int
  BY <1>1, ConstFacts, ModIs
<1> HIDE DEF q, s, k
<1>4. CASE x = IdxSpan - 1
  <2>1. x = NUM * (k - 1) + (NUM - 1)
    BY <1>1, <1>3, <1>4
  <2>2. NUM - 1 \in 0 .. NUM - 1 /\ k - 1 \in Int
    BY <1>1, <1>3
  <2>3. (NUM * (k - 1) + (NUM - 1)) % NUM = NUM - 1
    BY <1>1, <2>2, ModUnique
  <2>4. s = NUM - 1
    BY <2>1, <2>3 DEF s
  <2>5. (NUM * 0 + 0) % NUM = 0
    BY <1>1, ModUnique
  <2>6. Inc(x) % NUM = 0
    BY <1>1, <1>4, <2>5, IncIs
  <2> QED BY <1>2, <2>4, <2>6 DEF s, Desc
<1>5. CASE x # IdxSpan - 1 /\ s = NUM - 1
  <2>1. x + 1 = NUM * (q + 1) + 0
    BY <1>1, <1>2, <1>5
  <2>2. (NUM * (q + 1) + 0) % NUM = 0
    BY <1>1, <1>2, ModUnique
  <2>3. Inc(x) = x + 1
    BY <1>5, IncIs
  <2> QED BY <1>2, <1>5, <2>1, <2>2, <2>3 DEF s, Desc
<1>6. CASE x # IdxSpan - 1 /\ s # NUM - 1
  <2>1. x + 1 = NUM * q + (s + 1) /\ s + 1 \in 0 .. NUM - 1
    BY <1>1, <1>2, <1>6
  <2>2. (NUM * q + (s + 1)) % NUM = s + 1
    BY <1>1, <1>2, <2>1, ModUnique
  <2>3. Inc(x) = x + 1
    BY <1>6, IncIs
  <2> QED BY <1>2, <1>6, <2>1, <2>2, <2>3 DEF s, Desc
<1> QED BY <1>4, <1>5, <1>6

-----------------------------------------------------------------------------
(* An entry that is added at the end of the window.                        *)
LEMMA WindowPut ==
  ASSUME NEW ring \in [Desc -> Desc \cup {None}], NEW i \in Desc,
         NEW x \in 0 .. IdxSpan - 1, NEW y \in 0 .. IdxSpan - 1,
         Window(ring, x, y), Apart(x % NUM, y % NUM) <= NUM - 2
  PROVE  /\ Window([ring EXCEPT ![y % NUM] = i], x, Inc(y))
         /\ ring[y % NUM] = None
<1>1. /\ NUM \in Nat \ {0} /\ IdxSpan \in Nat \ {0} /\ NUM <= IdxSpan /\ None \notin Desc
  BY ConstFacts
<1>2. PICK t \in Desc, a \in Desc, b \in Desc :
        /\ t = x % NUM /\ a = y % NUM /\ b = Inc(y) % NUM
        /\ b = IF a = NUM - 1 THEN 0 ELSE a + 1
  <2>1. /\ x % NUM \in Desc /\ y % NUM \in Desc
        /\ Inc(y) % NUM = IF y % NUM = NUM - 1 THEN 0 ELSE (y % NUM) + 1
    BY SlotInc
  <2>2. Inc(y) % NUM \in Desc
    BY <1>1, <2>1 DEF Desc
  <2> QED BY <2>1, <2>2
<1>3. /\ \A j \in Desc : ring[j] # None <=> j \in Between(t, a)
      /\ Behind(x, y) = Apart(t, a) /\ Apart(t, a) <= NUM - 2
  BY <1>2 DEF Window
<1>4. a \notin Between(t, a)
  BY <1>1 DEF Between, Desc
<1>5. Between(t, b) = Between(t, a) \cup {a}
  <2> SUFFICES ASSUME NEW j \in Desc
               PROVE  j \in Between(t, b) <=> j \in Between(t, a) \/ j = a
    BY DEF Between
  <2>1. /\ NUM \in Int /\ t \in Int /\ a \in Int /\ j \in Int /\ 0 <= t /\ 0 <= j
        /\ t <= NUM - 1 /\ a <= NUM - 1 /\ j <= NUM - 1 /\ 0 <= a
    BY <1>1 DEF Desc
  <2>2. CASE a = NUM - 1
    <3>1. b = 0 /\ t > 0
      BY <1>2, <1>3, <2>1, <2>2 DEF Apart
    <3> QED BY <2>1, <2>2, <3>1 DEF Between
  <2>3. CASE a # NUM - 1 /\ t <= a
    <3>1. b = a + 1
      BY <1>2, <2>3
    <3> QED BY <2>1, <2>3, <3>1 DEF Between
  <2>4. CASE a # NUM - 1 /\ t > a
    <3>1. b = a + 1 /\ t > b
      BY <1>2, <1>3, <2>1, <2>4 DEF Apart
    <3> QED BY <2>1, <2>4, <3>1 DEF Between
  <2> QED BY <2>1, <2>2, <2>3, <2>4
<1>6. Behind(x, Inc(y)) = Apart(t, b)
  <2>1. Behind(x, Inc(y)) = Behind(x, y) + 1
    <3>1. Behind(x, y) <= IdxSpan - 2 /\ IdxSpan \in Int
      <4>1. Behind(x, y) \in Int /\ NUM \in Int /\ IdxSpan \in Int
        BY <1>1 DEF Behind
      <4> QED BY <1>1, <1>3, <4>1
    <3>2. Inc(y) = IF y = IdxSpan - 1 THEN 0 ELSE y + 1
      BY IncIs
    <3>3. CASE y = IdxSpan - 1
      BY <3>1, <3>2, <3>3 DEF Behind
    <3>4. CASE y # IdxSpan - 1
      BY <3>1, <3>2, <3>4 DEF Behind
    <3> QED BY <3>3, <3>4
  <2>2. Apart(t, b) = Apart(t, a) + 1
    BY <1>1, <1>2, <1>3 DEF Apart, Desc
  <2> QED BY <1>3, <2>1, <2>2
<1> DEFINE new == [ring EXCEPT ![a] = i]
<1>7. \A j \in Desc : new[j] # None <=> j \in Between(t, b)
  BY <1>1, <1>3, <1>5
<1> QED BY <1>2, <1>3, <1>4, <1>6, <1>7 DEF Window

(* An entry that is taken from the front of the window.                    *)
LEMMA WindowTake ==
  ASSUME NEW ring \in [Desc -> Desc \cup {None}],
         NEW x \in 0 .. IdxSpan - 1, NEW y \in 0 .. IdxSpan - 1,
         Window(ring, x, y), x # y
  PROVE  /\ Window([ring EXCEPT ![x % NUM] = None], Inc(x), y)
         /\ ring[x % NUM] \in Desc
<1>1. /\ NUM \in Nat \ {0} /\ IdxSpan \in Nat \ {0} /\ NUM <= IdxSpan /\ None \notin Desc
  BY ConstFacts
<1>2. PICK t \in Desc, a \in Desc, b \in Desc :
        /\ t = x % NUM /\ a = y % NUM /\ b = Inc(x) % NUM
        /\ b = IF t = NUM - 1 THEN 0 ELSE t + 1
  <2>1. /\ x % NUM \in Desc /\ y % NUM \in Desc
        /\ Inc(x) % NUM = IF x % NUM = NUM - 1 THEN 0 ELSE (x % NUM) + 1
    BY SlotInc
  <2>2. Inc(x) % NUM \in Desc
    BY <1>1, <2>1 DEF Desc
  <2> QED BY <2>1, <2>2
<1>3. /\ \A j \in Desc : ring[j] # None <=> j \in Between(t, a)
      /\ Behind(x, y) = Apart(t, a)
  BY <1>2 DEF Window
<1>4. Behind(x, y) > 0
  BY <1>1 DEF Behind
<1>5. t # a
  BY <1>1, <1>3, <1>4 DEF Apart, Desc
<1>6. t \in Between(t, a)
  BY <1>1, <1>5 DEF Between, Desc
<1>7. Between(b, a) = Between(t, a) \ {t}
  <2> SUFFICES ASSUME NEW j \in Desc
               PROVE  j \in Between(b, a) <=> j \in Between(t, a) /\ j # t
    BY DEF Between
  <2>1. /\ NUM \in Int /\ t \in Int /\ a \in Int /\ j \in Int /\ 0 <= a /\ 0 <= j
        /\ t <= NUM - 1 /\ a <= NUM - 1 /\ j <= NUM - 1
    BY <1>1 DEF Desc
  <2>2. CASE t = NUM - 1
    BY <1>2, <1>5, <2>1, <2>2 DEF Between
  <2>3. CASE t # NUM - 1
    BY <1>2, <1>5, <2>1, <2>3 DEF Between
  <2> QED BY <2>2, <2>3
<1>8. Behind(Inc(x), y) = Apart(b, a)
  <2>1. Behind(Inc(x), y) = Behind(x, y) - 1
    BY <1>1, <1>4, IncIs DEF Behind
  <2>2. Apart(b, a) = Apart(t, a) - 1
    <3>1. /\ NUM \in Int /\ t \in Int /\ a \in Int /\ 0 <= a
          /\ t <= NUM - 1 /\ a <= NUM - 1
      BY <1>1 DEF Desc
    <3>2. CASE t = NUM - 1
      BY <1>2, <1>5, <3>1, <3>2 DEF Apart
    <3>3. CASE t # NUM - 1
      BY <1>2, <1>5, <3>1, <3>3 DEF Apart
    <3> QED BY <3>2, <3>3
  <2> QED BY <1>3, <2>1, <2>2
<1> DEFINE new == [ring EXCEPT ![t] = None]
<1>9. \A j \in Desc : new[j] # None <=> j \in Between(b, a)
  BY <1>1, <1>3, <1>7
<1>10. ring[t] \in Desc
  BY <1>3, <1>6
<1> QED BY <1>2, <1>3, <1>8, <1>9, <1>10 DEF Window

(* A ring never fills up: two descriptors of a request, or two that are    *)
(* free, are not among the entries, which are all different.               *)
LEMMA RoomInRing ==
  ASSUME NEW ring \in [Desc -> Desc \cup {None}],
         NEW x \in 0 .. IdxSpan - 1, NEW y \in 0 .. IdxSpan - 1, Window(ring, x, y),
         \A j, k \in Desc : ring[j] # None /\ ring[j] = ring[k] => j = k,
         NEW d \in Desc, NEW g \in Desc, d # g, \A j \in Desc : ring[j] \notin {d, g}
  PROVE  Apart(x % NUM, y % NUM) <= NUM - 2
<1>1. /\ NUM \in Nat \ {0} /\ IdxSpan \in Nat \ {0} /\ NUM <= IdxSpan /\ None \notin Desc
      /\ IsFiniteSet(Desc) /\ Cardinality(Desc) = NUM
  BY ConstFacts
<1>2. PICK t \in Desc, a \in Desc : t = x % NUM /\ a = y % NUM
  BY SlotInc
<1> SUFFICES ASSUME Apart(t, a) > NUM - 2 PROVE FALSE
  BY <1>1, <1>2 DEF Apart, Desc
<1>3. \A j \in Desc \ {a} : j \in Between(t, a)
  BY <1>1 DEF Between, Apart, Desc
<1>4. \A j \in Desc \ {a} : ring[j] \in Desc \ {d, g}
  BY <1>2, <1>3 DEF Window
<1> DEFINE S == Desc \ {a}
           Y == (Desc \ {d}) \ {g}
           f == [j \in S |-> ring[j]]
<1>5. IsFiniteSet(S) /\ Cardinality(S) = NUM - 1
  BY <1>1, FS_RemoveElement
<1>6. IsFiniteSet(Y) /\ Cardinality(Y) = NUM - 2
  <2>1. IsFiniteSet(Desc \ {d}) /\ Cardinality(Desc \ {d}) = NUM - 1
    BY <1>1, FS_RemoveElement
  <2>2. g \in Desc \ {d}
    OBVIOUS
  <2>3. IsFiniteSet(Y) /\ Cardinality(Y) = NUM - 1 - 1
    BY <2>1, <2>2, FS_RemoveElement
  <2> QED BY <1>1, <2>3
<1>7. f \in [S -> Y]
  BY <1>4
<1>8. Cardinality(Y) < Cardinality(S)
  BY <1>1, <1>5, <1>6
<1>9. \A j, k \in S : j # k => f[j] # f[k]
  BY <1>1, <1>4
<1> HIDE DEF S, Y, f
<1>10. \E j, k \in S : j # k /\ f[j] = f[k]
  BY <1>5, <1>6, <1>7, <1>8, FS_PigeonHole
<1> QED BY <1>9, <1>10

-----------------------------------------------------------------------------
(* The lowest of some descriptors is one of them.                          *)
LEMMA MinIs ==
  ASSUME NEW S \in SUBSET Desc, S # {}
  PROVE  Min(S) \in S
<1>1. \E x \in S : \A y \in S : ~(y < x)
  <2>1. S \subseteq Nat
    BY ConstFacts DEF Desc
  <2>2. IsWellFoundedOn(OpToRel(<, Nat), Nat)
    BY NatLessThanWellFounded
  <2>3. \E x \in S : \A y \in S : ~(<<y, x>> \in OpToRel(<, Nat))
    BY <2>1, <2>2, WFMin
  <2>4. \A x, y \in Nat : y < x => <<y, x>> \in OpToRel(<, Nat)
    BY DEF OpToRel
  <2> QED BY <2>1, <2>3, <2>4
<1>2. \E x \in S : \A y \in S : x <= y
  BY <1>1, ConstFacts DEF Desc
<1> QED BY <1>2 DEF Min

(* alloc3_desc finds three different descriptors.                          *)
LEMMA ThreeFree ==
  ASSUME free \in SUBSET Desc, Cardinality(free) >= 3
  PROVE  /\ First \in free /\ Second \in free /\ Third \in free
         /\ First # Second /\ First # Third /\ Second # Third
<1>1. IsFiniteSet(free)
  BY ConstFacts, FS_Subset
<1>2. First \in free
  <2>1. free # {}
    BY FS_EmptySet
  <2> QED BY <2>1, MinIs DEF First
<1>3. Second \in free \ {First}
  <2>1. Cardinality(free \ {First}) = Cardinality(free) - 1 /\ IsFiniteSet(free \ {First})
    BY <1>1, <1>2, FS_RemoveElement
  <2>2. free \ {First} # {}
    BY <1>1, <2>1, FS_EmptySet, FS_CardinalityType
  <2> QED BY <2>2, MinIs DEF Second
<1>4. Third \in free \ {First, Second}
  <2>1. Cardinality(free \ {First}) = Cardinality(free) - 1 /\ IsFiniteSet(free \ {First})
    BY <1>1, <1>2, FS_RemoveElement
  <2>2. Cardinality((free \ {First}) \ {Second}) = Cardinality(free) - 1 - 1
    BY <1>3, <2>1, FS_RemoveElement
  <2>3. (free \ {First}) \ {Second} = free \ {First, Second}
    OBVIOUS
  <2>4. Cardinality(free \ {First, Second}) # 0
    <3>1. Cardinality(free) \in Nat
      BY <1>1, FS_CardinalityType
    <3> QED BY <2>2, <2>3, <3>1
  <2>5. free \ {First, Second} # {}
    BY <2>4, FS_EmptySet
  <2> QED BY <2>5, MinIs DEF Third
<1> QED BY <1>2, <1>3, <1>4

(* A chain contains its first descriptor and is as long as next[] says.    *)
LEMMA ChainIs ==
  ASSUME next \in [Desc -> Desc \cup {None}], NEW i \in Desc
  PROVE  /\ Chain(i) \subseteq Desc /\ i \in Chain(i)
         /\ next[i] \in Desc => next[i] \in Chain(i)
BY ConstFacts DEF Chain

(* What a step does to other descriptors does not change a chain.          *)
LEMMA ChainKept ==
  ASSUME next \in [Desc -> Desc \cup {None}], NEW i \in Desc,
         \A d \in Chain(i) : next'[d] = next[d]
  PROVE  Chain(i)' = Chain(i)
<1>1. next'[i] = next[i]
  BY DEF Chain
<1>2. {next'[d] : d \in {i}} = {next[d] : d \in {i}}
  BY <1>1
<1>3. \A j \in {next[d] : d \in {i}} \ {None} : next'[j] = next[j]
  BY DEF Chain
<1>4. {next'[j] : j \in {next[d] : d \in {i}} \ {None}}
        = {next[j] : j \in {next[d] : d \in {i}} \ {None}}
  BY <1>3
<1> QED BY <1>2, <1>4 DEF Chain

(* The chain that Queue makes.                                             *)
LEMMA NewChain ==
  ASSUME NEW i \in Desc, NEW j \in Desc, NEW k \in Desc, i # j, i # k, j # k,
         next \in [Desc -> Desc \cup {None}],
         next' = [next EXCEPT ![i] = j, ![j] = k, ![k] = None]
  PROVE  Chain(i)' = {i, j, k} /\ next'[i] = j
<1>1. next'[i] = j /\ next'[j] = k /\ None \notin Desc
  BY ConstFacts
<1>2. {next'[d] : d \in {i}} \ {None} = {j}
  BY <1>1
<1>3. {next'[d] : d \in {j}} \ {None} = {k}
  BY <1>1
<1> QED BY <1>1, <1>2, <1>3 DEF Chain

-----------------------------------------------------------------------------
(* What the steps that change requests do, in terms of the request.        *)

(* Submit: a new request with three free descriptors.                      *)
Submitted(p, i, j, k) ==
  /\ i # j /\ i # k /\ j # k
  /\ head[p] = None /\ pc' = [pc EXCEPT ![p] = "disk"]
  /\ free' = free \ {i, j, k}
  /\ next' = [next EXCEPT ![i] = j, ![j] = k, ![k] = None]
  /\ header' = [header EXCEPT ![i] = p] /\ info' = [info EXCEPT ![i] = p]
  /\ status' = [status EXCEPT ![i] = 255] /\ busy' = [busy EXCEPT ![p] = TRUE]
  /\ avail' = [avail EXCEPT ![availIdx % NUM] = i] /\ availIdx' = Inc(availIdx)
  /\ head' = [head EXCEPT ![p] = i]
  /\ UNCHANGED <<used, usedIdx, seenIdx, device, inIntr, panicked>>

(* The three are those that alloc3_desc finds.                            *)
LEMMA SubmitFacts ==
  ASSUME IInv, NEW p \in Proc, Submit(p)
  PROVE  \E i, j, k \in free : Submitted(p, i, j, k)
<1>1. free \in SUBSET Desc /\ Cardinality(free) >= 3
  BY DEF IInv, Types, Submit, Queue
<1>2. head[p] = None
  BY DEF IInv, Requests, Submit, Queue
<1>3. /\ First \in free /\ Second \in free /\ Third \in free
      /\ First # Second /\ First # Third /\ Second # Third
  BY <1>1, ThreeFree
<1> QED BY <1>2, <1>3 DEF Submit, Queue, Submitted

(* Finish: the request of p is over and its descriptors are free.          *)
Finished(p, i) ==
  /\ head[p] = i /\ info[i] = p /\ ~busy[p] /\ status[i] = 0
  /\ Chain(i) \subseteq Desc /\ i \in Chain(i) /\ Chain(i) \cap free = {}
  /\ pc' = [q \in Proc |-> IF q = p THEN "out"
                           ELSE IF pc[q] = "free" THEN "freed" ELSE pc[q]]
  /\ panicked' = FALSE /\ free' = free \cup Chain(i)
  /\ next' = [d \in Desc |-> IF d \in Chain(i) THEN None ELSE next[d]]
  /\ header' = [d \in Desc |-> IF d \in Chain(i) THEN None ELSE header[d]]
  /\ info' = [info EXCEPT ![i] = None] /\ head' = [head EXCEPT ![p] = None]
  /\ UNCHANGED <<status, busy, rings, device, inIntr>>

(* No descriptor of the chain is free, so nothing panics.                  *)
LEMMA FinishFacts ==
  ASSUME IInv, NEW p \in Proc, Finish(p)
  PROVE  \E i \in Desc : Finished(p, i)
<1>1. Types /\ Requests /\ OneOwner
  BY DEF IInv
<1>2. head[p] \in Desc /\ ~busy[p]
  BY <1>1 DEF Types, Requests, Finish, FreeChain
<1>3. info[head[p]] = p /\ status[head[p]] = 0
  BY <1>1, <1>2, ConstFacts DEF Requests
<1>4. Chain(head[p]) \subseteq Desc /\ head[p] \in Chain(head[p])
  BY <1>1, <1>2, ChainIs DEF Types
<1>5. Chain(head[p]) \cap free = {}
  BY <1>1, <1>2, <1>4, ConstFacts DEF OneOwner, InChain
<1>6. pc' = [q \in Proc |-> IF q = p THEN "out"
                            ELSE IF pc[q] = "free" THEN "freed" ELSE pc[q]]
  BY DEF Finish, Wake
<1> QED BY <1>2, <1>3, <1>4, <1>5, <1>6 DEF Finish, FreeChain, Finished

(* A turn of the handler's loop: the answer is to a request in progress    *)
(* that the device has carried out.                                        *)
Answered(p, i) ==
  /\ used[seenIdx % NUM] = i /\ info[i] = p
  /\ head[p] = i /\ busy[p] /\ status[i] = 0
  /\ busy' = [busy EXCEPT ![p] = FALSE]
  /\ pc' = [pc EXCEPT ![p] = IF @ = "disk" THEN "done" ELSE @]
  /\ used' = [used EXCEPT ![seenIdx % NUM] = None] /\ seenIdx' = Inc(seenIdx)
  /\ UNCHANGED <<free, next, header, info, status, head, avail, availIdx, usedIdx,
                 device, inIntr, panicked>>

(* The entry that the handler reads is the oldest of the used ring.        *)
LEMMA AnswerFacts ==
  ASSUME IInv, IntrAnswer
  PROVE  \E i \in Desc, p \in Proc : Answered(p, i)
<1>1. Types /\ Places /\ Windows
  BY DEF IInv
<1>2. used[seenIdx % NUM] \in Desc
  BY <1>1, WindowTake DEF Types, Windows, IntrAnswer
<1>3. Pending(used[seenIdx % NUM], 0)
  <2>1. seenIdx % NUM \in Desc
    BY <1>1, SlotInc DEF Types
  <2> QED BY <1>1, <1>2, <2>1, ConstFacts DEF Places, Entries
<1> QED BY <1>2, <1>3 DEF Pending, IntrAnswer, Answered

(* The device takes the oldest entry of the avail ring.                    *)
Taken(i) ==
  /\ avail[takenIdx % NUM] = i /\ Pending(i, 255)
  /\ takenIdx' = Inc(takenIdx) /\ serving' = serving \cup {i}
  /\ avail' = [avail EXCEPT ![takenIdx % NUM] = None]
  /\ UNCHANGED <<driver, availIdx, used, usedIdx, seenIdx, raised, interrupt,
                 inIntr, panicked, pc>>

(* The entry that the device reads is a request in progress.               *)
LEMMA TakeFacts ==
  ASSUME IInv, DeviceTake
  PROVE  \E i \in Desc : Taken(i)
<1>1. Types /\ Places /\ Windows
  BY DEF IInv
<1>2. avail[takenIdx % NUM] \in Desc
  BY <1>1, WindowTake DEF Types, Windows, DeviceTake
<1>3. Pending(avail[takenIdx % NUM], 255)
  <2>1. takenIdx % NUM \in Desc
    BY <1>1, SlotInc DEF Types
  <2> QED BY <1>1, <1>2, <2>1, ConstFacts DEF Places, Entries
<1> QED BY <1>2, <1>3 DEF DeviceTake, Taken

(* Steps that change no request, no descriptor and no ring.                *)
Quiet ==
  /\ UNCHANGED <<driver, rings, takenIdx, serving, panicked>>
  /\ inIntr' \in BOOLEAN /\ raised' \in BOOLEAN /\ interrupt' \in BOOLEAN
  /\ pc' \in [Proc -> {"out", "call", "free", "freed", "disk", "done"}]
  /\ \A q \in Proc : pc'[q] \in {"disk", "done"} <=> pc[q] \in {"disk", "done"}

(* Every other step of the specification is quiet.                         *)
LEMMA StepCases ==
  ASSUME Types, [Next]_vars
  PROVE  \/ Quiet
         \/ \E p \in Proc : Submit(p)
         \/ \E p \in Proc : Finish(p)
         \/ IntrAnswer \/ DeviceTake
         \/ \E i \in Desc : DeviceServe(i)
<1> USE DEF Types, device
<1>1. ASSUME NEW p \in Proc, Call(p) PROVE Quiet
  BY <1>1 DEF Call, Quiet
<1>2. ASSUME NEW p \in Proc, NoDescriptors(p) PROVE Quiet
  <2>1. CASE pc' = [pc EXCEPT ![p] = "free"]
    BY <1>2, <2>1 DEF NoDescriptors, Quiet
  <2>2. CASE Wake("free", "freed", p, "free")
    BY <1>2, <2>2 DEF NoDescriptors, Quiet, Wake
  <2> QED BY <1>2, <2>1, <2>2 DEF NoDescriptors
<1>3. ASSUME NEW p \in Proc, NotYet(p) PROVE Quiet
  BY <1>3 DEF NotYet, Quiet
<1>4. ASSUME NEW p \in Proc, Kill(p) PROVE Quiet
  BY <1>4 DEF Kill, Quiet
<1>5. ASSUME Intr PROVE Quiet
  BY <1>5 DEF Intr, Quiet
<1>6. ASSUME IntrEnd PROVE Quiet
  BY <1>6 DEF IntrEnd, Quiet
<1>7. ASSUME DeviceInterrupt PROVE Quiet
  BY <1>7 DEF DeviceInterrupt, Quiet
<1>8. ASSUME UNCHANGED vars PROVE Quiet
  BY <1>8 DEF vars, Quiet
<1> QED BY <1>1, <1>2, <1>3, <1>4, <1>5, <1>6, <1>7, <1>8 DEF Next, Rw, Handler, Device

-----------------------------------------------------------------------------
(* Every step keeps types and requests, and nothing panics.                *)
LEMMA RequestsStep ==
  ASSUME IInv, [Next]_vars
  PROVE  (Types /\ Requests /\ ~panicked)'
<1>0. Types /\ Requests /\ OneOwner /\ ~panicked
  BY DEF IInv
<1> USE ConstFacts DEF driver, rings, device, Submitted, Finished, Answered, Taken
<1>1. CASE Quiet
  <2>1. Types' /\ ~panicked'
    BY <1>0, <1>1 DEF Quiet, Types
  <2>2. Requests'
    BY <1>0, <1>1 DEF Quiet, Types, Requests
  <2> QED BY <2>1, <2>2
<1>2. ASSUME NEW p \in Proc, Submit(p) PROVE (Types /\ Requests /\ ~panicked)'
  <2>1. PICK i, j, k \in free : Submitted(p, i, j, k)
    BY <1>2, SubmitFacts
  <2>2. availIdx % NUM \in Desc /\ Inc(availIdx) \in 0 .. IdxSpan - 1
    BY <1>0, SlotInc, IncIs DEF Types
  <2>3. Types' /\ ~panicked'
    BY <1>0, <2>1, <2>2 DEF Types
  <2>4. \A q \in Proc : head[q] # None => head[q] # i
    BY <1>0, <2>1, ChainIs DEF OneOwner, InChain, Types, Requests
  <2>5. Requests'
    BY <1>0, <2>1, <2>4 DEF Types, Requests
  <2> QED BY <2>3, <2>5
<1>3. ASSUME NEW p \in Proc, Finish(p) PROVE (Types /\ Requests /\ ~panicked)'
  <2>1. PICK i \in Desc : Finished(p, i)
    BY <1>3, FinishFacts
  <2>2. Types' /\ ~panicked'
    BY <1>0, <2>1 DEF Types
  <2>3. Requests'
    BY <1>0, <2>1 DEF Types, Requests
  <2> QED BY <2>2, <2>3
<1>4. CASE IntrAnswer
  <2>1. PICK i \in Desc, p \in Proc : Answered(p, i)
    BY <1>4, AnswerFacts
  <2>2. Inc(seenIdx) \in 0 .. IdxSpan - 1
    BY <1>0, IncIs DEF Types
  <2>3. Types' /\ ~panicked'
    BY <1>0, <2>1, <2>2 DEF Types
  <2>4. Requests'
    BY <1>0, <2>1 DEF Types, Requests
  <2> QED BY <2>3, <2>4
<1>5. CASE DeviceTake
  <2>1. PICK i \in Desc : Taken(i)
    BY <1>5, TakeFacts
  <2>2. Inc(takenIdx) \in 0 .. IdxSpan - 1
    BY <1>0, IncIs DEF Types
  <2>3. Types' /\ ~panicked'
    <3>1. UNCHANGED <<driver, availIdx, used, usedIdx, seenIdx, raised, interrupt,
                      inIntr, panicked, pc>>
      BY <2>1
    <3>2. takenIdx' \in 0 .. IdxSpan - 1 /\ serving' \in SUBSET Desc
      BY <1>0, <2>1, <2>2 DEF Types
    <3>3. avail \in [Desc -> Desc \cup {None}]
      BY <1>0 DEF Types
    <3>4. avail' = [avail EXCEPT ![takenIdx % NUM] = None]
      BY <2>1
    <3>5. avail' \in [Desc -> Desc \cup {None}]
      BY <3>3, <3>4
    <3> HIDE DEF Taken
    <3> QED BY <1>0, <3>1, <3>2, <3>5 DEF Types
  <2>4. Requests'
    BY <1>0, <2>1 DEF Types, Requests
  <2> QED BY <2>3, <2>4
<1>6. ASSUME NEW i \in Desc, DeviceServe(i) PROVE (Types /\ Requests /\ ~panicked)'
  <2>1. usedIdx % NUM \in Desc /\ Inc(usedIdx) \in 0 .. IdxSpan - 1
    BY <1>0, SlotInc, IncIs DEF Types
  <2>2. Types' /\ ~panicked'
    BY <1>0, <1>6, <2>1 DEF DeviceServe, Types
  <2>3. Requests'
    BY <1>0, <1>6 DEF DeviceServe, Types, Requests
  <2> QED BY <2>2, <2>3
<1> QED BY <1>0, <1>1, <1>2, <1>3, <1>4, <1>5, <1>6, StepCases

(* A step that leaves the head of a request and the descriptors of its     *)
(* chain alone does not change what it owns.                               *)
LEMMA OwnerKept ==
  ASSUME Types, Chained, NEW q \in Proc, head'[q] = head[q],
         \A d \in Desc : InChain(q, d) => next'[d] = next[d]
  PROVE  /\ \A d \in Desc : InChain(q, d)' <=> InChain(q, d)
         /\ head'[q] # None => next'[head'[q]] \in Desc \ {head'[q]}
<1>1. CASE head[q] = None
  BY <1>1 DEF InChain
<1>2. CASE head[q] # None
  <2>1. head[q] \in Desc /\ next \in [Desc -> Desc \cup {None}]
    BY <1>2 DEF Types
  <2>2. Chain(head[q]) \subseteq Desc /\ head[q] \in Chain(head[q])
    BY <2>1, ChainIs
  <2>3. \A d \in Chain(head[q]) : next'[d] = next[d]
    BY <1>2, <2>2 DEF InChain
  <2>4. \A i \in Desc : i = head[q] => Chain(i)' = Chain(i)
    BY <2>1, <2>3, ChainKept
  <2>5. PICK i \in Desc : i = head[q]
    BY <2>1
  <2>6. Chain(head[q])' = Chain(i)'
    BY <2>5
  <2>7. \A d \in Desc : InChain(q, d)' <=> InChain(q, d)
    BY <1>2, <2>4, <2>5, <2>6 DEF InChain
  <2>8. next[head[q]] \in Desc \ {head[q]} /\ next'[head[q]] = next[head[q]]
    BY <1>2, <2>2, <2>3 DEF Chained
  <2> QED BY <2>7, <2>8
<1> QED BY <1>1, <1>2

(* Every step keeps the owners of the descriptors apart.                   *)
LEMMA OwnersStep ==
  ASSUME IInv, [Next]_vars
  PROVE  (OneOwner /\ Chained)'
<1>0. Types /\ OneOwner /\ Chained
  BY DEF IInv
<1>1. CASE UNCHANGED <<free, next, head>>
  <2>1. \A q \in Proc : \A d \in Desc : InChain(q, d)' <=> InChain(q, d)
    BY <1>0, <1>1, OwnerKept
  <2>2. Chained'
    BY <1>0, <1>1 DEF Chained
  <2>3. OneOwner'
    BY <1>0, <1>1, <2>1 DEF OneOwner
  <2> QED BY <2>2, <2>3
<1>2. ASSUME NEW p \in Proc, Submit(p) PROVE (OneOwner /\ Chained)'
  <2>1. PICK i, j, k \in free : Submitted(p, i, j, k)
    BY <1>2, SubmitFacts
  <2>2. i \in Desc /\ j \in Desc /\ k \in Desc /\ None \notin Desc
    BY <1>0, ConstFacts DEF Types
  <2>3. \A q \in Proc, d \in Desc : InChain(q, d) => d \notin {i, j, k}
    BY <1>0, <2>2 DEF OneOwner
  <2>4. \A q \in Proc \ {p} : head'[q] = head[q]
    BY <1>0, <2>1 DEF Submitted, Types
  <2>5. \A d \in Desc \ {i, j, k} : next'[d] = next[d]
    BY <1>0, <2>1 DEF Submitted, Types
  <2>6. ASSUME NEW q \in Proc \ {p}
        PROVE  /\ \A d \in Desc : InChain(q, d)' <=> InChain(q, d)
               /\ head'[q] # None => next'[head'[q]] \in Desc \ {head'[q]}
    <3>1. \A d \in Desc : InChain(q, d) => next'[d] = next[d]
      BY <2>3, <2>5
    <3> QED BY <1>0, <2>4, <3>1, OwnerKept
  <2>7. head'[p] = i /\ head[p] = None /\ free' = free \ {i, j, k}
    BY <1>0, <2>1 DEF Submitted, Types
  <2>8. Chain(i)' = {i, j, k} /\ next'[i] = j /\ i # j
    BY <1>0, <2>1, <2>2, NewChain DEF Submitted, Types
  <2>9. \A d \in Desc : ~InChain(p, d) /\ (InChain(p, d)' <=> d \in {i, j, k})
    <3>1. Chain(head[p])' = Chain(i)'
      BY <2>7
    <3> QED BY <2>2, <2>7, <2>8, <3>1 DEF InChain
  <2>10. Chained'
    BY <2>2, <2>6, <2>7, <2>8 DEF Chained
  <2>11. OneOwner'
    <3> SUFFICES ASSUME NEW d \in Desc
                 PROVE  /\ d \in free' <=> \A q \in Proc : ~InChain(q, d)'
                        /\ \A q, o \in Proc : InChain(q, d)' /\ InChain(o, d)' => q = o
      BY DEF OneOwner
    <3>1. d \in free <=> \A q \in Proc : ~InChain(q, d)
      BY <1>0 DEF OneOwner
    <3>2. \A q, o \in Proc : InChain(q, d) /\ InChain(o, d) => q = o
      BY <1>0 DEF OneOwner
    <3>3. \A q \in Proc \ {p} : InChain(q, d)' <=> InChain(q, d)
      BY <2>6
    <3> HIDE DEF InChain, Submitted
    <3> QED BY <2>3, <2>7, <2>9, <3>1, <3>2, <3>3
  <2> QED BY <2>10, <2>11
<1>3. ASSUME NEW p \in Proc, Finish(p) PROVE (OneOwner /\ Chained)'
  <2>1. PICK i \in Desc : Finished(p, i)
    BY <1>3, FinishFacts
  <2>2. \A d \in Desc : InChain(p, d) <=> d \in Chain(i)
    BY <2>1, ConstFacts DEF Finished, InChain
  <2>3. head'[p] = None /\ free' = free \cup Chain(i) /\ Chain(i) \subseteq Desc
    BY <1>0, <2>1 DEF Finished, Types
  <2>4. \A q \in Proc \ {p} : head'[q] = head[q]
    BY <1>0, <2>1 DEF Finished, Types
  <2>5. \A d \in Desc \ Chain(i) : next'[d] = next[d]
    BY <2>1 DEF Finished
  <2>6. ASSUME NEW q \in Proc \ {p}
        PROVE  /\ \A d \in Desc : InChain(q, d)' <=> InChain(q, d)
               /\ head'[q] # None => next'[head'[q]] \in Desc \ {head'[q]}
    <3>1. \A d \in Desc : InChain(q, d) => d \notin Chain(i)
      BY <1>0, <2>2 DEF OneOwner
    <3>2. \A d \in Desc : InChain(q, d) => next'[d] = next[d]
      BY <2>5, <3>1
    <3> QED BY <1>0, <2>4, <3>2, OwnerKept
  <2>7. \A d \in Desc : ~InChain(p, d)'
    BY <2>3 DEF InChain
  <2>8. Chained'
    BY <2>3, <2>6 DEF Chained
  <2>9. OneOwner'
    <3> SUFFICES ASSUME NEW d \in Desc
                 PROVE  /\ d \in free' <=> \A q \in Proc : ~InChain(q, d)'
                        /\ \A q, o \in Proc : InChain(q, d)' /\ InChain(o, d)' => q = o
      BY DEF OneOwner
    <3>1. d \in free <=> \A q \in Proc : ~InChain(q, d)
      BY <1>0 DEF OneOwner
    <3>2. \A q, o \in Proc : InChain(q, d) /\ InChain(o, d) => q = o
      BY <1>0 DEF OneOwner
    <3>3. \A q \in Proc \ {p} : InChain(q, d)' <=> InChain(q, d)
      BY <2>6
    <3> HIDE DEF InChain
    <3> QED BY <2>2, <2>3, <2>7, <3>1, <3>2, <3>3
  <2> QED BY <2>8, <2>9
<1>4. CASE IntrAnswer
  BY <1>1, <1>4 DEF IntrAnswer
<1>5. CASE DeviceTake
  BY <1>1, <1>5 DEF DeviceTake, driver
<1>6. ASSUME NEW i \in Desc, DeviceServe(i) PROVE (OneOwner /\ Chained)'
  BY <1>1, <1>6 DEF DeviceServe
<1>7. CASE Quiet
  BY <1>1, <1>7 DEF Quiet, driver
<1> QED BY <1>0, <1>2, <1>3, <1>4, <1>5, <1>6, <1>7, StepCases

-----------------------------------------------------------------------------
(* A request in progress stays one where its caller, its owner and its     *)
(* status are left alone.                                                  *)
LEMMA PendingKept ==
  ASSUME NEW i, NEW s, Pending(i, s), info'[i] = info[i],
         head'[info[i]] = head[info[i]], busy'[info[i]] = busy[info[i]],
         status'[i] = status[i]
  PROVE  Pending(i, s)'
BY DEF Pending

(* Every step keeps the requests where they are, or moves one on.          *)
LEMMA PlacesStep ==
  ASSUME IInv, [Next]_vars
  PROVE  Places'
<1>0. Types /\ Requests /\ OneOwner /\ Places /\ Windows
  BY DEF IInv
<1>1. /\ \A j \in Desc : avail[j] # None => Pending(avail[j], 255)
      /\ \A j, k \in Desc : avail[j] # None /\ avail[j] = avail[k] => j = k
      /\ \A j \in Desc : used[j] # None => Pending(used[j], 0)
      /\ \A j, k \in Desc : used[j] # None /\ used[j] = used[k] => j = k
      /\ \A i \in serving : Pending(i, 255) /\ \A j \in Desc : avail[j] # i
  BY <1>0 DEF Places, Entries, InRing
<1>2. SUFFICES
      /\ \A j \in Desc : avail'[j] # None => Pending(avail[j], 255)'
      /\ \A j, k \in Desc : avail'[j] # None /\ avail'[j] = avail'[k] => j = k
      /\ \A j \in Desc : used'[j] # None => Pending(used[j], 0)'
      /\ \A j, k \in Desc : used'[j] # None /\ used'[j] = used'[k] => j = k
      /\ \A i \in serving' : Pending(i, 255)' /\ \A j \in Desc : avail'[j] # i
  BY DEF Places, Entries, InRing
<1> DEFINE Goal ==
      /\ \A j \in Desc : avail'[j] # None => Pending(avail[j], 255)'
      /\ \A j, k \in Desc : avail'[j] # None /\ avail'[j] = avail'[k] => j = k
      /\ \A j \in Desc : used'[j] # None => Pending(used[j], 0)'
      /\ \A j, k \in Desc : used'[j] # None /\ used'[j] = used'[k] => j = k
      /\ \A i \in serving' : Pending(i, 255)' /\ \A j \in Desc : avail'[j] # i
<1>3. CASE Quiet
  BY <1>1, <1>3 DEF Quiet, Pending, driver, rings
<1>4. ASSUME NEW p \in Proc, Submit(p) PROVE Goal
  <2>1. PICK i, j, k \in free : Submitted(p, i, j, k)
    BY <1>4, SubmitFacts
  <2>2. i \in Desc /\ None \notin Desc /\ availIdx % NUM \in Desc
    BY <1>0, ConstFacts, SlotInc DEF Types
  <2>3. ASSUME NEW o, NEW s, Pending(o, s) PROVE o # i /\ info[o] # p /\ Pending(o, s)'
    <3>1. o \in Desc /\ InChain(info[o], o) /\ info[o] \in Proc
      BY <1>0, <2>2, <2>3, ChainIs DEF Pending, InChain, Types
    <3>2. o \notin free
      BY <1>0, <3>1 DEF OneOwner
    <3>3. info[o] # p
      BY <2>1, <2>2, <2>3 DEF Submitted, Pending
    <3>4. /\ info'[o] = info[o] /\ head'[info[o]] = head[info[o]]
          /\ busy'[info[o]] = busy[info[o]] /\ status'[o] = status[o]
      BY <1>0, <2>1, <3>1, <3>2, <3>3 DEF Submitted, Types
    <3> QED BY <2>3, <3>2, <3>3, <3>4, PendingKept
  <2>4. Pending(i, 255)'
    BY <1>0, <2>1, <2>2 DEF Submitted, Types, Pending
  <2>5. /\ avail' = [avail EXCEPT ![availIdx % NUM] = i] /\ used' = used
        /\ serving' = serving /\ avail \in [Desc -> Desc \cup {None}]
    BY <1>0, <2>1 DEF Submitted, device, Types
  <2>6. \A j1 \in Desc : avail'[j1] # None => Pending(avail[j1], 255)'
    BY <1>1, <2>2, <2>3, <2>4, <2>5 DEF Pending
  <2>7. \A j1, j2 \in Desc : avail'[j1] # None /\ avail'[j1] = avail'[j2] => j1 = j2
    BY <1>1, <2>2, <2>3, <2>5
  <2>8. \A j1 \in Desc : used'[j1] # None => Pending(used[j1], 0)'
    BY <1>1, <2>3, <2>5 DEF Pending
  <2>9. \A i1 \in serving' : Pending(i1, 255)' /\ \A j1 \in Desc : avail'[j1] # i1
    BY <1>1, <2>2, <2>3, <2>5
  <2> QED BY <1>1, <2>5, <2>6, <2>7, <2>8, <2>9
<1>5. ASSUME NEW p \in Proc, Finish(p) PROVE Goal
  <2>1. PICK i \in Desc : Finished(p, i)
    BY <1>5, FinishFacts
  <2>2. ASSUME NEW o, NEW s, Pending(o, s) PROVE Pending(o, s)'
    <3>1. info[o] # p
      BY <2>1, <2>2 DEF Finished, Pending
    <3>2. o # i
      BY <2>1, <3>1 DEF Finished
    <3>3. /\ info'[o] = info[o] /\ head'[info[o]] = head[info[o]]
          /\ busy'[info[o]] = busy[info[o]] /\ status'[o] = status[o]
      BY <1>0, <2>1, <2>2, <3>1, <3>2 DEF Finished, Types, Pending
    <3> QED BY <2>2, <3>3, PendingKept
  <2>3. avail' = avail /\ used' = used /\ serving' = serving
    BY <2>1 DEF Finished, rings, device
  <2> QED BY <1>1, <2>2, <2>3 DEF Pending
<1>6. CASE IntrAnswer
  <2>1. PICK i \in Desc, p \in Proc : Answered(p, i)
    BY <1>6, AnswerFacts
  <2>2. seenIdx % NUM \in Desc
    BY <1>0, SlotInc DEF Types
  <2>3. ASSUME NEW o, NEW s, Pending(o, s), o # i PROVE Pending(o, s)'
    <3>1. info[o] # p
      BY <2>1, <2>3 DEF Answered, Pending
    <3>2. /\ info'[o] = info[o] /\ head'[info[o]] = head[info[o]]
          /\ busy'[info[o]] = busy[info[o]] /\ status'[o] = status[o]
      BY <1>0, <2>1, <2>3, <3>1 DEF Answered, Types, Pending
    <3> QED BY <2>3, <3>2, PendingKept
  <2>4. /\ avail' = avail /\ serving' = serving /\ used \in [Desc -> Desc \cup {None}]
        /\ used' = [used EXCEPT ![seenIdx % NUM] = None] /\ used[seenIdx % NUM] = i
        /\ status[i] = 0 /\ status'[i] = status[i]
    BY <1>0, <2>1 DEF Answered, device, Types
  <2>5. \A j1 \in Desc : avail'[j1] # None => Pending(avail[j1], 255)'
    BY <1>1, <2>3, <2>4 DEF Pending
  <2>6. \A j1 \in Desc : used'[j1] # None => used'[j1] = used[j1] /\ used[j1] # i
    BY <1>1, <2>2, <2>4, ConstFacts
  <2>7. \A j1 \in Desc : used'[j1] # None => Pending(used[j1], 0)'
    BY <1>1, <2>3, <2>6 DEF Pending
  <2>8. \A j1, j2 \in Desc : used'[j1] # None /\ used'[j1] = used'[j2] => j1 = j2
    BY <1>1, <2>6
  <2>9. \A i1 \in serving' : Pending(i1, 255)' /\ \A j1 \in Desc : avail'[j1] # i1
    BY <1>1, <2>3, <2>4 DEF Pending
  <2> QED BY <1>1, <2>4, <2>5, <2>7, <2>8, <2>9
<1>7. CASE DeviceTake
  <2>1. PICK i \in Desc : Taken(i)
    BY <1>7, TakeFacts
  <2>2. takenIdx % NUM \in Desc
    BY <1>0, SlotInc DEF Types
  <2>3. /\ avail' = [avail EXCEPT ![takenIdx % NUM] = None] /\ avail[takenIdx % NUM] = i
        /\ used' = used /\ serving' = serving \cup {i} /\ Pending(i, 255)
        /\ avail \in [Desc -> Desc \cup {None}]
    BY <1>0, <2>1 DEF Taken, Types
  <2>4. \A j1 \in Desc : used'[j1] # None => Pending(used[j1], 0)'
    <3> SUFFICES ASSUME NEW j1 \in Desc, used'[j1] # None PROVE Pending(used[j1], 0)'
      OBVIOUS
    <3>1. Pending(used[j1], 0)
      BY <1>1, <2>3
    <3> QED BY <2>1, <2>3, <3>1 DEF Pending, Taken, driver
  <2>5. \A j1 \in Desc : avail'[j1] # None => avail'[j1] = avail[j1]
    BY <2>2, <2>3
  <2>6. \A j1 \in Desc : avail'[j1] # i
    BY <1>1, <2>2, <2>3, ConstFacts
  <2>7. \A j1 \in Desc : avail'[j1] # None => Pending(avail[j1], 255)'
    <3> SUFFICES ASSUME NEW j1 \in Desc, avail'[j1] # None PROVE Pending(avail[j1], 255)'
      OBVIOUS
    <3>1. Pending(avail[j1], 255) /\ avail'[j1] = avail[j1]
      BY <1>1, <2>5
    <3> QED BY <2>1, <3>1 DEF Pending, Taken, driver
  <2>8. \A i1 \in serving' : Pending(i1, 255)' /\ \A j1 \in Desc : avail'[j1] # i1
    <3> SUFFICES ASSUME NEW i1 \in serving'
                 PROVE  Pending(i1, 255)' /\ \A j1 \in Desc : avail'[j1] # i1
      OBVIOUS
    <3>1. CASE i1 = i
      BY <2>1, <2>3, <2>6, <3>1 DEF Pending, Taken, driver
    <3>2. CASE i1 \in serving
      <4>1. i1 # None
        BY <1>1, <3>2, ConstFacts DEF Pending
      <4>2. Pending(i1, 255)'
        BY <1>1, <2>1, <3>2 DEF Pending, Taken, driver
      <4> QED BY <1>1, <2>5, <3>2, <4>1, <4>2
    <3> QED BY <2>3, <3>1, <3>2
  <2>9. \A j1, j2 \in Desc : avail'[j1] # None /\ avail'[j1] = avail'[j2] => j1 = j2
    BY <1>1, <2>5
  <2> QED BY <1>1, <2>3, <2>4, <2>7, <2>8, <2>9
<1>8. ASSUME NEW i \in Desc, DeviceServe(i) PROVE Goal
  <2>1. usedIdx % NUM \in Desc /\ i \in serving /\ None \notin Desc
    BY <1>0, <1>8, SlotInc, ConstFacts DEF Types, DeviceServe
  <2>2. /\ used' = [used EXCEPT ![usedIdx % NUM] = i] /\ avail' = avail
        /\ serving' = serving \ {i} /\ status' = [status EXCEPT ![i] = 0]
        /\ UNCHANGED <<info, head, busy>>
        /\ used \in [Desc -> Desc \cup {None}] /\ status \in [Desc -> {0, 255}]
    BY <1>0, <1>8 DEF Types, DeviceServe
  <2>3. ASSUME NEW o, NEW s, Pending(o, s), o # i PROVE Pending(o, s)'
    BY <2>2, <2>3 DEF Pending
  <2>4. Pending(i, 0)' /\ Pending(i, 255)
    BY <1>1, <2>1, <2>2 DEF Pending
  <2>5. \A j1 \in Desc : used[j1] # i /\ avail[j1] # i
    BY <1>1, <2>1, <2>4 DEF Pending
  <2>6. \A j1 \in Desc : avail'[j1] # None => Pending(avail[j1], 255)'
    BY <1>1, <2>2, <2>3, <2>5 DEF Pending
  <2>7. \A j1 \in Desc : used'[j1] # None => Pending(used[j1], 0)'
    <3> SUFFICES ASSUME NEW j1 \in Desc, used'[j1] # None PROVE Pending(used[j1], 0)'
      OBVIOUS
    <3>1. CASE j1 = usedIdx % NUM
      BY <2>1, <2>2, <2>4, <3>1 DEF Pending
    <3>2. CASE j1 # usedIdx % NUM
      BY <1>1, <2>1, <2>2, <2>3, <2>5, <3>2 DEF Pending
    <3> QED BY <3>1, <3>2
  <2>8. \A j1, j2 \in Desc : used'[j1] # None /\ used'[j1] = used'[j2] => j1 = j2
    BY <1>1, <2>1, <2>2, <2>5
  <2>9. \A i1 \in serving' : Pending(i1, 255)' /\ \A j1 \in Desc : avail'[j1] # i1
    BY <1>1, <2>2, <2>3
  <2> QED BY <1>1, <2>2, <2>6, <2>7, <2>8, <2>9
<1> QED BY <1>0, <1>3, <1>4, <1>5, <1>6, <1>7, <1>8, StepCases

(* Every step keeps the rings' entries between their indices.              *)
LEMMA WindowsStep ==
  ASSUME IInv, [Next]_vars
  PROVE  Windows'
<1>0. Types /\ Requests /\ OneOwner /\ Chained /\ Places /\ Windows
  BY DEF IInv
<1>1. /\ avail \in [Desc -> Desc \cup {None}] /\ used \in [Desc -> Desc \cup {None}]
      /\ availIdx \in 0 .. IdxSpan - 1 /\ usedIdx \in 0 .. IdxSpan - 1
      /\ seenIdx \in 0 .. IdxSpan - 1 /\ takenIdx \in 0 .. IdxSpan - 1
  BY <1>0 DEF Types
<1>2. /\ \A j \in Desc : avail[j] # None => Pending(avail[j], 255)
      /\ \A j, k \in Desc : avail[j] # None /\ avail[j] = avail[k] => j = k
      /\ \A j \in Desc : used[j] # None => Pending(used[j], 0)
      /\ \A j, k \in Desc : used[j] # None /\ used[j] = used[k] => j = k
  BY <1>0 DEF Places, Entries
<1>3. Window(avail, takenIdx, availIdx) /\ Window(used, seenIdx, usedIdx)
  BY <1>0 DEF Windows
<1>4. \A o \in Desc, s \in {0, 255} : Pending(o, s) => InChain(info[o], o)
  BY <1>0, ConstFacts, ChainIs DEF Pending, InChain, Types
<1>5. SUFFICES Window(avail', takenIdx', availIdx') /\ Window(used', seenIdx', usedIdx')
  BY DEF Windows, Window
<1> DEFINE Goal == Window(avail', takenIdx', availIdx') /\ Window(used', seenIdx', usedIdx')
<1>6. CASE Quiet
  BY <1>3, <1>6 DEF Quiet, rings
<1>7. ASSUME NEW p \in Proc, Submit(p) PROVE Goal
  <2>1. PICK i, j, k \in free : Submitted(p, i, j, k)
    BY <1>7, SubmitFacts
  <2>2. i \in Desc /\ j \in Desc /\ k \in Desc /\ i # j
    BY <1>0, <2>1 DEF Types, Submitted
  <2>3. \A d \in Desc : avail[d] \notin {i, j}
    <3>1. \A d \in Desc : avail[d] # None => avail[d] \notin free
      BY <1>0, <1>2, <1>4 DEF OneOwner, Pending
    <3> QED BY <2>2, <3>1, ConstFacts
  <2>4. Apart(takenIdx % NUM, availIdx % NUM) <= NUM - 2
    BY <1>1, <1>2, <1>3, <2>2, <2>3, RoomInRing
  <2>5. Window([avail EXCEPT ![availIdx % NUM] = i], takenIdx, Inc(availIdx))
    BY <1>1, <1>3, <2>2, <2>4, WindowPut
  <2> QED BY <1>3, <2>1, <2>5 DEF Submitted, device
<1>8. ASSUME NEW p \in Proc, Finish(p) PROVE Goal
  <2>1. PICK i \in Desc : Finished(p, i)
    BY <1>8, FinishFacts
  <2> QED BY <1>3, <2>1 DEF Finished, rings, device
<1>9. CASE IntrAnswer
  <2>1. PICK i \in Desc, p \in Proc : Answered(p, i)
    BY <1>9, AnswerFacts
  <2>2. Window([used EXCEPT ![seenIdx % NUM] = None], Inc(seenIdx), usedIdx)
    BY <1>1, <1>3, <1>9, WindowTake DEF IntrAnswer
  <2> QED BY <1>3, <2>1, <2>2 DEF Answered, device
<1>10. CASE DeviceTake
  <2>1. PICK i \in Desc : Taken(i)
    BY <1>10, TakeFacts
  <2>2. Window([avail EXCEPT ![takenIdx % NUM] = None], Inc(takenIdx), availIdx)
    BY <1>1, <1>3, <1>10, WindowTake DEF DeviceTake
  <2> QED BY <1>3, <2>1, <2>2 DEF Taken
<1>11. ASSUME NEW i \in Desc, DeviceServe(i) PROVE Goal
  <2>1. Pending(i, 255) /\ i \in Desc
    BY <1>0, <1>11 DEF Places, DeviceServe
  <2>2. head[info[i]] = i /\ info[i] \in Proc
    BY <2>1 DEF Pending
  <2>3. next[i] \in Desc \ {i}
    BY <1>0, <2>1, <2>2, ConstFacts DEF Chained
  <2>4. InChain(info[i], i) /\ InChain(info[i], next[i])
    BY <1>0, <2>1, <2>2, <2>3, ChainIs, ConstFacts DEF InChain, Types
  <2>5. \A d \in Desc : used[d] \notin {i, next[i]}
    <3> SUFFICES ASSUME NEW d \in Desc, used[d] \in {i, next[i]} PROVE FALSE
      OBVIOUS
    <3>1. Pending(used[d], 0)
      BY <1>2, <2>1, <2>3, ConstFacts
    <3>2. used[d] # i
      BY <2>1, <3>1 DEF Pending
    <3>3. InChain(info[used[d]], used[d]) /\ info[used[d]] \in Proc
      BY <1>4, <3>1 DEF Pending
    <3>4. info[used[d]] = info[i]
      BY <1>0, <2>2, <2>3, <2>4, <3>2, <3>3 DEF OneOwner
    <3> QED BY <2>2, <3>1, <3>2, <3>4 DEF Pending
  <2>6. Apart(seenIdx % NUM, usedIdx % NUM) <= NUM - 2
    BY <1>1, <1>2, <1>3, <2>1, <2>3, <2>5, RoomInRing
  <2>7. Window([used EXCEPT ![usedIdx % NUM] = i], seenIdx, Inc(usedIdx))
    BY <1>1, <1>3, <2>1, <2>6, WindowPut
  <2> QED BY <1>3, <1>11, <2>7 DEF DeviceServe
<1> QED BY <1>0, <1>6, <1>7, <1>8, <1>9, <1>10, <1>11, StepCases

(* The invariant holds at boot.                                            *)
LEMMA InitIInv == Init => IInv
<1> SUFFICES ASSUME Init PROVE IInv
  OBVIOUS
<1> USE ConstFacts DEF Init
<1>1. Types /\ ~panicked
  BY DEF Types
<1>2. Requests
  BY DEF Requests
<1>3. OneOwner /\ Chained
  BY DEF OneOwner, Chained, InChain
<1>4. Places
  BY DEF Places, Entries, InRing
<1>5. Windows
  <2>1. PICK t \in Desc : t = 0 % NUM
    BY SlotInc
  <2>2. Between(t, t) = {}
    BY DEF Between, Desc
  <2>3. Behind(0, 0) = 0 /\ Apart(t, t) = 0
    BY DEF Behind, Apart, Desc
  <2>4. Window(avail, 0, 0) /\ Window(used, 0, 0)
    BY <2>1, <2>2, <2>3 DEF Window
  <2> QED BY <2>4 DEF Windows
<1> QED BY <1>1, <1>2, <1>3, <1>4, <1>5 DEF IInv

(* The invariant holds in every reachable state.                           *)
LEMMA Invariance == Spec => []IInv
<1>1. IInv /\ [Next]_vars => IInv'
  BY RequestsStep, OwnersStep, PlacesStep, WindowsStep DEF IInv
<1> QED BY InitIInv, <1>1, PTL DEF Spec

-----------------------------------------------------------------------------
(* Every variable has its type, the indices of the rings among them.       *)
THEOREM TypeCorrect == Spec => []TypeOK
<1>1. IInv => TypeOK
  BY DEF IInv, Types, TypeOK
<1> QED BY Invariance, <1>1, PTL

(* free_desc never meets a free descriptor, and the handler never an       *)
(* answer without a status: virtio_disk.c does not panic.                  *)
THEOREM NeverPanics == Spec => []~panicked
<1>1. IInv => ~panicked
  BY DEF IInv
<1> QED BY Invariance, <1>1, PTL

(* A descriptor is free, or in the chain of one request and no other.      *)
THEOREM DescriptorsOwned == Spec => []OneOwner
<1>1. IInv => OneOwner
  BY DEF IInv
<1> QED BY Invariance, <1>1, PTL

(* The entries of a ring, those between its two indices, are different     *)
(* requests in progress: an index that goes round the ring or round its    *)
(* own range never overwrites an entry that was not read.                  *)
THEOREM RingsHoldRequests == Spec => [](Places /\ Windows)
<1>1. IInv => Places /\ Windows
  BY DEF IInv
<1> QED BY Invariance, <1>1, PTL

-----------------------------------------------------------------------------
(* What a call of virtio_disk_rw is to the block device.                   *)
CallOf(p) ==
  IF pc[p] = "out" THEN "none"
  ELSE IF head[p] # None /\ status[head[p]] = 0 THEN "done" ELSE "asked"
Calls == [p \in Proc |-> CallOf(p)]

Moves(p, from, to) == Calls[p] = from /\ Calls' = [Calls EXCEPT ![p] = to]

(* A step that moves one call on and no other.                             *)
LEMMA OneMoves ==
  ASSUME NEW p \in Proc, NEW from, NEW to, CallOf(p) = from, CallOf(p)' = to,
         \A q \in Proc \ {p} : CallOf(q)' = CallOf(q)
  PROVE  Moves(p, from, to)
<1>1. Calls[p] = from
  BY DEF Calls
<1>2. Calls' = [q \in Proc |-> CallOf(q)']
  BY DEF Calls
<1>3. [q \in Proc |-> CallOf(q)'] = [[q \in Proc |-> CallOf(q)] EXCEPT ![p] = to]
  OBVIOUS
<1> QED BY <1>1, <1>2, <1>3 DEF Moves, Calls

(* Each step of the driver or the device is at most one of the block       *)
(* device's.                                                               *)
LEMMA CallsStep ==
  ASSUME IInv, [Next]_vars
  PROVE  \/ UNCHANGED Calls
         \/ \E p \in Proc : \/ Moves(p, "none", "asked")
                            \/ Moves(p, "asked", "done")
                            \/ Moves(p, "done", "none")
<1>0. Types /\ Requests /\ OneOwner /\ Places
  BY DEF IInv
<1>1. /\ pc \in [Proc -> {"out", "call", "free", "freed", "disk", "done"}]
      /\ head \in [Proc -> Desc \cup {None}] /\ info \in [Desc -> Proc \cup {None}]
      /\ status \in [Desc -> {0, 255}] /\ None \notin Desc /\ None \notin Proc
      /\ \A q \in Proc : head[q] # None <=> pc[q] \in {"disk", "done"}
      /\ \A q \in Proc : head[q] # None => info[head[q]] = q
  BY <1>0, ConstFacts DEF Types, Requests
<1>2. ASSUME \A q \in Proc : CallOf(q)' = CallOf(q) PROVE UNCHANGED Calls
  BY <1>2 DEF Calls
<1>3. ASSUME NEW p \in Proc, Call(p) PROVE Moves(p, "none", "asked")
  <2>1. CallOf(p) = "none" /\ CallOf(p)' = "asked"
    BY <1>1, <1>3 DEF Call, CallOf, driver
  <2>2. \A q \in Proc \ {p} : CallOf(q)' = CallOf(q)
    BY <1>1, <1>3 DEF Call, CallOf, driver
  <2> QED BY <2>1, <2>2, OneMoves
<1>4. ASSUME NEW p \in Proc, NoDescriptors(p) PROVE UNCHANGED Calls
  <2>1. CASE pc' = [pc EXCEPT ![p] = "free"]
    BY <1>1, <1>2, <1>4, <2>1 DEF NoDescriptors, CallOf, driver
  <2>2. CASE Wake("free", "freed", p, "free")
    BY <1>1, <1>2, <1>4, <2>2 DEF NoDescriptors, CallOf, driver, Wake
  <2> QED BY <1>4, <2>1, <2>2 DEF NoDescriptors
<1>5. ASSUME NEW p \in Proc, Submit(p) PROVE UNCHANGED Calls
  <2>1. PICK i, j, k \in free : Submitted(p, i, j, k)
    BY <1>5, SubmitFacts
  <2>2. i \in Desc
    BY <1>0 DEF Types
  <2>3. \A q \in Proc : head[q] # i
    BY <1>0, <1>1, <2>2, ChainIs DEF OneOwner, InChain, Types
  <2>4. pc[p] \in {"call", "freed"}
    BY <1>5 DEF Submit, Queue
  <2>5. CallOf(p)' = CallOf(p)
    BY <1>1, <2>1, <2>2, <2>4 DEF Submitted, CallOf
  <2>6. \A q \in Proc \ {p} : CallOf(q)' = CallOf(q)
    BY <1>1, <2>1, <2>2, <2>3 DEF Submitted, CallOf
  <2> QED BY <1>2, <2>5, <2>6
<1>6. ASSUME NEW p \in Proc, NotYet(p) PROVE UNCHANGED Calls
  BY <1>1, <1>2, <1>6 DEF NotYet, CallOf, driver
<1>7. ASSUME NEW p \in Proc, Finish(p) PROVE Moves(p, "done", "none")
  <2>1. PICK i \in Desc : Finished(p, i)
    BY <1>7, FinishFacts
  <2>2. CallOf(p) = "done" /\ CallOf(p)' = "none"
    BY <1>1, <1>7, <2>1 DEF Finished, CallOf
  <2>3. \A q \in Proc \ {p} : CallOf(q)' = CallOf(q)
    BY <1>1, <2>1 DEF Finished, CallOf
  <2> QED BY <2>2, <2>3, OneMoves
<1>8. ASSUME NEW p \in Proc, Kill(p) PROVE UNCHANGED Calls
  BY <1>1, <1>2, <1>8 DEF Kill, CallOf, driver
<1>9. CASE Intr \/ IntrEnd \/ DeviceInterrupt \/ UNCHANGED vars
  BY <1>2, <1>9 DEF Intr, IntrEnd, DeviceInterrupt, vars, CallOf, driver
<1>10. CASE IntrAnswer
  <2>1. PICK i \in Desc, p \in Proc : Answered(p, i)
    BY <1>10, AnswerFacts
  <2> QED BY <1>1, <1>2, <2>1 DEF Answered, CallOf
<1>11. CASE DeviceTake
  BY <1>2, <1>11 DEF DeviceTake, CallOf, driver
<1>12. ASSUME NEW i \in Desc, DeviceServe(i)
       PROVE  \E p \in Proc : Moves(p, "asked", "done")
  <2>1. PICK p \in Proc : info[i] = p /\ head[p] = i /\ status[i] = 255
    BY <1>0, <1>12 DEF Places, Pending, DeviceServe
  <2>2. CallOf(p) = "asked" /\ CallOf(p)' = "done"
    BY <1>1, <1>12, <2>1 DEF DeviceServe, CallOf
  <2>3. \A q \in Proc \ {p} : head[q] # i
    BY <1>1, <2>1
  <2>4. \A q \in Proc \ {p} : CallOf(q)' = CallOf(q)
    BY <1>1, <1>12, <2>3 DEF DeviceServe, CallOf
  <2> QED BY <2>2, <2>4, OneMoves
<1> QED BY <1>3, <1>4, <1>5, <1>6, <1>7, <1>8, <1>9, <1>10, <1>11, <1>12
        DEF Next, Rw, Handler, Device

(* Each call is carried out once, between virtio_disk_rw's entry and its   *)
(* return, in whatever order the device answers: a caller that kill woke   *)
(* goes back to sleep, and an answer reaches the caller that asked.        *)
THEOREM Refinement == Spec => ImplementsBlockDevice
<1>1. Init => Abstract!Init
  BY ConstFacts DEF Init, Abstract!Init
<1>2. IInv /\ [Next]_vars => [Abstract!Next]_Calls
  <2> SUFFICES ASSUME IInv, [Next]_vars PROVE Abstract!Next \/ UNCHANGED Calls
    OBVIOUS
  <2>1. ASSUME NEW p \in Proc, Moves(p, "none", "asked") PROVE Abstract!Call(p)
    BY <2>1 DEF Moves, Calls, CallOf, Abstract!Call, Abstract!Step
  <2>2. ASSUME NEW p \in Proc, Moves(p, "asked", "done") PROVE Abstract!Transfer(p)
    BY <2>2 DEF Moves, Calls, CallOf, Abstract!Transfer, Abstract!Step
  <2>3. ASSUME NEW p \in Proc, Moves(p, "done", "none") PROVE Abstract!Return(p)
    BY <2>3 DEF Moves, Calls, CallOf, Abstract!Return, Abstract!Step
  <2> QED BY <2>1, <2>2, <2>3, CallsStep DEF Abstract!Next
<1> QED BY <1>1, <1>2, Invariance, PTL
        DEF Spec, ImplementsBlockDevice, Abstract!Spec, Calls, CallOf

-----------------------------------------------------------------------------
(* Rings: d holds P characters, and counters that wrap at U, a multiple of *)
(* P, say where.  How far b is ahead of a, and what lies between them.     *)
Divides(P, U) == U % P = 0
Ahead(U, a, b) == (b - a) % U
Ring(P, U, d, a, b) == [i \in 1 .. Ahead(U, a, b) |-> d[(a + i - 1) % P]]

(* Wrapping once, in either direction.                                     *)
LEMMA WrapOnce ==
  ASSUME NEW P \in Nat \ {0}, NEW x \in 0 .. P - 1
  PROVE  /\ x % P = x /\ (x + P) % P = x /\ (x - P) % P = x
OBVIOUS

(* A multiple of P does not matter modulo P.                               *)
LEMMA MultipleVanishes ==
  ASSUME NEW P \in Nat \ {0}, NEW U \in Nat, U % P = 0, NEW x \in Int
  PROVE  (x - U) % P = x % P
<1> DEFINE k == U \div P
           q == x \div P
           s == x % P
<1>1. U = P * k /\ k \in Int
  BY ModIs
<1>2. x = P * q + s /\ q \in Int /\ s \in 0 .. P - 1
  BY ModIs
<1> HIDE DEF k, q, s
<1>3. x - U = P * (q - k) + s
  BY <1>1, <1>2
<1>4. (P * (q - k) + s) % P = s
  BY <1>1, <1>2, ModUnique
<1> QED BY <1>3, <1>4 DEF s

(* Fewer than P apart means different modulo P.                            *)
LEMMA SlotsDiffer ==
  ASSUME NEW P \in Nat \ {0}, NEW x \in Nat, NEW y \in Nat, x < y, y - x < P
  PROVE  x % P # y % P
<1> DEFINE q == x \div P
           s == y \div P
           t == x % P
<1> SUFFICES ASSUME y % P = t PROVE FALSE
  OBVIOUS
<1>1. x = P * q + t /\ q \in Int /\ t \in 0 .. P - 1
  BY ModIs
<1>2. y = P * s + t /\ s \in Int
  BY ModIs
<1> HIDE DEF q, s, t
<1>3. P * (s - q) > 0 /\ P * (s - q) < P
  BY <1>1, <1>2
<1>4. s - q >= 1 \/ s - q <= 0
  BY <1>1, <1>2
<1> QED BY <1>1, <1>2, <1>3, <1>4

(* The distance without a remainder.                                       *)
LEMMA AheadIs ==
  ASSUME NEW U \in Nat \ {0}, NEW a \in 0 .. U - 1, NEW b \in 0 .. U - 1
  PROVE  /\ Ahead(U, a, b) = IF b >= a THEN b - a ELSE b - a + U
         /\ Ahead(U, a, b) \in 0 .. U - 1
<1>1. CASE b >= a
  BY <1>1, WrapOnce DEF Ahead
<1>2. CASE b < a
  <2>1. b - a + U \in 0 .. U - 1
    BY <1>2
  <2>2. ((b - a + U) - U) % U = b - a + U
    BY <2>1, WrapOnce
  <2>3. (b - a + U) - U = b - a
    OBVIOUS
  <2> QED BY <1>2, <2>1, <2>2, <2>3 DEF Ahead
<1> QED BY <1>1, <1>2

(* The next counter and the one before.                                    *)
LEMMA NeighboursAre ==
  ASSUME NEW U \in Nat \ {0}, NEW a \in 0 .. U - 1
  PROVE  /\ (a + 1) % U = IF a = U - 1 THEN 0 ELSE a + 1
         /\ (a - 1) % U = IF a = 0 THEN U - 1 ELSE a - 1
         /\ (a + 1) % U \in 0 .. U - 1 /\ (a - 1) % U \in 0 .. U - 1
<1>1. (a + 1) % U = IF a = U - 1 THEN 0 ELSE a + 1
  <2>1. CASE a = U - 1
    <3>1. (0 + U) % U = 0 /\ 0 + U = a + 1
      BY <2>1, WrapOnce
    <3> QED BY <2>1, <3>1
  <2>2. CASE a # U - 1
    <3>1. a + 1 \in 0 .. U - 1
      BY <2>2
    <3> QED BY <2>2, <3>1, WrapOnce
  <2> QED BY <2>1, <2>2
<1>2. (a - 1) % U = IF a = 0 THEN U - 1 ELSE a - 1
  <2>1. CASE a = 0
    <3>1. U - 1 \in 0 .. U - 1 /\ (U - 1) - U = a - 1
      BY <2>1
    <3>2. ((U - 1) - U) % U = U - 1
      BY <3>1, WrapOnce
    <3> QED BY <2>1, <3>1, <3>2
  <2>2. CASE a # 0
    <3>1. a - 1 \in 0 .. U - 1
      BY <2>2
    <3> QED BY <2>2, <3>1, WrapOnce
  <2> QED BY <2>1, <2>2
<1> QED BY <1>1, <1>2

(* What moving one counter by one does to the distance.                    *)
LEMMA AheadMoves ==
  ASSUME NEW U \in Nat \ {0}, NEW a \in 0 .. U - 1, NEW b \in 0 .. U - 1
  PROVE  /\ a = b <=> Ahead(U, a, b) = 0
         /\ Ahead(U, a, b) < U - 1 => Ahead(U, a, (b + 1) % U) = Ahead(U, a, b) + 1
         /\ a # b => /\ Ahead(U, (a + 1) % U, b) = Ahead(U, a, b) - 1
                     /\ Ahead(U, a, (b - 1) % U) = Ahead(U, a, b) - 1
         /\ (b + 1) % U = a <=> Ahead(U, a, b) = U - 1
<1> DEFINE up == (b + 1) % U
           down == (b - 1) % U
           on == (a + 1) % U
<1>1. /\ up = IF b = U - 1 THEN 0 ELSE b + 1
      /\ down = IF b = 0 THEN U - 1 ELSE b - 1
      /\ on = IF a = U - 1 THEN 0 ELSE a + 1
      /\ up \in 0 .. U - 1 /\ down \in 0 .. U - 1 /\ on \in 0 .. U - 1
  BY NeighboursAre
<1> HIDE DEF up, down, on
<1>2. /\ Ahead(U, a, b) = IF b >= a THEN b - a ELSE b - a + U
      /\ Ahead(U, a, up) = IF up >= a THEN up - a ELSE up - a + U
      /\ Ahead(U, a, down) = IF down >= a THEN down - a ELSE down - a + U
      /\ Ahead(U, on, b) = IF b >= on THEN b - on ELSE b - on + U
  BY <1>1, AheadIs
<1>3. a = b <=> Ahead(U, a, b) = 0
  BY <1>2
<1>4. Ahead(U, a, b) < U - 1 => Ahead(U, a, up) = Ahead(U, a, b) + 1
  BY <1>1, <1>2
<1>5. a # b => Ahead(U, on, b) = Ahead(U, a, b) - 1
  BY <1>1, <1>2
<1>6. a # b => Ahead(U, a, down) = Ahead(U, a, b) - 1
  BY <1>1, <1>2
<1>7. up = a <=> Ahead(U, a, b) = U - 1
  BY <1>1, <1>2
<1> QED BY <1>3, <1>4, <1>5, <1>6, <1>7 DEF up, down, on

(* Which counter is N ahead.                                               *)
LEMMA AheadReaches ==
  ASSUME NEW U \in Nat \ {0}, NEW a \in 0 .. U - 1, NEW b \in 0 .. U - 1, NEW N \in Nat, N < U
  PROVE  b = (a + N) % U <=> Ahead(U, a, b) = N
<1>1. (a + N) % U = IF a + N < U THEN a + N ELSE a + N - U
  <2>1. CASE a + N < U
    <3>1. a + N \in 0 .. U - 1
      BY <2>1
    <3> QED BY <2>1, <3>1, WrapOnce
  <2>2. CASE a + N >= U
    <3>1. PICK x \in 0 .. U - 1 : a + N = x + U
      <4>1. a + N - U \in 0 .. U - 1 /\ a + N = (a + N - U) + U
        BY <2>2
      <4> QED BY <4>1
    <3>2. (x + U) % U = x /\ x = a + N - U
      BY <3>1, WrapOnce
    <3> QED BY <2>2, <3>1, <3>2
  <2> QED BY <2>1, <2>2
<1>2. Ahead(U, a, b) = IF b >= a THEN b - a ELSE b - a + U
  BY AheadIs
<1> QED BY <1>1, <1>2

(* Distances add up while they stay below U.                               *)
LEMMA AheadAdds ==
  ASSUME NEW U \in Nat \ {0}, NEW a \in 0 .. U - 1, NEW b \in 0 .. U - 1, NEW c \in 0 .. U - 1,
         Ahead(U, a, b) + Ahead(U, b, c) < U
  PROVE  Ahead(U, a, c) = Ahead(U, a, b) + Ahead(U, b, c)
<1>1. /\ Ahead(U, a, b) = IF b >= a THEN b - a ELSE b - a + U
      /\ Ahead(U, b, c) = IF c >= b THEN c - b ELSE c - b + U
      /\ Ahead(U, a, c) = IF c >= a THEN c - a ELSE c - a + U
  BY AheadIs
<1> QED BY <1>1

(* The slots of what is under way.                                         *)
LEMMA SlotIs ==
  ASSUME NEW P \in Nat \ {0}, NEW a \in Nat, NEW k \in Nat
  PROVE  (a + k) % P \in 0 .. P - 1
BY ModIs

(* The slot k behind the next counter.                                     *)
LEMMA SlotBehindNext ==
  ASSUME NEW P \in Nat \ {0}, NEW U \in Nat \ {0}, Divides(P, U), NEW a \in 0 .. U - 1, NEW k \in Nat
  PROVE  (((a + 1) % U) + k) % P = (a + (k + 1)) % P
<1>1. CASE a = U - 1
  <2>1. PICK x \in Int : x = a + (k + 1)
    OBVIOUS
  <2>2. (a + 1) % U = 0
    BY <1>1, NeighboursAre
  <2>3. ((a + 1) % U) + k = x - U
    BY <1>1, <2>1, <2>2
  <2>4. (x - U) % P = x % P
    BY MultipleVanishes DEF Divides
  <2> QED BY <2>1, <2>3, <2>4
<1>2. CASE a # U - 1
  <2>1. (a + 1) % U = a + 1
    BY <1>2, NeighboursAre
  <2>2. (a + 1) + k = a + (k + 1)
    OBVIOUS
  <2> QED BY <2>1, <2>2
<1> QED BY <1>1, <1>2

(* The slot k behind a counter ahead of a.                                 *)
LEMMA SlotBehind ==
  ASSUME NEW P \in Nat \ {0}, NEW U \in Nat \ {0}, Divides(P, U),
         NEW a \in 0 .. U - 1, NEW b \in 0 .. U - 1, NEW k \in Nat
  PROVE  (b + k) % P = (a + (Ahead(U, a, b) + k)) % P
<1>1. CASE b >= a
  <2>1. a + (Ahead(U, a, b) + k) = b + k
    BY <1>1, AheadIs
  <2> QED BY <2>1
<1>2. CASE b < a
  <2>1. a + (Ahead(U, a, b) + k) = b + k + U
    BY <1>2, AheadIs
  <2>2. PICK x \in Int : x = b + k + U
    OBVIOUS
  <2>3. (x - U) % P = x % P
    BY MultipleVanishes DEF Divides
  <2>4. x - U = b + k
    BY <2>2
  <2> QED BY <2>1, <2>2, <2>3, <2>4
<1> QED BY <1>1, <1>2

(* The slot of b is none of those before it.                               *)
LEMMA SlotIsFree ==
  ASSUME NEW P \in Nat \ {0}, NEW U \in Nat \ {0}, Divides(P, U),
         NEW a \in 0 .. U - 1, NEW b \in 0 .. U - 1,
         NEW k \in Nat, k < Ahead(U, a, b), Ahead(U, a, b) < P
  PROVE  (a + k) % P # b % P
<1>1. Ahead(U, a, b) \in Nat
  BY AheadIs
<1>2. (b + 0) % P = (a + (Ahead(U, a, b) + 0)) % P
  BY SlotBehind
<1>3. PICK x \in Nat, y \in Nat : x = a + k /\ y = a + Ahead(U, a, b)
  BY <1>1
<1>4. x < y /\ y - x < P
  BY <1>1, <1>3
<1>5. x % P # y % P
  BY <1>4, SlotsDiffer
<1>6. b + 0 = b /\ a + (Ahead(U, a, b) + 0) = y
  BY <1>1, <1>3
<1> QED BY <1>2, <1>3, <1>5, <1>6

(* A ring as a sequence.                                                   *)
IsRing(P, U, S, d) ==
  P \in Nat \ {0} /\ U \in Nat \ {0} /\ Divides(P, U) /\ d \in [0 .. P - 1 -> S]

(* d with c put where counter b points.                                    *)
PutAt(P, d, b, c) == [d EXCEPT ![b % P] = c]

(* q lists the characters from counter a up to b.                          *)
Lists(P, U, S, d, a, b, q) ==
  /\ q \in Seq(S) /\ Len(q) = Ahead(U, a, b)
  /\ \A i \in 1 .. Ahead(U, a, b) : q[i] = d[(a + (i - 1)) % P]

LEMMA RingIs ==
  ASSUME NEW P, NEW U, NEW S, NEW d, IsRing(P, U, S, d),
         NEW a \in 0 .. U - 1, NEW b \in 0 .. U - 1
  PROVE  Lists(P, U, S, d, a, b, Ring(P, U, d, a, b))
<1>1. P \in Nat \ {0} /\ U \in Nat \ {0} /\ Divides(P, U) /\ d \in [0 .. P - 1 -> S]
  BY DEF IsRing
<1>2. PICK n \in Nat : n = Ahead(U, a, b)
  BY <1>1, AheadIs
<1>3. ASSUME NEW i \in 1 .. n
      PROVE  d[(a + (i - 1)) % P] \in S /\ a + i - 1 = a + (i - 1)
  <2>1. i - 1 \in Nat /\ a + i - 1 = a + (i - 1)
    BY <1>1, <1>2
  <2>2. (a + (i - 1)) % P \in 0 .. P - 1
    BY <1>1, <2>1, SlotIs
  <2> QED BY <1>1, <2>1, <2>2
<1>4. PICK q : q = Ring(P, U, d, a, b)
  OBVIOUS
<1>5. q = [i \in 1 .. n |-> d[(a + (i - 1)) % P]]
  BY <1>2, <1>3, <1>4 DEF Ring
<1>6. q \in [1 .. n -> S]
  BY <1>3, <1>5
<1>7. q \in Seq(S)
  BY <1>2, <1>6
<1>8. Len(q) = n
  BY <1>2, <1>6, <1>7
<1>9. \A i \in 1 .. n : q[i] = d[(a + (i - 1)) % P]
  BY <1>5
<1> QED BY <1>2, <1>4, <1>7, <1>8, <1>9 DEF Lists

(* A character that is put at b joins the end of the ring.                 *)
LEMMA RingPut ==
  ASSUME NEW P, NEW U, NEW S, NEW d, IsRing(P, U, S, d),
         NEW a \in 0 .. U - 1, NEW b \in 0 .. U - 1,
         NEW c \in S, Ahead(U, a, b) < P, Ahead(U, a, b) < U - 1
  PROVE  Ring(P, U, PutAt(P, d, b, c), a, (b + 1) % U) = Append(Ring(P, U, d, a, b), c)
<1>1. P \in Nat \ {0} /\ U \in Nat \ {0} /\ Divides(P, U) /\ d \in [0 .. P - 1 -> S]
  BY DEF IsRing
<1>2. PICK n \in Nat : n = Ahead(U, a, b)
  BY <1>1, AheadIs
<1>3. PICK f : f = [d EXCEPT ![b % P] = c]
  OBVIOUS
<1>4. PICK x \in 0 .. U - 1 : x = (b + 1) % U /\ Ahead(U, a, x) = n + 1
  BY <1>1, <1>2, NeighboursAre, AheadMoves
<1>5. b % P \in 0 .. P - 1
  BY <1>1, ModIs
<1>6. IsRing(P, U, S, f)
  BY <1>1, <1>3, <1>5 DEF IsRing
<1>7. /\ Ring(P, U, f, a, x) \in Seq(S) /\ Len(Ring(P, U, f, a, x)) = n + 1
      /\ \A i \in 1 .. n + 1 : Ring(P, U, f, a, x)[i] = f[(a + (i - 1)) % P]
  <2>1. Lists(P, U, S, f, a, x, Ring(P, U, f, a, x))
    BY <1>4, <1>6, RingIs
  <2> QED BY <1>4, <2>1 DEF Lists
<1>8. /\ Ring(P, U, d, a, b) \in Seq(S) /\ Len(Ring(P, U, d, a, b)) = n
      /\ \A i \in 1 .. n : Ring(P, U, d, a, b)[i] = d[(a + (i - 1)) % P]
  <2>1. Lists(P, U, S, d, a, b, Ring(P, U, d, a, b))
    BY RingIs
  <2> QED BY <1>2, <2>1 DEF Lists
<1>9. PICK p, q : p = Ring(P, U, d, a, b) /\ q = Append(p, c)
  OBVIOUS
<1>10. /\ q \in Seq(S) /\ Len(q) = n + 1
       /\ \A i \in 1 .. n : q[i] = p[i]
       /\ q[n + 1] = c
  <2>1. p \in Seq(S) /\ Len(p) = n
    BY <1>8, <1>9
  <2>2. /\ Append(p, c) \in Seq(S) /\ Len(Append(p, c)) = Len(p) + 1
        /\ \A i \in 1 .. Len(p) : Append(p, c)[i] = p[i]
        /\ Append(p, c)[Len(p) + 1] = c
    BY <2>1, AppendProperties
  <2> QED BY <1>9, <2>1, <2>2
<1>11. ASSUME NEW i \in 1 .. n PROVE f[(a + (i - 1)) % P] = d[(a + (i - 1)) % P]
  <2>1. PICK k \in Nat : k = i - 1 /\ k < n
    BY <1>2
  <2>2. (a + k) % P # b % P /\ (a + k) % P \in 0 .. P - 1
    <3>1. k < Ahead(U, a, b) /\ Ahead(U, a, b) < P
      BY <1>2, <2>1
    <3> QED BY <1>1, <3>1, SlotIs, SlotIsFree
  <2> QED BY <1>1, <1>3, <2>1, <2>2
<1>12. f[(a + ((n + 1) - 1)) % P] = c
  <2>1. (b + 0) % P = (a + (n + 0)) % P
    BY <1>1, <1>2, SlotBehind
  <2>2. b + 0 = b /\ n + 0 = (n + 1) - 1
    BY <1>1, <1>2
  <2> QED BY <1>1, <1>3, <1>5, <2>1, <2>2
<1>13. ASSUME NEW i \in 1 .. n + 1 PROVE Ring(P, U, f, a, x)[i] = q[i]
  <2>1. i = n + 1 \/ i \in 1 .. n
    BY <1>2
  <2>2. CASE i = n + 1
    BY <1>2, <1>7, <1>10, <1>12, <2>2
  <2>3. CASE i \in 1 .. n
    BY <1>7, <1>8, <1>9, <1>10, <1>11, <2>3
  <2> QED BY <2>1, <2>2, <2>3
<1>14. PICK g : g = Ring(P, U, f, a, x)
  OBVIOUS
<1>15. g = q
  BY <1>2, <1>7, <1>10, <1>13, <1>14, SeqEqual
<1> QED BY <1>3, <1>4, <1>9, <1>14, <1>15 DEF PutAt

(* What lies before b is still there when a character is put at z, which   *)
(* is not before b.                                                        *)
LEMMA RingKept ==
  ASSUME NEW P, NEW U, NEW S, NEW d, IsRing(P, U, S, d),
         NEW a \in 0 .. U - 1, NEW b \in 0 .. U - 1, NEW z \in 0 .. U - 1, NEW c \in S,
         Ahead(U, a, b) + Ahead(U, b, z) < P, P <= U
  PROVE  Ring(P, U, PutAt(P, d, z, c), a, b) = Ring(P, U, d, a, b)
<1>1. P \in Nat \ {0} /\ U \in Nat \ {0} /\ Divides(P, U) /\ d \in [0 .. P - 1 -> S]
  BY DEF IsRing
<1>2. PICK n \in Nat, m \in Nat : n = Ahead(U, a, b) /\ m = Ahead(U, b, z)
  <2>1. Ahead(U, a, b) \in Nat
    BY <1>1, AheadIs
  <2>2. Ahead(U, b, z) \in Nat
    BY <1>1, AheadIs
  <2> QED BY <2>1, <2>2
<1>3. PICK f : f = [d EXCEPT ![z % P] = c]
  OBVIOUS
<1>4. n + m < U
  BY <1>1, <1>2
<1>5. Ahead(U, a, z) = n + m
  BY <1>1, <1>2, <1>4, AheadAdds
<1>6. z % P \in 0 .. P - 1
  BY <1>1, ModIs
<1>7. IsRing(P, U, S, f)
  BY <1>1, <1>3, <1>6 DEF IsRing
<1>8. PICK g, h : g = Ring(P, U, f, a, b) /\ h = Ring(P, U, d, a, b)
  OBVIOUS
<1>9. g \in Seq(S) /\ Len(g) = n /\ \A i \in 1 .. n : g[i] = f[(a + (i - 1)) % P]
  <2>1. Lists(P, U, S, f, a, b, Ring(P, U, f, a, b))
    BY <1>7, RingIs
  <2> QED BY <1>2, <1>8, <2>1 DEF Lists
<1>10. h \in Seq(S) /\ Len(h) = n /\ \A i \in 1 .. n : h[i] = d[(a + (i - 1)) % P]
  <2>1. Lists(P, U, S, d, a, b, Ring(P, U, d, a, b))
    BY RingIs
  <2> QED BY <1>2, <1>8, <2>1 DEF Lists
<1>11. ASSUME NEW i \in 1 .. n PROVE f[(a + (i - 1)) % P] = d[(a + (i - 1)) % P]
  <2>1. PICK k \in Nat : k = i - 1 /\ k < n + m /\ n + m < P
    BY <1>2
  <2>2. (a + k) % P # z % P /\ (a + k) % P \in 0 .. P - 1
    <3>1. k < Ahead(U, a, z) /\ Ahead(U, a, z) < P
      BY <1>5, <2>1
    <3> QED BY <1>1, <3>1, SlotIs, SlotIsFree
  <2> QED BY <1>1, <1>3, <2>1, <2>2
<1>12. g = h
  BY <1>9, <1>10, <1>11, SeqEqual
<1> QED BY <1>3, <1>8, <1>12 DEF PutAt

(* A character that is taken leaves the front of the ring.                 *)
LEMMA RingTake ==
  ASSUME NEW P, NEW U, NEW S, NEW d, IsRing(P, U, S, d),
         NEW a \in 0 .. U - 1, NEW b \in 0 .. U - 1
  PROVE  a # b => /\ Ring(P, U, d, a, b) # <<>> /\ Head(Ring(P, U, d, a, b)) = d[a % P]
                  /\ Ring(P, U, d, (a + 1) % U, b) = Tail(Ring(P, U, d, a, b))
<1>1. P \in Nat \ {0} /\ U \in Nat \ {0} /\ Divides(P, U) /\ d \in [0 .. P - 1 -> S]
  BY DEF IsRing
<1>2. /\ Ring(P, U, d, a, b) \in Seq(S) /\ Len(Ring(P, U, d, a, b)) = Ahead(U, a, b)
       /\ \A i \in 1 .. Ahead(U, a, b) : Ring(P, U, d, a, b)[i] = d[(a + (i - 1)) % P]
  <2>1. Lists(P, U, S, d, a, b, Ring(P, U, d, a, b))
    BY RingIs
  <2> QED BY <2>1 DEF Lists
<1>3. ASSUME NEW x \in 0 .. U - 1
      PROVE  /\ Ring(P, U, d, x, b) \in Seq(S) /\ Len(Ring(P, U, d, x, b)) = Ahead(U, x, b)
             /\ \A i \in 1 .. Ahead(U, x, b) : Ring(P, U, d, x, b)[i] = d[(x + (i - 1)) % P]
  <2>1. Lists(P, U, S, d, x, b, Ring(P, U, d, x, b))
    BY RingIs
  <2> QED BY <2>1 DEF Lists
<1> SUFFICES ASSUME a # b
             PROVE  /\ Ring(P, U, d, a, b) # <<>> /\ Head(Ring(P, U, d, a, b)) = d[a % P]
                    /\ Ring(P, U, d, (a + 1) % U, b) = Tail(Ring(P, U, d, a, b))
  OBVIOUS
<1>4. PICK n \in Nat : n = Ahead(U, a, b)
  BY <1>1, AheadIs
<1>5. PICK q : q = Ring(P, U, d, a, b)
  OBVIOUS
<1>6. PICK x \in 0 .. U - 1 : x = (a + 1) % U /\ n # 0 /\ Ahead(U, x, b) = n - 1
  BY <1>1, <1>4, NeighboursAre, AheadMoves
<1>7. q \in Seq(S) /\ Len(q) = n /\ \A i \in 1 .. n : q[i] = d[(a + (i - 1)) % P]
  BY <1>4, <1>5, <1>2
<1>8. PICK g : g = Ring(P, U, d, x, b)
  OBVIOUS
<1>9. g \in Seq(S) /\ Len(g) = n - 1 /\ \A i \in 1 .. n - 1 : g[i] = d[(x + (i - 1)) % P]
  BY <1>3, <1>6, <1>8
<1>10. q # <<>>
  BY <1>4, <1>6, <1>7
<1>11. /\ Tail(q) \in Seq(S) /\ Len(Tail(q)) = n - 1
      /\ \A i \in 1 .. n - 1 : Tail(q)[i] = q[i + 1]
      /\ Head(q) = q[1]
  BY <1>7, <1>10, HeadTailProperties
<1>12. ASSUME NEW i \in 1 .. n - 1 PROVE g[i] = Tail(q)[i]
  <2>1. PICK k \in Nat : k = i - 1 /\ k + 1 = (i + 1) - 1 /\ i + 1 \in 1 .. n
    BY <1>4
  <2>2. (x + k) % P = (a + (k + 1)) % P
    <3>1. (((a + 1) % U) + k) % P = (a + (k + 1)) % P
      BY <1>1, SlotBehindNext
    <3> QED BY <1>6, <3>1
  <2>3. Tail(q)[i] = d[(a + ((i + 1) - 1)) % P]
    BY <1>7, <1>11, <2>1
  <2>4. g[i] = d[(x + (i - 1)) % P]
    BY <1>9
  <2> QED BY <2>1, <2>2, <2>3, <2>4
<1>13. g = Tail(q)
  BY <1>9, <1>11, <1>12, SeqEqual
<1>14. Head(q) = d[a % P]
  <2>1. 1 \in 1 .. n /\ a + (1 - 1) = a
    BY <1>1, <1>4, <1>6
  <2>2. q[1] = d[(a + (1 - 1)) % P]
    BY <1>7, <2>1
  <2> QED BY <1>11, <2>1, <2>2
<1> QED BY <1>5, <1>6, <1>8, <1>10, <1>13, <1>14

(* A character that is erased leaves its end.                              *)
LEMMA RingErase ==
  ASSUME NEW P, NEW U, NEW S, NEW d, IsRing(P, U, S, d),
         NEW a \in 0 .. U - 1, NEW b \in 0 .. U - 1
  PROVE  a # b => /\ Ring(P, U, d, a, b) # <<>>
                  /\ Ring(P, U, d, a, (b - 1) % U)
                       = SubSeq(Ring(P, U, d, a, b), 1, Len(Ring(P, U, d, a, b)) - 1)
<1>1. P \in Nat \ {0} /\ U \in Nat \ {0} /\ Divides(P, U) /\ d \in [0 .. P - 1 -> S]
  BY DEF IsRing
<1>2. /\ Ring(P, U, d, a, b) \in Seq(S) /\ Len(Ring(P, U, d, a, b)) = Ahead(U, a, b)
       /\ \A i \in 1 .. Ahead(U, a, b) : Ring(P, U, d, a, b)[i] = d[(a + (i - 1)) % P]
  <2>1. Lists(P, U, S, d, a, b, Ring(P, U, d, a, b))
    BY RingIs
  <2> QED BY <2>1 DEF Lists
<1>3. ASSUME NEW x \in 0 .. U - 1
      PROVE  /\ Ring(P, U, d, a, x) \in Seq(S) /\ Len(Ring(P, U, d, a, x)) = Ahead(U, a, x)
             /\ \A i \in 1 .. Ahead(U, a, x) : Ring(P, U, d, a, x)[i] = d[(a + (i - 1)) % P]
  <2>1. Lists(P, U, S, d, a, x, Ring(P, U, d, a, x))
    BY RingIs
  <2> QED BY <2>1 DEF Lists
<1> SUFFICES ASSUME a # b
             PROVE  /\ Ring(P, U, d, a, b) # <<>>
                    /\ Ring(P, U, d, a, (b - 1) % U)
                         = SubSeq(Ring(P, U, d, a, b), 1, Len(Ring(P, U, d, a, b)) - 1)
  OBVIOUS
<1>4. PICK n \in Nat : n = Ahead(U, a, b)
  BY <1>1, AheadIs
<1>5. PICK q : q = Ring(P, U, d, a, b)
  OBVIOUS
<1>6. PICK x \in 0 .. U - 1 : x = (b - 1) % U /\ n # 0 /\ Ahead(U, a, x) = n - 1
  BY <1>1, <1>4, NeighboursAre, AheadMoves
<1>7. q \in Seq(S) /\ Len(q) = n /\ \A i \in 1 .. n : q[i] = d[(a + (i - 1)) % P]
  BY <1>4, <1>5, <1>2
<1>8. PICK m \in Nat : m = n - 1
  BY <1>4, <1>6
<1>9. PICK g, s : g = Ring(P, U, d, a, x) /\ s = SubSeq(q, 1, m)
  OBVIOUS
<1>10. g \in Seq(S) /\ Len(g) = m /\ \A i \in 1 .. m : g[i] = d[(a + (i - 1)) % P]
  BY <1>3, <1>6, <1>8, <1>9
<1>11. \A i \in 1 .. m : i \in 1 .. n
  BY <1>4, <1>8
<1>12. \A i \in 1 .. m : q[i] \in S
  BY <1>7, <1>11, ElementOfSeq
<1>13. /\ s \in Seq(S) /\ Len(s) = IF 1 <= m THEN m - 1 + 1 ELSE 0
       /\ \A i \in 1 .. m - 1 + 1 : s[i] = q[1 + i - 1]
  BY <1>9, <1>12, SubSeqProperties
<1>14. m - 1 + 1 = m /\ (1 <= m \/ m = 0) /\ \A i \in 1 .. m : 1 + i - 1 = i
  BY <1>8
<1>15. Len(s) = m /\ \A i \in 1 .. m : s[i] = q[i]
  BY <1>13, <1>14
<1>16. \A i \in 1 .. m : g[i] = s[i]
  BY <1>7, <1>10, <1>11, <1>15
<1>17. g = s
  BY <1>10, <1>13, <1>15, <1>16, SeqEqual
<1>18. q # <<>>
  BY <1>4, <1>6, <1>7
<1> QED BY <1>5, <1>6, <1>7, <1>8, <1>9, <1>17, <1>18

(* Two adjacent stretches make one.                                        *)
LEMMA RingJoins ==
  ASSUME NEW P, NEW U, NEW S, NEW d, IsRing(P, U, S, d),
         NEW a \in 0 .. U - 1, NEW b \in 0 .. U - 1, NEW z \in 0 .. U - 1,
         Ahead(U, a, b) + Ahead(U, b, z) < U
  PROVE  Ring(P, U, d, a, z) = Ring(P, U, d, a, b) \o Ring(P, U, d, b, z)
<1>1. P \in Nat \ {0} /\ U \in Nat \ {0} /\ Divides(P, U) /\ d \in [0 .. P - 1 -> S]
  BY DEF IsRing
<1>2. PICK n \in Nat, m \in Nat : n = Ahead(U, a, b) /\ m = Ahead(U, b, z)
  <2>1. Ahead(U, a, b) \in Nat
    BY <1>1, AheadIs
  <2>2. Ahead(U, b, z) \in Nat
    BY <1>1, AheadIs
  <2> QED BY <2>1, <2>2
<1>3. Ahead(U, a, z) = n + m
  BY <1>1, <1>2, AheadAdds
<1>4. PICK f, g, h : f = Ring(P, U, d, a, b) /\ g = Ring(P, U, d, b, z) /\ h = Ring(P, U, d, a, z)
  OBVIOUS
<1>5. f \in Seq(S) /\ Len(f) = n /\ \A i \in 1 .. n : f[i] = d[(a + (i - 1)) % P]
  <2>1. Lists(P, U, S, d, a, b, Ring(P, U, d, a, b))
    BY RingIs
  <2> QED BY <1>2, <1>4, <2>1 DEF Lists
<1>6. g \in Seq(S) /\ Len(g) = m /\ \A i \in 1 .. m : g[i] = d[(b + (i - 1)) % P]
  <2>1. Lists(P, U, S, d, b, z, Ring(P, U, d, b, z))
    BY RingIs
  <2> QED BY <1>2, <1>4, <2>1 DEF Lists
<1>7. h \in Seq(S) /\ Len(h) = n + m /\ \A i \in 1 .. n + m : h[i] = d[(a + (i - 1)) % P]
  <2>1. Lists(P, U, S, d, a, z, Ring(P, U, d, a, z))
    BY RingIs
  <2> QED BY <1>3, <1>4, <2>1 DEF Lists
<1>8. PICK j : j = f \o g
  OBVIOUS
<1>9. /\ j \in Seq(S) /\ Len(j) = n + m
      /\ \A i \in 1 .. n + m : j[i] = IF i <= n THEN f[i] ELSE g[i - n]
  <2>1. f \in Seq(S) /\ Len(f) = n /\ g \in Seq(S) /\ Len(g) = m
    BY <1>5, <1>6
  <2>2. /\ f \o g \in Seq(S) /\ Len(f \o g) = Len(f) + Len(g)
        /\ \A i \in 1 .. Len(f) + Len(g) :
             (f \o g)[i] = IF i <= Len(f) THEN f[i] ELSE g[i - Len(f)]
    BY <2>1, ConcatProperties
  <2> QED BY <1>8, <2>1, <2>2
<1>10. ASSUME NEW i \in 1 .. n + m PROVE h[i] = j[i]
  <2>1. CASE i <= n
    <3>1. i \in 1 .. n
      BY <1>2, <2>1
    <3> QED BY <1>5, <1>7, <1>9, <2>1, <3>1
  <2>2. CASE ~(i <= n)
    <3>1. PICK k \in Nat : k = (i - n) - 1 /\ n + k = i - 1 /\ i - n \in 1 .. m
      BY <1>2, <2>2
    <3>2. (b + k) % P = (a + (n + k)) % P
      <4>1. (b + k) % P = (a + (Ahead(U, a, b) + k)) % P
        BY <1>1, SlotBehind
      <4> QED BY <1>2, <4>1
    <3>3. g[i - n] = d[(b + k) % P]
      BY <1>6, <3>1
    <3> QED BY <1>7, <1>9, <2>2, <3>1, <3>2, <3>3
  <2> QED BY <2>1, <2>2
<1>11. h = j
  BY <1>7, <1>9, <1>10, SeqEqual
<1> QED BY <1>4, <1>8, <1>11
-----------------------------------------------------------------------------
(* Console: the invariant.                                                 *)
HoldsCons == {"write", "read", "sleep", "start", "load"}
Edits == {"kill", "echo", "echoed", "store"}
Actor == User \cup {Irq}
At == HoldsCons \cup Edits \cup
        {"user", "asleep", "woken", "idle", "recv", "char", "send", "panicked"}

(* Every variable has its type.                                            *)
ConsTypes ==
  /\ buf \in [0 .. INPUT_BUF - 1 -> Stored]
  /\ r \in 0 .. UintSpan - 1 /\ w \in 0 .. UintSpan - 1 /\ e \in 0 .. UintSpan - 1
TxTypes ==
  /\ txBuf \in [0 .. UART_TX_BUF_SIZE - 1 -> {"x"} \cup Written]
  /\ txR \in 0 .. UART_TX_BUF_SIZE - 1 /\ txW \in 0 .. UART_TX_BUF_SIZE - 1
  /\ thr \in {"x", "echo", Nothing} \cup Written /\ txReady \in BOOLEAN
ActorTypes ==
  /\ consLock \in Actor \cup {Nothing} /\ txLock \in Actor \cup {Nothing}
  /\ place \in [Actor -> At]
  /\ key \in Key \cup {Nothing}
  /\ copied \in [User -> BOOLEAN] /\ killed \in [User -> BOOLEAN]
ConsoleTypes == ConsTypes /\ TxTypes /\ ActorTypes

(* Who is where the code holds a lock holds it.                            *)
Guarded ==
  /\ \A p \in User : place[p] \in HoldsCons => consLock = p
  /\ place[Irq] \in Edits => consLock = Irq
  /\ \A a \in Actor : place[a] \in {"start", "load"} => txLock = a

(* Between the test of LSR and the write to THR the UART stays idle, and   *)
(* in uartstart the ring keeps its character.                              *)
MaySend ==
  /\ \A a \in Actor : place[a] = "load" => thr = Nothing /\ txR # txW
  /\ place[Irq] = "echoed" => thr = Nothing

(* Whoever sleeps or is about to has nothing to read.                      *)
NothingToRead == \A p \in User : place[p] \in {"sleep", "asleep"} => r = w

(* The handler's character fits what it does with it.                      *)
KeyFits ==
  /\ place[Irq] \in {"char"} \cup Edits => key \in Key
  /\ place[Irq] = "kill" => key = "^U"
  /\ place[Irq] = "store" => key \in Stored

(* No more is kept than cons.buf holds, and there is room for a character  *)
(* whose echo is on its way.                                               *)
ReadyLen == Ahead(UintSpan, r, w)
LineLen == Ahead(UintSpan, w, e)
InputFits ==
  /\ ReadyLen + LineLen <= INPUT_BUF
  /\ place[Irq] \in {"echo", "echoed", "store"} /\ key \in Stored => ReadyLen + LineLen < INPUT_BUF

CInv ==
  ConsoleTypes /\ Guarded /\ MaySend /\ NothingToRead /\ KeyFits /\ InputFits /\ OutputGoesOn

-----------------------------------------------------------------------------
(* What is assumed of the console's constants, as facts.                   *)
LEMMA ConsoleConst ==
  /\ INPUT_BUF \in Nat \ {0} /\ UintSpan \in Nat \ {0} /\ UintSpan >= 2 * INPUT_BUF
  /\ INPUT_BUF < UintSpan
  /\ UART_TX_BUF_SIZE \in Nat \ {0} /\ UART_TX_BUF_SIZE >= 2
  /\ Divides(INPUT_BUF, UintSpan) /\ Divides(UART_TX_BUF_SIZE, UART_TX_BUF_SIZE)
  /\ Irq \notin User /\ Nothing \notin Actor /\ Irq \in Actor /\ User \subseteq Actor
<1>1. /\ INPUT_BUF \in Nat \ {0} /\ UintSpan \in Nat \ {0} /\ UintSpan >= 2 * INPUT_BUF
      /\ INPUT_BUF < UintSpan /\ UART_TX_BUF_SIZE \in Nat \ {0} /\ UART_TX_BUF_SIZE >= 2
  BY ConsoleAssumption DEF ConsoleAssumption
<1>2. Divides(INPUT_BUF, UintSpan)
  BY ConsoleAssumption DEF ConsoleAssumption, Divides
<1>3. Divides(UART_TX_BUF_SIZE, UART_TX_BUF_SIZE)
  <2>1. PICK n \in Nat \ {0} : n = UART_TX_BUF_SIZE
    BY <1>1
  <2>2. (0 + n) % n = 0 /\ 0 + n = n
    BY WrapOnce
  <2> QED BY <2>1, <2>2 DEF Divides
<1>4. Irq \notin User /\ Nothing \notin Actor /\ Irq \in Actor /\ User \subseteq Actor
  BY ConsoleAssumption DEF ConsoleAssumption, Actor
<1> QED BY <1>1, <1>2, <1>3, <1>4

(* The counters stay in their ranges.                                      *)
LEMMA CountersWrap ==
  /\ \A x \in 0 .. UintSpan - 1 : UintInc(x) \in 0 .. UintSpan - 1 /\ UintDec(x) \in 0 .. UintSpan - 1
  /\ \A x \in 0 .. UART_TX_BUF_SIZE - 1 : TxInc(x) \in 0 .. UART_TX_BUF_SIZE - 1
BY ConsoleConst, NeighboursAre DEF UintInc, UintDec, TxInc

(* After consoleinit the invariant holds.                                  *)
LEMMA InitCInv == ConsoleInit => CInv
<1> SUFFICES ASSUME ConsoleInit PROVE CInv
  OBVIOUS
<1> USE ConsoleConst DEF ConsoleInit
<1>1. ConsTypes
  BY DEF ConsTypes, Stored
<1>2. TxTypes
  <2>1. txBuf \in [0 .. UART_TX_BUF_SIZE - 1 -> {"x"} \cup Written]
    OBVIOUS
  <2>2. 0 \in 0 .. UART_TX_BUF_SIZE - 1
    OBVIOUS
  <2>3. txR = 0 /\ txW = 0 /\ thr = Nothing /\ txReady = FALSE
    OBVIOUS
  <2> QED BY <2>1, <2>2, <2>3 DEF TxTypes
<1>3. ActorTypes
  BY DEF ActorTypes, At, Actor
<1>4. place[Irq] = "idle" /\ \A p \in User : place[p] = "user"
  BY DEF Actor
<1>5. \A a \in Actor : place[a] \in {"idle", "user"}
  BY <1>4 DEF Actor
<1>6. Guarded /\ MaySend /\ NothingToRead /\ KeyFits
  BY <1>4, <1>5 DEF Guarded, MaySend, NothingToRead, KeyFits, HoldsCons, Edits
<1>7. InputFits
  <2>1. Ahead(UintSpan, r, w) = 0 /\ Ahead(UintSpan, w, e) = 0
    BY AheadIs
  <2> QED BY <1>4, <2>1 DEF InputFits, ReadyLen, LineLen
<1>8. OutputGoesOn
  BY DEF OutputGoesOn, TxEmpty
<1> QED BY <1>1, <1>2, <1>3, <1>6, <1>7, <1>8 DEF CInv, ConsoleTypes

(* struct cons keeps its types.                                            *)
LEMMA ConsTypesStep ==
  ASSUME ConsTypes, KeyFits, ConsoleNext
  PROVE  ConsTypes'
<1> USE CountersWrap DEF ConsTypes
<1>1. ASSUME NEW p \in User, Write(p) \/ KillReader(p) PROVE ConsTypes'
  BY <1>1 DEF Write, WriteCall, WriteEnd, Uartputc, UartputcFull, KillReader, cons
<1>2. ASSUME NEW p \in User, Read(p) PROVE ConsTypes'
  BY <1>2 DEF Read, ReadCall, ReadKilled, ReadEmpty, ReadEof, ReadLast, ReadChar, Sleep, Reacquire, cons
<1>3. ASSUME NEW a \in Actor, Uartstart(a) PROVE ConsTypes'
  BY <1>3 DEF Uartstart, UartstartEnd, UartstartTest, UartstartLoad, cons
<1>4. ASSUME UartHandler, ~Store PROVE ConsTypes'
  BY <1>4 DEF UartHandler, Uartintr, Uartgetc, ConsoleintrIgnores, Consoleintr, KillLine,
     KillLineEnd, EchoTest, EchoSend, UartintrSend, cons
<1>5. ASSUME Store PROVE ConsTypes'
  <2>1. e % INPUT_BUF \in 0 .. INPUT_BUF - 1
    <3>1. e \in Int /\ INPUT_BUF \in Nat \ {0}
      BY ConsoleConst
    <3> HIDE DEF ConsTypes
    <3> QED BY <3>1, ModIs
  <2>2. buf' = [buf EXCEPT ![e % INPUT_BUF] = key] /\ key \in Stored
    BY <1>5 DEF Store, KeyFits
  <2>3. buf' \in [0 .. INPUT_BUF - 1 -> Stored]
    BY <2>1, <2>2
  <2>4. e' = UintInc(e) /\ w' \in {e', w} /\ r' = r
    BY <1>5 DEF Store
  <2> QED BY <2>3, <2>4
<1>6. ASSUME Transmit PROVE ConsTypes'
  BY <1>6 DEF Transmit, cons
<1> QED BY <1>1, <1>2, <1>3, <1>4, <1>5, <1>6 DEF ConsoleNext, Actor

(* The transmitter keeps its types.                                        *)
LEMMA TxTypesStep ==
  ASSUME TxTypes, ConsoleNext
  PROVE  TxTypes'
<1> USE CountersWrap DEF TxTypes
<1>1. ASSUME NEW p \in User, Write(p) \/ KillReader(p) PROVE TxTypes'
  <2>1. ASSUME NEW c \in Written, Uartputc(p, c) PROVE TxTypes'
    BY <2>1 DEF Uartputc, uart
  <2>2. CASE WriteCall(p) \/ WriteEnd(p) \/ UartputcFull(p) \/ KillReader(p)
    BY <2>2 DEF WriteCall, WriteEnd, UartputcFull, KillReader, tx, uart
  <2> QED BY <1>1, <2>1, <2>2 DEF Write
<1>2. ASSUME NEW p \in User, Read(p) PROVE TxTypes'
  BY <1>2 DEF Read, ReadCall, ReadKilled, ReadEmpty, ReadEof, ReadLast, ReadChar, Sleep, Reacquire, tx, uart
<1>3. ASSUME NEW a \in Actor, Uartstart(a) PROVE TxTypes'
  BY <1>3 DEF Uartstart, UartstartEnd, UartstartTest, UartstartLoad, tx, uart
<1>4. ASSUME UartHandler PROVE TxTypes'
  BY <1>4 DEF UartHandler, Uartintr, Uartgetc, ConsoleintrIgnores, Consoleintr, KillLine,
     KillLineEnd, EchoTest, EchoSend, Store, UartintrSend, tx, uart
<1>5. ASSUME Transmit PROVE TxTypes'
  BY <1>5 DEF Transmit, tx
<1> QED BY <1>1, <1>2, <1>3, <1>4, <1>5 DEF ConsoleNext, Actor

(* What Goto does.                                                         *)
LEMMA GotoIs ==
  ASSUME ActorTypes, NEW a \in Actor, NEW l, Goto(a, l)
  PROVE  place'[a] = l /\ \A x \in Actor \ {a} : place'[x] = place[x]
BY DEF Goto, ActorTypes

(* So do locks, actors and the rest.                                       *)
LEMMA ActorTypesStep ==
  ASSUME ActorTypes, ConsoleNext
  PROVE  ActorTypes'
<1> DEFINE Rest == /\ consLock' \in Actor \cup {Nothing} /\ txLock' \in Actor \cup {Nothing}
                   /\ key' \in Key \cup {Nothing}
                   /\ copied' \in [User -> BOOLEAN] /\ killed' \in [User -> BOOLEAN]
           Typed == place' \in [Actor -> At]
<1>1. ASSUME NEW a \in Actor, NEW l \in At, Goto(a, l) PROVE Typed
  BY <1>1 DEF Goto, ActorTypes
<1>2. UNCHANGED place => Typed
  BY DEF ActorTypes
<1>3. \A p \in User : p \in Actor
  BY ConsoleConst
<1>4. Irq \in Actor
  BY ConsoleConst
<1>5. ASSUME NEW p \in User, Write(p) PROVE Typed /\ Rest
  <2>1. Rest
    BY <1>3, <1>5 DEF Write, WriteCall, WriteEnd, Uartputc, UartputcFull, ActorTypes, locks, call
  <2>2. ASSUME UartputcFull(p) PROVE Typed
    BY <2>2 DEF UartputcFull, Actor, At
  <2>3. WriteCall(p) => Goto(p, "write")
    BY DEF WriteCall
  <2>4. WriteEnd(p) => Goto(p, "user")
    BY DEF WriteEnd
  <2>5. (\E c \in Written : Uartputc(p, c)) => Goto(p, "start")
    BY DEF Uartputc
  <2>6. "write" \in At /\ "user" \in At /\ "start" \in At
    BY DEF At, HoldsCons
  <2>7. Typed
    BY <1>1, <1>3, <1>5, <2>2, <2>3, <2>4, <2>5, <2>6 DEF Write
  <2> QED BY <2>1, <2>7
<1>6. ASSUME NEW p \in User, Read(p) PROVE Typed /\ Rest
  <2>1. Rest
    BY <1>3, <1>6 DEF Read, ReadCall, ReadKilled, ReadEmpty, ReadEof, ReadLast, ReadChar, Sleep,
       Reacquire, Return, ActorTypes, locks, call
  <2>2. UNCHANGED place \/ \E l \in {"read", "user", "sleep", "asleep"} : Goto(p, l)
    BY <1>6 DEF Read, ReadCall, ReadKilled, ReadEmpty, ReadEof, ReadLast, ReadChar, Sleep, Reacquire, Return
  <2>3. {"read", "user", "sleep", "asleep"} \subseteq At
    BY DEF At, HoldsCons
  <2> QED BY <1>1, <1>2, <1>3, <2>1, <2>2, <2>3
<1>7. ASSUME NEW p \in User, KillReader(p) PROVE Typed /\ Rest
  <2>1. Rest
    BY <1>7 DEF KillReader, ActorTypes, locks
  <2>2. PICK l : l = (IF place[p] = "asleep" THEN "woken" ELSE place[p]) /\ Goto(p, l)
    BY <1>7 DEF KillReader
  <2>3. l \in At
    BY <1>3, <2>2 DEF ActorTypes, At
  <2> QED BY <1>1, <1>3, <2>1, <2>2, <2>3
<1>8. ASSUME NEW a \in Actor, Uartstart(a) PROVE Typed /\ Rest
  <2>1. Rest
    BY <1>8 DEF Uartstart, UartstartEnd, UartstartTest, UartstartLoad, ActorTypes, locks, call
  <2>2. \E l \in {"idle", "write", "load", "start"} : Goto(a, l)
    BY <1>8 DEF Uartstart, UartstartEnd, UartstartTest, UartstartLoad
  <2>3. {"idle", "write", "load", "start"} \subseteq At
    BY DEF At, HoldsCons
  <2> QED BY <1>1, <2>1, <2>2, <2>3
<1>9. ASSUME UartHandler PROVE Typed /\ Rest
  <2>1. Rest
    BY <1>4, <1>9 DEF UartHandler, Uartintr, Uartgetc, ConsoleintrIgnores, Consoleintr, KillLine,
       KillLineEnd, EchoTest, EchoSend, Store, UartintrSend, NextKey, ActorTypes, locks, call
  <2>2. ASSUME Store PROVE Typed
    <3>1. "woken" \in At /\ "recv" \in At
      BY DEF At
    <3> QED BY <2>2, <3>1 DEF Store, ActorTypes, Actor
  <2>3. ASSUME ~Store
        PROVE  \E l \in {"recv", "send", "char", "kill", "echo", "echoed", "store", "start"} : Goto(Irq, l)
    BY <1>9, <2>3 DEF UartHandler, Uartintr, Uartgetc, ConsoleintrIgnores, Consoleintr, KillLine,
       KillLineEnd, EchoTest, EchoSend, UartintrSend, NextKey
  <2>4. {"recv", "send", "char", "kill", "echo", "echoed", "store", "start"} \subseteq At
    BY DEF At, HoldsCons, Edits
  <2> QED BY <1>1, <1>4, <2>1, <2>2, <2>3, <2>4
<1>10. ASSUME Transmit PROVE Typed /\ Rest
  BY <1>10 DEF Transmit, ActorTypes, locks, call
<1> HIDE DEF Typed, Rest
<1>11. Typed /\ Rest
  BY <1>5, <1>6, <1>7, <1>8, <1>9, <1>10 DEF ConsoleNext, Actor
<1> QED BY <1>11 DEF ActorTypes, Typed, Rest

(* The locks are held where the code holds them.                           *)
LEMMA GuardedStep ==
  ASSUME ActorTypes, Guarded, ConsoleNext
  PROVE  Guarded'
<1> USE ConsoleConst DEF Guarded, HoldsCons, Edits
<1>1. ASSUME NEW a \in Actor, NEW l, Goto(a, l)
      PROVE  place'[a] = l /\ \A x \in Actor \ {a} : place'[x] = place[x]
  BY <1>1, GotoIs
<1>2. ASSUME NEW p \in User, Write(p) PROVE Guarded'
  <2>1. CASE WriteCall(p)
    BY <1>1, <2>1 DEF WriteCall
  <2>2. CASE WriteEnd(p)
    BY <1>1, <2>2 DEF WriteEnd
  <2>3. ASSUME NEW c \in Written, Uartputc(p, c) PROVE Guarded'
    BY <1>1, <2>3 DEF Uartputc
  <2>4. CASE UartputcFull(p)
    BY <2>4 DEF UartputcFull, Actor
  <2> QED BY <1>2, <2>1, <2>2, <2>3, <2>4 DEF Write
<1>3. ASSUME NEW p \in User, Read(p) PROVE Guarded'
  <2>1. CASE ReadCall(p)
    BY <1>1, <2>1 DEF ReadCall
  <2>2. CASE ReadKilled(p) \/ ReadEof(p) \/ ReadLast(p)
    BY <1>1, <2>2 DEF ReadKilled, ReadEof, ReadLast, Return
  <2>3. CASE ReadEmpty(p)
    BY <1>1, <2>3 DEF ReadEmpty, locks
  <2>4. CASE ReadChar(p)
    BY <2>4 DEF ReadChar, locks
  <2>5. CASE Sleep(p)
    BY <1>1, <2>5 DEF Sleep
  <2>6. CASE Reacquire(p)
    BY <1>1, <2>6 DEF Reacquire
  <2> QED BY <1>3, <2>1, <2>2, <2>3, <2>4, <2>5, <2>6 DEF Read
<1>4. ASSUME NEW p \in User, KillReader(p) PROVE Guarded'
  BY <1>1, <1>4 DEF KillReader, locks
<1>5. ASSUME NEW a \in Actor, Uartstart(a) PROVE Guarded'
  <2>1. CASE UartstartEnd(a)
    <3>1. /\ place[a] = "start" /\ txLock' = Nothing /\ consLock' = consLock
          /\ Goto(a, IF a = Irq THEN "idle" ELSE "write")
      BY <2>1 DEF UartstartEnd
    <3>2. /\ place'[a] = IF a = Irq THEN "idle" ELSE "write"
          /\ \A x \in Actor \ {a} : place'[x] = place[x]
      BY <1>1, <3>1
    <3>3. a = Irq \/ a \in User
      BY DEF Actor
    <3> QED BY <3>1, <3>2, <3>3
  <2>2. CASE UartstartTest(a)
    BY <1>1, <2>2 DEF UartstartTest, locks, Actor
  <2>3. CASE UartstartLoad(a)
    BY <1>1, <2>3 DEF UartstartLoad, locks, Actor
  <2> QED BY <1>5, <2>1, <2>2, <2>3 DEF Uartstart
<1>6. ASSUME UartHandler PROVE Guarded'
  <2>1. CASE Uartintr \/ Uartgetc \/ ConsoleintrIgnores \/ EchoTest
    BY <1>1, <2>1 DEF Uartintr, Uartgetc, ConsoleintrIgnores, EchoTest, NextKey, locks
  <2>2. CASE Consoleintr \/ KillLine
    BY <1>1, <2>2 DEF Consoleintr, KillLine, locks
  <2>3. CASE KillLineEnd
    BY <1>1, <2>3 DEF KillLineEnd, NextKey
  <2>4. CASE EchoSend
    BY <1>1, <2>4 DEF EchoSend, NextKey
  <2>5. CASE Store
    <3>1. /\ place[Irq] = "store" /\ consLock' = Nothing /\ txLock' = txLock /\ place'[Irq] = "recv"
          /\ \A p \in User : place'[p] \in {"woken", place[p]}
      BY <2>5 DEF Store, Actor
    <3> QED BY <3>1 DEF Actor
  <2>6. CASE UartintrSend
    BY <1>1, <2>6 DEF UartintrSend
  <2> QED BY <1>6, <2>1, <2>2, <2>3, <2>4, <2>5, <2>6 DEF UartHandler
<1>7. ASSUME Transmit PROVE Guarded'
  BY <1>7 DEF Transmit, locks
<1> QED BY <1>2, <1>3, <1>4, <1>5, <1>6, <1>7 DEF ConsoleNext, Actor

(* The transmitter is idle between test and write: another actor that      *)
(* might write to it would have to hold one of the two locks.              *)
LEMMA MaySendStep ==
  ASSUME ActorTypes, Guarded, MaySend, ConsoleNext
  PROVE  MaySend'
<1> USE ConsoleConst DEF Guarded, MaySend, HoldsCons, Edits
<1>1. ASSUME NEW a \in Actor, NEW l, Goto(a, l)
      PROVE  place'[a] = l /\ \A x \in Actor \ {a} : place'[x] = place[x]
  BY <1>1, GotoIs
<1>2. ASSUME NEW p \in User, Write(p) PROVE MaySend'
  <2>1. CASE WriteCall(p) \/ WriteEnd(p)
    BY <1>1, <2>1 DEF WriteCall, WriteEnd, tx, uart
  <2>2. ASSUME NEW c \in Written, Uartputc(p, c) PROVE MaySend'
    BY <1>1, <2>2 DEF Uartputc, uart
  <2>3. CASE UartputcFull(p)
    BY <2>3 DEF UartputcFull, Actor
  <2> QED BY <1>2, <2>1, <2>2, <2>3 DEF Write
<1>3. ASSUME NEW p \in User, Read(p) PROVE MaySend'
  <2>1. CASE ReadCall(p) \/ ReadKilled(p) \/ ReadEmpty(p) \/ ReadEof(p) \/ ReadLast(p)
    BY <1>1, <2>1 DEF ReadCall, ReadKilled, ReadEmpty, ReadEof, ReadLast, Return, tx, uart
  <2>2. CASE ReadChar(p)
    BY <2>2 DEF ReadChar, tx, uart
  <2>3. CASE Sleep(p) \/ Reacquire(p)
    BY <1>1, <2>3 DEF Sleep, Reacquire, tx, uart
  <2> QED BY <1>3, <2>1, <2>2, <2>3 DEF Read
<1>4. ASSUME NEW p \in User, KillReader(p) PROVE MaySend'
  BY <1>1, <1>4 DEF KillReader, tx, uart
<1>5. ASSUME NEW a \in Actor, Uartstart(a) PROVE MaySend'
  <2>1. CASE UartstartEnd(a) \/ UartstartTest(a)
    BY <1>1, <2>1 DEF UartstartEnd, UartstartTest, TxEmpty, tx, uart
  <2>2. CASE UartstartLoad(a)
    <3>1. place[a] = "load" /\ place'[a] = "start" /\ \A x \in Actor \ {a} : place'[x] = place[x]
      BY <1>1, <2>2 DEF UartstartLoad
    <3>2. \A x \in Actor \ {a} : place[x] # "load"
      BY <3>1
    <3>3. place[Irq] # "echoed"
      BY <3>1 DEF Actor
    <3> QED BY <3>1, <3>2, <3>3 DEF Actor
  <2> QED BY <1>5, <2>1, <2>2 DEF Uartstart
<1>6. ASSUME UartHandler PROVE MaySend'
  <2>1. CASE Uartintr \/ Uartgetc \/ ConsoleintrIgnores \/ Consoleintr \/ KillLine \/ KillLineEnd
    BY <1>1, <2>1 DEF Uartintr, Uartgetc, ConsoleintrIgnores, Consoleintr, KillLine, KillLineEnd,
       NextKey, tx, uart
  <2>2. CASE EchoTest \/ UartintrSend
    BY <1>1, <2>2 DEF EchoTest, UartintrSend, tx, uart
  <2>3. CASE EchoSend
    <3>1. place[Irq] = "echoed" /\ \E l \in {"recv", "kill", "store"} : Goto(Irq, l)
      BY <2>3 DEF EchoSend, NextKey
    <3>2. /\ place'[Irq] \in {"recv", "kill", "store"}
          /\ \A x \in Actor \ {Irq} : place'[x] = place[x]
      BY <1>1, <3>1
    <3>3. \A x \in Actor : place[x] # "load"
      BY <3>1 DEF Actor
    <3> QED BY <3>2, <3>3
  <2>4. CASE Store
    BY <2>4 DEF Store, Actor, tx, uart
  <2> QED BY <1>6, <2>1, <2>2, <2>3, <2>4 DEF UartHandler
<1>7. ASSUME Transmit PROVE MaySend'
  BY <1>7 DEF Transmit, tx
<1> QED BY <1>2, <1>3, <1>4, <1>5, <1>6, <1>7 DEF ConsoleNext, Actor

(* Nobody is left asleep when there is something to read.                  *)
LEMMA NothingToReadStep ==
  ASSUME ActorTypes, Guarded, NothingToRead, ConsoleNext
  PROVE  NothingToRead'
<1> USE ConsoleConst DEF NothingToRead, HoldsCons, Edits
<1>1. ASSUME NEW a \in Actor, NEW l, Goto(a, l)
      PROVE  place'[a] = l /\ \A x \in Actor \ {a} : place'[x] = place[x]
  BY <1>1, GotoIs
<1>2. ASSUME NEW p \in User, Write(p) PROVE NothingToRead'
  <2>1. CASE WriteCall(p) \/ WriteEnd(p)
    BY <1>1, <2>1 DEF WriteCall, WriteEnd, cons
  <2>2. ASSUME NEW c \in Written, Uartputc(p, c) PROVE NothingToRead'
    BY <1>1, <2>2 DEF Uartputc, cons
  <2>3. CASE UartputcFull(p)
    BY <2>3 DEF UartputcFull, Actor
  <2> QED BY <1>2, <2>1, <2>2, <2>3 DEF Write
<1>3. ASSUME NEW p \in User, Read(p) PROVE NothingToRead'
  <2>1. CASE ReadCall(p) \/ ReadKilled(p) \/ ReadEmpty(p)
    BY <1>1, <2>1 DEF ReadCall, ReadKilled, ReadEmpty, Return, cons
  <2>2. CASE ReadEof(p) \/ ReadLast(p)
    BY <1>1, <2>2 DEF ReadEof, ReadLast, Return
  <2>3. CASE ReadChar(p)
    BY <2>3 DEF ReadChar
  <2>4. CASE Sleep(p) \/ Reacquire(p)
    BY <1>1, <2>4 DEF Sleep, Reacquire, cons
  <2> QED BY <1>3, <2>1, <2>2, <2>3, <2>4 DEF Read
<1>4. ASSUME NEW p \in User, KillReader(p) PROVE NothingToRead'
  BY <1>1, <1>4 DEF KillReader, cons
<1>5. ASSUME NEW a \in Actor, Uartstart(a) PROVE NothingToRead'
  BY <1>1, <1>5 DEF Uartstart, UartstartEnd, UartstartTest, UartstartLoad, cons
<1>6. ASSUME UartHandler PROVE NothingToRead'
  <2>1. ASSUME ~Store PROVE r' = r /\ w' = w /\ \A p \in User : place'[p] = place[p]
    <3>1. r' = r /\ w' = w /\ \E l : Goto(Irq, l)
      BY <1>6, <2>1 DEF UartHandler, Uartintr, Uartgetc, ConsoleintrIgnores, Consoleintr, KillLine,
         KillLineEnd, EchoTest, EchoSend, UartintrSend, NextKey, cons
    <3> QED BY <1>1, <3>1
  <2>2. ASSUME Store PROVE NothingToRead'
    <3>1. place[Irq] = "store" /\ r' = r /\ w' = IF Completes THEN e' ELSE w
      BY <2>2 DEF Store
    <3>2. \A p \in User : place'[p] = IF Completes /\ place[p] = "asleep" THEN "woken" ELSE place[p]
      BY <2>2 DEF Store, Actor
    <3>3. \A p \in User : place[p] # "sleep"
      BY <3>1 DEF Guarded
    <3> QED BY <3>1, <3>2, <3>3
  <2> QED BY <2>1, <2>2
<1>7. ASSUME Transmit PROVE NothingToRead'
  BY <1>7 DEF Transmit, cons
<1> QED BY <1>2, <1>3, <1>4, <1>5, <1>6, <1>7 DEF ConsoleNext, Actor

(* The handler keeps a character only where it can use it.                 *)
LEMMA KeyFitsStep ==
  ASSUME ActorTypes, KeyFits, ConsoleNext
  PROVE  KeyFits'
<1> USE ConsoleConst DEF KeyFits, HoldsCons, Edits
<1>1. ASSUME NEW a \in Actor, NEW l, Goto(a, l)
      PROVE  place'[a] = l /\ \A x \in Actor \ {a} : place'[x] = place[x]
  BY <1>1, GotoIs
<1>2. ASSUME key' = key, place'[Irq] = place[Irq] \/ place'[Irq] \in {"start", "idle", "load", "panicked"}
      PROVE  KeyFits'
  BY <1>2
<1>3. ASSUME NEW p \in User, Write(p) PROVE KeyFits'
  <2>1. key' = key
    BY <1>3 DEF Write, WriteCall, WriteEnd, Uartputc, UartputcFull
  <2>2. place'[Irq] = place[Irq] \/ place'[Irq] = "panicked"
    BY <1>1, <1>3 DEF Write, WriteCall, WriteEnd, Uartputc, UartputcFull
  <2> QED BY <1>2, <2>1, <2>2
<1>4. ASSUME NEW p \in User, Read(p) \/ KillReader(p) PROVE KeyFits'
  <2>1. key' = key
    BY <1>4 DEF Read, ReadCall, ReadKilled, ReadEmpty, ReadEof, ReadLast, ReadChar, Sleep, Reacquire,
       KillReader
  <2>2. UNCHANGED place \/ \E l : Goto(p, l)
    BY <1>4 DEF Read, ReadCall, ReadKilled, ReadEmpty, ReadEof, ReadLast, ReadChar, Sleep, Reacquire,
       Return, KillReader
  <2> QED BY <1>1, <1>2, <2>1, <2>2
<1>5. ASSUME NEW a \in Actor, Uartstart(a) PROVE KeyFits'
  <2>1. key' = key
    BY <1>5 DEF Uartstart, UartstartEnd, UartstartTest, UartstartLoad
  <2>2. place'[Irq] = place[Irq] \/ place'[Irq] \in {"start", "idle", "load"}
    BY <1>1, <1>5 DEF Uartstart, UartstartEnd, UartstartTest, UartstartLoad
  <2> QED BY <1>2, <2>1, <2>2
<1>6. ASSUME UartHandler PROVE KeyFits'
  <2>1. CASE Uartintr \/ EchoTest \/ UartintrSend
    BY <1>1, <2>1 DEF Uartintr, EchoTest, UartintrSend
  <2>2. CASE Uartgetc
    <3>1. key' \in Key \cup {Nothing} /\ place'[Irq] = IF key' = Nothing THEN "send" ELSE "char"
      BY <1>1, <2>2 DEF Uartgetc
    <3> QED BY <3>1
  <2>3. CASE ConsoleintrIgnores \/ KillLineEnd \/ Store
    <3>1. place'[Irq] = "recv"
      BY <1>1, <2>3 DEF ConsoleintrIgnores, KillLineEnd, NextKey, Store
    <3> QED BY <3>1
  <2>4. CASE Consoleintr \/ KillLine
    BY <1>1, <2>4 DEF Consoleintr, KillLine
  <2>5. CASE EchoSend
    <3>1. place[Irq] = "echoed" /\ key \in Key
      BY <2>5 DEF EchoSend
    <3>2. CASE key = "^H"
      BY <1>1, <2>5, <3>2 DEF EchoSend, NextKey
    <3>3. CASE key # "^H"
      <4>1. key' = key /\ place'[Irq] = IF key = "^U" THEN "kill" ELSE "store"
        BY <1>1, <2>5, <3>3 DEF EchoSend
      <4>2. key # "^U" => key \in Stored
        BY <3>1, <3>3 DEF Key
      <4> QED BY <3>1, <4>1, <4>2
    <3> QED BY <3>2, <3>3
  <2> QED BY <1>6, <2>1, <2>2, <2>3, <2>4, <2>5 DEF UartHandler
<1>7. ASSUME Transmit PROVE KeyFits'
  BY <1>7 DEF Transmit
<1> QED BY <1>3, <1>4, <1>5, <1>6, <1>7 DEF ConsoleNext, Actor

(* What the two stretches of cons.buf are.                                 *)
LEMMA StretchesAre ==
  ASSUME ConsTypes, InputFits
  PROVE  /\ ReadyLen \in Nat /\ LineLen \in Nat /\ ReadyLen + LineLen <= INPUT_BUF
         /\ Ahead(UintSpan, r, e) = ReadyLen + LineLen
<1>1. r \in 0 .. UintSpan - 1 /\ w \in 0 .. UintSpan - 1 /\ e \in 0 .. UintSpan - 1
  BY DEF ConsTypes
<1>2. ReadyLen \in Nat
  <2>1. UintSpan \in Nat \ {0}
    BY ConsoleConst
  <2>2. Ahead(UintSpan, r, w) \in 0 .. UintSpan - 1
    BY <1>1, <2>1, AheadIs
  <2> QED BY <2>1, <2>2 DEF ReadyLen
<1>3. LineLen \in Nat
  <2>1. UintSpan \in Nat \ {0}
    BY ConsoleConst
  <2>2. Ahead(UintSpan, w, e) \in 0 .. UintSpan - 1
    BY <1>1, <2>1, AheadIs
  <2> QED BY <2>1, <2>2 DEF LineLen
<1>4. ReadyLen + LineLen <= INPUT_BUF
  BY DEF InputFits
<1>5. Ahead(UintSpan, r, w) + Ahead(UintSpan, w, e) < UintSpan
  BY <1>2, <1>3, <1>4, ConsoleConst DEF ReadyLen, LineLen
<1>6. Ahead(UintSpan, r, e) = ReadyLen + LineLen
  BY <1>1, <1>5, ConsoleConst, AheadAdds DEF ReadyLen, LineLen
<1> QED BY <1>2, <1>3, <1>4, <1>6

(* A character that is read shortens the first stretch.                    *)
LEMMA ReadShortens ==
  ASSUME ConsTypes, InputFits, r # w, r' = UintInc(r), UNCHANGED <<w, e, key>>, place'[Irq] = place[Irq]
  PROVE  InputFits'
<1>1. Ahead(UintSpan, (r + 1) % UintSpan, w) = Ahead(UintSpan, r, w) - 1
  <2>1. UintSpan \in Nat \ {0} /\ r \in 0 .. UintSpan - 1 /\ w \in 0 .. UintSpan - 1
    BY ConsoleConst DEF ConsTypes
  <2> QED BY <2>1, AheadMoves
<1>2. ReadyLen' = ReadyLen - 1 /\ LineLen' = LineLen
  BY <1>1 DEF ReadyLen, LineLen, UintInc
<1>3. PICK n \in Nat, m \in Nat : n = ReadyLen /\ m = LineLen
  BY StretchesAre
<1> QED BY <1>2, <1>3, ConsoleConst DEF InputFits

(* One that is erased shortens the second.                                 *)
LEMMA EraseShortens ==
  ASSUME ConsTypes, InputFits, e # w, e' = UintDec(e), UNCHANGED <<r, w>>, key' \notin Stored
  PROVE  InputFits'
<1>1. Ahead(UintSpan, w, (e - 1) % UintSpan) = Ahead(UintSpan, w, e) - 1
  <2>1. UintSpan \in Nat \ {0} /\ w \in 0 .. UintSpan - 1 /\ e \in 0 .. UintSpan - 1
    BY ConsoleConst DEF ConsTypes
  <2> QED BY <2>1, AheadMoves
<1>2. ReadyLen' = ReadyLen /\ LineLen' = LineLen - 1
  BY <1>1 DEF ReadyLen, LineLen, UintDec
<1>3. PICK n \in Nat, m \in Nat : n = ReadyLen /\ m = LineLen
  BY StretchesAre
<1> QED BY <1>2, <1>3, ConsoleConst DEF InputFits

(* One that is stored lengthens the second, and then it may join the first. *)
LEMMA StoreLengthens ==
  ASSUME ConsTypes, InputFits, KeyFits, Store
  PROVE  /\ ReadyLen + LineLen < INPUT_BUF
         /\ Ahead(UintSpan, r, e') = ReadyLen + LineLen + 1
         /\ Ahead(UintSpan, w, e') = LineLen + 1
         /\ Completes => ReadyLen' = ReadyLen + LineLen + 1 /\ LineLen' = 0
         /\ ~Completes => ReadyLen' = ReadyLen /\ LineLen' = LineLen + 1
         /\ Completes <=> key \in {"nl", "eof"} \/ ReadyLen + LineLen + 1 = INPUT_BUF
<1>1. /\ place[Irq] = "store" /\ key \in Stored /\ e' = UintInc(e) /\ r' = r
      /\ w' = IF Completes THEN e' ELSE w
  BY DEF Store, KeyFits
<1>2. r \in 0 .. UintSpan - 1 /\ w \in 0 .. UintSpan - 1 /\ e \in 0 .. UintSpan - 1
  BY DEF ConsTypes
<1>3. PICK n \in Nat, m \in Nat :
        n = ReadyLen /\ m = LineLen /\ n + m < INPUT_BUF /\ Ahead(UintSpan, r, e) = n + m
  BY <1>1, StretchesAre DEF InputFits
<1>4. PICK x \in 0 .. UintSpan - 1 : x = e' /\ x = (e + 1) % UintSpan
  BY <1>1, <1>2, CountersWrap DEF UintInc
<1>5. n + m < UintSpan - 1 /\ m < UintSpan - 1 /\ Ahead(UintSpan, w, e) = m
  BY <1>3, ConsoleConst DEF LineLen
<1>6. Ahead(UintSpan, r, x) = n + m + 1
  <2>1. UintSpan \in Nat \ {0} /\ Ahead(UintSpan, r, e) < UintSpan - 1
    BY <1>3, <1>5, ConsoleConst
  <2>2. Ahead(UintSpan, r, (e + 1) % UintSpan) = Ahead(UintSpan, r, e) + 1
    BY <1>2, <2>1, AheadMoves
  <2> QED BY <1>3, <1>4, <2>2
<1>7. Ahead(UintSpan, w, x) = m + 1
  <2>1. UintSpan \in Nat \ {0} /\ Ahead(UintSpan, w, e) < UintSpan - 1
    BY <1>5, ConsoleConst
  <2>2. Ahead(UintSpan, w, (e + 1) % UintSpan) = Ahead(UintSpan, w, e) + 1
    BY <1>2, <2>1, AheadMoves
  <2> QED BY <1>4, <1>5, <2>2
<1>8. x = (r + INPUT_BUF) % UintSpan <=> Ahead(UintSpan, r, x) = INPUT_BUF
  BY <1>2, ConsoleConst, AheadReaches
<1>9. Completes <=> key \in {"nl", "eof"} \/ n + m + 1 = INPUT_BUF
  BY <1>1, <1>4, <1>6, <1>8 DEF Completes
<1>10. Completes => ReadyLen' = n + m + 1 /\ LineLen' = 0
  <2>1. Ahead(UintSpan, x, x) = 0
    BY ConsoleConst, AheadMoves
  <2> QED BY <1>1, <1>4, <1>6, <2>1 DEF ReadyLen, LineLen
<1>11. ~Completes => ReadyLen' = n /\ LineLen' = m + 1
  BY <1>1, <1>3, <1>4, <1>7 DEF ReadyLen, LineLen
<1> QED BY <1>3, <1>4, <1>6, <1>7, <1>9, <1>10, <1>11

(* No step puts more into cons.buf than it holds.                          *)
LEMMA InputFitsStep ==
  ASSUME ConsTypes, ActorTypes, KeyFits, InputFits, ConsoleNext
  PROVE  InputFits'
<1>1. ASSUME NEW a \in Actor, NEW l, Goto(a, l)
      PROVE  place'[a] = l /\ \A x \in Actor \ {a} : place'[x] = place[x]
  BY <1>1, GotoIs
<1>2. ASSUME UNCHANGED <<r, w, e>>,
             place'[Irq] \in {"echo", "echoed", "store"} /\ key' \in Stored
               => ReadyLen + LineLen < INPUT_BUF
      PROVE  InputFits'
  BY <1>2 DEF InputFits, ReadyLen, LineLen
<1>3. ASSUME UNCHANGED <<r, w, e, key>>,
             place'[Irq] = place[Irq] \/ place'[Irq] \notin {"echo", "echoed", "store"}
      PROVE  InputFits'
  BY <1>2, <1>3 DEF InputFits
<1>4. Irq \notin User /\ Irq \in Actor /\ User \subseteq Actor
  BY ConsoleConst
<1>5. ASSUME NEW p \in User, Write(p) PROVE InputFits'
  <2>1. UNCHANGED <<r, w, e, key>>
    BY <1>5 DEF Write, WriteCall, WriteEnd, Uartputc, UartputcFull, cons
  <2>2. place'[Irq] = place[Irq] \/ place'[Irq] = "panicked"
    BY <1>1, <1>4, <1>5 DEF Write, WriteCall, WriteEnd, Uartputc, UartputcFull
  <2> QED BY <1>3, <2>1, <2>2
<1>6. ASSUME NEW p \in User, Read(p) \/ KillReader(p) PROVE InputFits'
  <2>1. place'[Irq] = place[Irq]
    <3>1. UNCHANGED place \/ \E l : Goto(p, l)
      BY <1>6 DEF Read, ReadCall, ReadKilled, ReadEmpty, ReadEof, ReadLast, ReadChar, Sleep, Reacquire,
         Return, KillReader
    <3> QED BY <1>1, <1>4, <3>1
  <2>2. /\ UNCHANGED <<w, e, key>>
        /\ r' = r \/ (r' = UintInc(r) /\ r # w)
    BY <1>6 DEF Read, ReadCall, ReadKilled, ReadEmpty, ReadEof, ReadLast, ReadChar, Sleep, Reacquire,
       Return, KillReader, cons
  <2>3. CASE r' = r
    BY <1>3, <2>1, <2>2, <2>3
  <2>4. CASE r' = UintInc(r) /\ r # w
    BY <2>1, <2>2, <2>4, ReadShortens
  <2> QED BY <2>2, <2>3, <2>4
<1>7. ASSUME NEW a \in Actor, Uartstart(a) PROVE InputFits'
  <2>1. UNCHANGED <<r, w, e, key>>
    BY <1>7 DEF Uartstart, UartstartEnd, UartstartTest, UartstartLoad, cons
  <2>2. place'[Irq] = place[Irq] \/ place'[Irq] \in {"start", "idle", "load"}
    BY <1>1, <1>4, <1>7 DEF Uartstart, UartstartEnd, UartstartTest, UartstartLoad
  <2> QED BY <1>3, <2>1, <2>2
<1>8. ASSUME UartHandler PROVE InputFits'
  <2>1. CASE Uartintr \/ Uartgetc \/ ConsoleintrIgnores \/ KillLineEnd \/ UartintrSend
    <3>1. UNCHANGED <<r, w, e>>
      BY <2>1 DEF Uartintr, Uartgetc, ConsoleintrIgnores, KillLineEnd, UartintrSend, cons
    <3>2. \E l \in {"recv", "char", "send", "start"} : Goto(Irq, l)
      BY <2>1 DEF Uartintr, Uartgetc, ConsoleintrIgnores, KillLineEnd, UartintrSend, NextKey
    <3>3. place'[Irq] \notin {"echo", "echoed", "store"}
      BY <1>1, <1>4, <3>2
    <3> QED BY <1>2, <3>1, <3>3
  <2>2. CASE Consoleintr
    <3>1. /\ place[Irq] = "char" /\ key \in Key /\ key' = key /\ UNCHANGED <<r, w>> /\ Used
          /\ e' = IF key = "^H" THEN UintDec(e) ELSE e
          /\ place'[Irq] = IF key = "^U" THEN "kill" ELSE "echo"
      BY <1>1, <1>4, <2>2 DEF Consoleintr, KeyFits
    <3>2. CASE key = "^H"
      <4>1. e # w /\ e' = UintDec(e) /\ key' \notin Stored
        BY <3>1, <3>2 DEF Used, Stored
      <4> QED BY <3>1, <4>1, EraseShortens
    <3>3. CASE key = "^U"
      BY <1>2, <3>1, <3>3
    <3>4. CASE key \notin {"^U", "^H"}
      <4>1. (e - r) % UintSpan < INPUT_BUF
        BY <3>1, <3>4 DEF Used
      <4>2. ReadyLen + LineLen < INPUT_BUF
        BY <4>1, StretchesAre DEF Ahead
      <4> QED BY <1>2, <3>1, <3>4, <4>2
    <3> QED BY <3>2, <3>3, <3>4
  <2>3. CASE KillLine
    <3>1. place[Irq] = "kill" /\ key' = key /\ e # w /\ e' = UintDec(e) /\ UNCHANGED <<r, w>>
      BY <2>3 DEF KillLine, KillsMore
    <3>2. key' \notin Stored
      BY <3>1 DEF KeyFits, Stored
    <3> QED BY <3>1, <3>2, EraseShortens
  <2>4. CASE EchoTest
    <3>1. place[Irq] = "echo" /\ place'[Irq] = "echoed" /\ UNCHANGED <<r, w, e, key>>
      BY <1>1, <1>4, <2>4 DEF EchoTest, cons
    <3> QED BY <1>2, <3>1 DEF InputFits
  <2>5. CASE EchoSend
    <3>1. /\ place[Irq] = "echoed" /\ UNCHANGED <<r, w, e>>
          /\ place'[Irq] \in {"recv", "kill"} \/ (place'[Irq] = "store" /\ key' = key)
      BY <1>1, <1>4, <2>5 DEF EchoSend, NextKey, cons
    <3> QED BY <1>2, <3>1 DEF InputFits
  <2>6. CASE Store
    <3>1. place'[Irq] = "recv"
      BY <1>4, <2>6 DEF Store
    <3>2. PICK n \in Nat, m \in Nat : n = ReadyLen /\ m = LineLen
      BY StretchesAre
    <3>3. ReadyLen' + LineLen' <= INPUT_BUF
      BY <2>6, <3>2, StoreLengthens, ConsoleConst
    <3> QED BY <3>1, <3>3 DEF InputFits
  <2> QED BY <1>8, <2>1, <2>2, <2>3, <2>4, <2>5, <2>6 DEF UartHandler
<1>9. ASSUME Transmit PROVE InputFits'
  BY <1>3, <1>9 DEF Transmit, cons
<1> QED BY <1>5, <1>6, <1>7, <1>8, <1>9 DEF ConsoleNext, Actor

(* Whoever leaves characters in the ring leaves somebody to send them.     *)
LEMMA OutputGoesOnStep ==
  ASSUME ActorTypes, Guarded, OutputGoesOn, ConsoleNext
  PROVE  OutputGoesOn'
<1>1. ASSUME NEW a \in Actor, NEW l, Goto(a, l)
      PROVE  place'[a] = l /\ \A x \in Actor \ {a} : place'[x] = place[x]
  BY <1>1, GotoIs
<1>2. Irq \notin User /\ Irq \in Actor /\ User \subseteq Actor /\ Nothing \notin Actor
  BY ConsoleConst
<1>3. ASSUME UNCHANGED <<tx, uart, txLock>>, place'[Irq] = place[Irq] \/ place'[Irq] # "idle"
      PROVE  OutputGoesOn'
  BY <1>3 DEF OutputGoesOn, TxEmpty, tx, uart
<1>4. ASSUME NEW p \in User, Write(p) PROVE OutputGoesOn'
  <2>1. CASE WriteCall(p) \/ WriteEnd(p) \/ UartputcFull(p)
    <3>1. UNCHANGED <<tx, uart, txLock>>
      BY <2>1 DEF WriteCall, WriteEnd, UartputcFull, locks
    <3>2. place'[Irq] = place[Irq] \/ place'[Irq] = "panicked"
      BY <1>1, <1>2, <2>1 DEF WriteCall, WriteEnd, UartputcFull
    <3> QED BY <1>3, <3>1, <3>2
  <2>2. ASSUME NEW c \in Written, Uartputc(p, c) PROVE OutputGoesOn'
    <3>1. txLock' = p
      BY <2>2 DEF Uartputc
    <3> QED BY <1>2, <3>1 DEF OutputGoesOn
  <2> QED BY <1>4, <2>1, <2>2 DEF Write
<1>5. ASSUME NEW p \in User, Read(p) \/ KillReader(p) PROVE OutputGoesOn'
  <2>1. UNCHANGED place \/ \E l : Goto(p, l)
    BY <1>5 DEF Read, ReadCall, ReadKilled, ReadEmpty, ReadEof, ReadLast, ReadChar, Sleep, Reacquire,
       Return, KillReader
  <2>2. UNCHANGED <<tx, uart, txLock>>
    BY <1>5 DEF Read, ReadCall, ReadKilled, ReadEmpty, ReadEof, ReadLast, ReadChar, Sleep, Reacquire,
       KillReader, locks
  <2> QED BY <1>1, <1>2, <1>3, <2>1, <2>2
<1>6. ASSUME NEW a \in Actor, Uartstart(a) PROVE OutputGoesOn'
  <2>1. CASE UartstartEnd(a)
    <3>1. (TxEmpty \/ thr # Nothing) /\ UNCHANGED <<tx, uart>>
      BY <2>1 DEF UartstartEnd
    <3> QED BY <3>1 DEF OutputGoesOn, TxEmpty, tx, uart
  <2>2. CASE UartstartTest(a) \/ UartstartLoad(a)
    <3>1. txLock = a /\ txLock' = txLock
      BY <2>2 DEF UartstartTest, UartstartLoad, locks, Guarded
    <3> QED BY <1>2, <3>1 DEF OutputGoesOn
  <2> QED BY <1>6, <2>1, <2>2 DEF Uartstart
<1>7. ASSUME UartHandler PROVE OutputGoesOn'
  <2>1. ASSUME ~Store PROVE place'[Irq] # "idle"
    <3>1. \E l \in {"recv", "send", "char", "kill", "echo", "echoed", "store", "start"} : Goto(Irq, l)
      BY <1>7, <2>1 DEF UartHandler, Uartintr, Uartgetc, ConsoleintrIgnores, Consoleintr, KillLine,
         KillLineEnd, EchoTest, EchoSend, UartintrSend, NextKey
    <3> QED BY <1>1, <1>2, <3>1
  <2>2. ASSUME Store PROVE place'[Irq] # "idle"
    BY <1>2, <2>2 DEF Store
  <2> QED BY <2>1, <2>2 DEF OutputGoesOn
<1>8. ASSUME Transmit PROVE OutputGoesOn'
  BY <1>8 DEF Transmit, OutputGoesOn
<1> QED BY <1>4, <1>5, <1>6, <1>7, <1>8 DEF ConsoleNext, Actor

(* The invariant is inductive.                                             *)
LEMMA CInvStep ==
  ASSUME CInv, [ConsoleNext]_consoleVars
  PROVE  CInv'
<1>1. /\ ConsTypes /\ TxTypes /\ ActorTypes /\ Guarded /\ MaySend /\ NothingToRead /\ KeyFits
      /\ InputFits /\ OutputGoesOn
  BY DEF CInv, ConsoleTypes
<1>2. CASE ConsoleNext
  <2>1. ConsTypes' /\ TxTypes' /\ ActorTypes'
    BY <1>1, <1>2, ConsTypesStep, TxTypesStep, ActorTypesStep
  <2>2. Guarded' /\ MaySend' /\ NothingToRead'
    BY <1>1, <1>2, GuardedStep, MaySendStep, NothingToReadStep
  <2>3. KeyFits' /\ InputFits' /\ OutputGoesOn'
    BY <1>1, <1>2, KeyFitsStep, InputFitsStep, OutputGoesOnStep
  <2> QED BY <2>1, <2>2, <2>3 DEF CInv, ConsoleTypes
<1>3. CASE UNCHANGED consoleVars
  <2>1. UNCHANGED <<buf, r, w, e, txBuf, txR, txW, thr, txReady, consLock, txLock, place, key,
                    copied, killed>>
    BY <1>3 DEF consoleVars, cons, tx, uart, locks, call
  <2>2. ConsTypes' /\ TxTypes' /\ ActorTypes'
    BY <1>1, <2>1 DEF ConsTypes, TxTypes, ActorTypes
  <2>3. Guarded' /\ MaySend' /\ NothingToRead' /\ KeyFits'
    BY <1>1, <2>1 DEF Guarded, MaySend, NothingToRead, KeyFits
  <2>4. InputFits' /\ OutputGoesOn'
    BY <1>1, <2>1 DEF InputFits, ReadyLen, LineLen, OutputGoesOn, TxEmpty
  <2> QED BY <2>2, <2>3, <2>4 DEF CInv, ConsoleTypes
<1> QED BY <1>2, <1>3

LEMMA ConsoleInvariance == ConsoleSpec => []CInv
<1>1. CInv /\ [ConsoleNext]_consoleVars => CInv'
  BY CInvStep
<1> QED BY <1>1, InitCInv, PTL DEF ConsoleSpec

(* The console's variables keep their types, and cons.buf never holds more *)
(* characters than it has room for, echoes under way included              *)
(* (console.c:153).                                                        *)
THEOREM InputNeverOverflows == ConsoleSpec => [](ConsoleTypes /\ InputFits)
<1>1. CInv => ConsoleTypes /\ InputFits
  BY DEF CInv
<1> QED BY <1>1, ConsoleInvariance, PTL

(* A process that sleeps in consoleread has no finished line to read: the  *)
(* wakeup in consoleintr is never lost (console.c:93, 170).                *)
THEOREM NoReaderForgotten == ConsoleSpec => []SleepersMustWait
<1>1. CInv => SleepersMustWait
  BY DEF CInv, NothingToRead, SleepersMustWait
<1> QED BY <1>1, ConsoleInvariance, PTL

(* What is written never gets stuck in uart_tx_buf: the UART is sending,   *)
(* its interrupt is on the way, or somebody is in uartstart (uart.c:146).  *)
THEOREM OutputNeverStuck == ConsoleSpec => []OutputGoesOn
<1>1. CInv => OutputGoesOn
  BY DEF CInv
<1> QED BY <1>1, ConsoleInvariance, PTL

-----------------------------------------------------------------------------
(* The console implements a terminal.  The three queues as rings.          *)
Sent ==
  [i \in 1 .. (txW - txR) % UART_TX_BUF_SIZE |-> txBuf[(txR + i - 1) % UART_TX_BUF_SIZE]]

LEMMA QueuesAreRings ==
  /\ Held(r, w) = Ring(INPUT_BUF, UintSpan, buf, r, w)
  /\ Held(w, e) = Ring(INPUT_BUF, UintSpan, buf, w, e)
  /\ Held(r, w)' = Ring(INPUT_BUF, UintSpan, buf', r', w')
  /\ Held(w, e)' = Ring(INPUT_BUF, UintSpan, buf', w', e')
  /\ Sent = Ring(UART_TX_BUF_SIZE, UART_TX_BUF_SIZE, txBuf, txR, txW)
  /\ Sent' = Ring(UART_TX_BUF_SIZE, UART_TX_BUF_SIZE, txBuf', txR', txW')
BY DEF Held, Sent, Ring, Ahead

LEMMA RingsAre ==
  /\ ConsTypes => IsRing(INPUT_BUF, UintSpan, Stored, buf)
  /\ TxTypes => IsRing(UART_TX_BUF_SIZE, UART_TX_BUF_SIZE, {"x"} \cup Written, txBuf)
BY ConsoleConst DEF IsRing, ConsTypes, TxTypes

(* A character that is read is taken.                                      *)
LEMMA ReadIsTake ==
  ASSUME ConsTypes, r # w, r' = UintInc(r), UNCHANGED <<buf, w, e, txBuf, txR, txW, thr>>
  PROVE  T!Take
<1>1. r \in 0 .. UintSpan - 1 /\ w \in 0 .. UintSpan - 1 /\ e \in 0 .. UintSpan - 1
  BY DEF ConsTypes
<1>2. IsRing(INPUT_BUF, UintSpan, Stored, buf)
  BY RingsAre
<1>3. /\ Ring(INPUT_BUF, UintSpan, buf, r, w) # <<>>
      /\ Ring(INPUT_BUF, UintSpan, buf, (r + 1) % UintSpan, w) = Tail(Ring(INPUT_BUF, UintSpan, buf, r, w))
  BY <1>1, <1>2, RingTake
<1>4. Held(r, w) # <<>> /\ Held(r, w)' = Tail(Held(r, w))
  BY <1>3, QueuesAreRings DEF UintInc
<1>5. Held(w, e)' = Held(w, e) /\ Sent' = Sent
  BY QueuesAreRings
<1> QED BY <1>4, <1>5 DEF T!Take, T!output, Sent

(* One that is erased is erased.                                           *)
LEMMA EraseIsErase ==
  ASSUME ConsTypes, e # w, e' = UintDec(e), UNCHANGED <<buf, r, w, txBuf, txR, txW, thr>>
  PROVE  T!Erase
<1>1. r \in 0 .. UintSpan - 1 /\ w \in 0 .. UintSpan - 1 /\ e \in 0 .. UintSpan - 1
  BY DEF ConsTypes
<1>2. IsRing(INPUT_BUF, UintSpan, Stored, buf)
  BY RingsAre
<1>3. PICK q : q = Ring(INPUT_BUF, UintSpan, buf, w, e)
  OBVIOUS
<1>4. /\ q # <<>>
      /\ Ring(INPUT_BUF, UintSpan, buf, w, (e - 1) % UintSpan) = SubSeq(q, 1, Len(q) - 1)
  BY <1>1, <1>2, <1>3, RingErase
<1>5. Held(w, e) # <<>> /\ Held(w, e)' = SubSeq(Held(w, e), 1, Len(Held(w, e)) - 1)
  BY <1>3, <1>4, QueuesAreRings DEF UintDec
<1>6. Held(r, w)' = Held(r, w) /\ Sent' = Sent
  BY QueuesAreRings
<1> QED BY <1>5, <1>6 DEF T!Erase, T!output, Sent

(* One that is stored is typed: it ends up behind the line, and the line   *)
(* behind the others where it ends with it.                                *)
LEMMA StoreIsType ==
  ASSUME ConsTypes, InputFits, KeyFits, Store
  PROVE  T!Type(key)
<1>positions. r \in 0 .. UintSpan - 1 /\ w \in 0 .. UintSpan - 1 /\ e \in 0 .. UintSpan - 1
  BY DEF ConsTypes
<1>1. /\ r \in 0 .. UintSpan - 1 /\ w \in 0 .. UintSpan - 1 /\ e \in 0 .. UintSpan - 1
      /\ UintSpan \in Nat \ {0} /\ INPUT_BUF \in Nat \ {0} /\ INPUT_BUF < UintSpan
  BY ConsoleConst DEF ConsTypes
<1>2. /\ place[Irq] = "store" /\ key \in Stored /\ r' = r
      /\ buf' = [buf EXCEPT ![e % INPUT_BUF] = key] /\ e' = UintInc(e)
      /\ w' = IF Completes THEN e' ELSE w
  BY DEF Store, KeyFits
<1>3. PICK n \in Nat, m \in Nat :
        n = ReadyLen /\ m = LineLen /\ n + m < INPUT_BUF /\ Ahead(UintSpan, r, e) = n + m
  BY <1>2, StretchesAre DEF InputFits
<1>4. PICK x \in 0 .. UintSpan - 1 : x = e' /\ x = (e + 1) % UintSpan
  BY <1>1, <1>2, CountersWrap DEF UintInc
<1>5. PICK d : d = [buf EXCEPT ![e % INPUT_BUF] = key] /\ d = PutAt(INPUT_BUF, buf, e, key)
  BY DEF PutAt
<1>6. IsRing(INPUT_BUF, UintSpan, Stored, buf)
  BY RingsAre
<1>7. IsRing(INPUT_BUF, UintSpan, Stored, d)
  <2>1. e % INPUT_BUF \in 0 .. INPUT_BUF - 1
    BY <1>1, ModIs
  <2> QED BY <1>2, <1>5, <1>6, <2>1 DEF IsRing
<1>8. PICK f, g : f = Ring(INPUT_BUF, UintSpan, buf, r, w) /\ g = Ring(INPUT_BUF, UintSpan, buf, w, e)
  OBVIOUS
<1>9. /\ Ahead(UintSpan, r, w) = n /\ Ahead(UintSpan, w, e) = m
      /\ n + m < UintSpan /\ m < INPUT_BUF /\ m < UintSpan - 1
  BY <1>1, <1>3 DEF ReadyLen, LineLen
<1>10. /\ f \in Seq(Stored) /\ Len(f) = n /\ g \in Seq(Stored) /\ Len(g) = m
  <2>1. f \in Seq(Stored) /\ Len(f) = Ahead(UintSpan, r, w)
    BY <1>positions, <1>6, <1>8, RingIs DEF Lists
  <2>2. g \in Seq(Stored) /\ Len(g) = Ahead(UintSpan, w, e)
    BY <1>positions, <1>6, <1>8, RingIs DEF Lists
  <2> QED BY <1>9, <2>1, <2>2
<1>11. Ring(INPUT_BUF, UintSpan, d, r, w) = f
  <2>1. Ahead(UintSpan, r, w) + Ahead(UintSpan, w, e) < INPUT_BUF /\ INPUT_BUF <= UintSpan
    BY <1>1, <1>3, <1>9
  <2>2. Ring(INPUT_BUF, UintSpan, PutAt(INPUT_BUF, buf, e, key), r, w)
          = Ring(INPUT_BUF, UintSpan, buf, r, w)
    <3>1. key \in Stored
      BY <1>2
    <3> QED BY <1>positions, <1>6, <2>1, <3>1, RingKept
  <2> QED BY <1>5, <1>8, <2>2
<1>12. Ring(INPUT_BUF, UintSpan, d, w, x) = Append(g, key)
  <2>1. Ahead(UintSpan, w, e) < INPUT_BUF /\ Ahead(UintSpan, w, e) < UintSpan - 1
    BY <1>9
  <2>2. Ring(INPUT_BUF, UintSpan, PutAt(INPUT_BUF, buf, e, key), w, (e + 1) % UintSpan)
          = Append(Ring(INPUT_BUF, UintSpan, buf, w, e), key)
    <3>1. key \in Stored
      BY <1>2
    <3> QED BY <1>positions, <1>6, <2>1, <3>1, RingPut
  <2> QED BY <1>4, <1>5, <1>8, <2>2
<1>13. Ring(INPUT_BUF, UintSpan, d, r, x) = f \o Append(g, key)
  <2>1. Ahead(UintSpan, r, w) + Ahead(UintSpan, w, x) < UintSpan
    BY <1>1, <1>3, <1>4, <1>9, StoreLengthens
  <2>2. Ring(INPUT_BUF, UintSpan, d, r, x)
          = Ring(INPUT_BUF, UintSpan, d, r, w) \o Ring(INPUT_BUF, UintSpan, d, w, x)
    BY <1>1, <1>7, <2>1, RingJoins
  <2> QED BY <1>11, <1>12, <2>2
<1>14. Held(r, w) = f /\ Held(w, e) = g
  BY <1>8, QueuesAreRings
<1>15. Len(Held(r, w)) + Len(Held(w, e)) < INPUT_BUF
  BY <1>3, <1>10, <1>14
<1>16. Completes <=> key \in {"nl", "eof"} \/ Len(Held(r, w)) + Len(Held(w, e)) + 1 = INPUT_BUF
  BY <1>3, <1>10, <1>14, StoreLengthens
<1>17. ASSUME Completes
       PROVE  Held(r, w)' = Held(r, w) \o Append(Held(w, e), key) /\ Held(w, e)' = <<>>
  <2>1. w' = x /\ e' = x /\ buf' = d /\ r' = r
    BY <1>2, <1>4, <1>5, <1>17
  <2>2. Ring(INPUT_BUF, UintSpan, d, x, x) = <<>>
    <3>1. Ahead(UintSpan, x, x) = 0
      BY <1>1, AheadMoves
    <3> QED BY <3>1 DEF Ring
  <2> QED BY <1>13, <1>14, <2>1, <2>2, QueuesAreRings
<1>18. ASSUME ~Completes
       PROVE  Held(r, w)' = Held(r, w) /\ Held(w, e)' = Append(Held(w, e), key)
  <2>1. w' = w /\ e' = x /\ buf' = d /\ r' = r
    BY <1>2, <1>4, <1>5, <1>18
  <2> QED BY <1>11, <1>12, <1>14, <2>1, QueuesAreRings
<1>19. Sent' = Sent /\ thr' = thr
  BY DEF Store, Sent, tx, uart
<1> QED BY <1>15, <1>16, <1>17, <1>18, <1>19 DEF T!Type, T!output, Sent

(* uartputc puts its character.                                            *)
LEMMA UartputcIsPut ==
  ASSUME TxTypes, NEW p \in User, NEW c \in Written, Uartputc(p, c)
  PROVE  T!Put(c)
<1>positions. txR \in 0 .. UART_TX_BUF_SIZE - 1 /\ txW \in 0 .. UART_TX_BUF_SIZE - 1
  BY DEF TxTypes
<1>ring. PICK S : S = {"x"} \cup Written /\ c \in S /\ IsRing(UART_TX_BUF_SIZE, UART_TX_BUF_SIZE, S, txBuf)
  BY RingsAre
<1>1. /\ UART_TX_BUF_SIZE \in Nat \ {0} /\ txR \in 0 .. UART_TX_BUF_SIZE - 1
      /\ txW \in 0 .. UART_TX_BUF_SIZE - 1 /\ c \in {"x"} \cup Written
  BY ConsoleConst DEF TxTypes
<1>2. /\ txBuf' = [txBuf EXCEPT ![txW] = c] /\ txW' = (txW + 1) % UART_TX_BUF_SIZE
      /\ (txW + 1) % UART_TX_BUF_SIZE # txR /\ txR' = txR /\ thr' = thr /\ UNCHANGED <<buf, r, w, e>>
  BY DEF Uartputc, TxFull, TxInc, uart, cons
<1>3. IsRing(UART_TX_BUF_SIZE, UART_TX_BUF_SIZE, {"x"} \cup Written, txBuf)
  BY RingsAre
<1>4. PICK n \in Nat : n = Ahead(UART_TX_BUF_SIZE, txR, txW) /\ n < UART_TX_BUF_SIZE
  <2>1. Ahead(UART_TX_BUF_SIZE, txR, txW) \in 0 .. UART_TX_BUF_SIZE - 1
    BY <1>1, AheadIs
  <2> QED BY <1>1, <2>1
<1>5. n # UART_TX_BUF_SIZE - 1
  BY <1>1, <1>2, <1>4, AheadMoves
<1>6. txW % UART_TX_BUF_SIZE = txW
  BY <1>1, WrapOnce
<1>7. Ring(UART_TX_BUF_SIZE, UART_TX_BUF_SIZE, PutAt(UART_TX_BUF_SIZE, txBuf, txW, c), txR,
           (txW + 1) % UART_TX_BUF_SIZE)
        = Append(Ring(UART_TX_BUF_SIZE, UART_TX_BUF_SIZE, txBuf, txR, txW), c)
  <2>1. /\ Ahead(UART_TX_BUF_SIZE, txR, txW) < UART_TX_BUF_SIZE
        /\ Ahead(UART_TX_BUF_SIZE, txR, txW) < UART_TX_BUF_SIZE - 1
    BY <1>1, <1>4, <1>5
  <2> QED BY <1>positions, <1>ring, <2>1, RingPut
<1>8. Sent' = Append(Sent, c)
  BY <1>2, <1>6, <1>7, QueuesAreRings DEF PutAt
<1>9. Len(Sent) < UART_TX_BUF_SIZE - 1
  <2>1. Len(Ring(UART_TX_BUF_SIZE, UART_TX_BUF_SIZE, txBuf, txR, txW)) = Ahead(UART_TX_BUF_SIZE, txR, txW)
    BY <1>positions, <1>ring, RingIs DEF Lists
  <2> QED BY <1>1, <1>4, <1>5, <2>1, QueuesAreRings
<1>10. Held(r, w)' = Held(r, w) /\ Held(w, e)' = Held(w, e)
  BY <1>2, QueuesAreRings
<1> QED BY <1>2, <1>8, <1>9, <1>10 DEF T!Put, T!input, Sent

(* uartstart hands the first character over.                               *)
LEMMA LoadIsLoad ==
  ASSUME TxTypes, MaySend, NEW a \in Actor, UartstartLoad(a)
  PROVE  T!Load
<1>positions. txR \in 0 .. UART_TX_BUF_SIZE - 1 /\ txW \in 0 .. UART_TX_BUF_SIZE - 1
  BY DEF TxTypes
<1>ring. PICK S : IsRing(UART_TX_BUF_SIZE, UART_TX_BUF_SIZE, S, txBuf)
  BY RingsAre
<1>1. /\ UART_TX_BUF_SIZE \in Nat \ {0} /\ txR \in 0 .. UART_TX_BUF_SIZE - 1
      /\ txW \in 0 .. UART_TX_BUF_SIZE - 1
  BY ConsoleConst DEF TxTypes
<1>2. /\ thr = Nothing /\ txR # txW /\ thr' = txBuf[txR] /\ txR' = (txR + 1) % UART_TX_BUF_SIZE
      /\ UNCHANGED <<buf, r, w, e, txBuf, txW>>
  BY DEF UartstartLoad, MaySend, TxInc, cons
<1>3. IsRing(UART_TX_BUF_SIZE, UART_TX_BUF_SIZE, {"x"} \cup Written, txBuf)
  BY RingsAre
<1>4. PICK q : q = Ring(UART_TX_BUF_SIZE, UART_TX_BUF_SIZE, txBuf, txR, txW)
  OBVIOUS
<1>5. /\ q # <<>> /\ Head(q) = txBuf[txR % UART_TX_BUF_SIZE]
      /\ Ring(UART_TX_BUF_SIZE, UART_TX_BUF_SIZE, txBuf, (txR + 1) % UART_TX_BUF_SIZE, txW) = Tail(q)
  <2>1. txR # txW
    BY <1>2
  <2> QED BY <1>positions, <1>ring, <1>4, <2>1, RingTake
<1>6. txR % UART_TX_BUF_SIZE = txR
  BY <1>1, WrapOnce
<1>7. Sent # <<>> /\ thr' = Head(Sent) /\ Sent' = Tail(Sent)
  BY <1>2, <1>4, <1>5, <1>6, QueuesAreRings
<1>8. Held(r, w)' = Held(r, w) /\ Held(w, e)' = Held(w, e)
  BY <1>2, QueuesAreRings
<1> QED BY <1>2, <1>7, <1>8 DEF T!Load, T!input, Sent

(* Every step of the console is a step of the terminal or leaves it alone. *)
LEMMA ConsoleStepMaps ==
  ASSUME CInv, [ConsoleNext]_consoleVars
  PROVE  [T!Next]_(T!vars)
<1> DEFINE Still == UNCHANGED <<buf, r, w, e, txBuf, txR, txW, thr>>
           Steps == T!Next
<1>1. ConsTypes /\ TxTypes /\ ActorTypes /\ MaySend /\ KeyFits /\ InputFits
  BY DEF CInv, ConsoleTypes
<1>2. Still => UNCHANGED T!vars
  <2> SUFFICES ASSUME Still PROVE UNCHANGED T!vars
    OBVIOUS
  <2>1. Held(r, w)' = Held(r, w) /\ Held(w, e)' = Held(w, e) /\ Sent' = Sent
    BY QueuesAreRings
  <2> QED BY <2>1 DEF T!vars, T!input, T!output, Sent
<1>3. ASSUME NEW p \in User, Write(p) PROVE Still \/ Steps
  <2>1. ASSUME NEW c \in Written, Uartputc(p, c) PROVE Steps
    BY <1>1, <2>1, UartputcIsPut DEF T!Next
  <2>2. CASE WriteCall(p) \/ WriteEnd(p) \/ UartputcFull(p)
    BY <2>2 DEF WriteCall, WriteEnd, UartputcFull, cons, tx, uart
  <2> HIDE DEF Still, Steps
  <2> QED BY <1>3, <2>1, <2>2 DEF Write
<1>4. ASSUME NEW p \in User, Read(p) \/ KillReader(p) PROVE Still \/ Steps
  <2>1. /\ UNCHANGED <<buf, w, e, txBuf, txR, txW, thr>>
        /\ r' = r \/ (r' = UintInc(r) /\ r # w)
    BY <1>4 DEF Read, ReadCall, ReadKilled, ReadEmpty, ReadEof, ReadLast, ReadChar, Sleep, Reacquire,
       KillReader, cons, tx, uart
  <2>2. CASE r' = r
    BY <2>1, <2>2
  <2>3. CASE r' = UintInc(r) /\ r # w
    BY <1>1, <2>1, <2>3, ReadIsTake DEF T!Next
  <2> QED BY <2>1, <2>2, <2>3
<1>5. ASSUME NEW a \in Actor, Uartstart(a) PROVE Still \/ Steps
  <2>1. CASE UartstartEnd(a) \/ UartstartTest(a)
    BY <2>1 DEF UartstartEnd, UartstartTest, cons, tx, uart
  <2>2. CASE UartstartLoad(a)
    BY <1>1, <2>2, LoadIsLoad DEF T!Next
  <2> HIDE DEF Still, Steps
  <2> QED BY <1>5, <2>1, <2>2 DEF Uartstart
<1>6. ASSUME UartHandler PROVE Still \/ Steps
  <2>1. CASE Uartintr \/ Uartgetc \/ ConsoleintrIgnores \/ KillLineEnd \/ EchoTest \/ UartintrSend
    BY <2>1 DEF Uartintr, Uartgetc, ConsoleintrIgnores, KillLineEnd, EchoTest, UartintrSend, cons, tx, uart
  <2>2. CASE Consoleintr
    <3>1. UNCHANGED <<buf, r, w, txBuf, txR, txW, thr>>
      BY <2>2 DEF Consoleintr, tx, uart
    <3>2. e' = e \/ (e' = UintDec(e) /\ e # w)
      BY <2>2 DEF Consoleintr, Used
    <3>3. CASE e' = e
      BY <3>1, <3>3
    <3>4. CASE e' = UintDec(e) /\ e # w
      BY <1>1, <3>1, <3>4, EraseIsErase DEF T!Next
    <3> QED BY <3>2, <3>3, <3>4
  <2>3. CASE KillLine
    <3>1. UNCHANGED <<buf, r, w, txBuf, txR, txW, thr>> /\ e' = UintDec(e) /\ e # w
      BY <2>3 DEF KillLine, KillsMore, tx, uart
    <3> QED BY <1>1, <3>1, EraseIsErase DEF T!Next
  <2>4. CASE EchoSend
    <3>1. thr = Nothing /\ thr' = "echo" /\ UNCHANGED <<buf, r, w, e, txBuf, txR, txW>>
      BY <1>1, <2>4 DEF EchoSend, MaySend, cons, tx
    <3>2. Held(r, w)' = Held(r, w) /\ Held(w, e)' = Held(w, e) /\ Sent' = Sent
      BY <3>1, QueuesAreRings
    <3>3. T!Echo("echo")
      BY <3>1, <3>2 DEF T!Echo, T!input, Sent
    <3> QED BY <3>3 DEF T!Next
  <2>5. CASE Store
    <3>1. T!Type(key)
      BY <1>1, <2>5, StoreIsType
    <3>2. key \in Stored
      BY <1>1, <2>5 DEF Store, KeyFits
    <3> QED BY <3>1, <3>2 DEF T!Next
  <2> HIDE DEF Still, Steps
  <2> QED BY <1>6, <2>1, <2>2, <2>3, <2>4, <2>5 DEF UartHandler
<1>7. ASSUME Transmit PROVE Steps
  <2>1. thr # Nothing /\ thr' = Nothing /\ UNCHANGED <<buf, r, w, e, txBuf, txR, txW>>
    BY <1>7 DEF Transmit, cons, tx
  <2>2. Held(r, w)' = Held(r, w) /\ Held(w, e)' = Held(w, e) /\ Sent' = Sent
    BY <2>1, QueuesAreRings
  <2>3. T!Send
    BY <2>1, <2>2 DEF T!Send, T!input, Sent
  <2> QED BY <2>3 DEF T!Next
<1>8. UNCHANGED consoleVars => Still
  BY DEF consoleVars, cons, tx, uart
<1> HIDE DEF Still
<1>9. Still \/ Steps
  BY <1>3, <1>4, <1>5, <1>6, <1>7, <1>8 DEF ConsoleNext, Actor
<1> QED BY <1>2, <1>9

(* The console is a terminal (Terminal.tla).                               *)
THEOREM ConsoleRefinement == ConsoleSpec => ImplementsTerminal
<1>1. ConsoleInit => T!Init
  <2> SUFFICES ASSUME ConsoleInit PROVE T!Init
    OBVIOUS
  <2>1. /\ r = 0 /\ w = 0 /\ e = 0 /\ txR = 0 /\ txW = 0 /\ thr = Nothing
        /\ UintSpan \in Nat \ {0} /\ UART_TX_BUF_SIZE \in Nat \ {0}
    BY ConsoleConst DEF ConsoleInit
  <2>2. Ahead(UintSpan, r, w) = 0 /\ Ahead(UintSpan, w, e) = 0 /\ Ahead(UART_TX_BUF_SIZE, txR, txW) = 0
    BY <2>1, AheadMoves
  <2>3. Held(r, w) = <<>> /\ Held(w, e) = <<>> /\ Sent = <<>>
    BY <2>2, QueuesAreRings DEF Ring
  <2> QED BY <2>1, <2>3 DEF T!Init, Sent
<1>2. CInv /\ [ConsoleNext]_consoleVars => [T!Next]_(T!vars)
  BY ConsoleStepMaps
<1> QED BY <1>1, <1>2, ConsoleInvariance, PTL DEF ConsoleSpec, ImplementsTerminal, T!Spec
=============================================================================
