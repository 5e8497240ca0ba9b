----------------------------- MODULE LogProofs -----------------------------
(***************************************************************************)
(* Proofs about the redo log, for every number of processes and blocks,    *)
(* every size of the log and of an operation.                              *)
(***************************************************************************)
EXTENDS Log, FiniteSetTheorems, SequenceTheorems, TLAPS

BootPc == {"off", "readHead", "recover"}
LoopPc == {"writeLog", "install", "recover"}

(* Every variable has its type.  The bounds on counts and lengths follow   *)
(* from the other parts.                                                   *)
Types ==
  /\ home \in [Block -> Value] /\ hlog \in [1 .. LOGSIZE -> Value]
  /\ lh \in Seq(Block) /\ head \in Seq(Block)
  /\ cache \in [Block -> Value \cup {None}] /\ pins \in [Block -> Int]
  /\ holds \in [Proc -> Block \cup {None}]
  /\ outstanding \in Int /\ committing \in BOOLEAN
  /\ pc \in [Proc -> {"panic", "idle", "begin", "asleep", "op", "dirty",
                      "append", "commit", "finish"} \cup BootPc \cup LoopPc]
  /\ tail \in [Proc -> Nat] /\ wrote \in [Proc -> SUBSET Block]

(* While the machine boots one process runs, and nobody else.              *)
Booting ==
  /\ \A p, q \in Proc : pc[p] \in BootPc => pc[q] \in BootPc
  /\ \A p, q \in Proc : pc[p] \in BootPc \ {"off"} /\ pc[q] \in BootPc \ {"off"} => p = q
  /\ \A p \in Proc : pc[p] = "readHead" => lh = <<>>

(* One process commits, with no operation open and no block locked.        *)
Closing ==
  /\ \A p \in Proc : Committing(p) => committing
  /\ \A p, q \in Proc : Committing(p) /\ Committing(q) => p = q
  /\ committing => \A p \in Proc : ~InOperation(p)
  /\ \A p \in Proc : pc[p] = "finish" => lh = <<>>
  /\ \A p \in Proc : tail[p] = 0 \/ (pc[p] \in LoopPc /\ tail[p] <= Len(lh))

(* Buffers are locked by writes only.                                      *)
Writing ==
  \A p \in Proc :
    /\ holds[p] # None => pc[p] \in {"dirty", "append", "panic"}
    /\ pc[p] \in {"dirty", "append"} => holds[p] \in Block

Control == Types /\ Booting /\ Closing /\ Writing

(* outstanding counts the open operations.                                 *)
Open == {p \in Proc : InOperation(p)}
Counted == outstanding = Cardinality(Open)

(* What an operation has logged is in the log, and is no more than it may. *)
Logged(b) == \E i \in 1 .. Len(lh) : lh[i] = b
Wrote ==
  \A p \in Proc :
    /\ \A b \in wrote[p] : Logged(b)
    /\ wrote[p] # {} => InOperation(p)
    /\ IsFiniteSet(wrote[p]) /\ Cardinality(wrote[p]) <= MAXOPBLOCKS
    /\ pc[p] \in {"dirty", "append"} =>
         Cardinality(wrote[p] \cup {holds[p]}) <= MAXOPBLOCKS

Counts == Counted /\ Wrote /\ Reserved

(* What the other parts need of the counts.                                *)
CountFacts ==
  /\ outstanding \in Nat
  /\ \A p \in Proc : InOperation(p) => outstanding >= 1
  /\ outstanding = 1 => \A p, q \in Proc : InOperation(p) /\ InOperation(q) => p = q
  /\ Len(lh) <= LOGSIZE

(* A logged block is pinned until install_trans has passed it; recovery    *)
(* pins nothing.                                                           *)
Pinned(b) ==
  \E i \in 1 .. Len(lh) :
    /\ lh[i] = b
    /\ \A p \in Proc : pc[p] # "recover" /\ (pc[p] = "install" => i > tail[p])
Pins ==
  /\ \A i, j \in 1 .. Len(lh) : lh[i] = lh[j] => i = j
  /\ \A b \in Block : pins[b] = IF Pinned(b) THEN 1 ELSE 0

(* The header on disk.                                                     *)
Header ==
  /\ Len(head) <= LOGSIZE
  /\ \A i, j \in 1 .. Len(head) : head[i] = head[j] => i = j
  /\ head # <<>> => \E p \in Proc : pc[p] \in {"install", "recover", "readHead"}
  /\ \A p \in Proc : pc[p] \in {"install", "recover"} => head = lh

(* Only blocks that are pinned or being written differ from the disk; what *)
(* write_log has copied is what the cache holds; what install_trans has    *)
(* copied is at home.                                                      *)
Data ==
  /\ \A b \in Block : cache[b] \notin {None, home[b]} => Pinned(b) \/ Locked(b)
  /\ \A p \in Proc :
       /\ pc[p] = "writeLog" => \A i \in 1 .. tail[p] : hlog[i] = Bread(lh[i])
       /\ pc[p] = "install" => \A i \in 1 .. Len(lh) : hlog[i] = Bread(lh[i])
       /\ pc[p] \in {"install", "recover"} => \A i \in 1 .. tail[p] : home[lh[i]] = hlog[i]

IInv == Control /\ Counts /\ Pins /\ Header /\ Data /\ SleepersMustWait

-----------------------------------------------------------------------------
(* A list of blocks.                                                       *)
LEMMA SeqFacts ==
  ASSUME NEW s \in Seq(Block)
  PROVE  /\ Len(s) \in Nat /\ (s = <<>> <=> Len(s) = 0)
         /\ \A i \in 1 .. Len(s) : s[i] \in Block
         /\ \A b : b \in Range(s) <=> \E i \in 1 .. Len(s) : s[i] = b
BY DEF Range

(* The empty list.                                                         *)
LEMMA NilFacts == <<>> \in Seq(Block) /\ Len(<<>>) = 0 /\ \A i \in 1 .. Len(<<>>) : FALSE
OBVIOUS

(* What a process that ends an operation without committing, or a commit,  *)
(* leaves in pc.                                                           *)
LEMMA WokenFacts ==
  ASSUME NEW p \in Proc, pc' = [Woken EXCEPT ![p] = "idle"]
  PROVE  pc' = [q \in Proc |-> IF q = p THEN "idle"
                               ELSE IF pc[q] = "asleep" THEN "begin" ELSE pc[q]]
BY DEF Woken

(* A machine that starts has the control state of a boot.                  *)
LEMMA InitControl == Init => Control
<1> SUFFICES ASSUME Init PROVE Control
  OBVIOUS
<1> USE LogAssumption, NilFacts DEF Init, NoneFor, BootPc, LoopPc
<1>1. Types
  <2>1. (CHOOSE v \in Value : TRUE) \in Value
    OBVIOUS
  <2>2. /\ cache \in [Block -> Value \cup {None}] /\ pins \in [Block -> Int]
        /\ holds \in [Proc -> Block \cup {None}] /\ wrote \in [Proc -> SUBSET Block]
        /\ tail \in [Proc -> Nat]
    OBVIOUS
  <2>3. pc \in [Proc -> {"panic", "idle", "begin", "asleep", "op", "dirty",
                        "append", "commit", "finish"} \cup BootPc \cup LoopPc]
    OBVIOUS
  <2>4. hlog \in [1 .. LOGSIZE -> Value]
    BY <2>1
  <2>5. home \in [Block -> Value] /\ lh \in Seq(Block) /\ head \in Seq(Block)
    OBVIOUS
  <2>6. outstanding \in Int /\ committing = FALSE
    OBVIOUS
  <2> HIDE DEF Init, BootPc, LoopPc
  <2>7. committing \in BOOLEAN
    BY <2>6, Zenon
  <2> QED BY <2>2, <2>3, <2>4, <2>5, <2>6, <2>7 DEF Types
<1>2. Booting /\ Writing /\ Closing
  BY DEF Booting, Writing, Closing, InOperation, Committing
<1> QED BY <1>1, <1>2 DEF Control

(* Every step keeps the control state; one step below per action.          *)
LEMMA ControlStep == Control /\ CountFacts /\ [Next]_vars => Control'
<1> SUFFICES ASSUME Control, CountFacts, [Next]_vars PROVE Control'
  OBVIOUS
<1> USE LogAssumption
    DEF Control, Types, Booting, Closing, Writing, InOperation, Committing, BootPc, LoopPc,
        Goto, Woken, NoneFor, disk, bufs, log
<1>1. ASSUME NEW p \in Proc, Call(p) PROVE Control'
  <2>1. Types'
    BY <1>1 DEF Call
  <2>2. Booting'
    BY <1>1 DEF Call
  <2>3. Closing'
    BY <1>1 DEF Call
  <2>4. Writing'
    BY <1>1 DEF Call
  <2> QED BY <2>1, <2>2, <2>3, <2>4
<1>2. ASSUME NEW p \in Proc, BeginSleep(p) PROVE Control'
  <2>1. Types'
    BY <1>2 DEF BeginSleep
  <2>2. Booting'
    BY <1>2 DEF BeginSleep
  <2>3. Closing'
    BY <1>2 DEF BeginSleep
  <2>4. Writing'
    BY <1>2 DEF BeginSleep
  <2> QED BY <2>1, <2>2, <2>3, <2>4
<1>3. ASSUME NEW p \in Proc, BeginOp(p) PROVE Control'
  <2>1. Types'
    BY <1>3 DEF BeginOp
  <2>2. Booting'
    BY <1>3 DEF BeginOp
  <2>3. Closing'
    BY <1>3 DEF BeginOp, MustWait
  <2>4. Writing'
    BY <1>3 DEF BeginOp
  <2> QED BY <2>1, <2>2, <2>3, <2>4
<1>4. ASSUME NEW p \in Proc, NEW b \in Block, NEW v \in Value, Modify(p, b, v) PROVE Control'
  BY <1>4 DEF Modify
<1>5. ASSUME NEW p \in Proc, LogWrite(p) PROVE Control'
  BY <1>5 DEF LogWrite
<1>6. ASSUME NEW p \in Proc, LogWritePanic(p) PROVE Control'
  BY <1>6 DEF LogWritePanic
<1>7. ASSUME NEW p \in Proc, LogAppend(p) PROVE Control'
  <2>1. Types'
    BY <1>7 DEF LogAppend
  <2>2. Booting'
    BY <1>7, SMTT(30) DEF LogAppend
  <2>3. Closing'
    BY <1>7 DEF LogAppend
  <2>4. Writing'
    BY <1>7 DEF LogAppend
  <2> QED BY <2>1, <2>2, <2>3, <2>4
<1>8. ASSUME NEW p \in Proc, EndOp(p) PROVE Control'
  <2>1. InOperation(p) /\ ~committing /\ pc[p] = "op"
    BY <1>8 DEF EndOp
  <2>2. CASE outstanding = 1
    <3>1. /\ committing' = TRUE /\ pc' = [pc EXCEPT ![p] = "commit"]
          /\ outstanding' \in Int /\ wrote' = [wrote EXCEPT ![p] = {}]
          /\ UNCHANGED <<disk, bufs, lh, tail>>
      BY <1>8, <2>2 DEF EndOp
    <3>2. \A q \in Proc : InOperation(q) => q = p
      BY <2>1, <2>2 DEF CountFacts
    <3>3. Types'
      BY <2>1, <3>1
    <3>4. Booting'
      BY <2>1, <3>1
    <3>5. Writing'
      BY <2>1, <3>1
    <3>6. Closing'
      BY <2>1, <3>1, <3>2
    <3> QED BY <3>3, <3>4, <3>5, <3>6
  <2>3. CASE outstanding # 1
    <3>1. /\ committing' = committing
          /\ outstanding' \in Int /\ wrote' = [wrote EXCEPT ![p] = {}]
          /\ UNCHANGED <<disk, bufs, lh, tail>>
      BY <1>8, <2>3 DEF EndOp
    <3>2. pc' = [q \in Proc |-> IF q = p THEN "idle"
                                ELSE IF pc[q] = "asleep" THEN "begin" ELSE pc[q]]
      BY <1>8, <2>3, WokenFacts DEF EndOp
    <3>3. Types'
      BY <2>1, <3>1, <3>2
    <3>4. Booting' /\ Writing'
      BY <2>1, <3>1, <3>2
    <3>5. Closing'
      BY <2>1, <3>1, <3>2
    <3> QED BY <3>3, <3>4, <3>5
  <2> QED BY <2>2, <2>3
<1>9. ASSUME NEW p \in Proc, Commit(p) PROVE Control'
  <2>1. Types'
    BY <1>9 DEF Commit
  <2>2. Booting'
    BY <1>9 DEF Commit
  <2>3. Closing'
    BY <1>9 DEF Commit
  <2>4. Writing'
    BY <1>9 DEF Commit
  <2> QED BY <2>1, <2>2, <2>3, <2>4
<1>10. ASSUME NEW p \in Proc, WriteLog(p) PROVE Control'
  <2>1. Types'
    <3>1. lh[tail[p] + 1] \in Block /\ tail[p] + 1 \in 1 .. LOGSIZE
      BY <1>10, SeqFacts DEF WriteLog, CountFacts
    <3>2. Bread(lh[tail[p] + 1]) \in Value
      BY <3>1 DEF Bread
    <3> HIDE DEF Bread
    <3> QED BY <1>10, <3>1, <3>2 DEF WriteLog
  <2>2. Booting'
    BY <1>10 DEF WriteLog
  <2>3. Closing'
    BY <1>10 DEF WriteLog
  <2>4. Writing'
    BY <1>10 DEF WriteLog
  <2> QED BY <2>1, <2>2, <2>3, <2>4
<1>11. ASSUME NEW p \in Proc, WriteHead(p) PROVE Control'
  <2>1. Types'
    BY <1>11 DEF WriteHead
  <2>2. Booting'
    BY <1>11 DEF WriteHead
  <2>3. Closing'
    BY <1>11 DEF WriteHead
  <2>4. Writing'
    BY <1>11 DEF WriteHead
  <2> QED BY <2>1, <2>2, <2>3, <2>4
<1>12. ASSUME NEW p \in Proc, InstallTrans(p) PROVE Control'
  <2>1. Types'
    <3>1. lh[tail[p] + 1] \in Block /\ hlog[tail[p] + 1] \in Value
      BY <1>12, SeqFacts DEF InstallTrans, CountFacts
    <3>2. cache' \in [Block -> Value \cup {None}] /\ home' \in [Block -> Value]
      BY <1>12, <3>1 DEF InstallTrans
    <3>3. pins' \in [Block -> Int] /\ tail' \in [Proc -> Nat]
      BY <1>12, <3>1 DEF InstallTrans
    <3> QED BY <1>12, <3>2, <3>3 DEF InstallTrans
  <2>2. Booting'
    BY <1>12 DEF InstallTrans
  <2>3. Closing'
    BY <1>12 DEF InstallTrans
  <2>4. Writing'
    BY <1>12 DEF InstallTrans
  <2> QED BY <2>1, <2>2, <2>3, <2>4
<1>13. ASSUME NEW p \in Proc, ClearHead(p) PROVE Control'
  <2>1. Types'
    BY <1>13 DEF ClearHead
  <2>2. Booting'
    BY <1>13 DEF ClearHead
  <2>3. Closing'
    BY <1>13 DEF ClearHead
  <2>4. Writing'
    BY <1>13 DEF ClearHead
  <2> QED BY <2>1, <2>2, <2>3, <2>4
<1>14. ASSUME NEW p \in Proc, Finish(p) PROVE Control'
  <2>1. Types'
    BY <1>14 DEF Finish
  <2>2. Booting'
    BY <1>14 DEF Finish
  <2>3. Closing'
    BY <1>14 DEF Finish
  <2>4. Writing'
    BY <1>14 DEF Finish
  <2> QED BY <2>1, <2>2, <2>3, <2>4
<1>15. ASSUME NEW p \in Proc, ReadHead(p) PROVE Control'
  <2>1. Types'
    BY <1>15 DEF ReadHead
  <2>2. Booting'
    <3>1. /\ pc' = [pc EXCEPT ![p] = "recover"] /\ pc[p] = "readHead"
          /\ \A q \in Proc : pc[q] \in BootPc /\ (q # p => pc[q] = "off")
      BY <1>15 DEF ReadHead
    <3>2. \A q \in Proc : pc'[q] = IF q = p THEN "recover" ELSE "off"
      BY <3>1
    <3> QED BY <3>2
  <2>3. Closing'
    <3>1. Len(head) \in Nat /\ lh' = head /\ \A q \in Proc : pc[q] \in BootPc
      BY <1>15, SeqFacts DEF ReadHead
    <3>2. tail' = tail /\ committing' = committing /\ pc' = [pc EXCEPT ![p] = "recover"]
      BY <1>15 DEF ReadHead
    <3>3. \A q \in Proc : tail[q] = 0
      BY <1>15, <3>1 DEF ReadHead
    <3>4. \A q \in Proc : pc'[q] \in BootPc
      BY <3>1, <3>2
    <3>5. \A q \in Proc : tail'[q] = 0 /\ ~Committing(q)' /\ ~InOperation(q)' /\ pc'[q] # "finish"
      BY <3>2, <3>3, <3>4
    <3> HIDE DEF Control
    <3> QED BY <3>5
  <2>4. Writing'
    BY <1>15 DEF ReadHead
  <2> QED BY <2>1, <2>2, <2>3, <2>4
<1>16. ASSUME NEW p \in Proc, NEW b \in Block, Read(p, b) PROVE Control'
  BY <1>16 DEF Read
<1>17. ASSUME NEW b \in Block, Evict(b) PROVE Control'
  BY <1>17 DEF Evict
<1>18. ASSUME Crash PROVE Control'
  <2>1. Types'
    <3>1. pc' \in [Proc -> {"panic", "idle", "begin", "asleep", "op", "dirty",
                          "append", "commit", "finish"} \cup BootPc \cup LoopPc]
      BY <1>18 DEF Crash
    <3>2. cache' \in [Block -> Value \cup {None}] /\ pins' \in [Block -> Int]
      BY <1>18 DEF Crash
    <3>3. holds' \in [Proc -> Block \cup {None}] /\ tail' \in [Proc -> Nat]
      BY <1>18 DEF Crash
    <3>4. wrote' \in [Proc -> SUBSET Block]
      BY <1>18 DEF Crash
    <3>5. lh' \in Seq(Block)
      BY <1>18, NilFacts DEF Crash
    <3>6. /\ home' = home /\ hlog' = hlog /\ head' = head
          /\ outstanding' \in Int /\ committing' = FALSE
      BY <1>18 DEF Crash
    <3>7. Types
      OBVIOUS
    <3> HIDE DEF Control, BootPc, LoopPc
    <3>8. committing' \in BOOLEAN
      BY <3>6, Zenon
    <3> QED BY <3>1, <3>2, <3>3, <3>4, <3>5, <3>6, <3>7, <3>8
  <2>2. Booting'
    BY <1>18 DEF Crash
  <2>3. Closing'
    BY <1>18 DEF Crash
  <2>4. Writing'
    BY <1>18 DEF Crash
  <2> QED BY <2>1, <2>2, <2>3, <2>4
<1>19. ASSUME UNCHANGED vars PROVE Control'
  BY <1>19 DEF vars
<1> HIDE DEF Control
<1> QED
  BY <1>1, <1>2, <1>3, <1>4, <1>5, <1>6, <1>7, <1>8, <1>9, <1>10,
     <1>11, <1>12, <1>13, <1>14, <1>15, <1>16, <1>17, <1>18, <1>19
  DEF Next, Write, Committer

-----------------------------------------------------------------------------
(* The counts.                                                             *)
LEMMA OpenFinite ==
  /\ IsFiniteSet(Open) /\ Cardinality(Open) \in Nat
  /\ IsFiniteSet(Reserve) /\ Cardinality(Reserve) \in Nat
<1>1. Open \in SUBSET Proc /\ IsFiniteSet(Proc)
  BY LogAssumption DEF Open
<1>2. IsFiniteSet(1 .. MAXOPBLOCKS)
  BY LogAssumption, FS_Interval
<1>3. IsFiniteSet(Proc \X (1 .. MAXOPBLOCKS))
  BY <1>1, <1>2, FS_Product
<1>4. Reserve \in SUBSET (Proc \X (1 .. MAXOPBLOCKS))
  BY DEF Reserve
<1>5. IsFiniteSet(Open) /\ IsFiniteSet(Reserve)
  BY <1>1, <1>3, <1>4, FS_Subset
<1> QED BY <1>5, FS_CardinalityType

(* The counts, in the form the other parts use.                            *)
LEMMA CountsMean == Control /\ Counts => CountFacts
<1> SUFFICES ASSUME Control, Counts PROVE CountFacts
  OBVIOUS
<1>1. outstanding \in Nat /\ outstanding = Cardinality(Open)
  BY OpenFinite DEF Counts, Counted
<1>2. ASSUME NEW p \in Proc, InOperation(p) PROVE outstanding >= 1
  <2>1. Open # {}
    BY <1>2 DEF Open
  <2> QED BY <1>1, <2>1, OpenFinite, FS_EmptySet
<1>3. ASSUME outstanding = 1, NEW p \in Proc, NEW q \in Proc, InOperation(p), InOperation(q)
      PROVE  p = q
  <2>1. PICK r : Open = {r}
    BY <1>1, <1>3, OpenFinite, FS_Singleton
  <2> QED BY <1>3, <2>1 DEF Open
<1>4. Len(lh) <= LOGSIZE
  <2>1. Len(lh) \in Nat
    BY SeqFacts DEF Control, Types
  <2> QED BY <2>1, OpenFinite, LogAssumption DEF Counts, Reserved
<1> QED BY <1>1, <1>2, <1>3, <1>4 DEF CountFacts

(* An operation that has logged nothing is within its bound.               *)
LEMMA EmptyFits == \A S : S = {} => IsFiniteSet(S) /\ Cardinality(S) <= MAXOPBLOCKS
<1> SUFFICES ASSUME NEW S, S = {} PROVE IsFiniteSet(S) /\ Cardinality(S) <= MAXOPBLOCKS
  OBVIOUS
<1>1. IsFiniteSet(S) /\ Cardinality(S) = 0
  BY FS_EmptySet, Zenon
<1> QED BY <1>1, LogAssumption

(* With no operation open nothing is counted or reserved.                  *)
LEMMA NothingOpen ==
  ASSUME \A p \in Proc : ~InOperation(p)
  PROVE  Open = {} /\ Reserve = {}
BY DEF Open, Reserve

(* A machine that starts has no operation open.                            *)
LEMMA InitCounts == Init => Counts
<1> SUFFICES ASSUME Init PROVE Counts
  OBVIOUS
<1>1. Open = {} /\ Reserve = {}
  BY NothingOpen DEF Init, InOperation
<1>2. Counted /\ Reserved
  BY <1>1, FS_EmptySet, NilFacts, LogAssumption DEF Init, Counted, Reserved
<1>3. Wrote
  BY FS_EmptySet, LogAssumption DEF Init, Wrote, InOperation
<1> QED BY <1>2, <1>3 DEF Counts

(* Steps that leave the log and the operations as they are.                *)
LEMMA CountsKept ==
  ASSUME Counts, lh' = lh, wrote' = wrote, outstanding' = outstanding,
         \A p \in Proc : InOperation(p)' <=> InOperation(p),
         \A p \in Proc : pc'[p] \in {"dirty", "append"} =>
           pc[p] \in {"dirty", "append"} /\ holds'[p] = holds[p]
  PROVE  Counts'
<1>1. Open' = Open /\ Reserve' = Reserve
  BY DEF Open, Reserve
<1>2. Counted' /\ Reserved'
  BY <1>1 DEF Counts, Counted, Reserved
<1>3. Wrote'
  BY DEF Counts, Wrote, Logged
<1> QED BY <1>2, <1>3 DEF Counts

(* Steps after which no operation is open.                                 *)
LEMMA CountsNone ==
  ASSUME \A p \in Proc : ~InOperation(p)', \A p \in Proc : wrote'[p] = {},
         Len(lh') \in Nat, Len(lh') <= LOGSIZE, outstanding' = 0,
         \A p \in Proc : pc'[p] \notin {"dirty", "append"}
  PROVE  Counts'
<1>1. Open' = {} /\ Reserve' = {}
  BY DEF Open, Reserve
<1>2. Counted' /\ Reserved'
  BY <1>1, FS_EmptySet DEF Counted, Reserved
<1>3. ASSUME NEW p \in Proc
      PROVE  IsFiniteSet(wrote'[p]) /\ Cardinality(wrote'[p]) <= MAXOPBLOCKS
  BY EmptyFits, Zenon
<1>4. Wrote'
  BY <1>3 DEF Wrote
<1> QED BY <1>2, <1>4 DEF Counts

(* begin_op reserves MAXOPBLOCKS places for each open operation.           *)
LEMMA CountsBegin ==
  ASSUME Control, Counts, NEW p \in Proc, BeginOp(p)
  PROVE  Counts'
<1>1. /\ pc' = [pc EXCEPT ![p] = "op"] /\ pc[p] = "begin" /\ lh' = lh /\ wrote' = wrote
      /\ holds' = holds /\ outstanding' = outstanding + 1
      /\ Len(lh) + (outstanding + 1) * MAXOPBLOCKS <= LOGSIZE
  <2>1. Len(lh) \in Nat /\ outstanding \in Nat
    BY SeqFacts, OpenFinite DEF Control, Types, Counts, Counted
  <2>2. ~(Len(lh) + (outstanding + 1) * MAXOPBLOCKS > LOGSIZE)
    BY DEF BeginOp, MustWait
  <2>3. (outstanding + 1) * MAXOPBLOCKS \in Nat
    BY <2>1, LogAssumption
  <2>4. Len(lh) + (outstanding + 1) * MAXOPBLOCKS <= LOGSIZE
    <3> DEFINE need == (outstanding + 1) * MAXOPBLOCKS
    <3> HIDE DEF need
    <3> QED BY <2>1, <2>2, <2>3, LogAssumption DEF need
  <2> QED BY <2>4 DEF BeginOp, Goto, bufs
<1>2. pc \in [Proc -> {"panic", "idle", "begin", "asleep", "op", "dirty",
                      "append", "commit", "finish"} \cup BootPc \cup LoopPc]
  BY DEF Control, Types
<1>3. Open' = Open \cup {p} /\ p \notin Open
  BY <1>1, <1>2 DEF Open, InOperation
<1>4. Cardinality(Open') = outstanding + 1 /\ IsFiniteSet(Open')
  BY <1>3, OpenFinite, FS_AddElement DEF Counts, Counted
<1>5. Cardinality(Reserve') <= (outstanding + 1) * MAXOPBLOCKS
      /\ Cardinality(Reserve') \in Nat
  <2>1. Reserve' \in SUBSET (Open' \X (1 .. MAXOPBLOCKS))
    BY DEF Reserve, Open
  <2>2. IsFiniteSet(1 .. MAXOPBLOCKS) /\ Cardinality(1 .. MAXOPBLOCKS) = MAXOPBLOCKS
    BY FS_Interval, LogAssumption
  <2>3. /\ IsFiniteSet(Open' \X (1 .. MAXOPBLOCKS))
        /\ Cardinality(Open' \X (1 .. MAXOPBLOCKS)) = Cardinality(Open') * MAXOPBLOCKS
    BY <1>4, <2>2, FS_Product
  <2>4. /\ Cardinality(Reserve') <= Cardinality(Open' \X (1 .. MAXOPBLOCKS))
        /\ IsFiniteSet(Reserve')
    BY <2>1, <2>3, FS_Subset
  <2> QED BY <1>4, <2>3, <2>4, FS_CardinalityType
<1>6. Reserved'
  <2> DEFINE need == (outstanding + 1) * MAXOPBLOCKS
  <2>1. need \in Nat /\ Len(lh) \in Nat
    BY OpenFinite, LogAssumption, SeqFacts DEF Counts, Counted, Control, Types
  <2>2. Cardinality(Reserve') <= need /\ Len(lh) + need <= LOGSIZE
    BY <1>1, <1>5
  <2> HIDE DEF need
  <2> QED BY <1>1, <1>5, <2>1, <2>2, LogAssumption DEF Reserved
<1>7. Wrote'
  BY <1>1, <1>2 DEF Counts, Wrote, Logged, InOperation
<1> QED BY <1>1, <1>4, <1>6, <1>7 DEF Counts, Counted

(* log_write uses a place its operation has reserved, or none.             *)
LEMMA CountsAppend ==
  ASSUME Control, Counts, NEW p \in Proc, LogAppend(p)
  PROVE  Counts'
<1> DEFINE w == wrote[p]
           old == Len(lh)
<1>0. PICK b : b = holds[p]
  OBVIOUS
<1>1. /\ pc[p] = "append" /\ pc' = [pc EXCEPT ![p] = "op"] /\ b \in Block
      /\ wrote' = [wrote EXCEPT ![p] = w \cup {b}] /\ outstanding' = outstanding
      /\ holds' = [holds EXCEPT ![p] = None]
      /\ lh' = IF b \notin Range(lh) THEN Append(lh, b) ELSE lh
  BY <1>0 DEF LogAppend, Goto, Control, Writing
<1>2. /\ pc \in [Proc -> {"panic", "idle", "begin", "asleep", "op", "dirty",
                      "append", "commit", "finish"} \cup BootPc \cup LoopPc]
      /\ lh \in Seq(Block) /\ wrote \in [Proc -> SUBSET Block]
      /\ holds \in [Proc -> Block \cup {None}]
  BY DEF Control, Types
<1>3. \A q \in Proc : InOperation(q)' <=> InOperation(q)
  BY <1>1, <1>2 DEF InOperation
<1>4. Counted'
  BY <1>1, <1>3 DEF Counts, Counted, Open
<1>5. /\ Logged(b)' /\ \A c : Logged(c) => Logged(c)'
      /\ Len(lh') = IF Logged(b) THEN old ELSE old + 1
      /\ old \in Nat
  <2>1. CASE b \in Range(lh)
    BY <1>1, <1>2, <2>1, SeqFacts DEF Logged
  <2>2. CASE b \notin Range(lh)
    BY <1>1, <1>2, <2>2, SeqFacts, AppendProperties DEF Logged
  <2> QED BY <2>1, <2>2
<1>6. /\ IsFiniteSet(w) /\ IsFiniteSet(w \cup {b}) /\ Cardinality(w \cup {b}) <= MAXOPBLOCKS
      /\ Cardinality(w) \in Nat
      /\ Cardinality(w \cup {b}) = IF b \in w THEN Cardinality(w) ELSE Cardinality(w) + 1
      /\ b \in w => Logged(b)
  <2>1. IsFiniteSet(w) /\ Cardinality(w \cup {b}) <= MAXOPBLOCKS /\ (b \in w => Logged(b))
    BY <1>0, <1>1 DEF Counts, Wrote
  <2> QED BY <2>1, FS_AddElement, FS_CardinalityType
<1>7. Wrote'
  <2> SUFFICES ASSUME NEW q \in Proc
               PROVE  /\ \A c \in wrote'[q] : Logged(c)'
                      /\ wrote'[q] # {} => InOperation(q)'
                      /\ IsFiniteSet(wrote'[q]) /\ Cardinality(wrote'[q]) <= MAXOPBLOCKS
                      /\ pc'[q] \in {"dirty", "append"} =>
                           Cardinality(wrote'[q] \cup {holds'[q]}) <= MAXOPBLOCKS
    BY DEF Wrote
  <2>1. CASE q = p
    <3>1. wrote'[p] = w \cup {b} /\ pc'[p] = "op"
      BY <1>1, <1>2
    <3>2. \A c \in w : Logged(c)
      BY DEF Counts, Wrote
    <3>3. InOperation(p)
      BY <1>1 DEF InOperation
    <3> HIDE DEF w
    <3> QED BY <2>1, <3>1, <3>2, <3>3, <1>3, <1>5, <1>6
  <2>2. CASE q # p
    <3>1. wrote'[q] = wrote[q] /\ pc'[q] = pc[q] /\ holds'[q] = holds[q]
      BY <1>1, <1>2, <2>2
    <3> QED BY <3>1, <1>3, <1>5 DEF Counts, Wrote
  <2> QED BY <2>1, <2>2
<1>8. Reserve' \in SUBSET Reserve
  <2> SUFFICES ASSUME NEW r \in Reserve' PROVE r \in Reserve
    OBVIOUS
  <2>1. /\ r \in Proc \X (1 .. MAXOPBLOCKS) /\ InOperation(r[1])
        /\ r[2] > Cardinality(wrote'[r[1]]) /\ r[2] \in Nat /\ r[1] \in Proc
    BY <1>3 DEF Reserve
  <2>2. CASE r[1] = p
    <3>1. wrote'[p] = w \cup {b}
      BY <1>1, <1>2
    <3>2. r[2] > Cardinality(w)
      <4> HIDE DEF w
      <4> QED BY <1>6, <2>1, <2>2, <3>1
    <3> QED BY <2>1, <2>2, <3>2 DEF Reserve
  <2>3. CASE r[1] # p
    <3>1. wrote'[r[1]] = wrote[r[1]]
      BY <1>1, <1>2, <2>1, <2>3
    <3> QED BY <2>1, <3>1 DEF Reserve
  <2> QED BY <2>2, <2>3
<1>9. Reserved'
  <2>1. CASE Logged(b)
    <3>1. Cardinality(Reserve') <= Cardinality(Reserve) /\ Cardinality(Reserve') \in Nat
      BY <1>8, OpenFinite, FS_Subset, FS_CardinalityType
    <3> QED BY <2>1, <3>1, <1>5, OpenFinite, LogAssumption DEF Counts, Reserved
  <2>2. CASE ~Logged(b)
    <3> DEFINE r == <<p, Cardinality(w) + 1>>
    <3>1. b \notin w /\ Cardinality(w) + 1 \in 1 .. MAXOPBLOCKS
      BY <1>6, <2>2, LogAssumption
    <3>2. r \in Reserve
      <4>1. InOperation(p)
        BY <1>1 DEF InOperation
      <4> QED BY <3>1, <4>1, <1>6 DEF Reserve
    <3>3. r \notin Reserve'
      <4>1. wrote'[p] = w \cup {b}
        BY <1>1, <1>2
      <4> HIDE DEF w
      <4>2. ~(Cardinality(w) + 1 > Cardinality(wrote'[p]))
        BY <3>1, <4>1, <1>6
      <4> QED BY <4>2 DEF Reserve
    <3>4. Reserve' \in SUBSET (Reserve \ {r})
      BY <1>8, <3>3
    <3>5. /\ Cardinality(Reserve \ {r}) = Cardinality(Reserve) - 1
          /\ IsFiniteSet(Reserve \ {r})
      BY <3>2, OpenFinite, FS_RemoveElement
    <3>6. Cardinality(Reserve') <= Cardinality(Reserve) - 1 /\ Cardinality(Reserve') \in Nat
      BY <3>4, <3>5, FS_Subset, FS_CardinalityType
    <3> QED BY <2>2, <3>6, <1>5, OpenFinite, LogAssumption DEF Counts, Reserved
  <2> QED BY <2>1, <2>2
<1> QED BY <1>4, <1>7, <1>9 DEF Counts

(* end_op gives its operation's reservation back.                          *)
LEMMA CountsEnd ==
  ASSUME Control, Counts, NEW p \in Proc, EndOp(p)
  PROVE  Counts'
<1>1. /\ pc[p] = "op" /\ outstanding' = outstanding - 1 /\ wrote' = [wrote EXCEPT ![p] = {}]
      /\ lh' = lh /\ holds' = holds
  BY DEF EndOp, bufs
<1>2. /\ pc \in [Proc -> {"panic", "idle", "begin", "asleep", "op", "dirty",
                      "append", "commit", "finish"} \cup BootPc \cup LoopPc]
      /\ lh \in Seq(Block) /\ wrote \in [Proc -> SUBSET Block]
  BY DEF Control, Types
<1>3. /\ ~InOperation(p)' /\ InOperation(p)
      /\ \A q \in Proc \ {p} : InOperation(q)' <=> InOperation(q)
      /\ \A q \in Proc : pc'[q] \in {"dirty", "append"} => q # p /\ pc[q] \in {"dirty", "append"}
  <2>1. CASE outstanding = 1
    BY <1>1, <1>2, <2>1 DEF EndOp, Goto, InOperation
  <2>2. CASE outstanding # 1
    <3>1. pc' = [q \in Proc |-> IF q = p THEN "idle"
                                ELSE IF pc[q] = "asleep" THEN "begin" ELSE pc[q]]
      BY <2>2, WokenFacts DEF EndOp
    <3> QED BY <3>1, <1>1, <1>2 DEF InOperation
  <2> QED BY <2>1, <2>2
<1>4. Counted'
  <2>1. Open' = Open \ {p} /\ p \in Open
    BY <1>3 DEF Open
  <2>2. Cardinality(Open') = Cardinality(Open) - 1
    BY <2>1, OpenFinite, FS_RemoveElement
  <2> QED BY <2>2, <1>1 DEF Counts, Counted
<1>5. Reserved'
  <2>1. Reserve' \in SUBSET Reserve
    BY <1>1, <1>2, <1>3 DEF Reserve
  <2>2. Cardinality(Reserve') <= Cardinality(Reserve) /\ Cardinality(Reserve') \in Nat
    BY <2>1, OpenFinite, FS_Subset, FS_CardinalityType
  <2>3. Len(lh) \in Nat
    BY <1>2, SeqFacts
  <2> QED BY <2>2, <2>3, <1>1, OpenFinite, LogAssumption DEF Counts, Reserved
<1>6. Wrote'
  <2>1. wrote'[p] = {} /\ \A q \in Proc \ {p} : wrote'[q] = wrote[q]
    BY <1>1, <1>2
  <2>2. \A q \in Proc : IsFiniteSet(wrote'[q]) /\ Cardinality(wrote'[q]) <= MAXOPBLOCKS
    <3>1. ASSUME NEW q \in Proc \ {p} PROVE IsFiniteSet(wrote'[q]) /\ Cardinality(wrote'[q]) <= MAXOPBLOCKS
      BY <2>1 DEF Counts, Wrote
    <3>2. IsFiniteSet(wrote'[p]) /\ Cardinality(wrote'[p]) <= MAXOPBLOCKS
      BY <2>1, EmptyFits, Zenon
    <3> QED BY <3>1, <3>2
  <2> QED BY <2>1, <2>2, <1>1, <1>3 DEF Counts, Wrote, Logged
<1> QED BY <1>4, <1>5, <1>6 DEF Counts

(* Every step keeps the counts and the reservation.                        *)
LEMMA CountsStep == Control /\ Counts /\ Len(head) <= LOGSIZE /\ [Next]_vars => Counts'
<1> SUFFICES ASSUME Control, Counts, Len(head) <= LOGSIZE, [Next]_vars PROVE Counts'
  OBVIOUS
<1> USE DEF Goto, disk, bufs, log
<1>1. ASSUME NEW p \in Proc, Call(p) PROVE Counts'
  <2>1. /\ lh' = lh /\ wrote' = wrote /\ outstanding' = outstanding
        /\ \A q \in Proc : InOperation(q)' <=> InOperation(q)
        /\ \A q \in Proc : pc'[q] \in {"dirty", "append"} =>
             pc[q] \in {"dirty", "append"} /\ holds'[q] = holds[q]
    BY <1>1 DEF Call, Control, Types, InOperation
  <2> QED BY <2>1, CountsKept
<1>2. ASSUME NEW p \in Proc, BeginSleep(p) PROVE Counts'
  <2>1. /\ lh' = lh /\ wrote' = wrote /\ outstanding' = outstanding
        /\ \A q \in Proc : InOperation(q)' <=> InOperation(q)
        /\ \A q \in Proc : pc'[q] \in {"dirty", "append"} =>
             pc[q] \in {"dirty", "append"} /\ holds'[q] = holds[q]
    BY <1>2 DEF BeginSleep, Control, Types, InOperation
  <2> QED BY <2>1, CountsKept
<1>3. ASSUME NEW p \in Proc, BeginOp(p) PROVE Counts'
  BY <1>3, CountsBegin
<1>4. ASSUME NEW p \in Proc, NEW b \in Block, NEW v \in Value, Modify(p, b, v) PROVE Counts'
  <2>1. /\ lh' = lh /\ wrote' = wrote /\ outstanding' = outstanding
        /\ \A q \in Proc : InOperation(q)' <=> InOperation(q)
        /\ \A q \in Proc \ {p} : pc'[q] = pc[q] /\ holds'[q] = holds[q]
        /\ holds'[p] = b /\ Cardinality(wrote[p] \cup {b}) <= MAXOPBLOCKS
    BY <1>4 DEF Modify, Control, Types, InOperation
  <2>2. Open' = Open /\ Reserve' = Reserve
    BY <2>1 DEF Open, Reserve
  <2>3. Counted' /\ Reserved'
    BY <2>1, <2>2 DEF Counts, Counted, Reserved
  <2>4. Wrote'
    BY <2>1 DEF Counts, Wrote, Logged
  <2> QED BY <2>3, <2>4 DEF Counts
<1>5. ASSUME NEW p \in Proc, LogWrite(p) PROVE Counts'
  <2>1. /\ lh' = lh /\ wrote' = wrote /\ outstanding' = outstanding
        /\ \A q \in Proc : InOperation(q)' <=> InOperation(q)
        /\ \A q \in Proc : pc'[q] \in {"dirty", "append"} =>
             pc[q] \in {"dirty", "append"} /\ holds'[q] = holds[q]
    BY <1>5 DEF LogWrite, Control, Types, InOperation
  <2> QED BY <2>1, CountsKept
<1>6. ASSUME NEW p \in Proc, LogWritePanic(p) PROVE Counts'
  <2>1. /\ lh' = lh /\ wrote' = wrote /\ outstanding' = outstanding
        /\ \A q \in Proc : InOperation(q)' <=> InOperation(q)
        /\ \A q \in Proc : pc'[q] \in {"dirty", "append"} =>
             pc[q] \in {"dirty", "append"} /\ holds'[q] = holds[q]
    BY <1>6 DEF LogWritePanic, Control, Types, InOperation
  <2> QED BY <2>1, CountsKept
<1>7. ASSUME NEW p \in Proc, LogAppend(p) PROVE Counts'
  BY <1>7, CountsAppend
<1>8. ASSUME NEW p \in Proc, EndOp(p) PROVE Counts'
  BY <1>8, CountsEnd
<1>9. ASSUME NEW p \in Proc, Commit(p) PROVE Counts'
  <2>1. /\ lh' = lh /\ wrote' = wrote /\ outstanding' = outstanding
        /\ \A q \in Proc : InOperation(q)' <=> InOperation(q)
        /\ \A q \in Proc : pc'[q] \in {"dirty", "append"} =>
             pc[q] \in {"dirty", "append"} /\ holds'[q] = holds[q]
    BY <1>9 DEF Commit, Control, Types, InOperation
  <2> QED BY <2>1, CountsKept
<1>10. ASSUME NEW p \in Proc, WriteLog(p) PROVE Counts'
  <2>1. /\ lh' = lh /\ wrote' = wrote /\ outstanding' = outstanding
        /\ \A q \in Proc : InOperation(q)' <=> InOperation(q)
        /\ \A q \in Proc : pc'[q] \in {"dirty", "append"} =>
             pc[q] \in {"dirty", "append"} /\ holds'[q] = holds[q]
    BY <1>10 DEF WriteLog, Control, Types, InOperation
  <2> QED BY <2>1, CountsKept
<1>11. ASSUME NEW p \in Proc, WriteHead(p) PROVE Counts'
  <2>1. /\ lh' = lh /\ wrote' = wrote /\ outstanding' = outstanding
        /\ \A q \in Proc : InOperation(q)' <=> InOperation(q)
        /\ \A q \in Proc : pc'[q] \in {"dirty", "append"} =>
             pc[q] \in {"dirty", "append"} /\ holds'[q] = holds[q]
    BY <1>11 DEF WriteHead, Control, Types, InOperation
  <2> QED BY <2>1, CountsKept
<1>12. ASSUME NEW p \in Proc, InstallTrans(p) PROVE Counts'
  <2>1. /\ lh' = lh /\ wrote' = wrote /\ outstanding' = outstanding
        /\ \A q \in Proc : InOperation(q)' <=> InOperation(q)
        /\ \A q \in Proc : pc'[q] \in {"dirty", "append"} =>
             pc[q] \in {"dirty", "append"} /\ holds'[q] = holds[q]
    BY <1>12 DEF InstallTrans, Control, Types, InOperation
  <2> QED BY <2>1, CountsKept
<1>13. ASSUME NEW p \in Proc, ClearHead(p) PROVE Counts'
  <2>1. \A q \in Proc : ~InOperation(q)
    BY <1>13 DEF ClearHead, Control, Closing, Booting, Committing, InOperation, BootPc
  <2>2. outstanding = 0 /\ \A q \in Proc : wrote[q] = {}
    BY <2>1, NothingOpen, FS_EmptySet DEF Counts, Counted, Wrote
  <2>3. lh' = <<>> /\ outstanding' = outstanding /\ wrote' = wrote
    BY <1>13 DEF ClearHead
  <2>4. \A q \in Proc : pc'[q] \in {"finish", "idle", pc[q]}
    BY <1>13 DEF ClearHead, Control, Types
  <2> QED BY <2>1, <2>2, <2>3, <2>4, NilFacts, LogAssumption, CountsNone DEF InOperation
<1>14. ASSUME NEW p \in Proc, Finish(p) PROVE Counts'
  <2>1. /\ lh' = lh /\ wrote' = wrote /\ outstanding' = outstanding
        /\ \A q \in Proc : InOperation(q)' <=> InOperation(q)
        /\ \A q \in Proc : pc'[q] \in {"dirty", "append"} =>
             pc[q] \in {"dirty", "append"} /\ holds'[q] = holds[q]
    BY <1>14, WokenFacts DEF Finish, Control, Types, InOperation
  <2> QED BY <2>1, CountsKept
<1>15. ASSUME NEW p \in Proc, ReadHead(p) PROVE Counts'
  <2>1. \A q \in Proc : ~InOperation(q)
    BY <1>15 DEF ReadHead, Control, Booting, InOperation, BootPc
  <2>2. outstanding = 0 /\ \A q \in Proc : wrote[q] = {}
    BY <2>1, NothingOpen, FS_EmptySet DEF Counts, Counted, Wrote
  <2>3. lh' = head /\ outstanding' = outstanding /\ wrote' = wrote /\ Len(head) \in Nat
    BY <1>15, SeqFacts DEF ReadHead, Control, Types
  <2>4. \A q \in Proc : pc'[q] \in {"recover", pc[q]}
    BY <1>15 DEF ReadHead, Control, Types
  <2> QED BY <2>1, <2>2, <2>3, <2>4, CountsNone DEF InOperation
<1>16. ASSUME NEW p \in Proc, NEW b \in Block, Read(p, b) PROVE Counts'
  <2>1. /\ lh' = lh /\ wrote' = wrote /\ outstanding' = outstanding
        /\ \A q \in Proc : InOperation(q)' <=> InOperation(q)
        /\ \A q \in Proc : pc'[q] \in {"dirty", "append"} =>
             pc[q] \in {"dirty", "append"} /\ holds'[q] = holds[q]
    BY <1>16 DEF Read, Control, Types, InOperation
  <2> QED BY <2>1, CountsKept
<1>17. ASSUME NEW b \in Block, Evict(b) PROVE Counts'
  <2>1. /\ lh' = lh /\ wrote' = wrote /\ outstanding' = outstanding
        /\ \A q \in Proc : InOperation(q)' <=> InOperation(q)
        /\ \A q \in Proc : pc'[q] \in {"dirty", "append"} =>
             pc[q] \in {"dirty", "append"} /\ holds'[q] = holds[q]
    BY <1>17 DEF Evict, Control, Types, InOperation
  <2> QED BY <2>1, CountsKept
<1>18. ASSUME Crash PROVE Counts'
  <2>1. \A q \in Proc : pc'[q] \in {"off", "readHead"} /\ wrote'[q] = {}
    BY <1>18 DEF Crash
  <2>2. lh' = <<>> /\ outstanding' = 0
    BY <1>18 DEF Crash
  <2> QED BY <2>1, <2>2, NilFacts, LogAssumption, CountsNone DEF InOperation
<1>19. ASSUME UNCHANGED vars PROVE Counts'
  <2>1. /\ lh' = lh /\ wrote' = wrote /\ outstanding' = outstanding
        /\ \A q \in Proc : InOperation(q)' <=> InOperation(q)
        /\ \A q \in Proc : pc'[q] \in {"dirty", "append"} =>
             pc[q] \in {"dirty", "append"} /\ holds'[q] = holds[q]
    BY <1>19 DEF vars, Control, Types, InOperation
  <2> QED BY <2>1, CountsKept
<1> HIDE DEF Counts
<1> QED
  BY <1>1, <1>2, <1>3, <1>4, <1>5, <1>6, <1>7, <1>8, <1>9, <1>10,
     <1>11, <1>12, <1>13, <1>14, <1>15, <1>16, <1>17, <1>18, <1>19
  DEF Next, Write, Committer

-----------------------------------------------------------------------------
(* Pins, header and data.                                                  *)
LEMMA InitRest == Init => Pins /\ Header /\ Data /\ SleepersMustWait
<1> SUFFICES ASSUME Init PROVE Pins /\ Header /\ Data /\ SleepersMustWait
  OBVIOUS
<1> USE NilFacts, LogAssumption DEF Init, NoneFor
<1>1. \A b \in Block : ~Pinned(b)
  BY DEF Pinned
<1>2. Pins /\ Header /\ SleepersMustWait
  BY <1>1 DEF Pins, Header, SleepersMustWait
<1>3. Data
  BY DEF Data
<1> QED BY <1>2, <1>3


(* Steps of the committer's loops and of recovery aside, a step takes no   *)
(* process into one nor out of one.                                        *)
LoopsKept == \A q \in Proc : pc[q] \in LoopPc \/ pc'[q] \in LoopPc => pc'[q] = pc[q]

(* What end_op's first critical section does in its two cases.             *)
LEMMA EndOpFacts ==
  ASSUME Control, NEW p \in Proc, EndOp(p)
  PROVE  /\ LoopsKept /\ UNCHANGED <<disk, bufs, lh, tail>> /\ InOperation(p)
         /\ outstanding = 1 => committing' = TRUE
         /\ outstanding # 1 => \A q \in Proc : pc'[q] # "asleep"
<1>1. pc \in [Proc -> {"panic", "idle", "begin", "asleep", "op", "dirty",
                      "append", "commit", "finish"} \cup BootPc \cup LoopPc]
  BY DEF Control, Types
<1>2. UNCHANGED <<disk, bufs, lh, tail>> /\ pc[p] = "op"
  BY DEF EndOp
<1>3. CASE outstanding = 1
  <2>1. committing' = TRUE /\ pc' = [pc EXCEPT ![p] = "commit"]
    BY <1>3 DEF EndOp, Goto
  <2> QED BY <1>1, <1>2, <1>3, <2>1 DEF LoopsKept, LoopPc, InOperation
<1>4. CASE outstanding # 1
  <2>1. pc' = [q \in Proc |-> IF q = p THEN "idle"
                              ELSE IF pc[q] = "asleep" THEN "begin" ELSE pc[q]]
    BY <1>4, WokenFacts DEF EndOp
  <2> QED BY <1>1, <1>2, <1>4, <2>1 DEF LoopsKept, LoopPc, InOperation
<1> QED BY <1>3, <1>4

(* An open operation excludes commit and recovery.                         *)
LEMMA OpenMeansUp ==
  ASSUME Control, NEW p \in Proc, InOperation(p)
  PROVE  \A q \in Proc : pc[q] \notin LoopPc \cup {"readHead", "finish", "commit"}
BY DEF Control, Booting, Closing, InOperation, Committing, BootPc, LoopPc

(* At most one process is in a loop.                                       *)
LEMMA OneLoop ==
  ASSUME Control, NEW p \in Proc, NEW q \in Proc, pc[p] \in LoopPc,
         pc[q] \in LoopPc \cup {"readHead"}
  PROVE  p = q
BY DEF Control, Booting, Closing, Committing, BootPc, LoopPc

(* Pins stay where the log and the committer's loops do.                   *)
LEMMA PinnedKept ==
  ASSUME lh' = lh, tail' = tail, LoopsKept
  PROVE  \A b : Pinned(b)' <=> Pinned(b)
BY DEF Pinned, LoopsKept, LoopPc

(* What log_write makes of the log.                                        *)
LEMMA AppendFacts ==
  ASSUME Control, NEW p \in Proc, LogAppend(p)
  PROVE  /\ holds[p] \in Block
         /\ \A i \in 1 .. Len(lh) : lh'[i] = lh[i] /\ i \in 1 .. Len(lh')
         /\ \/ lh' = lh /\ (\E i \in 1 .. Len(lh) : lh[i] = holds[p]) /\ pins' = pins
            \/ /\ Len(lh') = Len(lh) + 1 /\ lh'[Len(lh) + 1] = holds[p]
               /\ \A i \in 1 .. Len(lh) : lh[i] # holds[p]
               /\ pins' = [pins EXCEPT ![holds[p]] = @ + 1]
         /\ pc[p] = "append" /\ pc' = [pc EXCEPT ![p] = "op"] /\ tail' = tail
         /\ Len(lh) \in Nat
<1>1. holds[p] \in Block /\ lh \in Seq(Block) /\ pc[p] = "append"
  BY DEF LogAppend, Control, Types, Writing
<1>2. pc' = [pc EXCEPT ![p] = "op"] /\ tail' = tail
  BY DEF LogAppend, Goto
<1>3. CASE holds[p] \in Range(lh)
  <2>1. lh' = lh /\ pins' = pins
    BY <1>3 DEF LogAppend
  <2> QED BY <1>1, <1>2, <1>3, <2>1, SeqFacts
<1>4. CASE holds[p] \notin Range(lh)
  <2>1. lh' = Append(lh, holds[p]) /\ pins' = [pins EXCEPT ![holds[p]] = @ + 1]
    BY <1>4 DEF LogAppend
  <2>2. /\ Len(lh') = Len(lh) + 1 /\ lh'[Len(lh) + 1] = holds[p] /\ Len(lh) \in Nat
        /\ \A i \in 1 .. Len(lh) : lh'[i] = lh[i]
    BY <1>1, <2>1, AppendProperties, SeqFacts
  <2>3. \A i \in 1 .. Len(lh) : lh[i] # holds[p]
    BY <1>1, <1>4, SeqFacts
  <2> QED BY <1>1, <1>2, <2>1, <2>2, <2>3
<1> QED BY <1>3, <1>4

(* Steps that change no data.                                              *)
LEMMA DataKept ==
  ASSUME Data, UNCHANGED <<home, hlog, cache, holds, lh, tail>>, LoopsKept
  PROVE  Data'
<1>1. \A b \in Block : (Pinned(b)' <=> Pinned(b)) /\ (Locked(b)' <=> Locked(b))
  BY PinnedKept DEF Locked
<1>2. \A b \in Block : cache'[b] \notin {None, home'[b]} => Pinned(b)' \/ Locked(b)'
  BY <1>1 DEF Data
<1>3. ASSUME NEW p \in Proc
      PROVE  /\ pc'[p] = "writeLog" => \A i \in 1 .. tail'[p] : hlog'[i] = Bread(lh[i])'
             /\ pc'[p] = "install" => \A i \in 1 .. Len(lh') : hlog'[i] = Bread(lh[i])'
             /\ pc'[p] \in {"install", "recover"} =>
                  \A i \in 1 .. tail'[p] : home'[lh'[i]] = hlog'[i]
  BY DEF Data, Bread, LoopsKept, LoopPc
<1> QED BY <1>2, <1>3 DEF Data

(* Every step keeps what is known of the header on disk.                   *)
LEMMA HeaderStep == Control /\ CountFacts /\ Pins /\ Header /\ [Next]_vars => Header'
<1> SUFFICES ASSUME Control, CountFacts, Pins, Header, [Next]_vars PROVE Header'
  OBVIOUS
<1> USE LogAssumption, NilFacts
    DEF Control, Types, Booting, Closing, Writing, InOperation, Committing, BootPc, LoopPc,
        Goto, Woken, NoneFor, disk, bufs, log, Header
<1>1. ASSUME NEW p \in Proc, Call(p) PROVE Header'
  BY <1>1 DEF Call
<1>2. ASSUME NEW p \in Proc, BeginSleep(p) PROVE Header'
  BY <1>2 DEF BeginSleep
<1>3. ASSUME NEW p \in Proc, BeginOp(p) PROVE Header'
  BY <1>3 DEF BeginOp
<1>4. ASSUME NEW p \in Proc, NEW b \in Block, NEW v \in Value, Modify(p, b, v) PROVE Header'
  BY <1>4 DEF Modify
<1>5. ASSUME NEW p \in Proc, LogWrite(p) PROVE Header'
  BY <1>5 DEF LogWrite
<1>6. ASSUME NEW p \in Proc, LogWritePanic(p) PROVE Header'
  BY <1>6 DEF LogWritePanic
<1>7. ASSUME NEW p \in Proc, LogAppend(p) PROVE Header'
  <2>1. \A q \in Proc : pc[q] \notin {"install", "recover"} /\ pc'[q] \notin {"install", "recover"}
    BY <1>7, OpenMeansUp DEF LogAppend
  <2> QED BY <1>7, <2>1 DEF LogAppend
<1>8. ASSUME NEW p \in Proc, EndOp(p) PROVE Header'
  <2>1. /\ UNCHANGED <<head, lh>>
        /\ \A q \in Proc : pc[q] \in LoopPc \/ pc'[q] \in LoopPc => pc'[q] = pc[q]
    BY <1>8, EndOpFacts DEF LoopsKept
  <2>2. \A q \in Proc : pc[q] \notin BootPc
    BY <1>8 DEF EndOp
  <2>3. head # <<>> => \E q \in Proc : pc[q] = "install" /\ pc'[q] = "install"
    BY <2>1, <2>2
  <2>4. \A q \in Proc : pc'[q] \in {"install", "recover"} => head = lh
    BY <2>1
  <2> QED BY <2>1, <2>3, <2>4
<1>9. ASSUME NEW p \in Proc, Commit(p) PROVE Header'
  BY <1>9 DEF Commit
<1>10. ASSUME NEW p \in Proc, WriteLog(p) PROVE Header'
  BY <1>10 DEF WriteLog
<1>11. ASSUME NEW p \in Proc, WriteHead(p) PROVE Header'
  <2>1. head' = lh /\ lh' = lh /\ pc' = [pc EXCEPT ![p] = "install"]
    BY <1>11 DEF WriteHead
  <2>2. Len(lh) <= LOGSIZE /\ \A i, j \in 1 .. Len(lh) : lh[i] = lh[j] => i = j
    BY DEF CountFacts, Pins
  <2> QED BY <2>1, <2>2
<1>12. ASSUME NEW p \in Proc, InstallTrans(p) PROVE Header'
  BY <1>12 DEF InstallTrans
<1>13. ASSUME NEW p \in Proc, ClearHead(p) PROVE Header'
  BY <1>13 DEF ClearHead
<1>14. ASSUME NEW p \in Proc, Finish(p) PROVE Header'
  BY <1>14 DEF Finish
<1>15. ASSUME NEW p \in Proc, ReadHead(p) PROVE Header'
  BY <1>15 DEF ReadHead
<1>16. ASSUME NEW p \in Proc, NEW b \in Block, Read(p, b) PROVE Header'
  BY <1>16 DEF Read
<1>17. ASSUME NEW b \in Block, Evict(b) PROVE Header'
  BY <1>17 DEF Evict
<1>18. ASSUME Crash PROVE Header'
  BY <1>18 DEF Crash
<1>19. ASSUME UNCHANGED vars PROVE Header'
  BY <1>19 DEF vars
<1> HIDE DEF Header
<1> QED
  BY <1>1, <1>2, <1>3, <1>4, <1>5, <1>6, <1>7, <1>8, <1>9, <1>10,
     <1>11, <1>12, <1>13, <1>14, <1>15, <1>16, <1>17, <1>18, <1>19
  DEF Next, Write, Committer

(* Every step keeps one pin per logged block that is not installed.        *)
LEMMA PinsStep == Control /\ Pins /\ Header /\ [Next]_vars => Pins'
<1> SUFFICES ASSUME Control, Pins, Header, [Next]_vars PROVE Pins'
  OBVIOUS
<1> USE LogAssumption, NilFacts
    DEF Control, Types, Booting, Closing, Writing, InOperation, Committing, BootPc, LoopPc,
        Goto, Woken, NoneFor, disk, bufs, log, Pins, Pinned
<1>1. ASSUME NEW p \in Proc, Call(p) PROVE Pins'
  BY <1>1 DEF Call
<1>2. ASSUME NEW p \in Proc, BeginSleep(p) PROVE Pins'
  BY <1>2 DEF BeginSleep
<1>3. ASSUME NEW p \in Proc, BeginOp(p) PROVE Pins'
  BY <1>3 DEF BeginOp
<1>4. ASSUME NEW p \in Proc, NEW b \in Block, NEW v \in Value, Modify(p, b, v) PROVE Pins'
  BY <1>4 DEF Modify
<1>5. ASSUME NEW p \in Proc, LogWrite(p) PROVE Pins'
  BY <1>5 DEF LogWrite
<1>6. ASSUME NEW p \in Proc, LogWritePanic(p) PROVE Pins'
  BY <1>6 DEF LogWritePanic
<1>7. ASSUME NEW p \in Proc, LogAppend(p) PROVE Pins'
  <2>1. \A q \in Proc : pc[q] \notin {"install", "recover"} /\ pc'[q] \notin {"install", "recover"}
    BY <1>7, OpenMeansUp DEF LogAppend
  <2>2. \A c \in Block : (Pinned(c) <=> \E i \in 1 .. Len(lh) : lh[i] = c)
                      /\ (Pinned(c)' <=> \E i \in 1 .. Len(lh') : lh'[i] = c)
    BY <2>1
  <2>3. \A c \in Block : (Pinned(c)' <=> Pinned(c) \/ c = holds[p])
    <3> HIDE DEF Pinned, Control
    <3> QED BY <1>7, <2>2, AppendFacts, SMTT(30)
  <2>4. \A i, j \in 1 .. Len(lh') : lh'[i] = lh'[j] => i = j
    <3> HIDE DEF Pinned, Control
    <3> QED BY <1>7, AppendFacts
  <2>5. \A c \in Block : pins'[c] = IF Pinned(c)' THEN 1 ELSE 0
    <3>1. pins \in [Block -> Int]
      OBVIOUS
    <3> HIDE DEF Pinned, Control
    <3> QED BY <1>7, <2>2, <2>3, <3>1, AppendFacts
  <2> HIDE DEF Pinned, Control
  <2> QED BY <2>4, <2>5
<1>8. ASSUME NEW p \in Proc, EndOp(p) PROVE Pins'
  <2>1. lh' = lh /\ pins' = pins /\ tail' = tail /\ LoopsKept
    BY <1>8, EndOpFacts
  <2> HIDE DEF Pinned, Control
  <2> QED BY <2>1, PinnedKept
<1>9. ASSUME NEW p \in Proc, Commit(p) PROVE Pins'
  BY <1>9 DEF Commit
<1>10. ASSUME NEW p \in Proc, WriteLog(p) PROVE Pins'
  BY <1>10 DEF WriteLog
<1>11. ASSUME NEW p \in Proc, WriteHead(p) PROVE Pins'
  <2>1. /\ lh' = lh /\ pins' = pins /\ pc[p] = "writeLog" /\ tail'[p] = 0
        /\ pc' = [pc EXCEPT ![p] = "install"] /\ \A q \in Proc \ {p} : tail'[q] = tail[q]
    BY <1>11 DEF WriteHead
  <2>2. \A q \in Proc \ {p} : pc[q] \notin LoopPc
    BY <2>1, OneLoop
  <2>3. \A c : Pinned(c) <=> \E i \in 1 .. Len(lh) : lh[i] = c
    BY <2>1, <2>2
  <2>4. \A q \in Proc : pc'[q] # "recover" /\ (pc'[q] = "install" => tail'[q] = 0)
    BY <2>1, <2>2
  <2>5. \A c : Pinned(c)' <=> \E i \in 1 .. Len(lh) : lh[i] = c
    <3> HIDE DEF Control
    <3> QED BY <2>1, <2>4
  <2> HIDE DEF Pinned, Control
  <2> QED BY <2>1, <2>3, <2>5
<1>12. ASSUME NEW p \in Proc, InstallTrans(p) PROVE Pins'
  <2>1. PICK k \in 1 .. Len(lh), d \in Block :
          /\ k = tail[p] + 1 /\ d = lh[k] /\ lh' = lh /\ pc' = pc /\ tail'[p] = k
          /\ \A q \in Proc \ {p} : tail'[q] = tail[q]
          /\ pc[p] \in {"install", "recover"}
          /\ pc[p] = "install" => pins' = [pins EXCEPT ![d] = pins[d] - 1]
          /\ pc[p] = "recover" => pins' = pins
    <3>1. tail[p] \in Nat /\ Len(lh) \in Nat /\ tail[p] < Len(lh)
      BY <1>12, SeqFacts DEF InstallTrans
    <3>2. tail[p] + 1 \in 1 .. Len(lh) /\ lh[tail[p] + 1] \in Block
      BY <3>1, SeqFacts
    <3>3. /\ lh' = lh /\ pc' = pc /\ tail' = [tail EXCEPT ![p] = tail[p] + 1]
          /\ pc[p] \in {"install", "recover"}
          /\ pc[p] = "install" => pins' = [pins EXCEPT ![lh[tail[p] + 1]] = pins[lh[tail[p] + 1]] - 1]
          /\ pc[p] = "recover" => pins' = pins
      <4> HIDE DEF Control, Pins, Header
      <4>1. lh' = lh /\ pc' = pc /\ pc[p] \in {"install", "recover"}
        BY <1>12 DEF InstallTrans
      <4>2. tail' = [tail EXCEPT ![p] = tail[p] + 1]
        BY <1>12 DEF InstallTrans
      <4>3. CASE pc[p] = "install"
        BY <1>12, <4>3 DEF InstallTrans
      <4>4. CASE pc[p] = "recover"
        BY <1>12, <4>4 DEF InstallTrans
      <4> QED BY <4>1, <4>2, <4>3, <4>4
    <3>4. tail'[p] = tail[p] + 1 /\ \A q \in Proc \ {p} : tail'[q] = tail[q]
      BY <3>3
    <3> HIDE DEF Control, Pins, Header
    <3> QED BY <3>2, <3>3, <3>4
  <2>2. \A q \in Proc \ {p} : pc[q] \notin LoopPc
    BY <2>1, OneLoop
  <2>3. CASE pc[p] = "recover"
    <3>1. \A c \in Block : ~Pinned(c) /\ ~Pinned(c)'
      BY <2>1, <2>3
    <3> HIDE DEF Pinned, Control
    <3> QED BY <2>1, <2>3, <3>1
  <2>4. CASE pc[p] = "install"
    <3>0. tail[p] \in Nat /\ k \in Nat /\ pins \in [Block -> Int]
      BY <2>1
    <3>1. \A c : Pinned(c) <=> \E i \in 1 .. Len(lh) : lh[i] = c /\ i > tail[p]
      BY <2>2, <2>4
    <3>a. \A q \in Proc : pc'[q] # "recover" /\ (pc'[q] = "install" => q = p)
      BY <2>1, <2>2, <2>4
    <3>b. lh' = lh /\ tail'[p] = k /\ pc'[p] = "install"
      BY <2>1, <2>4
    <3>2. \A c : Pinned(c)' <=> \E i \in 1 .. Len(lh) : lh[i] = c /\ i > k
      <4> HIDE DEF Control, Pins
      <4> QED BY <3>a, <3>b
    <3>3. Pinned(d)
      <4> HIDE DEF Pinned, Control, Pins
      <4> QED BY <2>1, <3>0, <3>1
    <3>4. ~Pinned(d)'
      <4>1. ASSUME NEW i \in 1 .. Len(lh), lh[i] = d, i > k PROVE FALSE
        BY <2>1, <4>1
      <4> HIDE DEF Pinned, Control
      <4> QED BY <3>2, <4>1
    <3>5. ASSUME NEW c \in Block \ {d} PROVE Pinned(c)' <=> Pinned(c)
      <4> HIDE DEF Pinned, Control
      <4> QED BY <2>1, <3>0, <3>1, <3>2
    <3>6. \A c \in Block : pins'[c] = IF c = d THEN pins[c] - 1 ELSE pins[c]
      <4>1. pins' = [pins EXCEPT ![d] = pins[d] - 1]
        BY <2>1, <2>4
      <4>2. pins'[d] = pins[d] - 1
        <5> HIDE DEF Pinned, Control, Pins, Header
        <5> QED BY <2>1, <4>1, <3>0
      <4>3. \A c \in Block \ {d} : pins'[c] = pins[c]
        BY <2>1, <4>1, <3>0
      <4> HIDE DEF Pinned, Control, Pins, Header
      <4> QED BY <4>2, <4>3
    <3>7. \A c \in Block : pins'[c] = IF Pinned(c)' THEN 1 ELSE 0
      <4>1. \A c \in Block : pins[c] = IF Pinned(c) THEN 1 ELSE 0
        OBVIOUS
      <4> HIDE DEF Pinned, Control, Pins, Header
      <4> QED BY <3>3, <3>4, <3>5, <3>6, <4>1
    <3> HIDE DEF Pinned, Control
    <3> QED BY <2>1, <3>7
  <2> QED BY <2>1, <2>3, <2>4
<1>13. ASSUME NEW p \in Proc, ClearHead(p) PROVE Pins'
  BY <1>13 DEF ClearHead
<1>14. ASSUME NEW p \in Proc, Finish(p) PROVE Pins'
  BY <1>14 DEF Finish
<1>15. ASSUME NEW p \in Proc, ReadHead(p) PROVE Pins'
  <2>1. lh' = head /\ lh = <<>> /\ pc' = [pc EXCEPT ![p] = "recover"] /\ pins' = pins
    BY <1>15 DEF ReadHead
  <2>2. \A c \in Block : ~Pinned(c) /\ ~Pinned(c)'
    BY <2>1
  <2>3. \A i, j \in 1 .. Len(head) : head[i] = head[j] => i = j
    BY DEF Header
  <2> HIDE DEF Pinned, Control
  <2> QED BY <2>1, <2>2, <2>3
<1>16. ASSUME NEW p \in Proc, NEW b \in Block, Read(p, b) PROVE Pins'
  BY <1>16 DEF Read
<1>17. ASSUME NEW b \in Block, Evict(b) PROVE Pins'
  BY <1>17 DEF Evict
<1>18. ASSUME Crash PROVE Pins'
  BY <1>18 DEF Crash
<1>19. ASSUME UNCHANGED vars PROVE Pins'
  BY <1>19 DEF vars
<1> HIDE DEF Pins
<1> QED
  BY <1>1, <1>2, <1>3, <1>4, <1>5, <1>6, <1>7, <1>8, <1>9, <1>10,
     <1>11, <1>12, <1>13, <1>14, <1>15, <1>16, <1>17, <1>18, <1>19
  DEF Next, Write, Committer

(* Every step that makes room in the log wakes the sleepers.               *)
LEMMA SleepersStep == Control /\ CountFacts /\ SleepersMustWait /\ [Next]_vars => SleepersMustWait'
<1> SUFFICES ASSUME Control, CountFacts, SleepersMustWait, [Next]_vars PROVE SleepersMustWait'
  OBVIOUS
<1> USE LogAssumption, NilFacts
    DEF Control, Types, Booting, Closing, Writing, InOperation, Committing, BootPc, LoopPc,
        Goto, Woken, NoneFor, disk, bufs, log, SleepersMustWait, MustWait
<1>1. ASSUME NEW p \in Proc, Call(p) PROVE SleepersMustWait'
  BY <1>1 DEF Call
<1>2. ASSUME NEW p \in Proc, BeginSleep(p) PROVE SleepersMustWait'
  BY <1>2 DEF BeginSleep
<1>3. ASSUME NEW p \in Proc, BeginOp(p) PROVE SleepersMustWait'
  BY <1>3 DEF BeginOp
<1>4. ASSUME NEW p \in Proc, NEW b \in Block, NEW v \in Value, Modify(p, b, v) PROVE SleepersMustWait'
  BY <1>4 DEF Modify
<1>5. ASSUME NEW p \in Proc, LogWrite(p) PROVE SleepersMustWait'
  BY <1>5 DEF LogWrite
<1>6. ASSUME NEW p \in Proc, LogWritePanic(p) PROVE SleepersMustWait'
  BY <1>6 DEF LogWritePanic
<1>7. ASSUME NEW p \in Proc, LogAppend(p) PROVE SleepersMustWait'
  <2>1. /\ committing' = committing /\ outstanding' = outstanding
        /\ \A q \in Proc : pc'[q] = "asleep" => pc[q] = "asleep"
    BY <1>7 DEF LogAppend
  <2>2. Len(lh) \in Nat /\ Len(lh') \in Nat /\ Len(lh') >= Len(lh)
    <3> HIDE DEF Control
    <3> QED BY <1>7, AppendFacts
  <2>3. (outstanding + 1) * MAXOPBLOCKS \in Nat
    BY DEF CountFacts
  <2> DEFINE need == (outstanding + 1) * MAXOPBLOCKS
  <2> HIDE DEF need, Control
  <2>4. Len(lh) + need > LOGSIZE => Len(lh') + need > LOGSIZE
    BY <2>2, <2>3 DEF need
  <2> QED BY <2>1, <2>4 DEF need
<1>8. ASSUME NEW p \in Proc, EndOp(p) PROVE SleepersMustWait'
  <2>1. CASE outstanding = 1
    BY <1>8, <2>1, EndOpFacts
  <2>2. CASE outstanding # 1
    BY <1>8, <2>2, EndOpFacts
  <2> QED BY <2>1, <2>2
<1>9. ASSUME NEW p \in Proc, Commit(p) PROVE SleepersMustWait'
  BY <1>9 DEF Commit
<1>10. ASSUME NEW p \in Proc, WriteLog(p) PROVE SleepersMustWait'
  BY <1>10 DEF WriteLog
<1>11. ASSUME NEW p \in Proc, WriteHead(p) PROVE SleepersMustWait'
  BY <1>11 DEF WriteHead
<1>12. ASSUME NEW p \in Proc, InstallTrans(p) PROVE SleepersMustWait'
  BY <1>12 DEF InstallTrans
<1>13. ASSUME NEW p \in Proc, ClearHead(p) PROVE SleepersMustWait'
  BY <1>13 DEF ClearHead
<1>14. ASSUME NEW p \in Proc, Finish(p) PROVE SleepersMustWait'
  BY <1>14 DEF Finish
<1>15. ASSUME NEW p \in Proc, ReadHead(p) PROVE SleepersMustWait'
  BY <1>15 DEF ReadHead
<1>16. ASSUME NEW p \in Proc, NEW b \in Block, Read(p, b) PROVE SleepersMustWait'
  BY <1>16 DEF Read
<1>17. ASSUME NEW b \in Block, Evict(b) PROVE SleepersMustWait'
  BY <1>17 DEF Evict
<1>18. ASSUME Crash PROVE SleepersMustWait'
  BY <1>18 DEF Crash
<1>19. ASSUME UNCHANGED vars PROVE SleepersMustWait'
  BY <1>19 DEF vars
<1> HIDE DEF SleepersMustWait
<1> QED
  BY <1>1, <1>2, <1>3, <1>4, <1>5, <1>6, <1>7, <1>8, <1>9, <1>10,
     <1>11, <1>12, <1>13, <1>14, <1>15, <1>16, <1>17, <1>18, <1>19
  DEF Next, Write, Committer

(* Every step keeps what is known of the contents of blocks.               *)
LEMMA DataStep == Control /\ Pins /\ Header /\ CountFacts /\ Data /\ [Next]_vars => Data'
<1> SUFFICES ASSUME Control, Pins, Header, CountFacts, Data, [Next]_vars PROVE Data'
  OBVIOUS
<1> USE LogAssumption, NilFacts
    DEF Control, Types, Booting, Closing, Writing, InOperation, Committing, BootPc, LoopPc,
        Goto, Woken, NoneFor, disk, bufs, log
<1>1. ASSUME NEW p \in Proc, Call(p) PROVE Data'
  <2>1. UNCHANGED <<home, hlog, cache, holds, lh, tail>> /\ LoopsKept
    BY <1>1 DEF Call, LoopsKept
  <2> QED BY <2>1, DataKept
<1>2. ASSUME NEW p \in Proc, BeginSleep(p) PROVE Data'
  <2>1. UNCHANGED <<home, hlog, cache, holds, lh, tail>> /\ LoopsKept
    BY <1>2 DEF BeginSleep, LoopsKept
  <2> QED BY <2>1, DataKept
<1>3. ASSUME NEW p \in Proc, BeginOp(p) PROVE Data'
  <2>1. UNCHANGED <<home, hlog, cache, holds, lh, tail>> /\ LoopsKept
    BY <1>3 DEF BeginOp, LoopsKept
  <2> QED BY <2>1, DataKept
<1>4. ASSUME NEW p \in Proc, NEW b \in Block, NEW v \in Value, Modify(p, b, v) PROVE Data'
  <2>1. \A q \in Proc : pc[q] \notin LoopPc /\ pc'[q] \notin LoopPc
    BY <1>4, OpenMeansUp DEF Modify
  <2>2. /\ UNCHANGED <<home, hlog, lh, tail>> /\ cache' = [cache EXCEPT ![b] = v]
        /\ holds' = [holds EXCEPT ![p] = b] /\ holds[p] = None
    BY <1>4 DEF Modify
  <2>3. \A c \in Block : (Pinned(c) => Pinned(c)') /\ (Locked(c) => Locked(c)') /\ Locked(b)'
    BY <2>1, <2>2, SMTT(30) DEF Pinned, Locked
  <2>4. \A c \in Block \ {b} : cache'[c] = cache[c]
    BY <2>2
  <2> HIDE DEF Control
  <2> QED BY <2>1, <2>2, <2>3, <2>4 DEF Data
<1>5. ASSUME NEW p \in Proc, LogWrite(p) PROVE Data'
  <2>1. UNCHANGED <<home, hlog, cache, holds, lh, tail>> /\ LoopsKept
    BY <1>5 DEF LogWrite, LoopsKept
  <2> QED BY <2>1, DataKept
<1>6. ASSUME NEW p \in Proc, LogWritePanic(p) PROVE Data'
  <2>1. UNCHANGED <<home, hlog, cache, holds, lh, tail>> /\ LoopsKept
    BY <1>6 DEF LogWritePanic, LoopsKept
  <2> QED BY <2>1, DataKept
<1>7. ASSUME NEW p \in Proc, LogAppend(p) PROVE Data'
  <2>1. \A q \in Proc : pc[q] \notin LoopPc /\ pc'[q] \notin LoopPc
    BY <1>7, OpenMeansUp DEF LogAppend
  <2>2. UNCHANGED <<home, hlog, cache>> /\ holds' = [holds EXCEPT ![p] = None]
    BY <1>7 DEF LogAppend
  <2>3. PICK b \in Block : b = holds[p]
    BY <1>7, AppendFacts
  <2>4. \A c : /\ Pinned(c) <=> \E i \in 1 .. Len(lh) : lh[i] = c
               /\ Pinned(c)' <=> \E i \in 1 .. Len(lh') : lh'[i] = c
    BY <2>1 DEF Pinned
  <2>5. Pinned(b)' /\ \A c : Pinned(c) => Pinned(c)'
    <3>1. /\ \A i \in 1 .. Len(lh) : lh'[i] = lh[i] /\ i \in 1 .. Len(lh')
          /\ \/ lh' = lh /\ \E i \in 1 .. Len(lh) : lh[i] = b
             \/ Len(lh') = Len(lh) + 1 /\ lh'[Len(lh) + 1] = b
          /\ Len(lh) \in Nat
      BY <1>7, <2>3, AppendFacts
    <3> HIDE DEF Control
    <3>2. \E i \in 1 .. Len(lh') : lh'[i] = b
      <4>1. CASE lh' = lh /\ \E i \in 1 .. Len(lh) : lh[i] = b
        BY <4>1
      <4>2. CASE Len(lh') = Len(lh) + 1 /\ lh'[Len(lh) + 1] = b
        BY <3>1, <4>2
      <4> QED BY <3>1, <4>1, <4>2
    <3>3. ASSUME NEW c, Pinned(c) PROVE Pinned(c)'
      <4>1. PICK i \in 1 .. Len(lh) : lh[i] = c
        BY <3>3 DEF Pinned
      <4> QED BY <2>4, <3>1, <4>1
    <3> QED BY <2>4, <3>2, <3>3
  <2>6. \A c \in Block : Locked(c) => Locked(c)' \/ c = b
    BY <2>2, <2>3 DEF Locked
  <2> HIDE DEF Control
  <2> QED BY <2>1, <2>2, <2>5, <2>6 DEF Data
<1>8. ASSUME NEW p \in Proc, EndOp(p) PROVE Data'
  <2>1. UNCHANGED <<home, hlog, cache, holds, lh, tail>> /\ LoopsKept
    BY <1>8, EndOpFacts DEF EndOp, LoopsKept
  <2> QED BY <2>1, DataKept
<1>9. ASSUME NEW p \in Proc, Commit(p) PROVE Data'
  <2>1. /\ UNCHANGED <<home, hlog, cache, holds, lh>>
        /\ tail' = [tail EXCEPT ![p] = 0] /\ pc[p] = "commit"
        /\ pc' = [pc EXCEPT ![p] = IF lh = <<>> THEN "finish" ELSE "writeLog"]
    BY <1>9 DEF Commit
  <2>2. \A q \in Proc : pc[q] \notin LoopPc /\ pc'[q] \notin {"install", "recover"}
                     /\ (pc'[q] = "writeLog" => tail'[q] = 0)
    <3>1. \A q \in Proc : pc[q] \notin LoopPc
      BY <2>1
    <3>2. \A q \in Proc \ {p} : pc'[q] = pc[q]
      BY <2>1
    <3>3. pc'[p] \in {"finish", "writeLog"} /\ tail'[p] = 0
      BY <2>1
    <3> QED BY <3>1, <3>2, <3>3
  <2>3. \A c : /\ Pinned(c) <=> \E i \in 1 .. Len(lh) : lh[i] = c
               /\ Pinned(c)' <=> \E i \in 1 .. Len(lh) : lh[i] = c
    BY <2>1, <2>2 DEF Pinned
  <2>4. \A c : Locked(c)' <=> Locked(c)
    BY <2>1 DEF Locked
  <2> HIDE DEF Control
  <2>5. \A c : (Pinned(c) => Pinned(c)') /\ (Locked(c) => Locked(c)')
    BY <2>3, <2>4
  <2>6. \A c \in Block : cache'[c] \notin {None, home'[c]} => Pinned(c)' \/ Locked(c)'
    BY <2>1, <2>5 DEF Data
  <2>7. \A i \in 1 .. 0 : FALSE
    OBVIOUS
  <2>8. ASSUME NEW q \in Proc
        PROVE  /\ pc'[q] = "writeLog" => \A i \in 1 .. tail'[q] : hlog'[i] = Bread(lh[i])'
               /\ pc'[q] = "install" => \A i \in 1 .. Len(lh') : hlog'[i] = Bread(lh[i])'
               /\ pc'[q] \in {"install", "recover"} =>
                    \A i \in 1 .. tail'[q] : home'[lh'[i]] = hlog'[i]
    BY <2>2, <2>7
  <2> QED BY <2>6, <2>8 DEF Data
<1>10. ASSUME NEW p \in Proc, WriteLog(p) PROVE Data'
  <2>1. PICK k \in 1 .. Len(lh), b \in Block :
          /\ k = tail[p] + 1 /\ b = lh[k] /\ pc[p] = "writeLog"
          /\ UNCHANGED <<home, holds, lh, pc>>
          /\ cache' = [cache EXCEPT ![b] = Bread(b)] /\ hlog' = [hlog EXCEPT ![k] = Bread(b)]
          /\ tail'[p] = k
    <3>1. tail[p] \in Nat /\ Len(lh) \in Nat /\ tail[p] < Len(lh)
      BY <1>10, SeqFacts DEF WriteLog
    <3>2. tail[p] + 1 \in 1 .. Len(lh) /\ lh[tail[p] + 1] \in Block
      BY <3>1, SeqFacts
    <3>3. /\ UNCHANGED <<home, holds, lh, pc>> /\ tail' = [tail EXCEPT ![p] = tail[p] + 1]
          /\ cache' = [cache EXCEPT ![lh[tail[p] + 1]] = Bread(lh[tail[p] + 1])]
          /\ hlog' = [hlog EXCEPT ![tail[p] + 1] = Bread(lh[tail[p] + 1])]
          /\ pc[p] = "writeLog"
      <4> HIDE DEF Control
      <4> QED BY <1>10 DEF WriteLog
    <3>4. tail'[p] = tail[p] + 1
      BY <3>3
    <3> HIDE DEF Control
    <3> QED BY <3>2, <3>3, <3>4
  <2>2. \A q \in Proc \ {p} : pc[q] \notin LoopPc
    BY <2>1, OneLoop
  <2>3. \A c : /\ Pinned(c) <=> \E i \in 1 .. Len(lh) : lh[i] = c
               /\ Pinned(c)' <=> \E i \in 1 .. Len(lh) : lh[i] = c
    BY <2>1, <2>2 DEF Pinned
  <2>4. /\ \A c \in Block : Locked(c)' <=> Locked(c)
        /\ cache \in [Block -> Value \cup {None}] /\ home \in [Block -> Value]
        /\ hlog \in [1 .. LOGSIZE -> Value] /\ Len(lh) <= LOGSIZE /\ LOGSIZE \in Nat
        /\ Len(lh) \in Nat /\ \A i \in 1 .. Len(lh) : lh[i] \in Block
    BY <2>1, SeqFacts DEF Locked, CountFacts
  <2> HIDE DEF Control
  <2>5. \A c \in Block : Bread(c)' = Bread(c)
    BY <2>1, <2>4 DEF Bread
  <2>6. \A c \in Block : cache'[c] \notin {None, home'[c]} => cache[c] \notin {None, home[c]}
    BY <2>1, <2>4 DEF Bread
  <2>7. ASSUME NEW i \in 1 .. tail'[p] PROVE hlog'[i] = Bread(lh[i])'
    <3>1. i \in 1 .. Len(lh) /\ lh[i] \in Block /\ lh'[i] = lh[i]
      BY <2>1, <2>4, <2>7
    <3>2. CASE i = k
      BY <2>1, <2>4, <2>5, <3>1, <3>2
    <3>3. CASE i # k
      <4>1. hlog'[i] = hlog[i] /\ i \in 1 .. tail[p]
        <5>1. tail[p] \in Nat
          BY DEF Control
        <5>2. i \in 1 .. LOGSIZE
          BY <2>4, <3>1
        <5> QED BY <2>1, <2>4, <2>7, <3>1, <3>3, <5>1, <5>2
      <4>2. hlog[i] = Bread(lh[i])
        BY <2>1, <4>1 DEF Data
      <4>3. Bread(lh[i])' = Bread(lh[i])
        BY <2>5, <3>1 DEF Bread
      <4> QED BY <4>1, <4>2, <4>3
    <3> QED BY <3>2, <3>3
  <2>8. \A q \in Proc : pc'[q] \notin {"install", "recover"} /\ (pc'[q] = "writeLog" => q = p)
    BY <2>1, <2>2
  <2>9. \A c \in Block : cache'[c] \notin {None, home'[c]} => Pinned(c)' \/ Locked(c)'
    <3> SUFFICES ASSUME NEW c \in Block, cache'[c] \notin {None, home'[c]}
                 PROVE  Pinned(c)' \/ Locked(c)'
      OBVIOUS
    <3>1. Pinned(c) \/ Locked(c)
      BY <2>6 DEF Data
    <3>2. (Pinned(c) => Pinned(c)') /\ (Locked(c) => Locked(c)')
      BY <2>3, <2>4
    <3> QED BY <3>1, <3>2
  <2> QED BY <2>7, <2>8, <2>9 DEF Data
<1>11. ASSUME NEW p \in Proc, WriteHead(p) PROVE Data'
  <2>1. /\ UNCHANGED <<home, hlog, cache, holds, lh>> /\ pc[p] = "writeLog"
        /\ tail'[p] = 0 /\ tail[p] = Len(lh) /\ pc' = [pc EXCEPT ![p] = "install"]
    BY <1>11 DEF WriteHead
  <2>2. \A q \in Proc \ {p} : pc[q] \notin LoopPc
    BY <2>1, OneLoop
  <2>3. \A q \in Proc : /\ pc'[q] \notin {"recover", "writeLog"}
                        /\ pc'[q] = "install" => q = p /\ tail'[q] = 0
    BY <2>1, <2>2
  <2>4. \A c : Pinned(c) <=> \E i \in 1 .. Len(lh) : lh[i] = c
    BY <2>1, <2>2 DEF Pinned
  <2>5. \A c : Pinned(c)' <=> \E i \in 1 .. Len(lh) : lh[i] = c
    <3>1. \A i \in 1 .. Len(lh) : i > 0
      OBVIOUS
    <3> HIDE DEF Control
    <3>2. ASSUME NEW i \in 1 .. Len(lh), NEW q \in Proc
          PROVE  pc'[q] # "recover" /\ (pc'[q] = "install" => i > tail'[q])
      <4>1. pc'[q] # "recover" /\ (pc'[q] = "install" => tail'[q] = 0)
        BY <2>3
      <4> QED BY <3>1, <4>1
    <3> QED BY <2>1, <3>2 DEF Pinned
  <2>6. \A c : Locked(c)' <=> Locked(c)
    BY <2>1 DEF Locked
  <2> HIDE DEF Control
  <2>7. \A i \in 1 .. Len(lh') : hlog'[i] = Bread(lh[i])'
    BY <2>1 DEF Data, Bread
  <2>8. \A c \in Block : cache'[c] \notin {None, home'[c]} => Pinned(c)' \/ Locked(c)'
    BY <2>1, <2>4, <2>5, <2>6 DEF Data
  <2>9. \A i \in 1 .. 0 : FALSE
    OBVIOUS
  <2>a. ASSUME NEW q \in Proc
        PROVE  /\ pc'[q] = "writeLog" => \A i \in 1 .. tail'[q] : hlog'[i] = Bread(lh[i])'
               /\ pc'[q] = "install" => \A i \in 1 .. Len(lh') : hlog'[i] = Bread(lh[i])'
               /\ pc'[q] \in {"install", "recover"} =>
                    \A i \in 1 .. tail'[q] : home'[lh'[i]] = hlog'[i]
    BY <2>3, <2>7, <2>9
  <2> QED BY <2>8, <2>a DEF Data
<1>12. ASSUME NEW p \in Proc, InstallTrans(p) PROVE Data'
  <2>1. PICK k \in 1 .. Len(lh), b \in Block :
          /\ k = tail[p] + 1 /\ b = lh[k] /\ pc[p] \in {"install", "recover"}
          /\ UNCHANGED <<hlog, holds, lh, pc>>
          /\ cache' = [cache EXCEPT ![b] = hlog[k]] /\ home' = [home EXCEPT ![b] = hlog[k]]
          /\ tail'[p] = k /\ \A q \in Proc \ {p} : tail'[q] = tail[q]
    <3>1. tail[p] \in Nat /\ Len(lh) \in Nat /\ tail[p] < Len(lh)
      BY <1>12, SeqFacts DEF InstallTrans
    <3>2. tail[p] + 1 \in 1 .. Len(lh) /\ lh[tail[p] + 1] \in Block
      BY <3>1, SeqFacts
    <3>3. /\ UNCHANGED <<hlog, holds, lh, pc>> /\ tail' = [tail EXCEPT ![p] = tail[p] + 1]
          /\ cache' = [cache EXCEPT ![lh[tail[p] + 1]] = hlog[tail[p] + 1]]
          /\ home' = [home EXCEPT ![lh[tail[p] + 1]] = hlog[tail[p] + 1]]
          /\ pc[p] \in {"install", "recover"}
      <4> HIDE DEF Control
      <4> QED BY <1>12 DEF InstallTrans
    <3>4. tail'[p] = tail[p] + 1 /\ \A q \in Proc \ {p} : tail'[q] = tail[q]
      BY <3>3
    <3> HIDE DEF Control
    <3> QED BY <3>2, <3>3, <3>4
  <2>2. \A q \in Proc \ {p} : pc[q] \notin LoopPc
    BY <2>1, OneLoop
  <2>3. /\ \A c : Locked(c)' <=> Locked(c)
        /\ cache \in [Block -> Value \cup {None}] /\ home \in [Block -> Value]
        /\ hlog \in [1 .. LOGSIZE -> Value] /\ Len(lh) <= LOGSIZE /\ LOGSIZE \in Nat
        /\ Len(lh) \in Nat /\ (\A i \in 1 .. Len(lh) : lh[i] \in Block)
        /\ tail[p] \in Nat /\ None \notin Value
    BY <2>1, SeqFacts DEF Locked, CountFacts
  <2>4. \A i, j \in 1 .. Len(lh) : lh[i] = lh[j] => i = j
    BY DEF Pins
  <2> HIDE DEF Control
  <2>5. \A c \in Block \ {b} : Pinned(c) => Pinned(c)'
    <3> SUFFICES ASSUME NEW c \in Block \ {b}, Pinned(c) PROVE Pinned(c)'
      OBVIOUS
    <3>1. PICK i \in 1 .. Len(lh) :
            /\ lh[i] = c
            /\ \A q \in Proc : pc[q] # "recover" /\ (pc[q] = "install" => i > tail[q])
      BY DEF Pinned
    <3>2. i # k
      BY <2>1, <3>1
    <3>3. \A q \in Proc : pc'[q] = "install" => i > tail'[q]
      <4>1. i > tail[p]
        BY <2>1, <3>1
      <4>2. i > k
        BY <2>1, <2>3, <3>2, <4>1
      <4> QED BY <2>1, <2>2, <4>2
    <3> QED BY <2>1, <3>1, <3>3 DEF Pinned
  <2>6. cache'[b] = home'[b] /\ \A c \in Block \ {b} : cache'[c] = cache[c] /\ home'[c] = home[c]
    BY <2>1, <2>3
  <2>7. \A c \in Block : cache'[c] \notin {None, home'[c]} => Pinned(c)' \/ Locked(c)'
    BY <2>3, <2>5, <2>6 DEF Data
  <2>8. ASSUME NEW i \in 1 .. tail'[p] PROVE home'[lh'[i]] = hlog'[i]
    <3>1. i \in 1 .. Len(lh) /\ lh[i] \in Block
      BY <2>1, <2>3, <2>8
    <3>2. CASE i = k
      BY <2>1, <2>3, <3>2
    <3>3. CASE i # k
      <4>1. i \in 1 .. tail[p] /\ lh[i] # b
        BY <2>1, <2>3, <2>4, <2>8, <3>1, <3>3
      <4>2. home[lh[i]] = hlog[i]
        BY <2>1, <4>1 DEF Data
      <4> QED BY <2>1, <2>6, <3>1, <4>1, <4>2
    <3> QED BY <3>2, <3>3
  <2>9. ASSUME pc[p] = "install", NEW i \in 1 .. Len(lh') PROVE hlog'[i] = Bread(lh[i])'
    <3>1. i \in 1 .. Len(lh) /\ lh[i] \in Block /\ lh'[i] = lh[i] /\ hlog'[i] = hlog[i]
      BY <2>1, <2>3, <2>9
    <3>2. CASE i = k
      <4>1. hlog[i] \in Value
        BY <2>3, <3>1
      <4>2. cache'[lh'[i]] = hlog[i]
        BY <2>1, <2>3, <3>1, <3>2
      <4> QED BY <2>3, <3>1, <4>1, <4>2 DEF Bread
    <3>3. CASE i # k
      <4>1. lh[i] # b
        BY <2>1, <2>4, <3>1, <3>3
      <4>2. hlog[i] = Bread(lh[i])
        BY <2>9, <3>1 DEF Data
      <4> QED BY <2>6, <3>1, <4>1, <4>2 DEF Bread
    <3> QED BY <3>2, <3>3
  <2>a. \A q \in Proc : pc'[q] \in LoopPc => q = p /\ pc[p] = pc'[q]
    BY <2>1, <2>2
  <2> QED BY <2>1, <2>7, <2>8, <2>9, <2>a DEF Data, LoopPc
<1>13. ASSUME NEW p \in Proc, ClearHead(p) PROVE Data'
  <2>1. /\ UNCHANGED <<home, hlog, cache, holds>> /\ lh' = <<>>
        /\ pc[p] \in {"install", "recover"} /\ tail[p] = Len(lh)
        /\ \A q \in Proc \ {p} : pc'[q] \in {pc[q], "idle"}
        /\ pc'[p] \in {"finish", "idle"}
    BY <1>13 DEF ClearHead
  <2>2. \A q \in Proc \ {p} : pc[q] \notin LoopPc
    BY <2>1, OneLoop
  <2>3. \A q \in Proc : pc'[q] \notin LoopPc
    <3>1. CASE pc[p] = "install"
      <4>1. pc' = [pc EXCEPT ![p] = "finish"]
        BY <1>13, <3>1 DEF ClearHead
      <4> QED BY <2>2, <4>1
    <3>2. CASE pc[p] = "recover"
      <4>1. pc' = [q \in Proc |-> "idle"]
        BY <1>13, <3>2 DEF ClearHead
      <4> QED BY <4>1
    <3> QED BY <2>1, <3>1, <3>2
  <2>4. \A c : ~Pinned(c) /\ (Locked(c)' <=> Locked(c))
    <3>1. Len(lh) \in Nat
      BY SeqFacts
    <3>2. ~ \E i \in 1 .. Len(lh) : i > Len(lh)
      BY <3>1
    <3> QED BY <2>1, <3>2 DEF Pinned, Locked
  <2> HIDE DEF Control
  <2> QED BY <2>1, <2>3, <2>4 DEF Data
<1>14. ASSUME NEW p \in Proc, Finish(p) PROVE Data'
  <2>1. pc' = [q \in Proc |-> IF q = p THEN "idle"
                              ELSE IF pc[q] = "asleep" THEN "begin" ELSE pc[q]]
    BY <1>14, WokenFacts DEF Finish
  <2>2. UNCHANGED <<home, hlog, cache, holds, lh, tail>> /\ LoopsKept
    BY <1>14, <2>1 DEF Finish, LoopsKept
  <2> QED BY <2>2, DataKept
<1>15. ASSUME NEW p \in Proc, ReadHead(p) PROVE Data'
  <2>1. /\ UNCHANGED <<home, hlog, cache, holds, tail>> /\ lh = <<>> /\ pc[p] = "readHead"
        /\ pc' = [pc EXCEPT ![p] = "recover"] /\ tail[p] = 0
    BY <1>15 DEF ReadHead
  <2>2. \A q \in Proc : /\ pc'[q] \notin {"install", "writeLog"}
                        /\ pc'[q] = "recover" => tail'[q] = 0
    BY <2>1
  <2>3. \A c : ~Pinned(c) /\ (Locked(c)' <=> Locked(c))
    BY <2>1 DEF Pinned, Locked
  <2> HIDE DEF Control
  <2>4. \A c \in Block : cache'[c] \notin {None, home'[c]} => Pinned(c)' \/ Locked(c)'
    BY <2>1, <2>3 DEF Data
  <2>5. \A i \in 1 .. 0 : FALSE
    OBVIOUS
  <2>6. ASSUME NEW q \in Proc
        PROVE  /\ pc'[q] = "writeLog" => \A i \in 1 .. tail'[q] : hlog'[i] = Bread(lh[i])'
               /\ pc'[q] = "install" => \A i \in 1 .. Len(lh') : hlog'[i] = Bread(lh[i])'
               /\ pc'[q] \in {"install", "recover"} =>
                    \A i \in 1 .. tail'[q] : home'[lh'[i]] = hlog'[i]
    BY <2>2, <2>5
  <2> QED BY <2>4, <2>6 DEF Data
<1>16. ASSUME NEW p \in Proc, NEW b \in Block, Read(p, b) PROVE Data'
  <2>1. UNCHANGED <<home, hlog, holds, lh, pc, tail>> /\ LoopsKept
    BY <1>16 DEF Read, LoopsKept
  <2>2. \A c \in Block : (Pinned(c)' <=> Pinned(c)) /\ (Locked(c)' <=> Locked(c))
    <3> HIDE DEF Control
    <3> QED BY <2>1, PinnedKept DEF Locked
  <2>3. \A c \in Block : Bread(c)' = Bread(c) /\ cache'[c] \in {cache[c], None, home[c]}
    <3>1. cache' = [cache EXCEPT ![b] = home[b]] /\ cache[b] = None /\ home' = home
      BY <1>16 DEF Read
    <3>2. cache \in [Block -> Value \cup {None}] /\ home \in [Block -> Value] /\ None \notin Value
      OBVIOUS
    <3> HIDE DEF Control
    <3> QED BY <3>1, <3>2 DEF Bread
  <2>4. Len(lh) \in Nat /\ \A i \in 1 .. Len(lh) : lh[i] \in Block
    BY SeqFacts
  <2>5. \A q \in Proc : tail[q] \in Nat /\ (pc[q] = "writeLog" => tail[q] <= Len(lh))
    BY <2>4
  <2> HIDE DEF Control
  <2>6. ASSUME NEW q \in Proc, pc[q] = "writeLog", NEW i \in 1 .. tail[q]
        PROVE  hlog[i] = Bread(lh[i])'
    <3>1. i \in 1 .. Len(lh)
      BY <2>4, <2>5, <2>6
    <3>2. Bread(lh[i])' = Bread(lh[i])
      BY <2>1, <2>3, <2>4, <3>1 DEF Bread
    <3> QED BY <2>6, <3>2 DEF Data
  <2>7. ASSUME NEW q \in Proc, pc[q] = "install", NEW i \in 1 .. Len(lh)
        PROVE  hlog[i] = Bread(lh[i])'
    <3>2. Bread(lh[i])' = Bread(lh[i])
      BY <2>1, <2>3, <2>4 DEF Bread
    <3> QED BY <2>7, <3>2 DEF Data
  <2>8. \A c \in Block : cache'[c] \notin {None, home'[c]} => Pinned(c)' \/ Locked(c)'
    BY <2>1, <2>2, <2>3 DEF Data
  <2>9. \A q \in Proc : pc[q] \in {"install", "recover"} =>
          \A i \in 1 .. tail'[q] : home'[lh'[i]] = hlog'[i]
    BY <2>1 DEF Data
  <2> QED BY <2>1, <2>6, <2>7, <2>8, <2>9 DEF Data
<1>17. ASSUME NEW b \in Block, Evict(b) PROVE Data'
  <2>1. UNCHANGED <<home, hlog, holds, lh, pc, tail>> /\ LoopsKept
    BY <1>17 DEF Evict, LoopsKept
  <2>2. \A c \in Block : (Pinned(c)' <=> Pinned(c)) /\ (Locked(c)' <=> Locked(c))
    <3> HIDE DEF Control
    <3> QED BY <2>1, PinnedKept DEF Locked
  <2>3. \A c \in Block : Bread(c)' = Bread(c) /\ cache'[c] \in {cache[c], None, home[c]}
    <3>1. cache' = [cache EXCEPT ![b] = None] /\ pins[b] = 0 /\ ~Locked(b) /\ home' = home
      BY <1>17 DEF Evict
    <3>2. cache \in [Block -> Value \cup {None}]
      OBVIOUS
    <3>3. ~Pinned(b)
      BY <3>1 DEF Pins
    <3> HIDE DEF Control
    <3>4. cache[b] \in {None, home[b]}
      BY <3>1, <3>3 DEF Data
    <3> QED BY <3>1, <3>2, <3>4 DEF Bread
  <2>4. Len(lh) \in Nat /\ \A i \in 1 .. Len(lh) : lh[i] \in Block
    BY SeqFacts
  <2>5. \A q \in Proc : tail[q] \in Nat /\ (pc[q] = "writeLog" => tail[q] <= Len(lh))
    BY <2>4
  <2> HIDE DEF Control
  <2>6. ASSUME NEW q \in Proc, pc[q] = "writeLog", NEW i \in 1 .. tail[q]
        PROVE  hlog[i] = Bread(lh[i])'
    <3>1. i \in 1 .. Len(lh)
      BY <2>4, <2>5, <2>6
    <3>2. Bread(lh[i])' = Bread(lh[i])
      BY <2>1, <2>3, <2>4, <3>1 DEF Bread
    <3> QED BY <2>6, <3>2 DEF Data
  <2>7. ASSUME NEW q \in Proc, pc[q] = "install", NEW i \in 1 .. Len(lh)
        PROVE  hlog[i] = Bread(lh[i])'
    <3>2. Bread(lh[i])' = Bread(lh[i])
      BY <2>1, <2>3, <2>4 DEF Bread
    <3> QED BY <2>7, <3>2 DEF Data
  <2>8. \A c \in Block : cache'[c] \notin {None, home'[c]} => Pinned(c)' \/ Locked(c)'
    BY <2>1, <2>2, <2>3 DEF Data
  <2>9. \A q \in Proc : pc[q] \in {"install", "recover"} =>
          \A i \in 1 .. tail'[q] : home'[lh'[i]] = hlog'[i]
    BY <2>1 DEF Data
  <2> QED BY <2>1, <2>6, <2>7, <2>8, <2>9 DEF Data
<1>18. ASSUME Crash PROVE Data'
  <2>1. /\ cache' = [c \in Block |-> None]
        /\ \A q \in Proc : pc'[q] \in {"off", "readHead"}
    BY <1>18 DEF Crash
  <2> HIDE DEF Control
  <2> QED BY <2>1 DEF Data
<1>19. ASSUME UNCHANGED vars PROVE Data'
  <2>1. UNCHANGED <<home, hlog, cache, holds, lh, tail>> /\ LoopsKept
    BY <1>19 DEF vars, LoopsKept
  <2> QED BY <2>1, DataKept
<1> HIDE DEF Data
<1> QED
  BY <1>1, <1>2, <1>3, <1>4, <1>5, <1>6, <1>7, <1>8, <1>9, <1>10,
     <1>11, <1>12, <1>13, <1>14, <1>15, <1>16, <1>17, <1>18, <1>19
  DEF Next, Write, Committer

-----------------------------------------------------------------------------
(* The invariant holds in every state the program reaches.                 *)
LEMMA Inductive == IInv /\ [Next]_vars => IInv'
<1> SUFFICES ASSUME IInv, [Next]_vars PROVE IInv'
  OBVIOUS
<1>1. Control /\ Counts /\ Pins /\ Header /\ Data /\ SleepersMustWait
  BY DEF IInv
<1>2. CountFacts /\ Len(head) <= LOGSIZE
  BY <1>1, CountsMean DEF Header
<1>3. Control' /\ Counts'
  BY <1>1, <1>2, ControlStep, CountsStep
<1>4. Pins' /\ Header' /\ Data' /\ SleepersMustWait'
  BY <1>1, <1>2, PinsStep, HeaderStep, DataStep, SleepersStep
<1> QED BY <1>3, <1>4 DEF IInv

(* The invariant holds in every state the program reaches.                 *)
LEMMA Invariance == Spec => []IInv
<1>1. Init => IInv
  BY InitControl, InitCounts, InitRest DEF IInv
<1> QED BY <1>1, Inductive, PTL DEF Spec

(* No variable of log.c, of the buffers it uses or of the disk ever leaves *)
(* its type: no count is negative and no list outgrows its array.          *)
THEOREM TypeCorrect == Spec => []TypeOK
<1>1. IInv => TypeOK
  <2> SUFFICES ASSUME IInv PROVE TypeOK
    OBVIOUS
  <2>1. Control /\ CountFacts /\ Counts /\ Pins /\ Header
    BY CountsMean DEF IInv
  <2>2. Len(lh) <= LOGSIZE /\ Len(head) <= LOGSIZE /\ outstanding \in Nat
    BY <2>1 DEF CountFacts, Header
  <2>3. outstanding <= Cardinality(Proc)
    <3>1. IsFiniteSet(Open) /\ Cardinality(Open) <= Cardinality(Proc)
      BY LogAssumption, FS_Subset DEF LogAssumption, Open
    <3> QED BY <2>1, <3>1 DEF Counts, Counted
  <2>4. IsFiniteSet(Proc) /\ Cardinality(Proc) \in Nat
    BY LogAssumption, FS_CardinalityType DEF LogAssumption
  <2>5. outstanding \in 0 .. Cardinality(Proc)
    BY <2>2, <2>3, <2>4
  <2>6. pins \in [Block -> Nat]
    <3>1. pins \in [Block -> Int] /\ \A b \in Block : pins[b] \in {0, 1}
      BY <2>1 DEF Control, Types, Pins
    <3> QED BY <3>1
  <2>7. tail \in [Proc -> 0 .. LOGSIZE]
    <3>1. tail \in [Proc -> Nat] /\ LOGSIZE \in Nat /\ Len(lh) \in Nat
      BY <2>1, LogAssumption, SeqFacts DEF Control, Types, LogAssumption
    <3>2. \A p \in Proc : tail[p] = 0 \/ tail[p] <= Len(lh)
      BY <2>1 DEF Control, Closing
    <3>3. \A p \in Proc : tail[p] \in 0 .. LOGSIZE
      BY <2>2, <3>1, <3>2
    <3> QED BY <3>1, <3>3
  <2> QED BY <2>1, <2>2, <2>5, <2>6, <2>7
          DEF TypeOK, Control, Types, BootPc, LoopPc
<1> QED BY <1>1, Invariance, PTL

(* The blocks begin_op has reserved for the open operations always fit     *)
(* behind what is logged already, so log_write never finds the log full.   *)
THEOREM ReservationHolds == Spec => []Reserved
<1>1. IInv => Reserved
  BY DEF IInv, Counts
<1> QED BY <1>1, Invariance, PTL

(* Nobody sleeps in begin_op who could go on: every step that makes room   *)
(* in the log wakes the sleepers.                                          *)
THEOREM NoLostWakeup == Spec => []SleepersMustWait
<1>1. IInv => SleepersMustWait
  BY DEF IInv
<1> QED BY <1>1, Invariance, PTL

-----------------------------------------------------------------------------
(* The refinement.  Place(p) is what the abstract disk knows of p.         *)
Place(p) ==
  IF pc[p] \in BootPc THEN "boot"
  ELSE IF InOperation(p) THEN "open"
  ELSE IF Committing(p) THEN "closing" ELSE "idle"

(* The mapping in terms of places.                                         *)
LEMMA PlaceOfPc ==
  /\ Up <=> \A p \in Proc : Place(p) # "boot"
  /\ Phase = [p \in Proc |-> IF Up THEN Place(p) ELSE "idle"]
BY DEF Up, Phase, Place, InOperation, Committing, BootPc

(* The same of the next state.                                             *)
LEMMA NextPlace ==
  /\ Up' <=> \A p \in Proc : Place(p)' # "boot"
  /\ Phase' = [p \in Proc |-> IF Up' THEN Place(p)' ELSE "idle"]
BY DEF Up, Phase, Place, InOperation, Committing, BootPc

(* What file system calls see stays when the place of every process, every *)
(* block's contents and the disk's meaning do.                             *)
LEMMA SameView ==
  ASSUME Up' <=> Up, Recovered' = Recovered, \A b \in Block : Bread(b)' = Bread(b)
  PROVE  Seen' = Seen
BY DEF Seen

(* Where every process keeps its place, the phases stay.                   *)
LEMMA SamePhase ==
  ASSUME \A p \in Proc : Place(p)' = Place(p)
  PROVE  (Up' <=> Up) /\ Phase' = Phase
<1>1. Up' <=> Up
  BY NextPlace, PlaceOfPc
<1> QED BY <1>1, NextPlace, PlaceOfPc

(* What the abstract disk does not see.                                    *)
LEMMA Stutter ==
  ASSUME \A p \in Proc : Place(p)' = Place(p), Recovered' = Recovered,
         \A b \in Block : Bread(b)' = Bread(b)
  PROVE  UNCHANGED <<Recovered, Seen, Phase>>
BY SamePhase, SameView

(* Without a write of a home block or a buffer, bread shows the same.      *)
LEMMA SameBread == UNCHANGED <<home, cache>> => \A b \in Block : Bread(b)' = Bread(b)
BY DEF Bread

(* Recovered, of a header h, log blocks l and home blocks d.               *)
Replay(h, l, d) ==
  [b \in Block |-> IF b \in Range(h) THEN l[CHOOSE i \in 1 .. Len(h) : h[i] = b] ELSE d[b]]

(* Recovered is that of the current disk.                                  *)
LEMMA RecoveredIs ==
  Recovered = Replay(head, hlog, home) /\ Recovered' = Replay(head', hlog', home')
BY DEF Recovered, Replay

(* With an empty header the disk means its own blocks; without one, the    *)
(* log's copy of each block the header lists.                              *)
LEMMA ReplayFacts ==
  ASSUME NEW h \in Seq(Block), NEW l, NEW d \in [Block -> Value],
         \A i, j \in 1 .. Len(h) : h[i] = h[j] => i = j
  PROVE  /\ \A i \in 1 .. Len(h) : Replay(h, l, d)[h[i]] = l[i]
         /\ \A b \in Block : (\A i \in 1 .. Len(h) : h[i] # b) => Replay(h, l, d)[b] = d[b]
         /\ Replay(h, l, d) = [b \in Block |-> Replay(h, l, d)[b]]
<1>1. \A b \in Block : b \in Range(h) <=> \E i \in 1 .. Len(h) : h[i] = b
  BY SeqFacts
<1>2. ASSUME NEW i \in 1 .. Len(h) PROVE Replay(h, l, d)[h[i]] = l[i]
  <2>1. h[i] \in Block /\ h[i] \in Range(h)
    BY <1>1, SeqFacts
  <2>2. (CHOOSE j \in 1 .. Len(h) : h[j] = h[i]) = i
    OBVIOUS
  <2> QED BY <2>1, <2>2 DEF Replay
<1>3. \A b \in Block : (\A i \in 1 .. Len(h) : h[i] # b) => Replay(h, l, d)[b] = d[b]
  BY <1>1 DEF Replay
<1>4. Replay(h, l, d) = [b \in Block |-> Replay(h, l, d)[b]]
  BY DEF Replay
<1> QED BY <1>2, <1>3, <1>4

(* An empty header leaves the home blocks.                                 *)
LEMMA ReplayNothing ==
  ASSUME NEW l, NEW d \in [Block -> Value]
  PROVE  Replay(<<>>, l, d) = d
<1>1. <<>> \in Seq(Block) /\ \A i \in 1 .. Len(<<>>) : FALSE
  BY NilFacts
<1>2. \A b : b \notin Range(<<>>)
  BY <1>1, SeqFacts
<1> QED BY <1>2 DEF Replay

(* A block that is neither logged nor being written is as on disk.         *)
LEMMA CleanBlocks ==
  ASSUME Control, Data, \A p \in Proc : ~InOperation(p), NEW b \in Block, ~Pinned(b)
  PROVE  Bread(b) = home[b]
<1>1. ~Locked(b)
  BY LogAssumption DEF Locked, Control, Writing, InOperation, LogAssumption
<1> QED BY <1>1 DEF Data, Bread

(* What a step changes of a process's place.                               *)
LEMMA PlaceMoves ==
  ASSUME Control, NEW p \in Proc, NEW l, pc' = [pc EXCEPT ![p] = l]
  PROVE  /\ \A q \in Proc \ {p} : pc'[q] = pc[q] /\ Place(q)' = Place(q)
         /\ pc'[p] = l
<1>1. (\A q \in Proc \ {p} : pc'[q] = pc[q]) /\ pc'[p] = l
  BY DEF Control, Types
<1> QED BY <1>1 DEF Place, InOperation, Committing

(* Moves of pc that keep a process's place.                                *)
LEMMA PlaceKept ==
  ASSUME \A p \in Proc : \/ pc'[p] = pc[p]
                         \/ {pc[p], pc'[p]} \subseteq {"idle", "begin", "asleep"}
                         \/ {pc[p], pc'[p]} \subseteq {"op", "dirty", "append", "panic"}
                         \/ {pc[p], pc'[p]} \subseteq {"commit", "writeLog", "install", "finish"}
                         \/ {pc[p], pc'[p]} \subseteq BootPc
  PROVE  \A p \in Proc : Place(p)' = Place(p)
BY DEF Place, InOperation, Committing, BootPc

(* Steps the abstract disk does not see.                                   *)
Stays == UNCHANGED <<Recovered, Seen, Phase>>

(* Steps that touch neither the disk nor a block's contents.               *)
LEMMA QuietStep ==
  ASSUME Control, NEW p \in Proc,
         \/ Call(p) \/ BeginSleep(p) \/ LogWrite(p) \/ LogWritePanic(p)
         \/ LogAppend(p) \/ Commit(p) \/ ReadHead(p)
  PROVE  Stays
<1>1. UNCHANGED <<home, hlog, head, cache>>
  BY DEF Call, BeginSleep, LogWrite, LogWritePanic, LogAppend, Commit, ReadHead, disk, bufs
<1>2. PICK l \in {"begin", "asleep", "append", "panic", "op", "writeLog", "finish", "recover"} :
        /\ pc' = [pc EXCEPT ![p] = l]
        /\ \/ {pc[p], l} \subseteq {"idle", "begin", "asleep"}
           \/ {pc[p], l} \subseteq {"op", "dirty", "append", "panic"}
           \/ {pc[p], l} \subseteq {"commit", "writeLog", "install", "finish"}
           \/ {pc[p], l} \subseteq BootPc
  <2>1. CASE Call(p)
    BY <2>1 DEF Call, Goto
  <2>2. CASE BeginSleep(p)
    BY <2>2 DEF BeginSleep, Goto
  <2>3. CASE LogWrite(p)
    BY <2>3 DEF LogWrite, Goto
  <2>4. CASE LogWritePanic(p)
    BY <2>4 DEF LogWritePanic, Goto
  <2>5. CASE LogAppend(p)
    BY <2>5 DEF LogAppend, Goto
  <2>6. CASE Commit(p)
    BY <2>6 DEF Commit, Goto
  <2>7. CASE ReadHead(p)
    BY <2>7 DEF ReadHead, Goto, BootPc
  <2> QED BY <2>1, <2>2, <2>3, <2>4, <2>5, <2>6, <2>7
<1>3. \A q \in Proc : Place(q)' = Place(q)
  BY <1>2, PlaceMoves, PlaceKept
<1>4. Recovered' = Recovered /\ \A b \in Block : Bread(b)' = Bread(b)
  BY <1>1, RecoveredIs, SameBread
<1> QED BY <1>3, <1>4, Stutter DEF Stays

(* bread and bget's recycling of buffers show every block as it was.       *)
LEMMA CacheStep ==
  ASSUME Control, Pins, Data, NEW b \in Block, Evict(b) \/ \E p \in Proc : Read(p, b)
  PROVE  Stays
<1>1. UNCHANGED <<home, hlog, head, pc>>
  BY DEF Read, Evict, disk
<1>2. cache \in [Block -> Value \cup {None}] /\ home \in [Block -> Value] /\ None \notin Value
  BY LogAssumption DEF Control, Types, LogAssumption
<1>3. \A c \in Block : Bread(c)' = Bread(c)
  <2>1. CASE \E p \in Proc : Read(p, b)
    <3>1. cache' = [cache EXCEPT ![b] = home[b]] /\ cache[b] = None
      BY <2>1 DEF Read
    <3> QED BY <1>1, <1>2, <3>1 DEF Bread
  <2>2. CASE Evict(b)
    <3>1. cache' = [cache EXCEPT ![b] = None] /\ pins[b] = 0 /\ ~Locked(b)
      BY <2>2 DEF Evict
    <3>2. ~Pinned(b)
      BY <3>1 DEF Pins
    <3>3. cache[b] \in {None, home[b]}
      BY <3>1, <3>2 DEF Data
    <3> QED BY <1>1, <1>2, <3>1, <3>3 DEF Bread
  <2> QED BY <2>1, <2>2
<1>4. \A q \in Proc : Place(q)' = Place(q)
  BY <1>1, PlaceKept
<1> QED BY <1>1, <1>3, <1>4, RecoveredIs, Stutter DEF Stays

(* begin_op is an operation's start, and end_op its end.                   *)
LEMMA BeginStep ==
  ASSUME Control, NEW p \in Proc, BeginOp(p)
  PROVE  Disk!Begin(p)
<1>1. /\ UNCHANGED <<home, hlog, head, cache>> /\ pc[p] = "begin" /\ ~committing
      /\ pc' = [pc EXCEPT ![p] = "op"]
  BY DEF BeginOp, Goto, disk, bufs, MustWait
<1>2. pc'[p] = "op" /\ \A q \in Proc \ {p} : Place(q)' = Place(q)
  BY <1>1, PlaceMoves
<1>3. Place(p) = "idle" /\ Place(p)' = "open"
  BY <1>1, <1>2 DEF Place, InOperation, Committing, BootPc
<1>4. \A q \in Proc : Place(q) \notin {"boot", "closing"}
  BY <1>1 DEF Place, Control, Booting, Closing, BootPc
<1>5. Up /\ Up'
  BY <1>2, <1>3, <1>4, PlaceOfPc, NextPlace
<1>6. Recovered' = Recovered /\ Seen' = Seen
  BY <1>1, <1>5, RecoveredIs, SameBread, SameView
<1>7. Phase' = [Phase EXCEPT ![p] = "open"]
  BY <1>2, <1>3, <1>5, NextPlace, PlaceOfPc
<1>8. Phase[p] = "idle" /\ \A q \in Proc : Phase[q] # "closing"
  BY <1>3, <1>4, PlaceOfPc
<1> QED BY <1>6, <1>7, <1>8 DEF Disk!Begin, Disk!Others

(* One process that is not booting shows that the machine is up.           *)
LEMMA UpFacts ==
  ASSUME Control, NEW p \in Proc, pc[p] \notin BootPc
  PROVE  Up /\ \A q \in Proc : Place(q) # "boot"
BY DEF Control, Booting, Up, Place, BootPc

(* end_op's first critical section ends an operation, and the last one     *)
(* starts to close the group.                                              *)
LEMMA EndStep ==
  ASSUME Control, Control', Counts, CountFacts, NEW p \in Proc, EndOp(p)
  PROVE  Disk!End(p)
<1>1. UNCHANGED <<home, hlog, head, cache>> /\ pc[p] = "op"
  BY DEF EndOp, disk, bufs
<1>2. Up /\ Place(p) = "open"
  BY <1>1, UpFacts DEF Place, InOperation, BootPc
<1>3. CASE outstanding = 1
  <2>1. pc' = [pc EXCEPT ![p] = "commit"]
    BY <1>3 DEF EndOp, Goto
  <2>2. pc'[p] = "commit" /\ \A q \in Proc \ {p} : Place(q)' = Place(q)
    BY <2>1, PlaceMoves
  <2>3. Place(p)' = "closing"
    BY <2>2 DEF Place, InOperation, Committing, BootPc
  <2>4. Up'
    BY <1>2, <2>2, <2>3, PlaceOfPc, NextPlace
  <2>5. Phase' = [Phase EXCEPT ![p] = "closing"]
    BY <1>2, <2>2, <2>3, <2>4, PlaceOfPc, NextPlace
  <2>6. \A q \in Proc \ {p} : Phase[q] # "open"
    <3>1. \A q \in Proc \ {p} : ~InOperation(q)
      BY <1>1, <1>3 DEF CountFacts, InOperation
    <3> QED BY <3>1, PlaceOfPc DEF Place
  <2>7. Recovered' = Recovered /\ Seen' = Seen
    BY <1>1, <1>2, <2>4, RecoveredIs, SameBread, SameView
  <2> QED BY <1>2, <2>5, <2>6, <2>7, PlaceOfPc DEF Disk!End, Disk!Others
<1>4. CASE outstanding # 1
  <2>1. pc' = [q \in Proc |-> IF q = p THEN "idle"
                              ELSE IF pc[q] = "asleep" THEN "begin" ELSE pc[q]]
    BY <1>4, WokenFacts DEF EndOp
  <2>2. Place(p)' = "idle" /\ \A q \in Proc \ {p} : Place(q)' = Place(q)
    BY <2>1 DEF Place, InOperation, Committing, BootPc
  <2>4. Up'
    BY <1>2, <2>2, PlaceOfPc, NextPlace
  <2>5. Phase' = [Phase EXCEPT ![p] = "idle"]
    BY <1>2, <2>2, <2>4, PlaceOfPc, NextPlace
  <2>6. PICK q \in Proc \ {p} : InOperation(q)
    <3> SUFFICES ASSUME \A q \in Proc \ {p} : ~InOperation(q) PROVE FALSE
      OBVIOUS
    <3>1. Open = {p}
      BY <1>1 DEF Open, InOperation
    <3> QED BY <1>4, <3>1, FS_Singleton DEF Counts, Counted
  <2>7. Phase[q] = "open"
    BY <1>2, <2>6, PlaceOfPc DEF Place, InOperation, BootPc
  <2>8. Recovered' = Recovered /\ Seen' = Seen
    BY <1>1, <1>2, <2>4, RecoveredIs, SameBread, SameView
  <2> QED BY <1>2, <2>5, <2>6, <2>7, <2>8, PlaceOfPc DEF Disk!End, Disk!Others
<1> QED BY <1>3, <1>4

(* A change of a buffer is a write of an open operation.                   *)
LEMMA ModifyStep ==
  ASSUME Control, NEW p \in Proc, NEW b \in Block, NEW v \in Value, Modify(p, b, v)
  PROVE  Disk!Write(p, b, v)
<1>1. /\ UNCHANGED <<home, hlog, head>> /\ pc[p] = "op"
      /\ pc' = [pc EXCEPT ![p] = "dirty"] /\ cache' = [cache EXCEPT ![b] = v]
  BY DEF Modify, Goto, disk
<1>2. Up /\ Place(p) = "open"
  BY <1>1, UpFacts DEF Place, InOperation, BootPc
<1>3. \A q \in Proc : Place(q)' = Place(q)
  BY <1>1, PlaceMoves, PlaceKept
<1>4. Up' /\ Phase' = Phase
  BY <1>2, <1>3, SamePhase
<1>5. v # None /\ cache \in [Block -> Value \cup {None}]
  BY LogAssumption DEF LogAssumption, Control, Types
<1>6. Bread(b)' = v /\ \A c \in Block \ {b} : Bread(c)' = Bread(c)
  BY <1>1, <1>5 DEF Bread
<1>7. Seen = [c \in Block |-> Bread(c)] /\ Seen' = [c \in Block |-> Bread(c)']
  BY <1>2, <1>4 DEF Seen
<1>8. Seen' = [Seen EXCEPT ![b] = v]
  BY <1>6, <1>7
<1> QED BY <1>1, <1>2, <1>4, <1>8, RecoveredIs, PlaceOfPc DEF Disk!Write

(* Only a commit that installs and a boot have a header on disk.           *)
LEMMA NoHeader ==
  ASSUME Control, Header, NEW p \in Proc, pc[p] \in {"writeLog", "finish"}
  PROVE  /\ head = <<>> /\ Recovered = home /\ \A q \in Proc : ~InOperation(q)
         /\ \A q \in Proc : pc[q] \notin {"install", "recover"}
         /\ \A q \in Proc \ {p} : Place(q) # "closing"
<1>1. \A q \in Proc : pc[q] \notin {"install", "recover", "readHead"} /\ ~InOperation(q)
  BY DEF Control, Booting, Closing, Committing, BootPc
<1>2. head = <<>>
  BY <1>1 DEF Header
<1>3. home \in [Block -> Value]
  BY DEF Control, Types
<1>4. \A q \in Proc \ {p} : Place(q) # "closing"
  BY DEF Control, Closing, Place, Committing
<1> QED BY <1>1, <1>2, <1>3, <1>4, RecoveredIs, ReplayNothing

(* Copies in the log mean nothing yet.                                     *)
LEMMA WriteLogStep ==
  ASSUME Control, Header, NEW p \in Proc, WriteLog(p)
  PROVE  Stays
<1>1. tail[p] \in Nat /\ Len(lh) \in Nat /\ tail[p] < Len(lh) /\ pc[p] = "writeLog"
  BY SeqFacts DEF WriteLog, Control, Types
<1>2. PICK b \in Block : b = lh[tail[p] + 1]
  BY <1>1, SeqFacts DEF Control, Types
<1>3. UNCHANGED <<home, head, pc>> /\ cache' = [cache EXCEPT ![b] = Bread(b)]
  BY <1>2 DEF WriteLog
<1>4. /\ cache \in [Block -> Value \cup {None}] /\ home \in [Block -> Value]
      /\ None \notin Value
  BY LogAssumption DEF LogAssumption, Control, Types
<1>5. \A c \in Block : Bread(c)' = Bread(c)
  BY <1>3, <1>4 DEF Bread
<1>6. head' = <<>> /\ Recovered = home
  BY <1>1, <1>3, NoHeader
<1>7. Recovered' = home'
  BY <1>3, <1>4, <1>6, RecoveredIs, ReplayNothing
<1>8. \A q \in Proc : Place(q)' = Place(q)
  BY <1>3, PlaceKept
<1> QED BY <1>3, <1>5, <1>6, <1>7, <1>8, Stutter DEF Stays

(* write_head commits: the disk means from now on what the cache shows.    *)
LEMMA WriteHeadStep ==
  ASSUME Control, Pins, Header, Data, NEW p \in Proc, WriteHead(p)
  PROVE  Disk!Commit(p)
<1>1. /\ UNCHANGED <<home, hlog, cache>> /\ head' = lh
      /\ pc[p] = "writeLog" /\ tail[p] = Len(lh) /\ pc' = [pc EXCEPT ![p] = "install"]
  BY DEF WriteHead, Goto, bufs
<1>2. \A q \in Proc : Place(q)' = Place(q)
  BY <1>1, PlaceMoves, PlaceKept
<1>3. Up /\ Place(p) = "closing"
  BY <1>1, UpFacts DEF Place, InOperation, Committing, BootPc
<1>4. Up' /\ Phase' = Phase
  BY <1>2, <1>3, SamePhase
<1>5. Phase[p] = "closing"
  BY <1>3, PlaceOfPc
<1>6. Seen' = [b \in Block |-> Bread(b)] /\ Seen' = Seen
  BY <1>1, <1>3, <1>4, SameBread DEF Seen
<1>7. /\ lh \in Seq(Block) /\ home \in [Block -> Value]
      /\ \A i, j \in 1 .. Len(lh) : lh[i] = lh[j] => i = j
  BY DEF Control, Types, Pins
<1>8. /\ \A i \in 1 .. Len(lh) : Replay(lh, hlog, home)[lh[i]] = hlog[i]
      /\ \A b \in Block : (\A i \in 1 .. Len(lh) : lh[i] # b) => Replay(lh, hlog, home)[b] = home[b]
      /\ Replay(lh, hlog, home) = [b \in Block |-> Replay(lh, hlog, home)[b]]
  BY <1>7, ReplayFacts
<1>9. ASSUME NEW b \in Block PROVE Replay(lh, hlog, home)[b] = Bread(b)
  <2>1. CASE \E i \in 1 .. Len(lh) : lh[i] = b
    <3>1. PICK i \in 1 .. Len(lh) : lh[i] = b
      BY <2>1
    <3>2. hlog[i] = Bread(lh[i])
      BY <1>1 DEF Data
    <3> QED BY <1>8, <3>1, <3>2
  <2>2. CASE \A i \in 1 .. Len(lh) : lh[i] # b
    <3>1. ~Pinned(b)
      BY <2>2 DEF Pinned
    <3>2. Bread(b) = home[b]
      BY <1>1, <3>1, NoHeader, CleanBlocks
    <3> QED BY <1>8, <2>2, <3>2
  <2> QED BY <2>1, <2>2
<1>10. Recovered' = Seen
  BY <1>1, <1>6, <1>8, <1>9, RecoveredIs
<1> QED BY <1>4, <1>5, <1>6, <1>10 DEF Disk!Commit

(* Installing a block at home changes neither what the disk means, as the  *)
(* header still lists it, nor what the cache shows.                        *)
LEMMA InstallStep ==
  ASSUME Control, Pins, Header, Data, NEW p \in Proc, InstallTrans(p)
  PROVE  Stays
<1>1. /\ tail[p] \in Nat /\ Len(lh) \in Nat /\ tail[p] < Len(lh)
      /\ pc[p] \in {"install", "recover"}
  BY SeqFacts DEF InstallTrans, Control, Types
<1>2. PICK i \in 1 .. Len(lh), b \in Block : i = tail[p] + 1 /\ b = lh[i]
  <2>1. tail[p] + 1 \in 1 .. Len(lh)
    BY <1>1
  <2>2. lh[tail[p] + 1] \in Block
    BY <2>1, SeqFacts DEF Control, Types
  <2> QED BY <2>1, <2>2
<1>3. /\ UNCHANGED <<hlog, head, pc>> /\ cache' = [cache EXCEPT ![b] = hlog[i]]
      /\ home' = [home EXCEPT ![b] = hlog[i]]
  BY <1>2 DEF InstallTrans
<1>4. /\ cache \in [Block -> Value \cup {None}] /\ home \in [Block -> Value]
      /\ None \notin Value /\ hlog \in [1 .. LOGSIZE -> Value] /\ LOGSIZE \in Nat
      /\ head = lh /\ Len(lh) <= LOGSIZE /\ lh \in Seq(Block)
      /\ \A j, k \in 1 .. Len(lh) : lh[j] = lh[k] => j = k
  BY <1>1, LogAssumption DEF LogAssumption, Control, Types, Header, Pins
<1>5. hlog[i] \in Value
  BY <1>1, <1>4
<1>6. home' \in [Block -> Value] /\ \A c \in Block \ {b} : home'[c] = home[c]
  BY <1>3, <1>4, <1>5
<1>7. ASSUME NEW d \in [Block -> Value]
      PROVE  /\ Replay(lh, hlog, d)[b] = hlog[i]
             /\ Replay(lh, hlog, d) = [c \in Block |-> Replay(lh, hlog, d)[c]]
  <2>1. lh \in Seq(Block) /\ \A j, k \in 1 .. Len(lh) : lh[j] = lh[k] => j = k
    BY <1>4
  <2>2. /\ \A j \in 1 .. Len(lh) : Replay(lh, hlog, d)[lh[j]] = hlog[j]
        /\ Replay(lh, hlog, d) = [c \in Block |-> Replay(lh, hlog, d)[c]]
    BY <2>1, ReplayFacts
  <2> QED BY <1>2, <2>2
<1>8. ASSUME NEW c \in Block \ {b}
      PROVE  Replay(lh, hlog, home)[c] = Replay(lh, hlog, home')[c]
  BY <1>6 DEF Replay
<1>9. Replay(lh, hlog, home) = Replay(lh, hlog, home')
  BY <1>4, <1>6, <1>7, <1>8
<1>10. Recovered' = Recovered
  BY <1>3, <1>4, <1>9, RecoveredIs
<1>11. \A q \in Proc : Place(q)' = Place(q)
  BY <1>3, PlaceKept
<1>12. Up' <=> Up
  BY <1>11, SamePhase
<1>13. CASE pc[p] = "install"
  <2>1. hlog[i] = Bread(b)
    BY <1>2, <1>13 DEF Data
  <2>2. \A c \in Block : Bread(c)' = Bread(c)
    BY <1>3, <1>4, <1>5, <2>1 DEF Bread
  <2> QED BY <1>10, <1>11, <2>2, Stutter DEF Stays
<1>14. CASE pc[p] = "recover"
  <2>1. ~Up
    BY <1>14 DEF Up
  <2>2. Seen' = Seen
    BY <1>10, <1>12, <2>1 DEF Seen
  <2> QED BY <1>10, <1>11, <2>2, SamePhase DEF Stays
<1> QED BY <1>1, <1>13, <1>14

(* Once all is installed, the header can go.                               *)
LEMMA ClearStep ==
  ASSUME Control, Pins, Header, Data, NEW p \in Proc, ClearHead(p)
  PROVE  Stays
<1>1. /\ UNCHANGED <<home, hlog, cache>> /\ head' = <<>>
      /\ pc[p] \in {"install", "recover"} /\ tail[p] = Len(lh)
  BY DEF ClearHead, bufs
<1>2. /\ home \in [Block -> Value] /\ head = lh /\ lh \in Seq(Block) /\ Len(lh) \in Nat
      /\ \A j, k \in 1 .. Len(lh) : lh[j] = lh[k] => j = k
  BY <1>1, SeqFacts DEF Control, Types, Header, Pins
<1>3. \A i \in 1 .. Len(lh) : home[lh[i]] = hlog[i]
  BY <1>1 DEF Data
<1>4. /\ \A i \in 1 .. Len(lh) : Replay(lh, hlog, home)[lh[i]] = hlog[i]
      /\ \A b \in Block : (\A i \in 1 .. Len(lh) : lh[i] # b) => Replay(lh, hlog, home)[b] = home[b]
      /\ Replay(lh, hlog, home) = [b \in Block |-> Replay(lh, hlog, home)[b]]
  BY <1>2, ReplayFacts, SMTT(30)
<1>5. \A b \in Block : Replay(lh, hlog, home)[b] = home[b]
  BY <1>3, <1>4
<1>6. Recovered = home
  BY <1>2, <1>4, <1>5, RecoveredIs
<1>7. Recovered' = home'
  BY <1>1, <1>2, RecoveredIs, ReplayNothing
<1>8. CASE pc[p] = "install"
  <2>1. pc' = [pc EXCEPT ![p] = "finish"]
    BY <1>8 DEF ClearHead
  <2>2. \A q \in Proc : Place(q)' = Place(q)
    BY <1>8, <2>1, PlaceMoves, PlaceKept
  <2> QED BY <1>1, <1>6, <1>7, <2>2, SameBread, Stutter DEF Stays
<1>9. CASE pc[p] = "recover"
  <2>1. pc' = [q \in Proc |-> "idle"]
    BY <1>9 DEF ClearHead
  <2>2. ~Up /\ \A q \in Proc : pc[q] \in BootPc
    BY <1>9 DEF Up, Control, Booting, BootPc
  <2>3. \A q \in Proc : Place(q)' = "idle"
    BY <2>1 DEF Place, InOperation, Committing, BootPc
  <2>4. Up' /\ Phase' = Phase
    BY <2>2, <2>3, NextPlace, PlaceOfPc
  <2>5. ASSUME NEW b \in Block PROVE Bread(b) = home[b]
    <3>1. ~Pinned(b)
      BY <1>9 DEF Pinned
    <3>2. \A q \in Proc : ~InOperation(q)
      BY <2>2 DEF InOperation, BootPc
    <3> QED BY <3>1, <3>2, CleanBlocks
  <2>6. Seen' = [b \in Block |-> Bread(b)']
    BY <2>4 DEF Seen
  <2>7. \A b \in Block : Bread(b)' = home[b]
    BY <1>1, <2>5, SameBread
  <2>8. Seen' = home
    BY <1>2, <2>6, <2>7
  <2>9. Seen = Recovered
    BY <2>2 DEF Seen
  <2> QED BY <1>1, <1>6, <1>7, <2>4, <2>8, <2>9 DEF Stays
<1> QED BY <1>1, <1>8, <1>9

(* end_op of the last operation returns when the group is durable.         *)
LEMMA FinishStep ==
  ASSUME Control, Header, Data, NEW p \in Proc, Finish(p)
  PROVE  Disk!Return(p)
<1>1. UNCHANGED <<home, hlog, head, cache>> /\ pc[p] = "finish" /\ lh = <<>>
  BY DEF Finish, disk, bufs, Control, Closing
<1>2. pc' = [q \in Proc |-> IF q = p THEN "idle"
                            ELSE IF pc[q] = "asleep" THEN "begin" ELSE pc[q]]
  BY WokenFacts DEF Finish
<1>3. Place(p)' = "idle" /\ \A q \in Proc \ {p} : Place(q)' = Place(q)
  BY <1>2 DEF Place, InOperation, Committing, BootPc
<1>4. Up /\ Place(p) = "closing"
  BY <1>1, UpFacts DEF Place, InOperation, Committing, BootPc
<1>5. Up' /\ Phase' = [Phase EXCEPT ![p] = "idle"]
  BY <1>3, <1>4, UpFacts, PlaceOfPc, NextPlace
<1>6. Recovered' = Recovered /\ Seen' = Seen
  BY <1>1, <1>4, <1>5, RecoveredIs, SameBread, SameView
<1>7. Recovered = home /\ \A b \in Block : Bread(b) = home[b]
  <2>1. \A b \in Block : ~Pinned(b)
    BY <1>1, NilFacts DEF Pinned
  <2> QED BY <1>1, <2>1, NoHeader, CleanBlocks
<1>8. Recovered = Seen
  <2>1. home \in [Block -> Value]
    BY DEF Control, Types
  <2> QED BY <1>4, <1>7, <2>1 DEF Seen
<1> QED BY <1>4, <1>5, <1>6, <1>8, PlaceOfPc DEF Disk!Return

(* A crash leaves what the disk means.                                     *)
LEMMA CrashStep == Crash => Disk!Crash
<1> SUFFICES ASSUME Crash PROVE Disk!Crash
  OBVIOUS
<1>1. UNCHANGED <<home, hlog, head>>
  BY DEF Crash, disk
<1>2. PICK p \in Proc : pc' = [q \in Proc |-> IF q = p THEN "readHead" ELSE "off"]
  BY DEF Crash
<1>3. ~Up'
  BY <1>2 DEF Up
<1>4. Recovered' = Recovered /\ Seen' = Recovered' /\ Phase' = [q \in Proc |-> "idle"]
  BY <1>1, <1>3, RecoveredIs, NextPlace DEF Seen
<1> QED BY <1>4 DEF Disk!Crash

(* A disk made by mkfs is an initial state of the abstract disk.           *)
LEMMA InitMaps == Init => Disk!Init
<1> SUFFICES ASSUME Init PROVE Disk!Init
  OBVIOUS
<1>1. PICK p \in Proc : pc = [q \in Proc |-> IF q = p THEN "readHead" ELSE "off"]
  BY DEF Init
<1>2. ~Up /\ Phase = [q \in Proc |-> "idle"]
  BY <1>1 DEF Up, Phase
<1>3. home \in [Block -> Value] /\ head = <<>>
  BY DEF Init
<1>4. Recovered = home /\ Seen = home
  BY <1>2, <1>3, RecoveredIs, ReplayNothing DEF Seen
<1> QED BY <1>2, <1>3, <1>4 DEF Disk!Init

(* Every step is a step of the abstract disk, or one it does not see.      *)
LEMMA StepMaps == IInv /\ IInv' /\ [Next]_vars => [Disk!Next]_(Disk!vars)
<1> SUFFICES ASSUME IInv, IInv', [Next]_vars PROVE [Disk!Next]_(Disk!vars)
  OBVIOUS
<1>1. Control /\ Control' /\ Counts /\ Pins /\ Header /\ Data /\ CountFacts
  BY CountsMean DEF IInv
<1>2. Stays => [Disk!Next]_(Disk!vars)
  BY DEF Stays, Disk!vars
<1>3. ASSUME NEW p \in Proc,
             \/ Call(p) \/ BeginSleep(p) \/ LogWrite(p) \/ LogWritePanic(p)
             \/ LogAppend(p) \/ Commit(p) \/ ReadHead(p)
      PROVE  Stays
  BY <1>1, <1>3, QuietStep
<1>4. ASSUME NEW p \in Proc, WriteLog(p) \/ InstallTrans(p) \/ ClearHead(p)
      PROVE  Stays
  BY <1>1, <1>4, WriteLogStep, InstallStep, ClearStep
<1>5. ASSUME NEW p \in Proc, NEW b \in Block, Read(p, b) PROVE Stays
  BY <1>1, <1>5, CacheStep
<1>6. ASSUME NEW b \in Block, Evict(b) PROVE Stays
  BY <1>1, <1>6, CacheStep
<1>7. ASSUME NEW p \in Proc, BeginOp(p) \/ EndOp(p) \/ WriteHead(p) \/ Finish(p)
      PROVE  Disk!Next
  BY <1>1, <1>7, BeginStep, EndStep, WriteHeadStep, FinishStep DEF Disk!Next
<1>8. ASSUME NEW p \in Proc, NEW b \in Block, NEW v \in Value, Modify(p, b, v)
      PROVE  Disk!Next
  BY <1>1, <1>8, ModifyStep DEF Disk!Next
<1>9. Crash => Disk!Next
  BY CrashStep DEF Disk!Next
<1>10. UNCHANGED vars => Stays
  BY DEF vars, disk, bufs, Stays, Recovered, Seen, Phase, Up, Bread, InOperation, Committing
<1> QED BY <1>2, <1>3, <1>4, <1>5, <1>6, <1>7, <1>8, <1>9, <1>10
        DEF Next, Write, Committer

(* The log, the pinned buffers and recovery implement the abstract disk:   *)
(* whatever is interleaved and wherever the machine crashes, a group of    *)
(* operations reaches the disk as a whole, in the one write of the header, *)
(* and end_op of its last operation returns only after it has.             *)
THEOREM Refinement == Spec => ImplementsAtomicDisk
<1>1. IInv /\ IInv' /\ [Next]_vars => [Disk!Next]_(Disk!vars)
  BY StepMaps
<1> QED BY <1>1, InitMaps, Invariance, PTL DEF Spec, ImplementsAtomicDisk, Disk!Spec

(* A pinned block is one whose place in the log is not installed yet.      *)
LEMMA PinnedIs ==
  ASSUME Control, NEW b \in Block
  PROVE  /\ Pinned(b) <=> \E i \in Installing .. Len(lh) : lh[i] = b
         /\ Installing \in Nat \ {0}
<1>1. lh \in Seq(Block) /\ Len(lh) \in Nat
  BY SeqFacts DEF Control, Types
<1>2. CASE \E p \in Proc : pc[p] = "recover"
  <2>1. Installing = Len(lh) + 1 /\ ~Pinned(b)
    BY <1>2 DEF Installing, Pinned
  <2> QED BY <1>1, <2>1
<1>3. CASE \E p \in Proc : pc[p] = "install"
  <2>1. PICK p \in Proc : pc[p] = "install"
    BY <1>3
  <2>2. \A q \in Proc : pc[q] \in {"install", "recover"} => q = p
    BY <2>1, OneLoop DEF LoopPc
  <2>3. (CHOOSE q \in Proc : pc[q] = "install") = p
    BY <2>1, <2>2
  <2>4. Installing = tail[p] + 1 /\ tail[p] \in Nat
    BY <2>1, <2>2, <2>3 DEF Installing, Control, Types
  <2>5. \A i \in 1 .. Len(lh) :
          (\A q \in Proc : pc[q] # "recover" /\ (pc[q] = "install" => i > tail[q]))
            <=> i > tail[p]
    BY <2>1, <2>2
  <2> QED BY <1>1, <2>4, <2>5 DEF Pinned
<1>4. CASE \A p \in Proc : pc[p] \notin {"recover", "install"}
  <2>1. Installing = 1
    BY <1>4 DEF Installing
  <2> QED BY <1>4, <2>1 DEF Pinned
<1> QED BY <1>2, <1>3, <1>4

(* Absorption keeps a block in the log once, and bpin and bunpin pair up:  *)
(* a block has one pin from its first log_write until it is installed and  *)
(* none otherwise, so its buffer is neither recycled early nor kept.       *)
THEOREM PinnedTillInstalled == Spec => []PinnedUntilInstalled
<1>1. IInv => PinnedUntilInstalled
  <2> SUFFICES ASSUME IInv PROVE PinnedUntilInstalled
    OBVIOUS
  <2>1. Control /\ Pins /\ lh \in Seq(Block) /\ Len(lh) \in Nat
    BY SeqFacts DEF IInv, Control, Types
  <2>2. \A i, j \in 1 .. Len(lh) : lh[i] = lh[j] => i = j
    BY <2>1 DEF Pins
  <2>3. IsInjective(lh)
    BY <2>1, <2>2 DEF IsInjective
  <2>4. ASSUME NEW b \in Block
        PROVE  pins[b] = Cardinality({i \in Installing .. Len(lh) : lh[i] = b})
    <3> DEFINE S == {i \in Installing .. Len(lh) : lh[i] = b}
    <3>1. CASE Pinned(b)
      <4>1. PICK i \in Installing .. Len(lh) : lh[i] = b
        BY <2>1, <3>1, PinnedIs
      <4>2. S = {i}
        BY <2>1, <2>2, <4>1, PinnedIs
      <4>3. pins[b] = 1
        BY <2>1, <3>1 DEF Pins
      <4> QED BY <4>2, <4>3, FS_Singleton
    <3>2. CASE ~Pinned(b)
      <4>1. S = {}
        BY <2>1, <3>2, PinnedIs
      <4>2. pins[b] = 0
        BY <2>1, <3>2 DEF Pins
      <4> QED BY <4>1, <4>2, FS_EmptySet
    <3> QED BY <3>1, <3>2
  <2> QED BY <2>3, <2>4 DEF PinnedUntilInstalled
<1> QED BY <1>1, Invariance, PTL
=============================================================================
