----------------------------- MODULE VirtioDisk -----------------------------
(***************************************************************************)
(* lab3/kernel/virtio_disk.c: descriptors, the two rings, callers that     *)
(* sleep for descriptors or for their request, and the interrupt handler.  *)
(*                                                                         *)
(* What a process does between two sleeps is one critical section of       *)
(* vdisk_lock, and one action.  The handler's loop is a step per turn, for *)
(* the device goes on meanwhile.  sleep and wakeup are Monitor's.  The     *)
(* device takes requests from the avail ring, carries them out in any      *)
(* order, and never fails.  A process stands for its call and for the      *)
(* buffer it has locked.  A ring entry that has been read is None from     *)
(* then on: nothing reads it again.                                        *)
(*                                                                         *)
(* pc[p]: "out"; "free" asleep on &disk.free[0], "freed" woken from there; *)
(* "disk" asleep on b, "done" woken from there; "call" about to acquire.   *)
(***************************************************************************)
EXTENDS Integers, FiniteSetsExt

CONSTANTS
  Proc,
  NUM,       \* descriptors, and entries of a ring
  IdxSpan,   \* values of a uint16 (2^16)
  None

ASSUME VirtioAssumption ==
  /\ NUM \in Nat \ {0} /\ IdxSpan \in Nat \ {0} /\ IdxSpan % NUM = 0
  /\ None \notin Proc \cup (0 .. NUM - 1)

VARIABLES
  free,       \* the descriptors i with disk.free[i]
  next,       \* next[i]: desc[i].next, None without VRING_DESC_F_NEXT
  header,     \* header[i]: the process whose request begins at descriptor i
  info,       \* info[i]: the process whose buffer is info[i].b, None for 0
  status,     \* status[i]: info[i].status
  avail, availIdx,     \* the ring of requests
  used, usedIdx,       \* the ring of answers
  seenIdx,    \* disk.used_idx: the answers the handler has seen
  busy,       \* busy[p]: b->disk of p's buffer
  inIntr,     \* the handler is in its loop and holds vdisk_lock
  panicked,
  pc,
  head,       \* head[p]: idx[0]
  takenIdx, serving, raised, interrupt   \* the device

driver == <<free, next, header, info, status, busy, head>>
rings == <<avail, availIdx, used, usedIdx, seenIdx>>
device == <<takenIdx, serving, raised, interrupt>>
vars == <<driver, rings, device, inIntr, panicked, pc>>

Desc == 0 .. NUM - 1

Inc(i) == (i + 1) % IdxSpan

Init ==
  /\ free = Desc
  /\ next = [i \in Desc |-> None]
  /\ header = [i \in Desc |-> None] /\ info = [i \in Desc |-> None]
  /\ status = [i \in Desc |-> 0]
  /\ avail = [i \in Desc |-> None] /\ used = [i \in Desc |-> None]
  /\ availIdx = 0 /\ usedIdx = 0 /\ seenIdx = 0 /\ takenIdx = 0
  /\ busy = [p \in Proc |-> FALSE]
  /\ inIntr = FALSE /\ panicked = FALSE
  /\ pc = [p \in Proc |-> "out"]
  /\ head = [p \in Proc |-> None]
  /\ serving = {} /\ raised = FALSE /\ interrupt = FALSE

(* Everybody who sleeps at `asleep` is woken, and p goes on at l.          *)
Wake(asleep, woken, p, l) ==
  pc' = [q \in Proc |-> IF q = p THEN l ELSE IF pc[q] = asleep THEN woken ELSE pc[q]]

-----------------------------------------------------------------------------
(* bread and bwrite: the caller holds the buffer's sleep-lock.             *)
Call(p) ==
  /\ pc[p] = "out"
  /\ pc' = [pc EXCEPT ![p] = "call"]
  /\ UNCHANGED <<driver, rings, device, inIntr, panicked>>

(* alloc_desc, three times: the lowest free descriptors.                   *)
First == Min(free)
Second == Min(free \ {First})
Third == Min(free \ {First, Second})

(* alloc3_desc frees what it got, and so wakes everybody who waits.        *)
NoDescriptors(p) ==
  /\ pc[p] \in {"call", "freed"} /\ ~inIntr
  /\ Cardinality(free) < 3
  /\ IF free = {} THEN pc' = [pc EXCEPT ![p] = "free"] ELSE Wake("free", "freed", p, "free")
  /\ UNCHANGED <<driver, rings, device, inIntr, panicked>>

(* The three descriptors are formatted, queued and announced; p sleeps.    *)
Queue(p) ==
  /\ pc[p] \in {"call", "freed"} /\ ~inIntr
  /\ Cardinality(free) >= 3
  /\ next' = [next EXCEPT ![First] = Second, ![Second] = Third, ![Third] = None]
  /\ header' = [header EXCEPT ![First] = p]
  /\ status' = [status EXCEPT ![First] = 255]
  /\ busy' = [busy EXCEPT ![p] = TRUE]
  /\ info' = [info EXCEPT ![First] = p]
  /\ avail' = [avail EXCEPT ![availIdx % NUM] = First]
  /\ availIdx' = Inc(availIdx)
  /\ head' = [head EXCEPT ![p] = First]
  /\ pc' = [pc EXCEPT ![p] = "disk"]
  /\ UNCHANGED <<used, usedIdx, seenIdx, device, inIntr, panicked>>

Submit(p) == Queue(p) /\ free' = free \ {First, Second, Third}

(* free_chain from i: the three descriptors of a request.                  *)
Chain(i) == LET after(S) == {next[d] : d \in S} \ {None}
            IN {i} \cup after({i}) \cup after(after({i}))

(* info.b = 0 and free_chain; free_desc panics on a free descriptor.       *)
FreeChain(p) ==
  /\ pc[p] = "done" /\ ~inIntr
  /\ LET chain == Chain(head[p]) IN
     /\ panicked' = (chain \cap free # {})
     /\ free' = free \cup chain
     /\ next' = [d \in Desc |-> IF d \in chain THEN None ELSE next[d]]
     /\ header' = [d \in Desc |-> IF d \in chain THEN None ELSE header[d]]
  /\ info' = [info EXCEPT ![head[p]] = None]
  /\ head' = [head EXCEPT ![p] = None]
  /\ UNCHANGED <<status, busy, rings, device, inIntr>>

(* Mutant: "if" for "while": whoever is woken takes it for the answer.     *)
NotYetForgotten(p) == busy[p] /\ FreeChain(p) /\ Wake("free", "freed", p, "out")

(* Woken by kill: b->disk is still 1.                                      *)
NotYet(p) ==
  /\ pc[p] = "done" /\ ~inIntr /\ busy[p]
  /\ pc' = [pc EXCEPT ![p] = "disk"]
  /\ UNCHANGED <<driver, rings, device, inIntr, panicked>>

(* The request is done, its descriptors are free, virtio_disk_rw returns.  *)
Finish(p) == ~busy[p] /\ FreeChain(p) /\ Wake("free", "freed", p, "out")

(* kill wakes a sleeper whatever it waits for; nothing here looks at       *)
(* p->killed.                                                              *)
Kill(p) ==
  /\ pc[p] \in {"free", "disk"}
  /\ pc' = [pc EXCEPT ![p] = IF @ = "free" THEN "freed" ELSE "done"]
  /\ UNCHANGED <<driver, rings, device, inIntr, panicked>>

-----------------------------------------------------------------------------
(* virtio_disk_intr                                                        *)

(* acquire and the acknowledgement.                                        *)
Intr ==
  /\ interrupt /\ ~inIntr
  /\ inIntr' = TRUE
  /\ interrupt' = FALSE
  /\ UNCHANGED <<driver, rings, takenIdx, serving, raised, panicked, pc>>

(* One turn of the loop.                                                   *)
IntrAnswer ==
  /\ inIntr /\ seenIdx # usedIdx
  /\ LET id == used[seenIdx % NUM] IN
     IF status[id] # 0
     THEN panicked' = TRUE /\ UNCHANGED <<pc, busy, used, seenIdx>>
     ELSE /\ busy' = [busy EXCEPT ![info[id]] = FALSE]
          /\ pc' = [pc EXCEPT ![info[id]] = IF @ = "disk" THEN "done" ELSE @]
          /\ used' = [used EXCEPT ![seenIdx % NUM] = None]
          /\ seenIdx' = Inc(seenIdx)
          /\ UNCHANGED panicked
  /\ UNCHANGED <<free, next, header, info, status, head, avail, availIdx, usedIdx,
                 device, inIntr>>

(* Mutant: "if" for "while": the handler leaves answers behind.             *)
IntrEndEarly ==
  /\ inIntr
  /\ inIntr' = FALSE
  /\ UNCHANGED <<driver, rings, device, panicked, pc>>

IntrEnd ==
  /\ inIntr /\ seenIdx = usedIdx
  /\ inIntr' = FALSE
  /\ UNCHANGED <<driver, rings, device, panicked, pc>>

-----------------------------------------------------------------------------
(* The device (qemu's virtio-blk), as virtio_disk.c uses it.               *)
DeviceTake ==
  /\ takenIdx # availIdx
  /\ takenIdx' = Inc(takenIdx)
  /\ serving' = serving \cup {avail[takenIdx % NUM]}
  /\ avail' = [avail EXCEPT ![takenIdx % NUM] = None]
  /\ UNCHANGED <<driver, availIdx, used, usedIdx, seenIdx, raised, interrupt,
                 inIntr, panicked, pc>>

(* The block is transferred; only then come the status and the used entry. *)
DeviceServe(i) ==
  /\ i \in serving
  /\ status' = [status EXCEPT ![i] = 0]
  /\ serving' = serving \ {i}
  /\ used' = [used EXCEPT ![usedIdx % NUM] = i]
  /\ usedIdx' = Inc(usedIdx)
  /\ raised' = TRUE
  /\ UNCHANGED <<free, next, header, info, busy, head, avail, availIdx, seenIdx,
                 takenIdx, interrupt, inIntr, panicked, pc>>

DeviceInterrupt ==
  /\ raised
  /\ interrupt' = TRUE /\ raised' = FALSE
  /\ UNCHANGED <<driver, rings, takenIdx, serving, inIntr, panicked, pc>>

Rw(p) == NoDescriptors(p) \/ Submit(p) \/ NotYet(p) \/ Finish(p)
Handler == Intr \/ IntrAnswer \/ IntrEnd
Device == DeviceTake \/ (\E i \in Desc : DeviceServe(i)) \/ DeviceInterrupt

Next ==
  /\ ~panicked
  /\ \/ \E p \in Proc : Call(p) \/ Rw(p) \/ Kill(p)
     \/ Handler
     \/ Device

(* A caller gets vdisk_lock sooner or later, the handler gets it and runs  *)
(* on, the device serves every request and raises every interrupt.         *)
Fairness ==
  /\ \A p \in Proc : SF_vars(Rw(p))
  /\ SF_vars(Intr) /\ WF_vars(IntrAnswer \/ IntrEnd)
  /\ WF_vars(DeviceTake) /\ WF_vars(DeviceInterrupt)
  /\ \A i \in Desc : WF_vars(DeviceServe(i))

Spec == Init /\ [][Next]_vars /\ Fairness

-----------------------------------------------------------------------------
(* Every variable has its type.                                            *)
TypeOK ==
  /\ free \subseteq Desc /\ serving \subseteq Desc
  /\ next \in [Desc -> Desc \cup {None}]
  /\ header \in [Desc -> Proc \cup {None}] /\ info \in [Desc -> Proc \cup {None}]
  /\ status \in [Desc -> {0, 255}]
  /\ {avail, used} \subseteq [Desc -> Desc \cup {None}]
  /\ {availIdx, usedIdx, seenIdx, takenIdx} \subseteq 0 .. IdxSpan - 1
  /\ busy \in [Proc -> BOOLEAN]
  /\ {inIntr, panicked, raised, interrupt} \subseteq BOOLEAN
  /\ pc \in [Proc -> {"out", "call", "free", "freed", "disk", "done"}]
  /\ head \in [Proc -> Desc \cup {None}]

(* A request that has got its descriptors returns, and who sleeps for      *)
(* descriptors is woken: free_desc forgets no sleeper and alloc3_desc      *)
(* gives back what it got.  (Who is woken may be overtaken for ever by     *)
(* callers who come later.)                                                *)
RequestReturns ==
  \A p \in Proc : /\ pc[p] = "disk" ~> pc[p] = "out"
                  /\ pc[p] = "free" ~> pc[p] # "free"

(* Each call is carried out once, and before it returns, whichever order   *)
(* the device answers in.                                                  *)
Abstract == INSTANCE BlockDevice WITH
  call <- [p \in Proc |-> IF pc[p] = "out" THEN "none"
                          ELSE IF head[p] # None /\ status[head[p]] = 0 THEN "done"
                          ELSE "asked"]
ImplementsBlockDevice == Abstract!Spec
=============================================================================
