------------------------------- MODULE Kalloc -------------------------------
(***************************************************************************)
(* lab3/kernel/kalloc.c: the page allocator with one free list per CPU.    *)
(* kalloc takes a page from the list of its own CPU; when that list is     *)
(* empty it walks the other CPUs' lists, detaches up to Batch pages from   *)
(* the first one that has any, and publishes all but one of them on its    *)
(* own list.                                                               *)
(*                                                                         *)
(* No two kmem locks are ever held together, so one action is one critical *)
(* section (acquire(&kmem[i].lock) ... release).  push_off keeps a CPU     *)
(* inside its kalloc or kfree, so an actor is a CPU and pc[c] says where   *)
(* in kalloc it is.  A page is its page number; a free list is the         *)
(* sequence of the pages on it, its head first.                            *)
(***************************************************************************)
EXTENDS Integers, Sequences, Functions

CONSTANTS NCPU,       \* param.h: number of per-CPU lists
          Batch,      \* most pages one steal detaches (32 in the code)
          FirstPage,  \* page number of PGROUNDUP(end)
          PhysTop     \* page number of PHYSTOP

ASSUME ConstantsAssumption ==
  /\ NCPU \in Nat \ {0}
  /\ Batch \in Nat \ {0}
  /\ FirstPage \in Nat
  /\ PhysTop \in Nat
  /\ FirstPage <= PhysTop

CPU  == 0 .. NCPU - 1
Page == FirstPage .. PhysTop - 1

VARIABLES
  nextPage,   \* the next page freerange will free; PhysTop once booted
  freelist,   \* freelist[c]: kmem[c].freelist
  pc,         \* "idle", "steal" (in the loop of kalloc), "publish"
  offset,     \* offset[c]: kalloc's loop variable
  chain,      \* chain[c]: the detached pages, r first, then spare..last
  used        \* pages some caller of kalloc holds

vars == <<nextPage, freelist, pc, offset, chain, used>>

Init ==
  /\ nextPage = FirstPage
  /\ freelist = [c \in CPU |-> << >>]
  /\ pc = [c \in CPU |-> "idle"]
  /\ offset = [c \in CPU |-> 0]
  /\ chain = [c \in CPU |-> << >>]
  /\ used = {}

Booted == nextPage = PhysTop
Min(m, n) == IF m <= n THEN m ELSE n
Donor(c) == (c + offset[c]) % NCPU

Push(list, p) == <<p>> \o list

(* The n-loop of kalloc: how many pages one steal detaches from list, the  *)
(* detached chain, and what is left on the donor.                          *)
BatchOf(list) == Min(Batch, Len(list))
KeepsLast(list) == SubSeq(list, BatchOf(list), Len(list))      \* mutant
LosesOne(list) == SubSeq(list, BatchOf(list) + 2, Len(list))   \* mutant

Detached(list) == SubSeq(list, 1, BatchOf(list))
LeftBehind(list) == SubSeq(list, BatchOf(list) + 1, Len(list))

(* freerange, run once by the boot CPU before any other CPU starts.        *)
FreeRange ==
  /\ nextPage < PhysTop
  /\ freelist' = [freelist EXCEPT ![nextPage % NCPU] = Push(@, nextPage)]
  /\ nextPage' = nextPage + 1
  /\ UNCHANGED <<pc, offset, chain, used>>

Kfree(c, p) ==
  /\ Booted
  /\ pc[c] = "idle"
  /\ p \in used
  /\ used' = used \ {p}
  /\ freelist' = [freelist EXCEPT ![c] = Push(@, p)]
  /\ UNCHANGED <<nextPage, pc, offset, chain>>

(* kalloc finds a page on its own CPU's list and returns it.               *)
KallocLocal(c) ==
  /\ Booted
  /\ pc[c] = "idle"
  /\ freelist[c] # << >>
  /\ used' = used \cup {Head(freelist[c])}
  /\ freelist' = [freelist EXCEPT ![c] = Tail(@)]
  /\ UNCHANGED <<nextPage, pc, offset, chain>>

(* kalloc finds its own list empty and enters the loop at offset 1.        *)
KallocMiss(c) ==
  /\ Booted
  /\ pc[c] = "idle"
  /\ freelist[c] = << >>
  /\ pc' = [pc EXCEPT ![c] = "steal"]
  /\ offset' = [offset EXCEPT ![c] = 1]
  /\ UNCHANGED <<nextPage, freelist, chain, used>>

(* One turn of the loop whose donor has no page.                           *)
SkipDonor(c) ==
  /\ pc[c] = "steal"
  /\ offset[c] < NCPU
  /\ freelist[Donor(c)] = << >>
  /\ offset' = [offset EXCEPT ![c] = @ + 1]
  /\ UNCHANGED <<nextPage, freelist, pc, chain, used>>

(* One turn of the loop whose donor has several pages to give: detach a    *)
(* batch under the donor's lock.                                           *)
StealBatch(c) ==
  LET list == freelist[Donor(c)] IN
  /\ pc[c] = "steal"
  /\ offset[c] < NCPU
  /\ BatchOf(list) > 1
  /\ chain' = [chain EXCEPT ![c] = Detached(list)]
  /\ freelist' = [freelist EXCEPT ![Donor(c)] = LeftBehind(list)]
  /\ pc' = [pc EXCEPT ![c] = "publish"]
  /\ UNCHANGED <<nextPage, offset, used>>

(* The detached chain is one page long (spare = 0): kalloc returns it.     *)
StealOne(c) ==
  LET list == freelist[Donor(c)] IN
  /\ pc[c] = "steal"
  /\ offset[c] < NCPU
  /\ BatchOf(list) = 1
  /\ used' = used \cup {Head(list)}
  /\ freelist' = [freelist EXCEPT ![Donor(c)] = LeftBehind(list)]
  /\ pc' = [pc EXCEPT ![c] = "idle"]
  /\ offset' = [offset EXCEPT ![c] = 0]
  /\ UNCHANGED <<nextPage, chain>>

(* Mutant: spare = r instead of r->next.                                   *)
PublishAll(c) ==
  /\ pc[c] = "publish"
  /\ freelist' = [freelist EXCEPT ![c] = chain[c] \o @]
  /\ used' = used \cup {Head(chain[c])}
  /\ chain' = [chain EXCEPT ![c] = << >>]
  /\ pc' = [pc EXCEPT ![c] = "idle"]
  /\ offset' = [offset EXCEPT ![c] = 0]
  /\ UNCHANGED nextPage

(* Put the spare pages in front of the own list and return r.              *)
Publish(c) ==
  /\ pc[c] = "publish"
  /\ freelist' = [freelist EXCEPT ![c] = Tail(chain[c]) \o @]
  /\ used' = used \cup {Head(chain[c])}
  /\ chain' = [chain EXCEPT ![c] = << >>]
  /\ pc' = [pc EXCEPT ![c] = "idle"]
  /\ offset' = [offset EXCEPT ![c] = 0]
  /\ UNCHANGED nextPage

(* Mutant: the loop runs to NCPU - 2 and never looks at the last donor.    *)
KallocFailEarly(c) ==
  /\ pc[c] = "steal"
  /\ offset[c] = NCPU - 1
  /\ pc' = [pc EXCEPT ![c] = "idle"]
  /\ offset' = [offset EXCEPT ![c] = 0]
  /\ UNCHANGED <<nextPage, freelist, chain, used>>

(* Every donor was skipped: kalloc returns 0.                              *)
KallocFail(c) ==
  /\ pc[c] = "steal"
  /\ offset[c] = NCPU
  /\ pc' = [pc EXCEPT ![c] = "idle"]
  /\ offset' = [offset EXCEPT ![c] = 0]
  /\ UNCHANGED <<nextPage, freelist, chain, used>>

CPUStep(c) ==
  \/ \E p \in Page : Kfree(c, p)
  \/ KallocLocal(c) \/ KallocMiss(c)
  \/ SkipDonor(c) \/ StealBatch(c) \/ StealOne(c)
  \/ Publish(c) \/ KallocFail(c)

Next == FreeRange \/ \E c \in CPU : CPUStep(c)

Spec == Init /\ [][Next]_vars

-----------------------------------------------------------------------------
(* Every variable has its type; in particular a steal stays inside the     *)
(* kmem array and the lists hold only pages kinit freed.                   *)
TypeOK ==
  /\ nextPage \in FirstPage .. PhysTop
  /\ freelist \in [CPU -> Seq(Page)]
  /\ pc \in [CPU -> {"idle", "steal", "publish"}]
  /\ offset \in [CPU -> 0 .. NCPU]
  /\ chain \in [CPU -> Seq(Page)]
  /\ used \in SUBSET Page

Listed == UNION {Range(freelist[c]) : c \in CPU}
InTransit == UNION {Range(chain[c]) : c \in CPU}
FreePages == Listed \cup InTransit

(* No page is in two places, so no page is handed out twice: it is at most *)
(* once on at most one list, or in the chain one CPU has detached and not  *)
(* yet published, or in use (kalloc.c:94-113, chains are private).         *)
OnePlace ==
  /\ \A c \in CPU : IsInjective(freelist[c]) /\ IsInjective(chain[c])
  /\ \A c, d \in CPU :
       /\ c # d => Range(freelist[c]) \cap Range(freelist[d]) = {}
       /\ c # d => Range(chain[c]) \cap Range(chain[d]) = {}
       /\ Range(freelist[c]) \cap Range(chain[d]) = {}
  /\ FreePages \cap used = {}

(* No page is lost: all that freerange has freed is listed, in transit or  *)
(* in use, in every interleaving of steals, publications and frees.        *)
NoLeak == FreePages \cup used = FirstPage .. nextPage - 1

(* While a CPU is inside kalloc after missing, its own list stays empty:   *)
(* only the CPU itself pushes on it, and it is busy.  So publishing never  *)
(* buries pages, and last->next = kmem[id].freelist (kalloc.c:111) always  *)
(* stores 0.                                                               *)
OwnListEmptyInKalloc ==
  \A c \in CPU : pc[c] # "idle" => freelist[c] = << >>

(* The chain a publishing CPU holds is r followed by at least one spare,   *)
(* and no CPU holds a chain otherwise.                                     *)
ChainWhilePublishing ==
  \A c \in CPU :
    IF pc[c] = "publish" THEN Len(chain[c]) \in 2 .. Batch
                         ELSE chain[c] = << >>

(* Seen from its callers kalloc.c is the plain allocator of PageAllocator: *)
(* the lists and the private chains together are its free set, and pages   *)
(* freerange has not reached are still in use.                             *)
Allocator == INSTANCE PageAllocator
  WITH free <- FreePages, used <- used \cup nextPage .. PhysTop - 1

ImplementsAllocator == Allocator!Spec
=============================================================================
