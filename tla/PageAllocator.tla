--------------------------- MODULE PageAllocator ---------------------------
(***************************************************************************)
(* What kalloc.c promises to the rest of the kernel, whatever lists the    *)
(* free pages sit on: a page is either free or in use, kalloc hands out    *)
(* a page that was free, kfree takes back a page that was in use.  At boot *)
(* every page is in use (kernel.ld's image is below them) and freerange    *)
(* frees them one at a time.  A kalloc that answers 0 changes nothing.     *)
(***************************************************************************)
CONSTANT Page

VARIABLES free, used

vars == <<free, used>>

Init == free = {} /\ used = Page

Free(p) ==
  /\ p \in used
  /\ used' = used \ {p}
  /\ free' = free \cup {p}

Alloc(p) ==
  /\ p \in free
  /\ free' = free \ {p}
  /\ used' = used \cup {p}

Next == \E p \in Page : Free(p) \/ Alloc(p)

Spec == Init /\ [][Next]_vars
=============================================================================
