---------------------------- MODULE BlockDevice ----------------------------
(***************************************************************************)
(* What virtio_disk_rw promises to the buffer cache, whose sleep-locks     *)
(* keep two calls off one buffer: the transfer a caller asks for happens   *)
(* once, between its call and its return.                                  *)
(***************************************************************************)
CONSTANT Proc

VARIABLE call   \* call[p]: "none", "asked" or "done"

Init == call = [p \in Proc |-> "none"]

Step(p, from, to) == call[p] = from /\ call' = [call EXCEPT ![p] = to]

Call(p) == Step(p, "none", "asked")
Transfer(p) == Step(p, "asked", "done")
Return(p) == Step(p, "done", "none")

Next == \E p \in Proc : Call(p) \/ Transfer(p) \/ Return(p)

Spec == Init /\ [][Next]_call
===========================================================================
