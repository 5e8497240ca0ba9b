---------------------------- MODULE AtomicDisk ----------------------------
(***************************************************************************)
(* What the logging layer promises to file system calls (the comment at    *)
(* the head of lab3/kernel/log.c): a disk that changes by whole groups of  *)
(* operations.  A crash throws away what was not yet committed; an         *)
(* operation is never cut in two, and the call that ends the last open     *)
(* operation of a group returns only when the whole group is durable.      *)
(***************************************************************************)
CONSTANTS Proc, Block, Value

VARIABLES
  stable,    \* stable[b]: what a machine that starts now finds in block b
  mem,       \* mem[b]: what an operation that reads block b sees
  phase      \* phase[p]: "idle", "open" in an operation, "closing" the group

vars == <<stable, mem, phase>>

Init ==
  /\ stable \in [Block -> Value]
  /\ mem = stable
  /\ phase = [p \in Proc |-> "idle"]

Others(p, s) == \E q \in Proc \ {p} : phase[q] = s

(* An operation starts unless a group is being closed.                     *)
Begin(p) ==
  /\ phase[p] = "idle" /\ ~Others(p, "closing")
  /\ phase' = [phase EXCEPT ![p] = "open"]
  /\ UNCHANGED <<stable, mem>>

Write(p, b, v) ==
  /\ phase[p] = "open"
  /\ mem' = [mem EXCEPT ![b] = v]
  /\ UNCHANGED <<stable, phase>>

(* An operation that is not the last to end returns at once.               *)
End(p) ==
  /\ phase[p] = "open"
  /\ phase' = [phase EXCEPT ![p] = IF Others(p, "open") THEN "idle" ELSE "closing"]
  /\ UNCHANGED <<stable, mem>>

(* All operations of the group become durable in one step.                 *)
Commit(p) ==
  /\ phase[p] = "closing"
  /\ stable' = mem
  /\ UNCHANGED <<mem, phase>>

Return(p) ==
  /\ phase[p] = "closing" /\ stable = mem
  /\ phase' = [phase EXCEPT ![p] = "idle"]
  /\ UNCHANGED <<stable, mem>>

Crash ==
  /\ mem' = stable
  /\ phase' = [p \in Proc |-> "idle"]
  /\ UNCHANGED stable

Next ==
  \/ \E p \in Proc : Begin(p) \/ End(p) \/ Commit(p) \/ Return(p)
  \/ \E p \in Proc, b \in Block, v \in Value : Write(p, b, v)
  \/ Crash

Spec == Init /\ [][Next]_vars
===========================================================================
