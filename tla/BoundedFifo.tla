---------------------------- MODULE BoundedFifo ----------------------------
(***************************************************************************)
(* What a pipe promises: at most Size bytes are under way, they come out   *)
(* in the order they went in, each once, none goes in when every writer    *)
(* has gone and none comes out when every reader has.                      *)
(***************************************************************************)
EXTENDS Naturals, Sequences

CONSTANTS Byte, Size

VARIABLES
  queue,     \* the bytes under way
  sending,   \* somebody may still write
  receiving  \* somebody may still read

vars == <<queue, sending, receiving>>

Init == queue = <<>> /\ sending = TRUE /\ receiving = TRUE

Put(b) ==
  /\ sending /\ Len(queue) < Size
  /\ queue' = Append(queue, b)
  /\ UNCHANGED <<sending, receiving>>

Take ==
  /\ receiving /\ queue # <<>>
  /\ queue' = Tail(queue)
  /\ UNCHANGED <<sending, receiving>>

CloseSend == sending /\ sending' = FALSE /\ UNCHANGED <<queue, receiving>>
CloseReceive == receiving /\ receiving' = FALSE /\ UNCHANGED <<queue, sending>>

Next == (\E b \in Byte : Put(b)) \/ Take \/ CloseSend \/ CloseReceive

Spec == Init /\ [][Next]_vars
=============================================================================
