------------------------------ MODULE Terminal ------------------------------
(***************************************************************************)
(* What the console promises.  Characters are typed into a line that can   *)
(* be edited until it ends; finished lines are read in order, each         *)
(* character once, and at most Size characters are kept.  Written          *)
(* characters go out in order, and the transmitter gets the next character *)
(* when it has sent the last, so that none is overwritten.                 *)
(***************************************************************************)
EXTENDS Naturals, Sequences

CONSTANTS
  Typed, Ends,     \* characters that are typed, and those of them that end a line
  Written, Echoed, \* characters that are written, and what typing shows
  Size, Room,      \* characters the input and the output hold
  None

VARIABLES
  ready,  \* characters of finished lines
  line,   \* the line being typed
  queue,  \* characters written and not yet handed to the transmitter
  wire    \* the character the transmitter is sending, or None

input == <<ready, line>>
output == <<queue, wire>>
vars == <<input, output>>

Init == ready = <<>> /\ line = <<>> /\ queue = <<>> /\ wire = None

(* A line ends with one of Ends, or when there is no more room for it.     *)
Type(c) ==
  /\ Len(ready) + Len(line) < Size
  /\ IF c \in Ends \/ Len(ready) + Len(line) + 1 = Size
     THEN ready' = ready \o Append(line, c) /\ line' = <<>>
     ELSE line' = Append(line, c) /\ UNCHANGED ready
  /\ UNCHANGED output

Erase ==
  /\ line # <<>>
  /\ line' = SubSeq(line, 1, Len(line) - 1)
  /\ UNCHANGED <<ready, output>>

Take ==
  /\ ready # <<>>
  /\ ready' = Tail(ready)
  /\ UNCHANGED <<line, output>>

Put(c) ==
  /\ Len(queue) < Room
  /\ queue' = Append(queue, c)
  /\ UNCHANGED <<input, wire>>

Load ==
  /\ queue # <<>> /\ wire = None
  /\ wire' = Head(queue) /\ queue' = Tail(queue)
  /\ UNCHANGED input

(* Echo goes past what is queued.                                          *)
Echo(c) ==
  /\ wire = None
  /\ wire' = c
  /\ UNCHANGED <<input, queue>>

Send ==
  /\ wire # None
  /\ wire' = None
  /\ UNCHANGED <<input, queue>>

Next ==
  \/ Erase \/ Take \/ Load \/ Send
  \/ \E c \in Typed : Type(c)
  \/ \E c \in Written : Put(c)
  \/ \E c \in Echoed : Echo(c)

Spec == Init /\ [][Next]_vars
=============================================================================
