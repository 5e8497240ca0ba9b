----------------------------- MODULE MCConsole -----------------------------
(* Console for TLC: processes are interchangeable, and so are characters   *)
(* that are written.  What a character that has been read or sent leaves   *)
(* behind in its slot is never looked at again: states that differ in      *)
(* nothing else are one.                                                   *)
EXTENDS Console, TLC

Symmetry == Permutations(User) \cup Permutations(Written)

InRing == [i \in 1 .. (txW - txR) % UART_TX_BUF_SIZE |-> txBuf[(txR + i - 1) % UART_TX_BUF_SIZE]]
View == <<Held(r, e), r, w, e, locks, InRing, txR, uart, place, key, call>>
============================================================================
