------------------------------ MODULE Console ------------------------------
(***************************************************************************)
(* lab3/kernel/console.c and uart.c: line input with editing, output       *)
(* through a ring, and the UART's interrupt handler, which echoes what is  *)
(* typed past the ring.                                                    *)
(*                                                                         *)
(* The kernel runs on several harts; the interrupt controller gives the    *)
(* UART's interrupt to one of them at a time, so its handler is one more   *)
(* actor, Irq.  Locks are spinlocks: while one is held only what does not  *)
(* need it goes on.  sleep(&cons.r) takes two steps, as kill may come in   *)
(* between.  printf, which writes to the UART behind everybody's back, is  *)
(* left out, and so is the process list that control-P prints.             *)
(*                                                                         *)
(* place[a] is where actor a is.  A process is at "user", "write" or       *)
(* "read" with cons.lock held, "sleep", "asleep" or "woken".  Irq is       *)
(* "idle", at "recv" about to read a character, "char" about to take       *)
(* cons.lock, "kill" in the loop of control-U, "echo" and "echoed" in      *)
(* uartputc_sync before and after the test of LSR, "store" behind the      *)
(* echo, or "send".  Both are at "start" and "load" in uartstart, before   *)
(* and after the test.  All are "panicked" once one has called panic.      *)
(***************************************************************************)
EXTENDS Integers, Sequences

CONSTANTS
  User, Irq,         \* processes, and the interrupt handler
  INPUT_BUF,         \* characters cons.buf holds
  UART_TX_BUF_SIZE,  \* slots of uart_tx_buf, of which one stays free
  UintSpan,          \* values of a uint (2^32)
  Written,           \* characters that are written
  Nothing            \* no actor, no character

(* In C, 128 divides 2^32: the index keeps its place when a counter wraps. *)
ASSUME ConsoleAssumption ==
  /\ INPUT_BUF \in Nat \ {0} /\ UART_TX_BUF_SIZE \in Nat /\ UART_TX_BUF_SIZE >= 2
  /\ UintSpan \in Nat /\ UintSpan >= 2 * INPUT_BUF /\ UintSpan % INPUT_BUF = 0
  /\ Irq \notin User /\ Nothing \notin User \cup {Irq}

(* What consoleintr stores ("x" is any other character, "nl" is \n or \r,  *)
(* "eof" is ^D) and what it acts on.                                       *)
Stored == {"x", "nl", "eof"}
Key == Stored \cup {"^U", "^H"}

VARIABLES
  buf, r, w, e,       \* struct cons
  consLock,           \* the actor that holds cons.lock
  txBuf, txR, txW,    \* uart_tx_buf, uart_tx_r, uart_tx_w
  txLock,             \* the actor that holds uart_tx_lock
  thr,                \* UART: the character being sent, or Nothing
  txReady,            \* UART: it interrupts because it can send again
  place,
  key,                \* the handler's character
  copied,             \* copied[p]: consoleread has copied something, n < target
  killed              \* killed[p]: p->killed

cons == <<buf, r, w, e>>
tx == <<txBuf, txR, txW>>
uart == <<thr, txReady>>
locks == <<consLock, txLock>>
call == <<copied, killed>>
consoleVars == <<cons, tx, uart, locks, place, key, call>>

ConsoleInit ==
  /\ buf = [i \in 0 .. INPUT_BUF - 1 |-> "x"] /\ r = 0 /\ w = 0 /\ e = 0
  /\ txBuf = [i \in 0 .. UART_TX_BUF_SIZE - 1 |-> "x"] /\ txR = 0 /\ txW = 0
  /\ consLock = Nothing /\ txLock = Nothing
  /\ thr = Nothing /\ txReady = FALSE
  /\ place = [a \in User \cup {Irq} |-> IF a = Irq THEN "idle" ELSE "user"]
  /\ key = Nothing
  /\ copied = [p \in User |-> FALSE]
  /\ killed = [p \in User |-> FALSE]

Goto(a, l) == place' = [place EXCEPT ![a] = l]
UintInc(n) == (n + 1) % UintSpan
UintDec(n) == (n - 1) % UintSpan
TxInc(n) == (n + 1) % UART_TX_BUF_SIZE
TxEmpty == txW = txR
TxFull == TxInc(txW) = txR

-----------------------------------------------------------------------------
(* consolewrite: cons.lock is held from end to end.                        *)
WriteCall(p) ==
  /\ place[p] = "user" /\ consLock = Nothing
  /\ consLock' = p
  /\ Goto(p, "write")
  /\ UNCHANGED <<cons, tx, uart, txLock, key, copied, killed>>

(* All is written, or either_copyin fails.                                 *)
WriteEnd(p) ==
  /\ place[p] = "write"
  /\ consLock' = Nothing
  /\ Goto(p, "user")
  /\ UNCHANGED <<cons, tx, uart, txLock, key, copied, killed>>

(* uartputc, up to its call of uartstart.                                  *)
Uartputc(p, c) ==
  /\ place[p] = "write" /\ txLock = Nothing /\ ~TxFull
  /\ txBuf' = [txBuf EXCEPT ![txW] = c]
  /\ txW' = TxInc(txW)
  /\ txLock' = p
  /\ Goto(p, "start")
  /\ UNCHANGED <<cons, txR, uart, consLock, key, copied, killed>>

(* uartputc of a full ring sleeps: sched finds cons.lock held besides      *)
(* p->lock and panics ("sched locks").  So nobody ever sleeps here, and    *)
(* uartstart's wakeup wakes nobody.  No actor goes on after a panic.       *)
UartputcFull(p) ==
  /\ place[p] = "write" /\ txLock = Nothing /\ TxFull
  /\ place' = [a \in User \cup {Irq} |-> "panicked"]
  /\ UNCHANGED <<cons, tx, uart, locks, key, call>>

(* uartstart, from uartputc and from uartintr, with uart_tx_lock held.     *)
UartstartEnd(a) ==
  /\ place[a] = "start" /\ (TxEmpty \/ thr # Nothing)
  /\ txLock' = Nothing
  /\ Goto(a, IF a = Irq THEN "idle" ELSE "write")
  /\ UNCHANGED <<cons, tx, uart, consLock, key, call>>

UartstartTest(a) ==
  /\ place[a] = "start" /\ ~TxEmpty /\ thr = Nothing
  /\ Goto(a, "load")
  /\ UNCHANGED <<cons, tx, uart, locks, key, call>>

(* Mutant: the newest character goes first.                                *)
UartstartLoadLast(a) ==
  /\ place[a] = "load"
  /\ thr' = txBuf[(txW - 1) % UART_TX_BUF_SIZE]
  /\ txR' = TxInc(txR)
  /\ Goto(a, "start")
  /\ UNCHANGED <<cons, txBuf, txW, txReady, locks, key, call>>

UartstartLoad(a) ==
  /\ place[a] = "load"
  /\ thr' = txBuf[txR]
  /\ txR' = TxInc(txR)
  /\ Goto(a, "start")
  /\ UNCHANGED <<cons, txBuf, txW, txReady, locks, key, call>>

-----------------------------------------------------------------------------
(* consoleread, of at least one character                                  *)
ReadCall(p) ==
  /\ place[p] = "user" /\ consLock = Nothing
  /\ consLock' = p
  /\ copied' = [copied EXCEPT ![p] = FALSE]
  /\ Goto(p, "read")
  /\ UNCHANGED <<cons, tx, uart, txLock, key, killed>>

(* Back at user level a killed process exits; its slot is another one's.   *)
Return(p) ==
  /\ consLock' = Nothing
  /\ killed' = [killed EXCEPT ![p] = FALSE]
  /\ copied' = [copied EXCEPT ![p] = FALSE]
  /\ Goto(p, "user")

ReadKilled(p) ==
  /\ place[p] = "read" /\ r = w /\ killed[p]
  /\ Return(p)
  /\ UNCHANGED <<cons, tx, uart, txLock, key>>

ReadEmpty(p) ==
  /\ place[p] = "read" /\ r = w /\ ~killed[p]
  /\ Goto(p, "sleep")
  /\ UNCHANGED <<cons, tx, uart, locks, key, call>>

(* ^D ends the call, and is kept for the next one behind other characters. *)
ReadEof(p) ==
  /\ place[p] = "read" /\ r # w
  /\ buf[r % INPUT_BUF] = "eof"
  /\ r' = IF copied[p] THEN r ELSE UintInc(r)
  /\ Return(p)
  /\ UNCHANGED <<buf, w, e, tx, uart, txLock, key>>

(* The call's last character: \n, the n-th, or one that cannot be copied.  *)
ReadLast(p) ==
  /\ place[p] = "read" /\ r # w
  /\ buf[r % INPUT_BUF] # "eof"
  /\ r' = UintInc(r)
  /\ Return(p)
  /\ UNCHANGED <<buf, w, e, tx, uart, txLock, key>>

ReadChar(p) ==
  /\ place[p] = "read" /\ r # w
  /\ buf[r % INPUT_BUF] \notin {"nl", "eof"}
  /\ r' = UintInc(r)
  /\ copied' = [copied EXCEPT ![p] = TRUE]
  /\ UNCHANGED <<buf, w, e, tx, uart, locks, place, key, killed>>

Sleep(p) ==
  /\ place[p] = "sleep"
  /\ consLock' = Nothing
  /\ Goto(p, "asleep")
  /\ UNCHANGED <<cons, tx, uart, txLock, key, call>>

Reacquire(p) ==
  /\ place[p] = "woken" /\ consLock = Nothing
  /\ consLock' = p
  /\ Goto(p, "read")
  /\ UNCHANGED <<cons, tx, uart, txLock, key, call>>

(* kill of a process in consoleread; elsewhere it changes nothing here.    *)
KillReader(p) ==
  /\ place[p] \in {"read", "sleep", "asleep", "woken"} /\ ~killed[p]
  /\ killed' = [killed EXCEPT ![p] = TRUE]
  /\ Goto(p, IF place[p] = "asleep" THEN "woken" ELSE place[p])
  /\ UNCHANGED <<cons, tx, uart, locks, key, copied>>

-----------------------------------------------------------------------------
(* uartintr and consoleintr.  A character may be typed at any time.        *)
Uartintr ==
  /\ place[Irq] = "idle"
  /\ txReady' = FALSE
  /\ Goto(Irq, "recv")
  /\ UNCHANGED <<cons, tx, thr, locks, key, call>>

(* The character that was typed, or Nothing when all have been read.       *)
Uartgetc ==
  /\ place[Irq] = "recv"
  /\ key' \in Key \cup {Nothing}
  /\ Goto(Irq, IF key' = Nothing THEN "send" ELSE "char")
  /\ UNCHANGED <<cons, tx, uart, locks, call>>

NextKey == Goto(Irq, "recv") /\ key' = Nothing

(* Whether consoleintr uses the character; if so it keeps cons.lock.       *)
Used ==
  CASE key = "^U" -> TRUE
    [] key = "^H" -> e # w
    [] OTHER      -> (e - r) % UintSpan < INPUT_BUF

ConsoleintrIgnores ==
  /\ place[Irq] = "char" /\ consLock = Nothing /\ ~Used
  /\ NextKey
  /\ UNCHANGED <<cons, tx, uart, locks, call>>

Consoleintr ==
  /\ place[Irq] = "char" /\ consLock = Nothing /\ Used
  /\ consLock' = Irq
  /\ e' = IF key = "^H" THEN UintDec(e) ELSE e
  /\ Goto(Irq, IF key = "^U" THEN "kill" ELSE "echo")
  /\ UNCHANGED <<buf, r, w, tx, uart, txLock, key, call>>

KillsMore == e # w /\ buf[UintDec(e) % INPUT_BUF] # "nl"

KillLine ==
  /\ place[Irq] = "kill" /\ KillsMore
  /\ e' = UintDec(e)
  /\ Goto(Irq, "echo")
  /\ UNCHANGED <<buf, r, w, tx, uart, locks, key, call>>

KillLineEnd ==
  /\ place[Irq] = "kill" /\ ~KillsMore
  /\ consLock' = Nothing
  /\ NextKey
  /\ UNCHANGED <<cons, tx, uart, txLock, call>>

(* uartputc_sync spins until the UART can send, with cons.lock held.  The  *)
(* three characters that erase one on the screen are one step here.        *)
EchoTest ==
  /\ place[Irq] = "echo" /\ thr = Nothing
  /\ Goto(Irq, "echoed")
  /\ UNCHANGED <<cons, tx, uart, locks, key, call>>

EchoSend ==
  /\ place[Irq] = "echoed"
  /\ thr' = "echo"
  /\ IF key = "^H" THEN NextKey /\ consLock' = Nothing
     ELSE Goto(Irq, IF key = "^U" THEN "kill" ELSE "store") /\ UNCHANGED <<key, consLock>>
  /\ UNCHANGED <<cons, tx, txReady, txLock, call>>

Completes == key \in {"nl", "eof"} \/ UintInc(e) = (r + INPUT_BUF) % UintSpan

(* Mutant: the readers are not woken.                                      *)
StoreSilent ==
  /\ place[Irq] = "store"
  /\ buf' = [buf EXCEPT ![e % INPUT_BUF] = key]
  /\ e' = UintInc(e)
  /\ w' = IF Completes THEN e' ELSE w
  /\ Goto(Irq, "recv")
  /\ consLock' = Nothing /\ key' = Nothing
  /\ UNCHANGED <<r, tx, uart, txLock, call>>

Store ==
  /\ place[Irq] = "store"
  /\ buf' = [buf EXCEPT ![e % INPUT_BUF] = key]
  /\ e' = UintInc(e)
  /\ w' = IF Completes THEN e' ELSE w
  /\ place' = [a \in User \cup {Irq} |-> IF a = Irq THEN "recv"
              ELSE IF Completes /\ place[a] = "asleep" THEN "woken" ELSE place[a]]
  /\ consLock' = Nothing /\ key' = Nothing
  /\ UNCHANGED <<r, tx, uart, txLock, call>>

(* Mutant: uartintr reads only.                                            *)
UartintrReads ==
  /\ place[Irq] = "send"
  /\ Goto(Irq, "idle")
  /\ UNCHANGED <<cons, tx, uart, locks, key, call>>

(* uartintr sends what is buffered when it has read all there is.          *)
UartintrSend ==
  /\ place[Irq] = "send" /\ txLock = Nothing
  /\ txLock' = Irq
  /\ Goto(Irq, "start")
  /\ UNCHANGED <<cons, tx, uart, consLock, key, call>>

-----------------------------------------------------------------------------
(* The UART: "it will interrupt when it's ready for a new byte"            *)
(* (uart.c:149).                                                           *)
Transmit ==
  /\ thr # Nothing
  /\ thr' = Nothing /\ txReady' = TRUE
  /\ UNCHANGED <<cons, tx, locks, place, key, call>>

Write(p) ==
  WriteCall(p) \/ WriteEnd(p) \/ (\E c \in Written : Uartputc(p, c)) \/ UartputcFull(p)

Read(p) ==
  \/ ReadCall(p) \/ ReadKilled(p) \/ ReadEmpty(p) \/ ReadEof(p) \/ ReadLast(p)
  \/ ReadChar(p) \/ Sleep(p) \/ Reacquire(p)

UartHandler ==
  \/ Uartintr \/ Uartgetc \/ ConsoleintrIgnores \/ Consoleintr \/ KillLine
  \/ KillLineEnd \/ EchoTest \/ EchoSend \/ Store \/ UartintrSend

Uartstart(a) == UartstartEnd(a) \/ UartstartTest(a) \/ UartstartLoad(a)

ConsoleNext ==
  \/ \E p \in User : Write(p) \/ Read(p) \/ KillReader(p)
  \/ \E a \in User \cup {Irq} : Uartstart(a)
  \/ UartHandler
  \/ Transmit

ConsoleSpec == ConsoleInit /\ [][ConsoleNext]_consoleVars

-----------------------------------------------------------------------------
(* A reader that sleeps has nothing to read: no finished line is left      *)
(* behind by whoever else reads, by control-D or by a full buffer.         *)
SleepersMustWait ==
  consLock = Nothing => \A p \in User : place[p] = "asleep" => r = w

(* Written characters never get stuck in the ring: the UART is sending,    *)
(* and interrupts when it is ready, or somebody is about to call uartstart.*)
OutputGoesOn ==
  ~TxEmpty => thr # Nothing \/ txReady \/ txLock # Nothing \/ place[Irq] # "idle"

Held(from, to) ==
  [i \in 1 .. (to - from) % UintSpan |-> buf[(from + i - 1) % INPUT_BUF]]

(* The console is a terminal: lines are edited, finished and read in order *)
(* also where the counters wrap, output keeps its order, and neither echo  *)
(* nor output overwrites a character the UART has not sent.                *)
T == INSTANCE Terminal WITH
  Typed <- Stored, Echoed <- {"echo"}, Ends <- {"nl", "eof"},
  Size <- INPUT_BUF, Room <- UART_TX_BUF_SIZE - 1,
  ready <- Held(r, w), line <- Held(w, e),
  queue <- [i \in 1 .. (txW - txR) % UART_TX_BUF_SIZE |->
              txBuf[(txR + i - 1) % UART_TX_BUF_SIZE]],
  wire <- thr, None <- Nothing
ImplementsTerminal == T!Spec
=============================================================================
