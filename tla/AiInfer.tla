------------------------------ MODULE AiInfer ------------------------------
(***************************************************************************)
(* lab3/user: aiinfer.c runs workers behind a start pipe, each of which    *)
(* stores the records of its requests in a file and restores them, itself  *)
(* ("student") or through a helper process that reads ahead ("prefetch"):  *)
(* ai_student.c, ai_student_kv.c, ai_student_prefetch.c.                   *)
(*                                                                         *)
(* A pipe is what Pipe shows it to be, a bounded queue; ends[c] says which *)
(* processes hold an end of it, for that decides who sees end of file.     *)
(* Units <<i, k>> stand for bytes: a record is RECORD of them and does not *)
(* fit into a pipe, a result does.                                         *)
(*                                                                         *)
(* Any call that may fail for want of memory or disk may do so, and so may *)
(* any check of what was measured; fault then says that something went     *)
(* wrong.  Besides worker_main, the worker stands for other clients of a   *)
(* session, which may end it early.                                        *)
(***************************************************************************)
EXTENDS Integers, Sequences, FiniteSets

CONSTANTS W, Requests, CAPACITY, RECORD, RESULT

ASSUME AiInferAssumption ==
  /\ {W, Requests, CAPACITY, RECORD, RESULT} \subseteq Nat \ {0}
  /\ W <= CAPACITY /\ RESULT <= CAPACITY

Worker == 1 .. W
main == <<"main", 0>>
worker(w) == <<"worker", w>>
helper(w) == <<"helper", w>>
Process == {main} \cup {<<kind, w>> : kind \in {"worker", "helper"}, w \in Worker}
start == <<"start", 0>>
PipeOf(kind, w) == <<kind, w>>
Pipes == {start} \cup {<<kind, w>> : kind \in {"result", "command", "data"}, w \in Worker}

VARIABLES
  mode,      \* "student" or "prefetch"
  queue,     \* queue[c]: what is under way in pipe c
  ends,      \* ends[c]: who holds its read and its write end
  point,     \* point[p]: "none" before p is forked, "done" or "failed" after exit
  turn,      \* turn[p]: worker, request or expected request p is at
  part,      \* part[p]: what p has received of a transfer, or has yet to send
  phase,     \* phase[w]: state[PHASE] of the session
  open,      \* open[w]: the session's file is open
  stored,    \* stored[w]: records in the file, -1 when there is none
  window,    \* window[w]: "NONE" when there is no prefetch context
  restored,  \* restored[w]: the records handed out
  fault

session == <<phase, open, stored, window, restored>>
runVars == <<mode, queue, ends, point, turn, part, session, fault>>

Ended == {"done", "failed"}
Record(i) == [k \in 1 .. RECORD |-> <<i, k>>]
Least(a, b) == IF a < b THEN a ELSE b
NoEnds == [r |-> {}, w |-> {}]

RunInit ==
  /\ mode \in {"student", "prefetch"}
  /\ queue = [c \in Pipes |-> <<>>]
  /\ ends = [c \in Pipes |-> IF c[1] \in {"start", "result"} THEN [r |-> {main}, w |-> {main}] ELSE NoEnds]
  /\ point = [p \in Process |-> IF p = main THEN "fork" ELSE "none"]
  /\ turn = [p \in Process |-> IF p = main THEN 1 ELSE 0]
  /\ part = [p \in Process |-> <<>>]
  /\ phase = [w \in Worker |-> "CLOSED"] /\ open = [w \in Worker |-> FALSE]
  /\ stored = [w \in Worker |-> -1] /\ window = [w \in Worker |-> "NONE"]
  /\ restored = [w \in Worker |-> <<>>]
  /\ fault = FALSE

-----------------------------------------------------------------------------
(* Pipes and processes                                                     *)

Drop(p, reads, writes) ==
  [c \in Pipes |-> [r |-> ends[c].r \ IF c \in reads THEN {p} ELSE {},
                    w |-> ends[c].w \ IF c \in writes THEN {p} ELSE {}]]

Inherit(e, p, child) ==
  [c \in Pipes |-> [r |-> e[c].r \cup IF p \in e[c].r THEN {child} ELSE {},
                    w |-> e[c].w \cup IF p \in e[c].w THEN {child} ELSE {}]]

At(p, here) == point[p] = here
Go(p, there) == point' = [point EXCEPT ![p] = there]

Exit(p, status) ==
  /\ Go(p, status)
  /\ ends' = Drop(p, Pipes, Pipes)
  /\ part' = [part EXCEPT ![p] = <<>>]
  /\ UNCHANGED <<mode, queue, turn, session>>

(* fail()                                                                  *)
Fail(p) == Exit(p, "failed") /\ UNCHANGED fault

(* read of at most need units, which waits for the first; end of file.     *)
Receive(p, c, need) ==
  LET k == Least(need, Len(queue[c])) IN
  /\ queue[c] # <<>>
  /\ part' = [part EXCEPT ![p] = @ \o SubSeq(queue[c], 1, k)]
  /\ queue' = [queue EXCEPT ![c] = SubSeq(@, k + 1, Len(@))]
Eof(c) == queue[c] = <<>> /\ ends[c].w = {}

(* write, as far as there is room; no reader, which only a full pipe       *)
(* shows (the start pipe and those of results are never full).             *)
Send(p, c) ==
  LET k == Least(CAPACITY - Len(queue[c]), Len(part[p])) IN
  /\ Len(queue[c]) < CAPACITY
  /\ queue' = [queue EXCEPT ![c] = @ \o SubSeq(part[p], 1, k)]
  /\ part' = [part EXCEPT ![p] = SubSeq(@, k + 1, Len(@))]
Broken(c) == Len(queue[c]) = CAPACITY /\ ends[c].r = {}

-----------------------------------------------------------------------------
(* run_path                                                                *)

ForkWorker ==
  LET w == turn[main] IN
  /\ At(main, "fork") /\ w <= W
  /\ turn' = [turn EXCEPT ![main] = w + 1]
  /\ \/ /\ Go(worker(w), "born")
        /\ ends' = Inherit(ends, main, worker(w))
        /\ UNCHANGED fault
     \/ UNCHANGED <<point, ends>> /\ fault' = TRUE
  /\ UNCHANGED <<mode, queue, part, session>>

Forked ==
  /\ At(main, "fork") /\ turn[main] > W
  /\ Go(main, "start")
  /\ ends' = Drop(main, {start}, {PipeOf("result", w) : w \in Worker})
  /\ part' = [part EXCEPT ![main] = [w \in Worker |-> <<0, 0>>]]
  /\ UNCHANGED <<mode, queue, turn, session, fault>>

Start ==
  /\ At(main, "start")
  /\ \/ part[main] # <<>> /\ Send(main, start) /\ UNCHANGED <<point, ends, turn>>
     \/ /\ part[main] = <<>>
        /\ Go(main, "wait")
        /\ ends' = Drop(main, {}, {start})
        /\ turn' = [turn EXCEPT ![main] = 1]
        /\ UNCHANGED <<queue, part>>
  /\ UNCHANGED <<mode, session, fault>>

(* One wait per worker returns when all are gone, those never forked too;  *)
(* that no tick went by meanwhile is MainGivesUp's.                        *)
WaitWorkers ==
  /\ At(main, "wait")
  /\ \A w \in Worker : point[worker(w)] \in Ended \cup {"none"}
  /\ Go(main, "collect")
  /\ UNCHANGED <<mode, queue, ends, turn, part, session, fault>>

Collect ==
  LET c == PipeOf("result", turn[main]) IN
  /\ At(main, "collect") /\ turn[main] <= W
  /\ IF Len(part[main]) < RESULT
     THEN Receive(main, c, RESULT - Len(part[main])) /\ UNCHANGED <<ends, turn>>
     ELSE /\ ends' = Drop(main, {c}, {})
          /\ turn' = [turn EXCEPT ![main] = @ + 1]
          /\ part' = [part EXCEPT ![main] = <<>>]
          /\ UNCHANGED queue
  /\ UNCHANGED <<mode, point, session, fault>>

MainExits ==
  \/ At(main, "collect") /\ turn[main] > W /\ Exit(main, "done") /\ UNCHANGED fault
  \/ /\ At(main, "collect") /\ turn[main] <= W /\ Len(part[main]) < RESULT
     /\ Eof(PipeOf("result", turn[main])) /\ Fail(main)

-----------------------------------------------------------------------------
(* worker_main: the session up to the prefetch                             *)

Begin(w) ==
  /\ At(worker(w), "born")
  /\ Go(worker(w), "barrier")
  /\ ends' = Drop(worker(w), {PipeOf("result", v) : v \in Worker},
                  {start} \cup {PipeOf("result", v) : v \in Worker \ {w}})
  /\ phase' = [phase EXCEPT ![w] = "INITIALIZED"]
  /\ UNCHANGED <<mode, queue, turn, part, open, stored, window, restored, fault>>

Barrier(w) ==
  /\ At(worker(w), "barrier")
  /\ \/ part[worker(w)] = <<>> /\ Receive(worker(w), start, 1) /\ UNCHANGED <<point, ends>>
     \/ /\ part[worker(w)] # <<>>
        /\ Go(worker(w), "write")
        /\ ends' = Drop(worker(w), {start}, {})
        /\ part' = [part EXCEPT ![worker(w)] = <<>>]
        /\ UNCHANGED queue
  /\ UNCHANGED <<mode, turn, session, fault>>

BarrierBroken(w) == At(worker(w), "barrier") /\ part[worker(w)] = <<>> /\ Eof(start) /\ Fail(worker(w))

KvBeginWrite(w) ==
  /\ At(worker(w), "write") /\ phase[w] = "INITIALIZED"
  /\ Go(worker(w), "store")
  /\ phase' = [phase EXCEPT ![w] = "WRITING"]
  /\ open' = [open EXCEPT ![w] = TRUE]
  /\ stored' = [stored EXCEPT ![w] = 0]
  /\ UNCHANGED <<mode, queue, ends, turn, part, window, restored, fault>>

KvStore(w) ==
  /\ At(worker(w), "store") /\ phase[w] = "WRITING" /\ stored[w] < Requests
  /\ stored' = [stored EXCEPT ![w] = @ + 1]
  /\ UNCHANGED <<mode, queue, ends, point, turn, part, phase, open, window, restored, fault>>

KvEndWrite(w) ==
  /\ At(worker(w), "store") /\ phase[w] = "WRITING" /\ stored[w] = Requests
  /\ Go(worker(w), "read")
  /\ phase' = [phase EXCEPT ![w] = "STORED"]
  /\ open' = [open EXCEPT ![w] = FALSE]
  /\ UNCHANGED <<mode, queue, ends, turn, part, stored, window, restored, fault>>

KvBeginRead(w) ==
  /\ At(worker(w), "read") /\ phase[w] = "STORED"
  /\ Go(worker(w), IF mode = "prefetch" THEN "begin" ELSE "restore")
  /\ phase' = [phase EXCEPT ![w] = "READING"]
  /\ open' = [open EXCEPT ![w] = TRUE]
  /\ UNCHANGED <<mode, queue, ends, turn, part, stored, window, restored, fault>>

KvRestore(w) ==
  /\ mode = "student" /\ At(worker(w), "restore") /\ phase[w] = "READING" /\ turn[worker(w)] < stored[w]
  /\ restored' = [restored EXCEPT ![w] = Append(@, Record(turn[worker(w)]))]
  /\ turn' = [turn EXCEPT ![worker(w)] = @ + 1]
  /\ Go(worker(w), IF turn[worker(w)] + 1 = Requests THEN "end" ELSE "restore")
  /\ UNCHANGED <<mode, queue, ends, part, phase, open, stored, window, fault>>

-----------------------------------------------------------------------------
(* The prefetch                                                            *)

PrefetchBegin(w) ==
  LET own == Inherit([c \in Pipes |-> IF c \in {PipeOf("command", w), PipeOf("data", w)}
                                      THEN [r |-> {worker(w)}, w |-> {worker(w)}] ELSE ends[c]],
                     worker(w), helper(w)) IN
  /\ At(worker(w), "begin")
  /\ point' = [point EXCEPT ![worker(w)] = "next", ![helper(w)] = "open"]
  /\ ends' = [own EXCEPT ![PipeOf("command", w)].r = @ \ {worker(w)},
                         ![PipeOf("data", w)].w = @ \ {worker(w)}]
  /\ open' = [open EXCEPT ![w] = FALSE]
  /\ window' = [window EXCEPT ![w] = "EMPTY"]
  /\ UNCHANGED <<mode, queue, turn, part, phase, stored, restored, fault>>

PrefetchNext(w) ==
  LET c == PipeOf("command", w) IN
  /\ At(worker(w), "next") /\ window[w] = "EMPTY" /\ Len(queue[c]) < CAPACITY
  /\ queue' = [queue EXCEPT ![c] = Append(@, <<turn[worker(w)], 0>>)]
  /\ window' = [window EXCEPT ![w] = "PENDING"]
  /\ Go(worker(w), "wait")
  /\ UNCHANGED <<mode, ends, turn, part, phase, open, stored, restored, fault>>

(* prefetch_wait: the reply, then the record.                              *)
Reply(w) == part[worker(w)]
ReplyIsWrong(w) == Reply(w) # <<>> /\ Reply(w)[1] # <<turn[worker(w)], 0>>

(* Mutant: a short read passes for a whole record.                         *)
PrefetchWaitShort(w) ==
  /\ At(worker(w), "wait") /\ window[w] = "PENDING" /\ ~ReplyIsWrong(w)
  /\ IF Len(Reply(w)) < 2
     THEN Receive(worker(w), PipeOf("data", w), RECORD) /\ UNCHANGED <<point, window>>
     ELSE /\ Go(worker(w), "restore")
          /\ window' = [window EXCEPT ![w] = "READY"]
          /\ UNCHANGED <<queue, part>>
  /\ UNCHANGED <<mode, ends, turn, phase, open, stored, restored, fault>>

PrefetchWait(w) ==
  LET need == IF Reply(w) = <<>> THEN 1 ELSE 1 + RECORD - Len(Reply(w)) IN
  /\ At(worker(w), "wait") /\ window[w] = "PENDING" /\ ~ReplyIsWrong(w)
  /\ IF need > 0
     THEN Receive(worker(w), PipeOf("data", w), need) /\ UNCHANGED <<point, window>>
     ELSE /\ Go(worker(w), "restore")
          /\ window' = [window EXCEPT ![w] = "READY"]
          /\ UNCHANGED <<queue, part>>
  /\ UNCHANGED <<mode, ends, turn, phase, open, stored, restored, fault>>

PrefetchWaitFails(w) ==
  /\ At(worker(w), "wait") /\ window[w] = "PENDING"
  /\ Len(Reply(w)) <= RECORD
  /\ ReplyIsWrong(w) \/ Eof(PipeOf("data", w))
  /\ window' = [window EXCEPT ![w] = "FAILED"]
  /\ part' = [part EXCEPT ![worker(w)] = <<>>]
  /\ Go(worker(w), "stuck")
  /\ UNCHANGED <<mode, queue, ends, turn, phase, open, stored, restored, fault>>

PrefetchRestore(w) ==
  /\ At(worker(w), "restore") /\ window[w] = "READY"
  /\ restored' = [restored EXCEPT ![w] = Append(@, Tail(Reply(w)))]
  /\ turn' = [turn EXCEPT ![worker(w)] = @ + 1]
  /\ window' = [window EXCEPT ![w] = "EMPTY"]
  /\ part' = [part EXCEPT ![worker(w)] = <<>>]
  /\ Go(worker(w), IF turn[worker(w)] + 1 = Requests THEN "end" ELSE "next")
  /\ UNCHANGED <<mode, queue, ends, phase, open, stored, fault>>

(* Mutant: the helper keeps the write end of its own command pipe.         *)
HelperOpensAll(w) ==
  /\ At(helper(w), "open")
  /\ Go(helper(w), "command")
  /\ UNCHANGED <<mode, queue, ends, turn, part, session, fault>>

(* helper: it keeps the ends it needs, and its worker's result pipe.       *)
HelperOpens(w) ==
  /\ At(helper(w), "open")
  /\ Go(helper(w), "command")
  /\ ends' = Drop(helper(w), {PipeOf("data", w)}, {PipeOf("command", w)})
  /\ UNCHANGED <<mode, queue, turn, part, session, fault>>

HelperCommand(w) ==
  /\ At(helper(w), "command")
  /\ IF part[helper(w)] = <<>>
     THEN Receive(helper(w), PipeOf("command", w), 1) /\ UNCHANGED <<point>>
     ELSE /\ part[helper(w)] = <<<<turn[helper(w)], 0>>>> /\ turn[helper(w)] < stored[w]
          /\ part' = [part EXCEPT ![helper(w)] = @ \o Record(turn[helper(w)])]
          /\ Go(helper(w), "send")
          /\ UNCHANGED queue
  /\ UNCHANGED <<mode, ends, turn, session, fault>>

(* Mutant: expected stays behind.                                          *)
HelperSendAgain(w) ==
  /\ At(helper(w), "send")
  /\ \/ part[helper(w)] # <<>> /\ Send(helper(w), PipeOf("data", w)) /\ UNCHANGED point
     \/ part[helper(w)] = <<>> /\ Go(helper(w), "command") /\ UNCHANGED <<queue, part>>
  /\ UNCHANGED <<mode, ends, turn, session, fault>>

HelperSend(w) ==
  /\ At(helper(w), "send")
  /\ \/ part[helper(w)] # <<>> /\ Send(helper(w), PipeOf("data", w)) /\ UNCHANGED <<point, turn>>
     \/ /\ part[helper(w)] = <<>>
        /\ Go(helper(w), "command")
        /\ turn' = [turn EXCEPT ![helper(w)] = @ + 1]
        /\ UNCHANGED <<queue, part>>
  /\ UNCHANGED <<mode, ends, session, fault>>

(* An unexpected request, or nobody to send to.                            *)
Refuses(w) ==
  \/ At(helper(w), "command") /\ part[helper(w)] \notin {<<>>, <<<<turn[helper(w)], 0>>>>}
  \/ At(helper(w), "send") /\ part[helper(w)] # <<>> /\ Broken(PipeOf("data", w))

HelperExits(w) ==
  \/ /\ At(helper(w), "command") /\ part[helper(w)] = <<>> /\ Eof(PipeOf("command", w))
     /\ Exit(helper(w), "done") /\ UNCHANGED fault
  \/ Refuses(w) /\ Fail(helper(w))

(* open or read fails.                                                     *)
HelperFails(w) ==
  /\ At(helper(w), "open") \/ (At(helper(w), "command") /\ part[helper(w)] # <<>>)
  /\ Exit(helper(w), "failed") /\ fault' = TRUE

-----------------------------------------------------------------------------
(* The end of a session                                                    *)

PrefetchEnd(w) ==
  /\ At(worker(w), "end") /\ window[w] # "NONE"
  /\ Go(worker(w), "reap")
  /\ ends' = Drop(worker(w), {PipeOf("data", w)}, {PipeOf("command", w)})
  /\ UNCHANGED <<mode, queue, turn, part, session, fault>>

(* wait for the helper, and what follows in student_end; a client that had *)
(* not restored everything gives up then.                                  *)
SessionEnd(w) ==
  /\ \/ At(worker(w), "reap") /\ point[helper(w)] \in Ended
     \/ At(worker(w), "end") /\ window[w] = "NONE"
  /\ Go(worker(w), IF turn[worker(w)] = Requests THEN "result" ELSE "ended")
  /\ part' = [part EXCEPT ![worker(w)] = IF turn[worker(w)] = Requests
                                         THEN [k \in 1 .. RESULT |-> <<w, k>>] ELSE <<>>]
  /\ window' = [window EXCEPT ![w] = "NONE"]
  /\ phase' = [phase EXCEPT ![w] = "CLOSED"]
  /\ open' = [open EXCEPT ![w] = FALSE]
  /\ stored' = [stored EXCEPT ![w] = -1]
  /\ UNCHANGED <<mode, queue, ends, turn, restored, fault>>

WorkerResult(w) ==
  /\ At(worker(w), "result") /\ part[worker(w)] # <<>>
  /\ Send(worker(w), PipeOf("result", w))
  /\ UNCHANGED <<mode, ends, point, turn, session, fault>>

WorkerExits(w) ==
  \/ At(worker(w), "result") /\ part[worker(w)] = <<>> /\ Exit(worker(w), "done") /\ UNCHANGED fault
  \/ point[worker(w)] \in {"stuck", "ended"} /\ Fail(worker(w))

(* A call fails, or sbrk does, also between prefetch_next and              *)
(* prefetch_wait and behind the last record: the worker exits with its     *)
(* session open.                                                           *)
GiveUp(w) ==
  /\ \/ point[worker(w)] \in {"born", "write", "store", "read", "begin", "next", "restore", "end"}
     \/ At(worker(w), "wait") /\ Reply(w) = <<>>
  /\ Exit(worker(w), "failed") /\ fault' = TRUE

(* A client ends its session wherever it is between two calls.             *)
EndEarly(w) ==
  /\ \/ point[worker(w)] \in {"write", "store", "read", "begin", "next", "restore", "stuck"}
     \/ At(worker(w), "wait") /\ Reply(w) = <<>>
  /\ Go(worker(w), "end")
  /\ fault' = TRUE
  /\ UNCHANGED <<mode, queue, ends, turn, part, session>>

(* run_path refuses what it measured: statistics that cannot be read or    *)
(* run backwards, no tick between start and end, a byte count of a result, *)
(* a sum of zero.                                                          *)
MainGivesUp ==
  /\ At(main, "start") \/ (At(main, "collect") /\ part[main] = <<>>)
  /\ Exit(main, "failed") /\ fault' = TRUE

MainStep == ForkWorker \/ Forked \/ Start \/ WaitWorkers \/ Collect \/ MainExits
WorkerStep(w) ==
  \/ Begin(w) \/ Barrier(w) \/ BarrierBroken(w) \/ KvBeginWrite(w) \/ KvStore(w) \/ KvEndWrite(w)
  \/ KvBeginRead(w) \/ KvRestore(w) \/ PrefetchBegin(w) \/ PrefetchNext(w)
  \/ PrefetchWait(w) \/ PrefetchWaitFails(w)
  \/ PrefetchRestore(w) \/ PrefetchEnd(w) \/ SessionEnd(w) \/ WorkerResult(w) \/ WorkerExits(w)
HelperStep(w) == HelperOpens(w) \/ HelperCommand(w) \/ HelperSend(w) \/ HelperExits(w)

RunNext ==
  \/ MainStep \/ MainGivesUp
  \/ \E w \in Worker : WorkerStep(w) \/ HelperStep(w) \/ HelperFails(w) \/ GiveUp(w) \/ EndEarly(w)

(* Processes run; a call that waits is not saved by a failure elsewhere.   *)
RunSpec ==
  /\ RunInit /\ [][RunNext]_runVars
  /\ WF_runVars(MainStep)
  /\ \A w \in Worker : WF_runVars(WorkerStep(w)) /\ WF_runVars(HelperStep(w))

-----------------------------------------------------------------------------
(* Properties                                                              *)

(* What a session hands out is what was stored for that request, whole,    *)
(* whoever read it and in whatever pieces it came (aiinfer compares the    *)
(* checksums of the two ways).                                             *)
RestoredIsStored ==
  \A w \in Worker : \A i \in 1 .. Len(restored[w]) : restored[w][i] = Record(i - 1)

(* A worker fails, or run_path does, only if some call failed or a check   *)
(* of the figures did (no time went by, aiinfer.c:515): neither the order  *)
(* of closes and exits nor a short read makes one.                         *)
FailsOnlyOnFault ==
  \A p \in Process : point[p] = "failed" => fault

(* The run comes to its end, and every process with it, whoever fails or   *)
(* gives up where: closed pipe ends stop the helpers and the workers.      *)
RunEnds == <>(\A p \in Process : point[p] \in Ended \cup {"none"})
=============================================================================
