----------------------------- MODULE BcacheScan -----------------------------
(***************************************************************************)
(* Bcache with history variables for the scan of bget: it looks at one     *)
(* buffer at a time and holds evict, which does not stop hits and brelse   *)
(* from changing reference counts ahead of the hand and behind it.         *)
(***************************************************************************)
EXTENDS Bcache

VARIABLE stayedIdle  \* stayedIdle[p]: buffers unreferenced since p began to scan

scanVars == <<vars, stayedIdle>>

Idle == {b \in Buf : refcnt[b] = 0}

ScanInit ==
  /\ Init
  /\ stayedIdle = [p \in Proc |-> {}]

Observe ==
  stayedIdle' = [p \in Proc |->
    CASE pc'[p] # "scan" -> {}
      [] pc[p] # "scan"  -> Idle'
      [] OTHER           -> stayedIdle[p] \cap Idle']

(* Next, action by action.                                                 *)
ScanNext ==
  \E p \in Proc :
    \/ \E k \in Block : Lookup(p, k) /\ Observe
    \/ LookAgain(p) /\ Observe
    \/ ScanTake(p) /\ Observe
    \/ ScanSkip(p) /\ Observe
    \/ Install(p) /\ Observe
    \/ Lock(p) /\ Observe
    \/ Load(p) /\ Observe
    \/ \E v \in Value : LogWrite(p, v) /\ Observe
    \/ Bwrite(p) /\ Observe
    \/ Bunpin(p) /\ Observe
    \/ Brelse(p) /\ Observe
    \/ Deref(p) /\ Observe

ScanSpec == ScanInit /\ [][ScanNext]_scanVars

Panics(p) == pc[p] = "scan" /\ pc'[p] = "panic"

(* A scan that gives up missed no buffer that was idle all along: the hand *)
(* passes each buffer once, wherever an earlier miss left it.  It may      *)
(* still panic although some buffer was idle at each moment: one released  *)
(* behind the hand while the one ahead of it is taken (bio.c:124).         *)
PanicMeansNothingStayedIdle ==
  [][\A p \in Proc : Panics(p) => stayedIdle[p] = {}]_scanVars
=============================================================================
