----------------------------- MODULE KallocScan -----------------------------
(***************************************************************************)
(* Kalloc with a history variable that follows what each kalloc in the    *)
(* steal loop could have found: kalloc looks at the lists one after the    *)
(* other, never at all of them at once.                                    *)
(***************************************************************************)
EXTENDS Kalloc

VARIABLE stayed  \* stayed[c]: pages on one and the same list since c missed

scanVars == <<vars, stayed>>

HomesOf(p) == {c \in CPU : p \in Range(freelist[c])}

ScanInit ==
  /\ Init
  /\ stayed = [c \in CPU |-> {}]

Missed(c) == pc[c] = "idle" /\ pc'[c] = "steal"

Observe ==
  stayed' = [c \in CPU |->
    CASE Missed(c) -> Listed'
      [] pc[c] = "steal" /\ pc'[c] = "steal" -> {p \in stayed[c] : HomesOf(p)' = HomesOf(p)}
      [] OTHER -> {}]

(* Next, action by action.                                                 *)
ScanNext ==
  \/ FreeRange /\ Observe
  \/ \E c \in CPU :
       \/ \E p \in Page : Kfree(c, p) /\ Observe
       \/ KallocLocal(c) /\ Observe
       \/ KallocMiss(c) /\ Observe
       \/ SkipDonor(c) /\ Observe
       \/ StealBatch(c) /\ Observe
       \/ StealOne(c) /\ Observe
       \/ Publish(c) /\ Observe
       \/ KallocFail(c) /\ Observe

ScanSpec == ScanInit /\ [][ScanNext]_scanVars

-----------------------------------------------------------------------------
(* What the scan does guarantee: when kalloc answers 0, no page sat on one *)
(* list from the moment the CPU missed until the answer.                   *)
NullMeansNothingStayed ==
  [][\A c \in CPU : KallocFail(c) => stayed[c] = {}]_scanVars
=============================================================================
