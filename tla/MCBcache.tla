----------------------------- MODULE MCBcache -----------------------------
(* BcacheScan for TLC: processes are interchangeable. *)
EXTENDS BcacheScan, TLC

ProcSymmetry == Permutations(Proc)
===========================================================================
