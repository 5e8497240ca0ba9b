------------------------------- MODULE MCLog -------------------------------
(* Log for TLC: processes and, the disk's first contents aside, blocks are *)
(* interchangeable.                                                        *)
EXTENDS Log, TLC

Symmetry == Permutations(Proc)
============================================================================
