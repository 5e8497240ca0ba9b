-------------------------------- MODULE MCFs --------------------------------
(* Fs for TLC: processes are interchangeable. *)
EXTENDS FsStray, TLC

Symmetry == Permutations(Proc)
=============================================================================
