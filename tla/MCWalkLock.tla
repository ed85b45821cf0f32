----------------------------- MODULE MCWalkLock -----------------------------
(* Instances of WalkLock for TLC.                                          *)
EXTENDS WalkLock, TLC

ProcSymmetry == Permutations(Procs)
=============================================================================
