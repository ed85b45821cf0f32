------------------------------- MODULE MCWalk -------------------------------
(* Instances of Walk for TLC.                                               *)
EXTENDS Walk, TLC

CallerSymmetry == Permutations(Callers)
=============================================================================
