------------------------------- MODULE MCTimer ------------------------------
(* Instances of Timer for TLC.                                              *)
EXTENDS Timer, TLC

Symmetry == Permutations(Timers)
=============================================================================
