---------------------------- MODULE MCSemBridge ----------------------------
(* Model-checking instance of SemBridge.                                   *)
EXTENDS SemBridge, TLC

\* The cars of a colour are interchangeable.
Interchangeable == Permutations(Red) \cup Permutations(Blue)
=============================================================================
