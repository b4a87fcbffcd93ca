----------------------------- MODULE MCSemTrain -----------------------------
(* Model-checking instance of SemTrain.                                    *)
EXTENDS SemTrain, TLC

\* The passengers are interchangeable.
Interchangeable == Permutations(Clients)
=============================================================================
