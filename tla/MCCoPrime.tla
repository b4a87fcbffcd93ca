----------------------------- MODULE MCCoPrime -----------------------------
(* Model-checking instance of CoPrime: the numbers of the command line.    *)
EXTENDS CoPrime

\* A prime, a unit and an odd square: more numbers than workers.
MCNumbers == <<7, 1, 9>>
=============================================================================
