---------------------------- MODULE MCSpinPrime ----------------------------
(* Model-checking instance of SpinPrime: the numbers of the command line.  *)
EXTENDS SpinPrime

\* A prime, a unit, a square that is odd and one that is even, more numbers than workers.
MCNumbers == <<7, 1, 9, 4>>
=============================================================================
