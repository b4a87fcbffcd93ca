----------------------------- MODULE MCSpinSort -----------------------------
(* Model-checking instance of SpinSort.                                    *)
EXTENDS SpinSort

\* Every order of up to four numbers, equal ones included.
MCInputs == UNION {[1..n -> 1..3] : n \in 2..3} \cup [1..4 -> 1..2]
                \cup {<<1, 2, 3, 4>>, <<4, 3, 2, 1>>, <<2, 4, 1, 3>>, <<1, 5, 3, 2, 4>>}
=============================================================================
