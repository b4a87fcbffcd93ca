--------------------------- MODULE RollerCoaster ---------------------------
(***************************************************************************)
(* What every roller-coaster program of the repository promises about its  *)
(* seats (src/README.md, "Competitive Threads"): a passenger takes a free  *)
(* seat, at most Seats passengers board, and the next ones board when all  *)
(* of those have left their seats; a passenger rides once.                 *)
(***************************************************************************)
EXTENDS Naturals

CONSTANTS Clients,     \* the passengers
          Seats

VARIABLES aboard,      \* the passengers in the train
          rode,        \* the passengers who have left it
          boarded      \* the seats taken since the train was last emptied

vars == <<aboard, rode, boarded>>

Init == /\ aboard = {}
        /\ rode = {}
        /\ boarded = 0

Board(p) == /\ p \notin aboard \cup rode
            /\ boarded < Seats
            /\ aboard' = aboard \cup {p}
            /\ boarded' = boarded + 1
            /\ UNCHANGED rode

Leave(p) == /\ aboard' = aboard \ {p}
            /\ rode' = rode \cup {p}
            /\ boarded' = IF boarded = Seats /\ aboard' = {} THEN 0 ELSE boarded

Next == \/ \E p \in Clients : Board(p)
        \/ \E p \in aboard : Leave(p)

Spec == Init /\ [][Next]_vars
=============================================================================
