---------------------------- MODULE NarrowBridge ----------------------------
(***************************************************************************)
(* What every "competitive team" program of the repository promises of its *)
(* bridge (src/README.md, "Competitive Threads in Teams"): the first car    *)
(* to reach an empty bridge decides the direction, only cars of that       *)
(* direction may follow, at most Slots cars are admitted before the bridge *)
(* empties, and a car crosses once.  Nothing is said about how the cars     *)
(* synchronise: Monitors/bridge.c and Critical_Regions/bridgeCCR.c are     *)
(* shown to implement this specification, and Semaphores/bridge.c as long  *)
(* as no race has happened.                                                *)
(***************************************************************************)
EXTENDS Naturals

CONSTANTS Red, Blue,   \* the cars of each direction
          Slots        \* how many cars the bridge takes before it empties

VARIABLES on,          \* the cars on the bridge
          passed,      \* the cars that have crossed
          admitted     \* cars admitted since the bridge was last empty

vars == <<on, passed, admitted>>

Cars == Red \cup Blue

\* All the cars of S go the same way.
SameSide(S) == S \subseteq Red \/ S \subseteq Blue

Init == /\ on = {}
        /\ passed = {}
        /\ admitted = 0

\* A car that has not crossed yet drives onto the bridge.
Enter(c) == /\ c \notin on \cup passed
            /\ SameSide(on \cup {c})
            /\ admitted < Slots
            /\ on' = on \cup {c}
            /\ admitted' = admitted + 1
            /\ UNCHANGED passed

\* Some of the cars leave, one at a time or the whole batch together.
Leave(S) == /\ S # {}
            /\ on' = on \ S
            /\ passed' = passed \cup S
            /\ admitted' = IF on \subseteq S THEN 0 ELSE admitted

Next == \/ \E c \in Cars : Enter(c)
        \/ \E S \in SUBSET on : Leave(S)

Spec == Init /\ [][Next]_vars
=============================================================================
