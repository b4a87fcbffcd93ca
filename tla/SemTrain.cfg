CONSTANTS
    Clients = {p1, p2, p3, p4}
    Train = Train
    seats = 2
SPECIFICATION Spec
SYMMETRY Interchangeable
\* Behaviours are followed up to the first race.
CONSTRAINT Unraced
INVARIANT SeatsMatch
INVARIANT StuckOnlyIfRaced
\* main ends, and the program stops after a race.
CHECK_DEADLOCK FALSE
