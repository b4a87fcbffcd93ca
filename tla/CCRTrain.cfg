CONSTANTS
    Clients = {p1, p2, p3, p4}
    Train = Train
    seats = 2
    MaxSpurious = 1
SPECIFICATION Spec
INVARIANT NoLostWakeup
INVARIANT StuckOnlyBy
PROPERTY ImplementsCoaster
\* The program ends, and may stop before.
CHECK_DEADLOCK FALSE
