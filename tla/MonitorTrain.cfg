CONSTANTS
    Clients = {p1, p2, p3, p4}
    seats = 2
    NoOne = NoOne
    MaxSpurious = 1
SPECIFICATION FairSpec
INVARIANT FullTrainNoticed
PROPERTY ImplementsCoaster
PROPERTY AllRideUnless
\* The program ends, and waits for ever when the train has left.
CHECK_DEADLOCK FALSE
