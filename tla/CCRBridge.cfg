CONSTANTS
    Red = {r1, r2, r3}
    Blue = {b1, b2, b3}
    Slots = 2
    NoCar = NoCar
    MaxSpurious = 2
SPECIFICATION FairSpec
INVARIANT NoLostWakeup
INVARIANT CountersExact
PROPERTY Alternates
PROPERTY EveryCarCrosses
PROPERTY ImplementsBridge
\* The program ends.
CHECK_DEADLOCK FALSE
