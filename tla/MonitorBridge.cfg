CONSTANTS
    Red = {r1, r2}
    Blue = {b1, b2, b3}
    Slots = 2
    NoCar = NoCar
    MaxSpurious = 1
SPECIFICATION FairSpec
PROPERTY ImplementsBridge
PROPERTY CrossUnlessDrift
\* The program ends, and cars stranded by a lost update stop it earlier.
CHECK_DEADLOCK FALSE
