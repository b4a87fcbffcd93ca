CONSTANTS
    Red = {r1, r2, r3}
    Blue = {b1, b2}
    slots = 2
    blue_sem = 5
SPECIFICATION Spec
SYMMETRY Interchangeable
\* Behaviours are followed up to the first race.
CONSTRAINT Unraced
INVARIANT OneBaton
INVARIANT StuckOnlyIfRaced
PROPERTY ImplementsBridge
\* main ends, and the program stops after a race.
CHECK_DEADLOCK FALSE
