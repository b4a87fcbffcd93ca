CONSTANTS
    Red = {r1, r2, r3}
    Blue = {b1}
    slots = 2
    blue_sem = 5
SPECIFICATION Spec
SYMMETRY Interchangeable
INVARIANT OneDirection
\* main ends, and the program may stop.
CHECK_DEADLOCK FALSE
