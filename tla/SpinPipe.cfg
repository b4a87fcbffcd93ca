CONSTANTS
    Sizes = {1, 2, 3, 4}
    Lengths = {0, 1, 2, 3, 4, 5, 6, 7, 8, 9}
SPECIFICATION FairSpec
INVARIANT InBounds
INVARIANT ReadsFresh
INVARIANT OneSlotIsFifo
INVARIANT NoUseAfterFree
INVARIANT ReturnsComplete
PROPERTY Terminates
\* The program ends.
CHECK_DEADLOCK FALSE
