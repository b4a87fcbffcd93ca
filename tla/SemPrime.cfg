CONSTANTS
    threads_num = 3
    Numbers <- MCNumbers
SPECIFICATION FairSpec
INVARIANT OneBaton
INVARIANT InOrder
INVARIANT NoUseAfterFree
PROPERTY EndsUnlessMiscounted
PROPERTY ImplementsService
\* The program ends, and main waits for ever when increments of finish are lost.
CHECK_DEADLOCK FALSE
