CONSTANTS
    workers = 3
    MaxAlarms = 3
    Numbers <- MCNumbers
SPECIFICATION FairSpec
INVARIANT OneTurn
INVARIANT ContextsCurrent
INVARIANT DestroyedOffList
 
PROPERTY ImplementsService
\* main ends, or the program crashes.
CHECK_DEADLOCK FALSE
