CONSTANTS
    threads_num = 3
    Numbers <- MCNumbers
SPECIFICATION FairSpec
INVARIANT OneOwner
PROPERTY EndsUnlessLost
PROPERTY ImplementsService
\* main returns.
CHECK_DEADLOCK FALSE
