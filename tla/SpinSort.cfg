CONSTANT Inputs <- MCInputs
SPECIFICATION FairSpec
INVARIANT ReportedSorted
INVARIANT QuietAtEnd
PROPERTY EndsUnlessMissed
\* main ends or exits.
CHECK_DEADLOCK FALSE
