\* The error-path programs and the UART programs, one instance each.
CONSTANTS
    NULL = NULL
SPECIFICATION Spec
INVARIANT TypeOK
INVARIANT BitmapMatchesQueues
PROPERTY SchedulerPicksHighest
PROPERTY EventWakeMatchesCause
