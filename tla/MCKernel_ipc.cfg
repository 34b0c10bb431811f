\* Well-behaved programs on a three-slot task table.
CONSTANTS
    NULL = NULL
    MaxTasks = 3
    CreatePrios <- WellBehavedPrios
    Lens <- OneLen
    AwaitArgs <- SomeEvents
    HwData <- RxByte
    CreateWhenFull = FALSE
    ReplyAnyTarget = FALSE
    RxTimeoutIrq = FALSE
    UninitTidMatch = FALSE
SPECIFICATION FairSpec
INVARIANT StateMatchesQueues
INVARIANT BitmapMatchesQueues
INVARIANT SendReplyRoundTrip
INVARIANT HaltOnlyWhenQuiescent
PROPERTY SchedulerPicksHighest
PROPERTY EventWakeMatchesCause
PROPERTY TimerWaitersWoken
