\* Well-behaved programs on a three-slot task table; one of them sends to a
\* task that has exited.
CONSTANTS
    NULL = NULL
    MaxTasks = 3
    CreatePrios <- WellBehavedPrios
    Lens <- OneLen
    AwaitArgs <- SomeEvents
    HwData <- RxByte
    CreateWhenFull = FALSE
    ReplyAnyTarget = FALSE
    RxTimeoutIrq = FALSE
    UninitTidMatch = FALSE
SPECIFICATION Spec
PROPERTY SendTargetsLive
