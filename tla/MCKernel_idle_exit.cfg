\* A task created below the idle task's priority.
CONSTANTS
    NULL = NULL
    MaxTasks = 3
    CreatePrios <- BelowIdlePrios
    Lens <- OneLen
    AwaitArgs <- TimerOnly
    HwData <- RxByte
    CreateWhenFull = FALSE
    ReplyAnyTarget = FALSE
    RxTimeoutIrq = FALSE
    UninitTidMatch = FALSE
SPECIFICATION Spec
INVARIANT HaltOnlyWhenQuiescent
