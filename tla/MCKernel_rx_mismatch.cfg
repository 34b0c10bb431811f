\* Receive with a length different from the waiting sender's.
CONSTANTS
    NULL = NULL
    MaxTasks = 3
    CreatePrios <- WellBehavedPrios
    Lens <- TwoLens
    AwaitArgs <- TimerOnly
    HwData <- RxByte
    CreateWhenFull = FALSE
    ReplyAnyTarget = FALSE
    RxTimeoutIrq = FALSE
    UninitTidMatch = FALSE
SPECIFICATION Spec
INVARIANT SendReplyRoundTrip
