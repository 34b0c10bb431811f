CONSTANTS
    r1 = r1
    r2 = r2
    w1 = w1
    e1 = e1
    TxN = TxN
    RxN = RxN
    Tid0 = Tid0
    Junk = Junk
    Readers <- OneReader
    Writers <- OneWriter
    Exiters <- OneExiter
    BufferSize = 3
    MaxDataLen = 2
    MaxRx = 3
    MaxWrite = 3
SPECIFICATION FairSpec
CHECK_DEADLOCK FALSE
INVARIANT OutputInOrder
INVARIANT InputInOrder
INVARIANT ServerTracksWaiters
PROPERTY OutputDrains
