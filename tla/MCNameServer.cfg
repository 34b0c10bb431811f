CONSTANTS
    NULL = NULL
    Clients <- TwoClients
    Exiters <- OneExiter
    Names <- TwoNames
    MaxNames = 4
    MaxNameLen = 2
    MaxRegs = 4
SPECIFICATION FairSpec
INVARIANT MapAgreesWithRegistrations
PROPERTY WhoIsReturns
CHECK_DEADLOCK FALSE
