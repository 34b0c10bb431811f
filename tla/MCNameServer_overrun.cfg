\* One client re-registers one name: three RegisterAs calls on a map of
\* two nodes.
CONSTANTS
    NULL = NULL
    Clients <- OneClient
    Exiters <- NoExiter
    Names <- TwoNames
    MaxNames = 2
    MaxNameLen = 2
    MaxRegs = 3
SPECIFICATION Spec
INVARIANT RegistrationsFit
CHECK_DEADLOCK FALSE
