CONSTANTS
    NULL = NULL
    c1 = c1
    c2 = c2
    e1 = e1
    Notifier = Notifier
    Clients <- TwoClients
    Exiters <- OneExiter
    NEntries = 2
    DelayArgs = {0, 1}
    UntilArgs = {0, 1, 2}
    Horizon = 6
    TickLoss = TRUE
VIEW ClockView
SPECIFICATION Spec
INVARIANT BlockedMatchesWaiters
PROPERTY DelayNeverEarly
CHECK_DEADLOCK FALSE
