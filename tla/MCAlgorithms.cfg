\* bitmap_leadingzeroes over all bitmaps with one to three bits set, the
\* string.c routines over all pairs of three-byte arrays, and the clock
\* server's blocked list with four entries and three deadlines, and a ring
\* buffer of four bytes (three usable) under puts, gets and putns of up to
\* four bytes, enough to fill it, wrap both indices and be refused; and two
\* intrusive queues sharing four nodes, so that a queue holds three nodes
\* while the other holds one and nodes move between them.
CONSTANTS
    NULL = NULL
    NEntries = 4
    Deadlines = {1, 2, 3}
    Size = 4
    Data = {d1, d2}
    MaxPutN = 4
    Junk = Junk
    Done = Done
    Refused = Refused
    Empty = Empty
    QIds = {"a", "b"}
    QNodes = {0, 1, 2, 3}
SPECIFICATION Spec
INVARIANT LeadingZeroesIsLowestBit
INVARIANT CStringMatchesReference
INVARIANT BlockedIsStableSorted
PROPERTY RefinesBoundedFifo
PROPERTY RefinesNodeFifo
PROPERTY RefinesPriorityReady
