CONSTANTS
    Procs = {p1, p2}
    Bufs = {b1, b2}
    Sectors = {1, 2, 3}
    Unreadable = {3}
    Values = {0, 1}
    Depth = 2
    None = None
SPECIFICATION FairSpec
CHECK_DEADLOCK FALSE
INVARIANTS SleepsForReason QueueMatchesDrive
PROPERTY ImplementsBlocks RequestCompletes
