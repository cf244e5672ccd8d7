SPECIFICATION Spec
CHECK_DEADLOCK FALSE
CONSTANTS
    Readers = {p1, p2}
    INPUT_BUF = 2
    UINT = 4
    Chars = {"x", "newline", "ctrlD"}
    Sizes = {0, 2}
    MaxKeys = 6
    MaxLines = 6
    SortKeys <- ThreeKeys
    Args = {1, 2, 3}
    Pids = {1, 2, 3, 4, 5}
    PipeIds = {1, 2, 3, 4}
    PIPE = 1
    Quota = 2
    Lines <- CommandLines
    MaxTyped = 2
    Cpus = {1, 2}
    NLocks = 2
    MaxNest = 2
    MORE = 4
    HEAP = 12
    Units = {2, 3, 5}
    block_size = 2
    NDIR = 3
    NIND = 2
    MaxSize = 18
    NPROC = 3
    MAXSTRIDE = 3
    TicketArgs = {0, 1, 3}
    IntBits = 3
INVARIANTS
    SleepsForLine
    OutputSorted
    NothingHangs
    MutualExclusion InterruptsRestored
    EveryUnitOnce ListInOrder RefusedOnlyIfNone
    FreshRecovered
PROPERTIES
    ImplementsTty
    LagNeverGrows
