SPECIFICATION Spec
CONSTANTS
    Procs = {p1, p2}
    Names = {"a", "b", "c"}
    Inums = {1, 2, 3, 4}
    Blks = {1, 2, 3, 4}
    Slots = {1, 2, 3, 4}
    Paths <- TreePaths
    MaxBlks = 2
    MaxCalls = 2
    None = None
SYMMETRY Symmetry
INVARIANTS
    RefExact
    CacheClean
    BlocksOwned
    NamesCounted
    NoPanic
PROPERTY
    RemovedEmpty
