CONSTANTS
    Procs = {1, 2, 3, 4, 5}
    First = 1
    Files = {1, 2, 3, 4, 5}
    Pages = {1, 2}
    NOFILE = 4
    Stdio = {0, 1}
    PIPESIZE = 2
    WORD = 4
    Messages <- MCMessages
    Sizes = {1}
    None = None
    Targets = {2}
    Commands <- MCCommands
SPECIFICATION FairSpec
CHECK_DEADLOCK FALSE
INVARIANTS RefExact EndsExact
PROPERTIES NoLostWakeup ImplementsStream CommandEnds
