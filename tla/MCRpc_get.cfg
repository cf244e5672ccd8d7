CONSTANTS
    Clients = {c1}
    Ids = {i1}
    Keys = {k}
    Refused = {}
    Values = {1}
    Residue = {0}
    Retries = 2
    MaxSeq = 3
    MaxLost = 0
    None = None
SPECIFICATION Spec
CHECK_DEADLOCK FALSE
INVARIANT GetFresh
