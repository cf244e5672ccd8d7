CONSTANTS
    Clients = {c1}
    Ids = {i1}
    Keys = {k, far}
    Refused = {far}
    Values = {1, 2}
    Residue = {0, 1}
    Retries = 2
    MaxSeq = 2
    MaxLost = 1
    None = None
SPECIFICATION FairSpec
CHECK_DEADLOCK FALSE
INVARIANTS AtMostOnce ReplyOfExecution
PROPERTIES CallReturnsIfDelivered ImplementsStore
