CONSTANTS
    block_size = 2
    NDIR = 3
    NIND = 2
    MaxSize = 18
SPECIFICATION Scan_
INVARIANT IndirectRecovered
