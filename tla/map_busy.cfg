SPECIFICATION FairSpec
CONSTANTS
    Conns = {c1, c2}
    Res = Res
    NULL = NULL
    Size = 3
    Word = 16
    Lens = {2}
    Rkeys = {1}
    Contents = {0}
    FileInit = 0
    MaxSendWr = 2
    MaxRecvWr = 2
    Faults = {}
PROPERTIES
    MapReturnsEventually
CHECK_DEADLOCK FALSE
