SPECIFICATION FairSpec
CONSTANTS
    Conns = {c1}
    Res = Res
    NULL = NULL
    Size = 3
    Word = 16
    Lens = {2, 3}
    Rkeys = {1}
    Contents = {0, 1}
    FileInit = 1
    MaxSendWr = 4
    MaxRecvWr = 4
    Faults = {}
INVARIANTS
    RequestHasReceive
PROPERTIES
    CommandReturns
CHECK_DEADLOCK FALSE
