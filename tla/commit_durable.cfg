SPECIFICATION Spec
CONSTANTS
    Conns = {c1}
    Res = Res
    NULL = NULL
    Size = 3
    Word = 16
    Lens = {2}
    Rkeys = {1}
    Contents = {0, 1}
    FileInit = 1
    MaxSendWr = 4
    MaxRecvWr = 4
    Faults = {}
PROPERTIES
    CommitDurable
CHECK_DEADLOCK FALSE
