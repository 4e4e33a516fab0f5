SPECIFICATION Spec
CONSTANTS
    Conns = {c1, c2}
    Res = Res
    NULL = NULL
    Size = 3
    Word = 16
    Lens = {2}
    Rkeys = {1}
    Contents = {0, 1}
    FileInit = 1
    MaxSendWr = 2
    MaxRecvWr = 2
    Faults = {"reg_mr", "munmap", "crash"}
SYMMETRY Symmetry
INVARIANTS
    MappedIsBacked
    ExclusiveMapping
PROPERTIES
    CommitVisible
    Isolation
    ImplementsLease
CHECK_DEADLOCK FALSE
