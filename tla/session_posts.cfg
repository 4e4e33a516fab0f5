SPECIFICATION Spec
CONSTANTS
    Conns = {c1}
    Res = Res
    NULL = NULL
    Size = 3
    Word = 16
    Lens = {2, 3, 15}
    Rkeys = {1, 2}
    Contents = {0, 1, 2}
    FileInit = 1
    MaxSendWr = 4
    MaxRecvWr = 4
    Faults = {"client_post", "server_post", "reg_mr", "munmap", "crash"}
INVARIANTS
    TypeOK
    RspMatches
    OneWakeup
    ReqMatches
    ResponseHasReceive
PROPERTIES
    MapReadsRegion
CHECK_DEADLOCK FALSE
