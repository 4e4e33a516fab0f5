SPECIFICATION FairSpec
CONSTANTS
    Side = "client"
    Word = 256
    Depth = 8
    Batch = 16
    Budget = 64
    Faults = {"get_cq_event", "req_notify_cq", "poll_cq"}
INVARIANTS
    TypeOK
    NoLostWakeup
    CqAlive
    CompletionInv
PROPERTIES
    CompletionHandled
    CloseProceeds
CHECK_DEADLOCK FALSE
