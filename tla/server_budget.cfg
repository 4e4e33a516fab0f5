SPECIFICATION Spec
CONSTANTS
    Side = "server"
    Word = 256
    Depth = 2
    Batch = 16
    Budget = 64
    Faults = {}
INVARIANTS
    EndsOnErrorOnly
CHECK_DEADLOCK FALSE
