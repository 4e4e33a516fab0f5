SPECIFICATION FairSpec
CONSTANTS
    f1 = f1
    Files = {f1, f2}
    Faults <- OneFails
INVARIANTS
    TypeOK
    HandlerHoldsFile
    RouteUsesLive
    SessionStart
PROPERTIES
    ConnectWakes
    CallsProceed
CHECK_DEADLOCK FALSE
