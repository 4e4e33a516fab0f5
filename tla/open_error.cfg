SPECIFICATION FairSpec
CONSTANTS
    f1 = f1
    Files = {f1}
    Faults <- AddrError
PROPERTIES
    OpenReturns
CHECK_DEADLOCK FALSE
