SPECIFICATION FairSpec
CONSTANTS
    Conns = {c1, c2, c3}
    Res = Res
    NULL = NULL
    Size = 3
    Lens <- MCLens
INVARIANTS
    TypeOK
    LockInv
    Conservation
    OneHolder
    OpenAnswer
    PoolInv
PROPERTIES
    ImplementsAtomicPool
    LockReleased
CHECK_DEADLOCK FALSE
