SPECIFICATION FairSpec
CONSTANTS
    Threads = {drain, market}
    PoolSize = 4
INVARIANTS
    EachSlotOnce
PROPERTIES
    AllocatorSpec
    LockFree
