CONSTANTS
    t1 = t1
    t2 = t2
    Nobody = Nobody
    Threads <- MCThreads
    Objects = {obj}
    MaxHandles = 3
    InvalidatedMemory = 1
SPECIFICATION FairLockSpec
INVARIANTS
    GrantsAreRight
PROPERTIES
    AtomicSpec
    LockComesFree
