CONSTANTS
    a1 = a1
    a2 = a2
    t1 = t1
    t2 = t2
    Static = Static
    Buffer = Buffer
    Null = Null
    Objects <- MCObjects
    Addresses <- MCAddresses
    Libraries <- NoIdioms
    Threads <- MCThreads
    InvalidatedMemory = 2
    Pools <- Two
    OneCallPerTree = FALSE
    MaxHandles = 2
SPECIFICATION WorkerSpec
CHECK_DEADLOCK FALSE
INVARIANTS
    NoInvalidFree
