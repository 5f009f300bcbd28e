CONSTANTS
    a1 = a1
    a2 = a2
    t1 = t1
    t2 = t2
    Static = Static
    Buffer = Buffer
    Null = Null
    Objects <- MCObjects
    Addresses <- MCAddresses
    Libraries <- NoIdioms
    Threads <- MCThreads
    InvalidatedMemory = 2
    Pools <- OneOrTwo
    OneCallPerTree = TRUE
    MaxHandles = 3
SPECIFICATION WorkerSpec
INVARIANTS
    NoFault
    TableMatchesHeap
    PopNeverRefused
PROPERTIES
    SerialSpec
