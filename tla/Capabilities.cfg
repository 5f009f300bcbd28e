CONSTANTS
    a1 = a1
    a2 = a2
    a3 = a3
    Static = Static
    Buffer = Buffer
    Null = Null
    Objects <- MCObjects
    Addresses <- MCAddresses
    InvalidatedMemory = 2
    MaxHandles = 4
    Libraries <- MCLibraries
SPECIFICATION CapSpec
SYMMETRY MCSymmetry
CHECK_DEADLOCK FALSE
INVARIANTS
    ServedAlive
    OwnedIsDistinctRoot
    EveryRootReclaimable
    NoFault
PROPERTIES
    FreedOnlyThroughOwner
    TableSpec
