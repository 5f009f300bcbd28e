SPECIFICATION FairSpec
CHECK_DEADLOCK FALSE
CONSTANTS
    Order <- MCOrder
    Types = {"conn", "row"}
    NoType = NoType
    Programs <- MCPrograms
    Engines = {"pycparser", "libclang"}
    MaxIters = 2
INVARIANTS
    DestroysGrounded
    PartialNeverReturned
    NoFreeOverlooked
PROPERTIES
    Terminates
