SPECIFICATION Spec
CHECK_DEADLOCK FALSE
CONSTANTS
    Allocators <- MCAllocators
    Deallocators <- MCDeallocators
    Transfers <- MCTransfers
    Libraries <- MCLibraries
    MaxRounds = 2
INVARIANTS
    OwnedIsTraced
    ConvergedIsComplete
    PointerOwnedIsHandedOver
    StringOwnedIsHandedOver
    ConfirmedIsAllocated
