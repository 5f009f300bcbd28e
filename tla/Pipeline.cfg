SPECIFICATION Spec
CHECK_DEADLOCK FALSE
CONSTANTS
    NumParams = 3
    Inputs <- MCInputs
    MaxFailures = 2
    MaxProbes = 2
INVARIANTS
    FreeableIsTraced
    UncertainRefused
    ManagedNeverAllocated
    RefutedOutRefused
    WritableIsProvided
    ScalarsTravelBothWays
    LengthIsTheBound
    TextFreedIffOwned
