SPECIFICATION Spec
CHECK_DEADLOCK FALSE
CONSTANTS
    NumParams = 3
    Inputs <- MCInputs
    MaxFailures = 0
    MaxProbes = 0
INVARIANT PoppedIsFreed
