SPECIFICATION Spec
CHECK_DEADLOCK FALSE
CONSTANTS
    Order <- MCOrder
    Types = {"conn", "row"}
    NoType = NoType
    Programs <- MCPrograms
    Engines = {"libclang"}
    MaxIters = 2
INVARIANT NeverAssertsConditional
