CONSTANTS
    Objects = {obj}
    MaxHandles = 5
    InvalidatedMemory = 2
SPECIFICATION Spec
INVARIANTS
    TypeOK
    ForestConsistent
    LineageLive
    StaleNamesKiller
    StaleUntilForgotten
PROPERTIES
    DeadStayDead
    CascadeExact
