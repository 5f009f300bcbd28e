CONSTANTS
    t1 = t1
    t2 = t2
    NoSession = NoSession
    Threads <- MCThreads
    Pools <- Two
    MaxSessions = 1
SPECIFICATION Spec
INVARIANTS
    CallsAfterCloseRefused
