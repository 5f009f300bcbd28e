CONSTANTS
    t1 = t1
    t2 = t2
    NoSession = NoSession
    Threads <- MCThreads
    Pools <- OneOrTwo
    MaxSessions = 2
SPECIFICATION Spec
INVARIANTS
    ReleasedOnce
    SessionsEnd
    BuffersFreed
