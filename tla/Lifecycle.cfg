SPECIFICATION FairSpec
CONSTANTS
    Base = 2
    MaxWorkers = 4
    TokenCap = 3
    Requests = {q1, q2}
INVARIANTS
    CountIsExact
    PoolInBounds
    QuietAfterClose
PROPERTIES
    CloseReturns
CHECK_DEADLOCK FALSE
