SPECIFICATION Spec
CONSTANTS
    Handlers = {r1, r2}
    Burst = 2
    Interval = 3
    QueueCap = 2
    RateLimitThresh = 50
    MaxWindow = 8
INVARIANTS
    TypeOK
    RateIsBounded
    PollingNotStarved
