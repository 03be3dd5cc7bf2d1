SPECIFICATION FairSpec
CONSTANTS
    Calls = {c1, c2}
    MaxRetries = 2
    MaxIds = 2
    NoId = NoId
INVARIANTS
    TypeOK
    StopIsClean
    NoSocketLeak
    CachedIdWasIssued
    OkAnswersLastAttempt
    RequestsBounded
PROPERTIES
    CallsReturn
CHECK_DEADLOCK FALSE
