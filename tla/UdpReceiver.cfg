SPECIFICATION FairSpec
CONSTANTS
    Handlers = {h1, h2}
    Ids = {i1}
    NoId = NoId
    Minute = 2
INVARIANTS
    RecentIdAccepted
    OldIdRefused
    IntakeEnded
PROPERTIES
    IntakeCloses
CHECK_DEADLOCK FALSE
