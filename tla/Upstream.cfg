SPECIFICATION FairSpec
CONSTANTS
    Peers = {p1, p2}
    NoPeer = NoPeer
    MaxAge = 1
    Attempts = 2
    FailThreshold = 2
    FailWait = 1
    SuspendFor = 1
    QueueWait = 1
    Intervals = {0, 2}
    Periods = {2}
INVARIANTS
    TypeOK
    PeersFresh
    CooldownSurvivesExpiry
    CancelNotBlamed
    DeferredWaits
PROPERTY
    AnnouncesReturn
