SPECIFICATION Spec
CONSTANTS
    Hashes = {h1}
    Peers = {p1}
    Forwarders = {f1}
    Configured <- OneEach
    StartDisabled = {}
    Addable = {f1}
    Handlers = {r1, r2}
    Workers = {w1}
    MaxGen = 2
    JobIds = {1, 2, 3}
    QueueCap = 1
    FailThreshold = 1
    MaxForwarders = 1
    ThrottleThresh = 60
    ThrottleTopN = 1
    RateLimitThresh = 80
    NoJob = NoJob
    NoSession = NoSession
    NoForwarder = NoForwarder
SYMMETRY Symmetry
INVARIANTS
    TypeOK
    CacheNeedsLocalPeer
    LiveJobOwnsMarker
    MarkersHaveOwners
    StoppedIsQuiet
    ListedOnce
PROPERTIES
    PublishOnlyWhileServing
CHECK_DEADLOCK FALSE
