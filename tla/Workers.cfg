SPECIFICATION Spec
CONSTANTS
    Hashes = {h1}
    Peers = {p1}
    Forwarders = {f1}
    Configured <- OneEach
    StartDisabled = {}
    Addable = {f1}
    Handlers = {r1}
    Workers = {w1, w2}
    MaxGen = 2
    JobIds = {1, 2, 3}
    QueueCap = 1
    FailThreshold = 2
    MaxForwarders = 1
    ThrottleThresh = 60
    ThrottleTopN = 1
    RateLimitThresh = 80
    NoJob = NoJob
    NoSession = NoSession
    NoForwarder = NoForwarder
SYMMETRY Symmetry
INVARIANTS
    OneLiveAnnouncePerKey
    ThresholdActs
PROPERTIES
    ImplementsAnnounceService
CHECK_DEADLOCK FALSE
