SPECIFICATION FairSpec
CONSTANTS
    Hashes = {h1}
    Peers = {p1}
    Forwarders = {f1}
    Configured <- TwoEach
    StartDisabled = {}
    Addable = {}
    Handlers = {r1}
    Workers = {w1}
    MaxGen = 2
    JobIds = {1, 2, 3}
    QueueCap = 1
    FailThreshold = 0
    MaxForwarders = 1
    ThrottleThresh = 60
    ThrottleTopN = 1
    RateLimitThresh = 80
    NoJob = NoJob
    NoSession = NoSession
    NoForwarder = NoForwarder
PROPERTIES
    DeadMarkersReclaimed
    ShutdownCompletes
CHECK_DEADLOCK FALSE
