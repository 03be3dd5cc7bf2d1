SPECIFICATION Spec
CONSTANTS
    Hashes = {h1}
    Peers = {p1, p2, p3}
    Forwarders = {f1}
    Configured <- OneEach
    StartDisabled = {}
    Addable = {}
    Handlers = {r1}
    Workers = {w1}
    MaxGen = 1
    JobIds = {1, 2}
    QueueCap = 1
    FailThreshold = 0
    MaxForwarders = 1
    ThrottleThresh = 60
    ThrottleTopN = 1
    RateLimitThresh = 80
    NoJob = NoJob
    NoSession = NoSession
    NoForwarder = NoForwarder
SYMMETRY Symmetry
PROPERTIES
    NoJobLossOnOverload
CHECK_DEADLOCK FALSE
