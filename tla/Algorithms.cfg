SPECIFICATION Spec
CONSTANTS
    Domains = {"example.com", "example.org"}
    Subs = {"", "tracker"}
    Names = {mirror}
    NoName = NoName
    Resolved = {"public", "private", "localhost"}
    Uris <- MCUris
    MaxForwards = 3
    MaxCollected = 4
    IPs = {"a", "b", ""}
    NoIp = ""
    V4 = {"a"}
    V6 = {"b"}
    Ports = {1, 2}
    Ids = {"me", "other", ""}
    DefaultNumWant = 2
    ForwardLists <- MCForwardLists
    Resolutions <- MCResolutions
    LocalSets <- MCLocalSets
    CachedSets <- MCCachedSets
    PeerLists <- MCPeerLists
    Requests <- MCRequests
INVARIANTS
    BestUsableKept
    FilteredAsWanted
    CountsAreHosts
CHECK_DEADLOCK FALSE
