SPECIFICATION ScoutSpec
CONSTANTS
    a = a
    b = b
    c = c
    s1 = s1
    s2 = s2
    s3 = s3
    Endpoint = {a, c}
    Socket = {s1, s2}
    NoSocket = NoSocket
    NoEndpoint = NoEndpoint
    Ignored = {}
    Bootstrap = {a}
    Gossip = {}
    Listening = {a}
    Dialer = {c}
    SocketName <- SameName
    StatEvent = {}
    StorageMayFail = FALSE
    Address <- HostOf
    PublicKey = {"k1"}
SYMMETRY SocketSymmetry
INVARIANT GaugeCountsPeers
