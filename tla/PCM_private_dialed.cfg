SPECIFICATION Spec
CONSTANTS
    a = a
    b = b
    c = c
    d = d
    s1 = s1
    s2 = s2
    s3 = s3
    Endpoint = {a, c}
    Socket = {s1}
    NoSocket = NoSocket
    NoEndpoint = NoEndpoint
    Ignored = {c}
    Bootstrap = {a}
    Gossip = {}
    Listening = {a}
    Dialer = {c}
    SocketName <- SameName
    StatEvent = {}
    StorageMayFail = FALSE
SYMMETRY SocketSymmetry
INVARIANT PrivateNeverDialed
