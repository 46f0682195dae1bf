SPECIFICATION Spec
CONSTANTS
    a = a
    b = b
    c = c
    d = d
    s1 = s1
    s2 = s2
    s3 = s3
    Endpoint = {a, b}
    Socket = {s1, s2, s3}
    NoSocket = NoSocket
    NoEndpoint = NoEndpoint
    Ignored = {}
    Bootstrap = {a}
    Gossip = {b}
    Listening = {a, b}
    Dialer = {a, b}
    SocketName <- AliasName
    StatEvent = {}
    StorageMayFail = TRUE
SYMMETRY SocketSymmetry
INVARIANT TableHoldsOpenSockets
INVARIANT KnownCoversTraffic
INVARIANT SingleAttempt
PROPERTY RowsNeverShrink
