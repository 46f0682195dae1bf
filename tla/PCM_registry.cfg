SPECIFICATION Spec
CONSTANTS
    a = a
    b = b
    c = c
    d = d
    s1 = s1
    s2 = s2
    s3 = s3
    Endpoint = {a, b, c, d}
    Socket = {s1, s2}
    NoSocket = NoSocket
    NoEndpoint = NoEndpoint
    Ignored = {c, d}
    Bootstrap = {a}
    Gossip = {b, d}
    Listening = {a, b, d}
    Dialer = {c}
    SocketName <- SameName
    StatEvent = {"pong"}
    StorageMayFail = FALSE
SYMMETRY SocketSymmetry
INVARIANT TypeOK
INVARIANT KnownIsStored
INVARIANT DialsUnconnected
INVARIANT OpenPeerIsTracked
INVARIANT PrivateOnlyByInbound
