SPECIFICATION FairSpec
CONSTANTS
    a = a
    b = b
    c = c
    d = d
    s1 = s1
    s2 = s2
    s3 = s3
    Endpoint = {a, b}
    Socket = {s1, s2}
    NoSocket = NoSocket
    NoEndpoint = NoEndpoint
    Ignored = {}
    Bootstrap = {a}
    Gossip = {b}
    Listening = {a, b}
    Dialer = {b}
    SocketName <- SameName
    StatEvent = {}
    StorageMayFail = TRUE
PROPERTY NeverForgotten
