SPECIFICATION PartsSpec
CONSTANTS
    Caller = {c1, c2}
    Fetch = {f1, f2}
    NoFetch = NoFetch
    CacheSeconds = 2
    StableConfirmations = 1
    MaxTime = 6
    MaxHeight = 4
    MaxDepth = 1
    Name = {n1, n2}
    Object = {o1, o2, o3}
    NoObject = NoObject
    NoName = NoName
    Hash = {h1, h2, h3, h4}
    MaxSeen = 2
    Byte = {0, 1, 2}
    Zero = 0
    Bytes <- Chunks
    InitialSize = 1
    MaxSize = 5
    MaxWritten = 6
    MaxOffset = 6
    Counts = {0, 2}
    Lengths = {0, 3}
    BitLens = {0, 1, 8, 9, 4096, 4097}
    Compressed = Compressed
    Addresses = {IPv4, IPv6}
    MaxNesting = 1
CHECK_DEADLOCK FALSE
INVARIANT TipTypeOK
INVARIANT NoFailedPromise
INVARIANT FreshEnough
INVARIANT NewestIsKept
INVARIANT StableIsAncestor
INVARIANT HeldIsFound
INVARIANT NoEntryLeaks
INVARIANT LatencyFromFirst
INVARIANT HalfIsUsable
INVARIANT BufferIsWhatWasWritten
INVARIANT DecodesWhole
PROPERTY RefetchIsExcused
PROPERTY ImplementsFile
