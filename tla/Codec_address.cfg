SPECIFICATION CodecSpec
CONSTANTS
    Counts = {0, 1}
    Lengths = {3}
    BitLens = {9}
    Compressed = Compressed
    Addresses = {IPv4, IPv6, Compressed}
    MaxNesting = 0
CHECK_DEADLOCK FALSE
INVARIANT AddressHas16Bytes
