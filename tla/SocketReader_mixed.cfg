SPECIFICATION FairSpec
CONSTANTS
    PreambleUnits = 2
    MaxPayload = 2
    MaxMessages = 3
    Kinds = {"good", "unknown", "empty", "short", "long"}
INVARIANT TypeOK
INVARIANT NothingSkipped
INVARIANT NothingHeldBack
PROPERTY InOrderOnce
PROPERTY AllDelivered
CHECK_DEADLOCK FALSE
