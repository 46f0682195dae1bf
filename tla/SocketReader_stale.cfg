SPECIFICATION Spec
CONSTANTS
    PreambleUnits = 2
    MaxPayload = 1
    MaxMessages = 2
    Kinds = {"good", "unknown"}
INVARIANT KeepsTheLatest
CHECK_DEADLOCK FALSE
