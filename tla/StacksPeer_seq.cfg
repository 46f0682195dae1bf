SPECIFICATION Spec
CONSTANTS
    q1 = q1
    q2 = q2
    r1 = r1
    r2 = r2
    Scan = {q1, q2}
    Responder = {r1}
    MaxSeq = 2
    MaxAsked = 2
    MayFail = FALSE
PROPERTY SeqCountsMessages
CHECK_DEADLOCK FALSE
