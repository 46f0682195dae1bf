SPECIFICATION FairSpec
CONSTANTS
    q1 = q1
    q2 = q2
    r1 = r1
    r2 = r2
    Scan = {q1, q2}
    Responder = {r1}
    MaxSeq = 1
    MaxAsked = 2
    MayFail = TRUE
INVARIANT TypeOK
INVARIANT SeqAccounted
INVARIANT DurationsAreReal
PROPERTY PingsUnlessUnanswered
PROPERTY ClosedComesToRest
CHECK_DEADLOCK FALSE
