\* Wire version 2 with session/delete advertised, under fairness: a turn accepted during a deletion.
SPECIFICATION FairSpec
CONSTANTS
    Negotiable <- WireV2
    HasAttachment = FALSE
    MaxTurns = 2
    MaxApprovals = 1
    MaxBuffered = 1
    Keys = {k1}
    NoKey = NoKey
CHECK_DEADLOCK FALSE
PROPERTY TurnsEnd
