\* Liveness: connections on which a deletion cannot race a prompt (see AcpDeleteRace.cfg).
SPECIFICATION FairSpec
CONSTANTS
    Negotiable <- SafeDelete
    HasAttachment = TRUE
    MaxTurns = 2
    MaxApprovals = 1
    MaxBuffered = 1
    Keys = {k1}
    NoKey = NoKey
CHECK_DEADLOCK FALSE
PROPERTY TurnsEnd
PROPERTY ApprovalsAnswered
