\* A negotiated connection of either wire version, with host tools; two turns, of
\* which the Agent writes three updates.
SPECIFICATION SessionSpec
CONSTANTS
    Negotiable <- EveryWire
    HasAttachment = TRUE
    MaxTurns = 2
    MaxApprovals = 2
    MaxBuffered = 1
    Keys = {k1, k2}
    NoKey = NoKey
    Tools = {t1}
    Messages = {m1}
    Thoughts = {h1}
    None = None
    MaxPrompts = 2
    MaxUpdates = 3
SYMMETRY KeySymmetry
CHECK_DEADLOCK FALSE
INVARIANT SessionTypeOK
INVARIANT TurnsFollowOperation
INVARIANT ApprovalsBelongToTurn
INVARIANT RequestIdsMatchPending
INVARIANT ReplayRestoresTurns
INVARIANT WrittenTextIsShown
PROPERTY AnswersAreFinal
PROPERTY ImplementsTurnProtocol
