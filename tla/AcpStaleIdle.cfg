\* Wire version 2: the idle update of a cancelled turn arrives in the next one.
SPECIFICATION Spec
CONSTANTS
    Negotiable <- WireV2
    HasAttachment = FALSE
    MaxTurns = 2
    MaxApprovals = 1
    MaxBuffered = 1
    Keys = {k1}
    NoKey = NoKey
CHECK_DEADLOCK FALSE
PROPERTY StaleIdleIgnored
