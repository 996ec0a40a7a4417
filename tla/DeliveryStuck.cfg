\* Without a single failure: an interrupted delivery.
SPECIFICATION PersistentSpec
CONSTANTS
    Drafts = {d1}
    NoDraft = NoDraft
    Flows = {f1}
    NoFlow = NoFlow
    MaxVersion = 1
    MaxSends = 1
    MaxFaults = 0
    MaxGenerations = 1
CHECK_DEADLOCK FALSE
PROPERTY SendingSettles
