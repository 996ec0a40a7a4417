\* Liveness: two versions of a draft, no failure of the catalog.
SPECIFICATION FairSpec
CONSTANTS
    Drafts = {d1}
    NoDraft = NoDraft
    Flows = {f1}
    NoFlow = NoFlow
    MaxVersion = 2
    MaxSends = 1
    MaxFaults = 0
    MaxGenerations = 1
CHECK_DEADLOCK FALSE
PROPERTY ConfirmationsEnd
