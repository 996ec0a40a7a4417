\* One draft; calls of deliverDraft begun in two workspace sessions may overlap.
SPECIFICATION Spec
CONSTANTS
    Drafts = {d1}
    NoDraft = NoDraft
    Flows = {f1, f2}
    NoFlow = NoFlow
    MaxVersion = 1
    MaxSends = 2
    MaxFaults = 2
    MaxGenerations = 2
SYMMETRY FlowSymmetry
CHECK_DEADLOCK FALSE
INVARIANT MessagesAreOnRecord
INVARIANT SentDeliveriesArePosted
INVARIANT OneMessagePerDelivery
INVARIANT ShownSentIsSent
PROPERTY SentIsFinal
PROPERTY SentIsNotSentAgain
