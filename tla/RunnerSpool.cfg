\* Two replays, so that one of a lost connection overlaps the next.
SPECIFICATION FairSpec
CONSTANTS
    MaxEvents = 2
    MaxWriting = 2
    Replays = {r1, r2}
    NoReplay = NoReplay
    MaxFaults = 2
CHECK_DEADLOCK FALSE
INVARIANT ReadyConnectionLeavesNothing
INVARIANT SequencesContinue
PROPERTY ImplementsOutbox
PROPERTY EventsReachCenter
