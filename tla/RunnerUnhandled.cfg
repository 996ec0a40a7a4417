\* A process whose work nothing but a crash should end.
SPECIFICATION Spec
CONSTANTS
    MaxEvents = 1
    MaxWriting = 1
    Replays = {r1, r2}
    NoReplay = NoReplay
    MaxFaults = 2
CHECK_DEADLOCK FALSE
PROPERTY DisconnectKeepsWork
