SPECIFICATION Spec
CONSTANTS
    MaxSize = 3
    MaxFiles = 2
    Sizes = {1, 2, 4}
    MaxMessages = 7
    MaxFaults = 2
INVARIANTS
    OldestFirst
    SizeBounded
    KeepsLatest
    LossesEndWithFault
CHECK_DEADLOCK FALSE
