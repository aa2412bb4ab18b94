SPECIFICATION FairSpec
CONSTANTS
    Sessions = {s1, s2, s3}
INVARIANTS
    OneAcceptLoop
    StopReachesAll
    DeletedOnce
    ReturnsClean
PROPERTIES
    SignalLeavesOnlySessions
    ReleasedIsDeleted
    FailedAcceptRetried
CHECK_DEADLOCK FALSE
