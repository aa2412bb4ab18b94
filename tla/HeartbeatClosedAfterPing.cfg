SPECIFICATION Spec
CONSTANTS
    Interval = 60
    MaxJitter = 1
    SoftIdle = 90
    HardIdle = 150
    GraceWait = 20
PROPERTY
    ClosedOnlyAfterPing
CHECK_DEADLOCK FALSE
