SPECIFICATION Spec
CONSTANTS
    Interval = 60
    MaxJitter = 1
    SoftIdle = 90
    HardIdle = 150
    GraceWait = 20
INVARIANTS
    IdleBounded
    AnswerBounded
PROPERTIES
    OnePingPerSilence
CHECK_DEADLOCK FALSE
