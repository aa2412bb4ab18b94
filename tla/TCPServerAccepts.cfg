SPECIFICATION Spec
CONSTANTS
    Sessions = {s1, s2}
INVARIANTS
    AcceptLoopLives
CHECK_DEADLOCK FALSE
