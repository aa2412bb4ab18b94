SPECIFICATION Spec
CONSTANTS
    Base = 3
    LengthBytes = 2
    SizeMax = 8
    MaxPayload = 4
INVARIANTS
    ResponseAsDocumented
CHECK_DEADLOCK FALSE
