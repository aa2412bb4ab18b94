SPECIFICATION Spec
CONSTANTS
    Base = 3
    LengthBytes = 2
    SizeMax = 8
    MaxPayload = 7
INVARIANTS
    ReadsWithinBody
    DecodesExactlyRequests
CHECK_DEADLOCK FALSE
