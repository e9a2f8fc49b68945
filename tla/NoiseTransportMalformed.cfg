\* A node that does not decode.
SPECIFICATION Spec
CHECK_DEADLOCK FALSE \* all frames of the bounds are sent and taken
CONSTANTS
    CounterBits = 8
    MaxLen = 1
    MaxToClient = 3
    MaxToServer = 0
INVARIANTS
    MalformedEndsConnection
