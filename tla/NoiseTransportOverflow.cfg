\* A counter that overflows.
SPECIFICATION Spec
CHECK_DEADLOCK FALSE \* all frames of the bounds are sent and taken
CONSTANTS
    CounterBits = 1
    MaxLen = 1
    MaxToClient = 4
    MaxToServer = 0
INVARIANTS
    UniqueIVs
