\* The handshake and frames in both directions, cut up in every way.
SPECIFICATION FairSpec
CHECK_DEADLOCK FALSE \* all frames of the bounds are sent and taken
CONSTANTS
    CounterBits = 8
    MaxLen = 1
    MaxToClient = 4
    MaxToServer = 2
INVARIANTS
    NothingRejected
    UniqueIVs
PROPERTIES
    ImplementsChannel
