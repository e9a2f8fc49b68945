\* engine.ts:128: a node that is sent before the keys are there.
SPECIFICATION Spec
CHECK_DEADLOCK FALSE \* all frames of the bounds are sent and taken
CONSTANTS
    CounterBits = 8
    MaxLen = 1
    MaxToClient = 1
    MaxToServer = 1
INVARIANTS
    NodesAreEncrypted
