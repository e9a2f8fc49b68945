\* Keys of every kind of value.
SPECIFICATION Spec
CHECK_DEADLOCK FALSE \* all calls of the bound are over
CONSTANTS
    Files = {f1}
    Values <- AllKinds
    MaxCalls = 2
    MaxChanges = 0
    MaxCrashes = 0
    MaxFailures = 0
INVARIANTS
    BytesAreBytes
