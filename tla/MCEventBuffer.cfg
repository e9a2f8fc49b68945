\* Events of every kind in any order, with several fields.
SPECIFICATION FairSpec
CHECK_DEADLOCK FALSE \* all events of the bound are emitted and flushed
CONSTANTS
    f = f
    g = g
    a = a
    b = b
    Items <- AllKinds
    Records <- TwoFields
    flushDelayMs = 0
    MaxEvents = 3
INVARIANTS
    FlushIsComing
    BufferIsTransparent
PROPERTIES
    BufferDrains
    FlushEmits
