\* A producer that emits the events of an item in any order.
SPECIFICATION Spec
CHECK_DEADLOCK FALSE \* all events of the bound are emitted and flushed
CONSTANTS
    f = f
    g = g
    a = a
    b = b
    Items <- ChatAndMessage
    Records <- TwoFields
    flushDelayMs = 0
    MaxEvents = 3
INVARIANTS
    ConsolidationKeepsEvents
