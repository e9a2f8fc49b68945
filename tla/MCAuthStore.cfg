\* Overlapping calls on two files and the credentials, a write that fails, a crash.
SPECIFICATION FairSpec
CHECK_DEADLOCK FALSE \* all calls of the bound are over
CONSTANTS
    Files = {f1, f2}
    Values <- OneValue
    MaxCalls = 3
    MaxChanges = 1
    MaxCrashes = 1
    MaxFailures = 1
INVARIANTS
    LastCallWins
    SavedIsDurable
PROPERTIES
    NoTornRead
    CallsEnd
