\* A crash while the credentials are written.
SPECIFICATION Spec
CHECK_DEADLOCK FALSE \* all calls of the bound are over
CONSTANTS
    Files = {f1}
    Values <- OneValue
    MaxCalls = 2
    MaxChanges = 1
    MaxCrashes = 1
    MaxFailures = 0
INVARIANTS
    IdentityIsPermanent
