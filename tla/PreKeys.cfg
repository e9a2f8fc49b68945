\* Registrations and uploads, overlapping or not; connections are lost, queries
\* time out, the process crashes.
SPECIFICATION Spec
CONSTANTS
    INITIAL_PREKEYS = 2
    MIN_PREKEYS = 1
    KnowsMe = FALSE
    MaxBatches = 3
INVARIANTS
    CredsNeverAhead
    ConfirmedKeysAgree
    OrderSavesOverlap
\* The bound on batches ends every behaviour.
CHECK_DEADLOCK FALSE
