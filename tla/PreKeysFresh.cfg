\* Whether batches have ids of their own.
SPECIFICATION Spec
CONSTANTS
    INITIAL_PREKEYS = 2
    MIN_PREKEYS = 1
    KnowsMe = FALSE
    MaxBatches = 3
INVARIANTS
    FreshIds
\* The bound on batches ends every behaviour.
CHECK_DEADLOCK FALSE
