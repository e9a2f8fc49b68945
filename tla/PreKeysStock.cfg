\* Whether a login replenishes a low stock.
SPECIFICATION Spec
CONSTANTS
    INITIAL_PREKEYS = 2
    MIN_PREKEYS = 1
    KnowsMe = TRUE
    MaxBatches = 3
PROPERTIES
    StockReplenished
\* The bound on batches ends every behaviour.
CHECK_DEADLOCK FALSE
