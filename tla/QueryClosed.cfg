\* Whether a lost connection rejects the queries that wait.
SPECIFICATION Spec
CONSTANTS
    Queries = {q1, q2}
    queryTimeoutMs = 60000
INVARIANTS
    ClosedConnectionRejects
