\* Queries over a connection that is lost and comes back.
SPECIFICATION FairSpec
CONSTANTS
    Queries = {q1, q2, q3}
    queryTimeoutMs = 60000
INVARIANTS
    NoResponseMissed
    PendingIsWatched
PROPERTIES
    QueriesEnd
