\* Whether a revoked session is never reconnected.
SPECIFICATION Spec
CONSTANTS
    Sockets = {s1, s2}
    NoSocket = NoSocket
    maxRetryCount = 2
    markOnlineOnConnect = TRUE
    ConnectIn <- WhenDown
    DisconnectIn <- WhenUp
    UserReasons = {}
    ConnectsOnClosed = FALSE
    MaxInFlight = 2
    MaxLeakedTimers = 1
INVARIANTS
    PermanentMeansNoReconnect
