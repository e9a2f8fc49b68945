\* An application that calls connect() and disconnect() at any time.
SPECIFICATION Spec
CONSTANTS
    Sockets = {s1, s2}
    NoSocket = NoSocket
    maxRetryCount = 1
    markOnlineOnConnect = TRUE
    ConnectIn <- Always
    DisconnectIn <- Always
    UserReasons = {"ConnectionClosed"}
    ConnectsOnClosed = TRUE
    MaxInFlight = 1
    MaxLeakedTimers = 1
INVARIANTS
    ClosedForAReason
