\* Whether "open" means a usable connection when handleSuccess awaits.
SPECIFICATION Spec
CONSTANTS
    Sockets = {s1, s2}
    NoSocket = NoSocket
    maxRetryCount = 2
    markOnlineOnConnect = TRUE
    ConnectIn <- WhenDown
    DisconnectIn <- Always
    UserReasons = {"ConnectionClosed", "LoggedOut"}
    ConnectsOnClosed = FALSE
    MaxInFlight = 2
    MaxLeakedTimers = 1
INVARIANTS
    OpenMeansUsable
