\* The same application, but its listener connects within the turn that reports "closed".
SPECIFICATION Spec
CONSTANTS
    Sockets = {s1, s2}
    NoSocket = NoSocket
    maxRetryCount = 2
    markOnlineOnConnect = TRUE
    ConnectIn <- WhenDown
    DisconnectIn <- Always
    UserReasons = {"ConnectionClosed", "LoggedOut"}
    ConnectsOnClosed = TRUE
    MaxInFlight = 2
    MaxLeakedTimers = 1
INVARIANTS
    TimerOnlyWhenDown
