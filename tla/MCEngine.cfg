\* An application that connects only when the engine is down.
SPECIFICATION FairSpec
CONSTANTS
    Sockets = {s1, s2}
    NoSocket = NoSocket
    maxRetryCount = 2
    markOnlineOnConnect = TRUE
    ConnectIn <- WhenDown
    DisconnectIn <- Always
    UserReasons = {"ConnectionClosed", "LoggedOut"}
    ConnectsOnClosed = FALSE
    MaxInFlight = 2
    MaxLeakedTimers = 1
INVARIANTS
    TypeOK
    SingleLiveSocket
    TimerOnlyWhenDown
    NoDesync
    OpenHasConnection
PROPERTIES
    BudgetRestoredByLogin
    ClosingSettles
    NoEndlessRetry
    ImplementsConnection
