\* Three sentences that do not hold (tlc -continue shows all): the own event waits for the
\* server, what refers to a message always comes after it, a decryption is never undone.
SPECIFICATION Spec
CHECK_DEADLOCK FALSE \* all calls and events of the bound have been made
CONSTANTS
    a = a
    b = b
    Messages <- ThreeMessages
    Own <- OneInEach
    Chosen <- FirstChosen
    Contents = {"text"}
    Time <- Times
    ChatTimes = {0}
    emitOwnEvents = TRUE
    MaxEvents = 3
INVARIANTS
    ServerHasOwnMessages
    ReferencesAlwaysFollow
PROPERTIES
    ContentIsKept
