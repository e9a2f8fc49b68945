\* Sends beside edits, lost connections, incoming messages, history and restarts.
SPECIFICATION FairSpec
CHECK_DEADLOCK FALSE \* all calls and events of the bound have been made
CONSTANTS
    a = a
    b = b
    Messages <- ThreeMessages
    Own <- OneInEach
    Chosen <- FirstChosen
    Contents = {"text", "image", "reaction", "unknown"}
    Time <- Times
    ChatTimes = {0, 2}
    emitOwnEvents = TRUE
    MaxEvents = 4
INVARIANTS
    EachMessageOnce
    ChatIsAsRecent
    ReferencesFollow
    InCallOrder
    OwnMessagesWereSent
PROPERTIES
    SendsEnd
