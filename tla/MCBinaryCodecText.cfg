\* Texts that contain an at sign and a colon.
SPECIFICATION CodecSpec
CHECK_DEADLOCK FALSE \* a behaviour is about one frame
CONSTANTS
    Nodes <- Texts
    Depth <- TextDepths
    MaxDepth = 2
    FbJids <- OtherNetwork
    SINGLE_BYTE_TOKENS <- Tokens
    DOUBLE_BYTE_TOKENS <- Dictionary
    InheritedNames <- Names
    ByteLength <- Lengths
    MaxStringLength = 1000
INVARIANTS
    TextArrives
