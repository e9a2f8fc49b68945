\* Every form of a string, in every place of a node, and every width of a byte length.
SPECIFICATION CodecSpec
CHECK_DEADLOCK FALSE \* a behaviour is about one frame
CONSTANTS
    Nodes <- AllNodes
    Depth <- Depths
    MaxDepth = 2
    FbJids <- OtherNetwork
    SINGLE_BYTE_TOKENS <- Tokens
    DOUBLE_BYTE_TOKENS <- Dictionary
    InheritedNames <- Names
    ByteLength <- Lengths
    MaxStringLength = 1000
INVARIANTS
    RoundTrip
    TruncationRefused
