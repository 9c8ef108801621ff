SPECIFICATION FairSpec
CONSTANTS
    PadLen <- MCPadLen
    Pad <- MCPad
    ChunkMax = 2
    ReadMax = 1
    MaxSent <- MCMaxSent
    MaxRaw = 3
    Wrap = 1
    KeyLen = 3
INVARIANT RawFromTheFirst
PROPERTIES IsTunnel AllDelivered CloseIsRead
CHECK_DEADLOCK FALSE
