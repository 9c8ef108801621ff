SPECIFICATION FairSpec
CONSTANTS
    Sessions = {s1}
    Buffers = {b1, b2}
    None = None
    ChunkSize = 2
    Window = 1
    MaxSent = 2
INVARIANT BuffersExclusive
PROPERTIES EndsInTurn IsTunnel SessionEnds
CHECK_DEADLOCK FALSE
