SPECIFICATION FairSpec
CONSTANTS
    Size = 2
    ChunkMax = 2
    ReadMax = 1
    MaxSent = 3
    Alive = 2
    Times <- MCTimes
    Now = 5
INVARIANT StreamIntact
PROPERTIES AllDelivered HandshakeEnds
CHECK_DEADLOCK FALSE
