SPECIFICATION ShakeFairSpec
CONSTANTS
    Targets <- MCTargets
    MaxData = 2
    BufSize = 30
INVARIANTS StreamKept HandshakeAgrees ServedUnlessCut
PROPERTY HandshakeEnds
CHECK_DEADLOCK FALSE
