SPECIFICATION FairSpec
CONSTANTS
    Conns = {c1, c2, c3}
    QueueCap = 1
    MaxErrors = 1
    None = None
INVARIANT OneOwner
PROPERTIES ConnAnswered ReadyIsServed
CHECK_DEADLOCK FALSE
