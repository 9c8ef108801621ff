SPECIFICATION FairSpec
CONSTANTS
    Users = {u1}
    Sess = {s1, s2, s3}
    Infos <- MCInfos
    None = None
    QueueCap = 1
INVARIANT LimiterConserves
PROPERTIES ContextKept HandlerMovesOn
CHECK_DEADLOCK FALSE
