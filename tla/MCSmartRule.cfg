SPECIFICATION FairSpec
CONSTANTS
    Names = {n1, n2}
    Probes = {p1, p2}
    None = None
    QueueCap = 1
    Limit = 1
INVARIANTS OneProbePerHost SlotsConserved
PROPERTIES AskedIsAnswered ProbeClears
CHECK_DEADLOCK FALSE
