SPECIFICATION FairSpec
CONSTANTS
    Sessions = {s1}
    Kinds = {"socks", "http", "forward"}
    Hosts = {h1}
    SmartProxy = TRUE
    Enable = TRUE
    MaxReloads = 1
    Addr = {a1, a2}
    Weight <- MCWeight
    MaxErr = 1
    MaxFail = 1
    ScanPeriod = 1
    None = None
INVARIANTS RouteJustified ServersAnswered
PROPERTIES IsBalancer Decided
CHECK_DEADLOCK FALSE
