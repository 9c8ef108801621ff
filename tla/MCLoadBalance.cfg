SPECIFICATION LBFairSpec
CONSTANTS
    Addr = {"light", "heavy"}
    Weight <- MCWeight
    Sessions = {d1, d2}
    None = None
    MaxErr = 2
    MaxFail = 2
    ScanPeriod = 2
INVARIANTS WeightInRange KickedExactly
PROPERTIES OutageBounded KickedReturns
