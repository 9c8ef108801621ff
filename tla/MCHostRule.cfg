SPECIFICATION FairSpec
CONSTANTS
    Bits = 3
    Hosts <- MCHosts
    Lines <- MCLines
    MaxLines = 3
    Lower <- MCLower
    None = None
INVARIANTS RoutesExact SearchMisses NameRule
PROPERTY LookupEnds
