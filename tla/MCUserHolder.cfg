SPECIFICATION HolderFairSpec
CONSTANTS
    u1 = u1
    u2 = u2
    Accounts = {u1, u2}
    Limits = {0, 1}
    MaxLines = 3
    MaxLen = 1
    BufSize = 4
    Newline = Newline
    Bad = Bad
    Nobody = Nobody
    Nothing = Nothing
    Contents <- MCContents
    MaxEdits = 3
    MaxTime = 2
INVARIANT InUseIsCurrent
PROPERTIES EditsTakeEffect CallerReturns
CHECK_DEADLOCK FALSE
