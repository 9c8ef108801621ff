SPECIFICATION Spec
CONSTANTS
    Accounts = {u1, u2}
    Limits = {0, 1}
    MaxLines = 3
    MaxLen = 2
    BufSize = 6
    Newline = Newline
    Nobody = Nobody
INVARIANTS OneUserPerLine
CHECK_DEADLOCK FALSE
