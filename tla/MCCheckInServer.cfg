CONSTANTS
    a = a
    b = b
    Card = {a, b}
    Listed = {a, b}
    Nothing = Nothing
    Heads <- MCHeads
    Tails <- MCTails
    MaxConn = 2
    MaxStream = 2
    MaxRows = 2
    InsertFails = TRUE
SPECIFICATION Spec
PROPERTY
    ImplementsAttendance
CHECK_DEADLOCK FALSE
