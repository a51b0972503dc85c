SPECIFICATION FairSpec
CONSTANTS
    a1 = a1
    a2 = a2
    b1 = b1
    A = A
    B = B
    mkds = mkds
    Conn = {a1, b1}
    NoConn = NoConn
    UserOf <- TwoUsers
    Game <- SameGame
    BadToken = {a1}
    BadProof = {a1}
    Tables <- StrangersOrFriends
    MaxProfile = 2
    Command <- Befriending
    MaxCommands = 1
    MaxBatch = 1
    Awaits = FALSE
PROPERTIES
    LoginsAreAnswered
CHECK_DEADLOCK FALSE
