SPECIFICATION Spec
CONSTANTS
    a1 = a1
    a2 = a2
    b1 = b1
    A = A
    B = B
    mkds = mkds
    Conn = {a1, a2, b1}
    NoConn = NoConn
    UserOf <- TwoUsers
    Game <- SameGame
    BadToken = {}
    BadProof = {}
    Tables <- FriendsOrNewcomer
    MaxProfile = 3
    Command <- Reconnecting
    MaxCommands = 1
    MaxBatch = 1
    Awaits = TRUE
INVARIANTS
    LonersAreOnline
    RegistryIsLive
    OnlyLogoutsLeaveSessions
    OnlyOverlapsDuplicate
    OnlyRacesMislead

CHECK_DEADLOCK FALSE
