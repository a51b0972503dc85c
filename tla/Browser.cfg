SPECIFICATION SidesSpec
CONSTANTS
    c1 = c1
    c2 = c2
    k1 = k1
    ip1 = ip1
    ip2 = ip2
    NumberOf <- Numerals
    LowerCase <- Capitals
    RankOf <- Ranks
    NoIp = NoIp
    Server <- Listings
    Conn = {c1, c2}
    Cookie = {k1}
    Packet <- Packets
    MaxPackets <- Few
    Lists <- Full
    MaxChanges = 1
    TextPackets = TRUE
    Nul = "NUL"
    Unprintable <- Garbled
    Kind = 1
    NameKind <- OfWii
    Number <- AsNumber
    Beats <- HostBeats
    MaxBeats = 3
INVARIANTS
    AnswersMatchQuery
    PartiesAreNamed
    OnlyErrorsDelay
    
    OnlyUnknownConsolesMislead
CHECK_DEADLOCK FALSE
