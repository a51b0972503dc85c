SPECIFICATION FairSpec
CONSTANTS
    s1 = s1
    s2 = s2
    ipA = ipA
    ipB = ipB
    ipC = ipC
    Session = {s1, s2}
    ClientId = {"00", "01"}
    IP = {ipA, ipB, ipC}
    Port = {1, 2, 3}
    Console <- Pair
    Terse = {}
    Advertised = {}
    Lossy <- AllOps
PROPERTIES
    BothMeet
CHECK_DEADLOCK FALSE
