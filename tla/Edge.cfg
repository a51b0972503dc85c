SPECIFICATION FairSpec
CONSTANTS
    s1 = s1
    s2 = s2
    ipA = ipA
    ipB = ipB
    ipC = ipC
    Session = {s1, s2}
    ClientId = {"00", "01"}
    IP = {ipA, ipB, ipC}
    Port = {1, 2}
    Console <- PairAndTerse
    Terse <- Short
    Advertised = {}
    Lossy = {"CONNECT_ACK"}
    BackendIP = {h1, h2}
    Home = h1
    MaxRestarts = 1
INVARIANTS
    ToldOnlyPeers
PROPERTIES
    ImplementsNatNeg
    SomeoneMeets
CHECK_DEADLOCK FALSE
