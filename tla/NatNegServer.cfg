SPECIFICATION PlaysSpec
CONSTANTS
    s1 = s1
    s2 = s2
    ipA = ipA
    ipB = ipB
    ipC = ipC
    ep1 = ep1
    ep2 = ep2
    ep3 = ep3
    ep4 = ep4
    ep5 = ep5
    ep6 = ep6
    NoSession = NoSession
    Nobody = Nobody
    Meeting <- Meetings
    Place = {ep1, ep2, ep3, ep4, ep5, ep6}
    Waiter <- Waiters
    Repeater <- Twice
    Session = {s1, s2}
    ClientId = {"00", "01", "02"}
    IP = {ipA, ipB, ipC}
    Port = {1, 2, 3}
    Console <- Everyone
    Terse <- Short
    Advertised <- GameServers
    Lossy = {"INITACK"}
INVARIANTS
    ConnectAuthentic
    ConnectedWasIntroduced
    NobodyForgotten
    InitAckMeansRegistered
    MatchedInPairs
PROPERTIES
    ImplementsRendezvous
    WaiterOnlyLeavesMatched
    PartnersMeet
