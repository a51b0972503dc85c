SPECIFICATION FairSpec
CONSTANTS
    cA = cA
    cB = cB
    Console = {cA, cB}
    Impatient = {cB}
    Banned = {cB}
    Known <- MixedConsoles
    MaxUserid = 4
    MaxRequests <- Few
    Thread = {t1, t2}
    NoThread = NoThread
    Idle = Idle
    Token = {k1, k2, k3, k4, k5}
    NoToken = NoToken
    PoolSizes = {1, 2}
INVARIANTS
    TokensLeadHome
    LastTokenResolves
    OneRowPerLoner
PROPERTIES
    EveryRequestEnds
CHECK_DEADLOCK FALSE
