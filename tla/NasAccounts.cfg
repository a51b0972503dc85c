SPECIFICATION Spec
CONSTANTS
    cA = cA
    cB = cB
    Console = {cA, cB}
    Impatient = {}
    Banned = {}
    Known <- NewConsoles
    MaxUserid = 4
    MaxRequests <- Few
    Thread = {t1, t2}
    NoThread = NoThread
    Idle = Idle
    Token = {k1, k2, k3, k4, k5, k6}
    NoToken = NoToken
    PoolSizes = {2}
INVARIANTS
    DistinctUserids
