SPECIFICATION Spec
CONSTANTS
    c1 = c1
    c2 = c2
    c3 = c3
    c4 = c4
    k1 = k1
    k2 = k2
    Calls = {c1, c2, c3}
    Keys = {k1}
    NoFlight = NoFlight
    AllowAbandon = FALSE
    AllowClear = FALSE
INVARIANT OneLeaderPerKey
CHECK_DEADLOCK FALSE
