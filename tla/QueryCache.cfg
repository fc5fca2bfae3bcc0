SPECIFICATION Spec
CONSTANTS
    Calls = {c1, c2, c3}
    Keys = {k1, k2, k3}
    NoFlight = NoFlight
    AllowAbandon = TRUE
    AllowClear = FALSE
    L1Size = 2
    HaveHiredis = TRUE
    MaxFaults = 2
SYMMETRY Symmetry
INVARIANTS
    TypeOK
    OwnAnswers
    ReaderKeepsContext
    CachedBeforeNotified
    LookupsCounted
    RedisLetsGo
    SharedUntilAnswered
PROPERTY L2NeverComesBack
\* Calls are used once: when all have returned nothing is left to do.
CHECK_DEADLOCK FALSE
