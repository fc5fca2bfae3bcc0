SPECIFICATION Spec
CONSTANTS
    Threads = {t1, t2}
    Keys = {k1, k2, k3}
    Values = {v1, v2}
    Nodes = {n1, n2, n3}
    NoNode = NoNode
    NoValue = NoValue
    NoKey = NoKey
    Sizes = {0, 1, 2}
    DefaultSize = 3
    AllowClear = TRUE
INVARIANTS
    TypeOK
    Coherent
    SizeIsRespected
PROPERTY ImplementsLRU
\* The process may have crashed.
CHECK_DEADLOCK FALSE
