SPECIFICATION FairSpec
CONSTANTS
    Workers = {w1, w2}
    Main = Main
    Nobody = Nobody
    Ports = {40000}
    DefaultThreads = 2
    DefaultPort = 5432
    Absent = Absent
    Bad = Bad
    MaxSignals = 2
INVARIANTS
    TypeOK
    ConfigTakesEffect
    EndsInOrder
    DeafOnlyAfterException
PROPERTY SignalEndsProcess
\* The process ends.
CHECK_DEADLOCK FALSE
