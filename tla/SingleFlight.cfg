SPECIFICATION MCSpec
CONSTANTS
    c1 = c1
    c2 = c2
    c3 = c3
    c4 = c4
    k1 = k1
    k2 = k2
    Calls = {c1, c2, c3, c4}
    Keys = {k1, k2}
    NoFlight = NoFlight
    AllowAbandon = TRUE
    AllowClear = TRUE
INVARIANTS
    TypeOK
    SameQueryResults
    OpenFlightIsLed
    ReadyFlightIsBeingErased
    NoLostRegistration
    CalledOncePerPublisher
PROPERTY WaiterServedOrOrphaned
\* Calls are used once: when all have returned nothing is left to do.
CHECK_DEADLOCK FALSE
