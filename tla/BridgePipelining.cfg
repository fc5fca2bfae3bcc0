SPECIFICATION Spec
CONSTANTS
    Sessions = {s1, s2}
    Texts = {q1, q2}
    NoQuery = NoQuery
    OtherMsg = OtherMsg
    NoChunk = NoChunk
    NoFlight = NoFlight
    MaxChunks = 1
    MaxSends = 2
    Pipelining = TRUE
    Errors = {}
INVARIANT NoClientMisled
CHECK_DEADLOCK FALSE
