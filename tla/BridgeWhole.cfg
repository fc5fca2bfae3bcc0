SPECIFICATION Spec
CONSTANTS
    Sessions = {s1, s2}
    Texts = {q1, q2}
    NoQuery = NoQuery
    OtherMsg = OtherMsg
    NoChunk = NoChunk
    NoFlight = NoFlight
    MaxChunks = 2
    MaxSends = 2
    Pipelining = FALSE
    Errors = {}
INVARIANT RepliesAreWhole
CHECK_DEADLOCK FALSE
