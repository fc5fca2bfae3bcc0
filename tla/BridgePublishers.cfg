SPECIFICATION Spec
CONSTANTS
    Sessions = {s1, s2, s3, s4}
    Texts = {q1}
    NoQuery = NoQuery
    OtherMsg = OtherMsg
    NoChunk = NoChunk
    NoFlight = NoFlight
    MaxChunks = 1
    MaxSends = 1
    Pipelining = FALSE
    Errors = {}
SYMMETRY Symmetry
INVARIANTS
    OnlyTwiceCalledMisleads
    
\* Clients send a bounded number of messages and sessions end.
CHECK_DEADLOCK FALSE
