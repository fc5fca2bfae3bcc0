SPECIFICATION Spec
CONSTANTS
    Sessions = {s1, s2}
    Texts = {q1}
    NoQuery = NoQuery
    OtherMsg = OtherMsg
    NoChunk = NoChunk
    NoFlight = NoFlight
    MaxChunks = 1
    MaxSends = 2
    Pipelining = FALSE
    Errors = {"eof", "expected", "other"}
SYMMETRY Symmetry
INVARIANTS
    TypeOK
    OnlyTwiceCalledMisleads
    NoInterleavedWrites
    CacheAttribution
    LeaderRemembersQuery
\* Clients send a bounded number of messages and sessions end.
CHECK_DEADLOCK FALSE
