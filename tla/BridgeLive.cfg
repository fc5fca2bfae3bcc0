SPECIFICATION FairSpec
CONSTANTS
    Sessions = {s1, s2}
    Texts = {q1, NoQuery}
    NoQuery = NoQuery
    OtherMsg = OtherMsg
    NoChunk = NoChunk
    NoFlight = NoFlight
    MaxChunks = 2
    MaxSends = 1
    Pipelining = FALSE
    Errors = {"eof", "expected", "other"}
INVARIANTS
    OnlyTwiceCalledMisleads
    CacheAttribution
    LeaderRemembersQuery
PROPERTY WaitingEnds
\* Clients send a bounded number of messages and sessions end.
CHECK_DEADLOCK FALSE
