SPECIFICATION FairSpec
CONSTANTS
    Sessions = {s1, s2}
    AllowErrors = TRUE
INVARIANTS
    TypeOK
    StartupStaysPrivate
    BridgeParity
PROPERTY StartupCompletes
\* Every session may have ended after Shutdown.
CHECK_DEADLOCK FALSE
