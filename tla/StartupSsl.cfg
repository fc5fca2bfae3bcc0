SPECIFICATION Spec
CONSTANTS
    Sessions = {s1}
    AllowErrors = FALSE
INVARIANT SslRequestedOnce
CHECK_DEADLOCK FALSE
