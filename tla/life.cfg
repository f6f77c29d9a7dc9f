SPECIFICATION FairSpec
CONSTANTS
    MaxOpens = 2
    MaxEvents = 2
INVARIANTS
    NoSilentEnd
PROPERTIES
    SessionsAreApart
    LossIsReported
CHECK_DEADLOCK FALSE
