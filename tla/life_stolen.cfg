SPECIFICATION FairSpec
CONSTANTS
    MaxOpens = 2
    MaxEvents = 2
PROPERTIES
    OwnLossIsReported
CHECK_DEADLOCK FALSE
