SPECIFICATION ResetSpec
CONSTANTS
    A = a
    B = b
    Payload = {1, 2, 3}
    SeqMod = 4
    WireCap = 2
    PutsOfA = 3
    PutsOfB = 1
    MaxPut <- PutBound
    Impatient = TRUE
    Noise = FALSE
CONSTRAINT Numbered
INVARIANTS
    TypeOK
    OrderedInSession
    RetainedWhileAwaiting
PROPERTIES
    ResetRealigns
CHECK_DEADLOCK FALSE
