SPECIFICATION Spec
CONSTANTS
    A = a
    B = b
    Payload = {m1, m2}
    SeqMod = 2
    WireCap = 2
    PutsOfA = 3
    PutsOfB = 1
    MaxPut <- PutBound
    Impatient = TRUE
    Noise = TRUE
INVARIANTS
    TypeOK
    ExactlyOnceInOrder
    RetainedWhileAwaiting
    DataIsCurrent
    AckIsHonest
PROPERTIES
    NeverAbandons
    LinkImplemented
CHECK_DEADLOCK FALSE
