SPECIFICATION FairSpec
CONSTANTS
    A = a
    B = b
    Payload = {m1, m2}
    SeqMod = 2
    WireCap = 3
    PutsOfA = 2
    PutsOfB = 2
    MaxPut <- PutBound
    Impatient = FALSE
    Noise = FALSE
PROPERTIES
    GuaranteedDelivery
CHECK_DEADLOCK FALSE
