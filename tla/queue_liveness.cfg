SPECIFICATION SessionFairSpec
CONSTANTS
    A = a
    B = b
    Payload = {1}
    SeqMod = 4
    WireCap = 3
    PutsOfA = 2
    PutsOfB = 1
    Impatient = FALSE
    Noise = FALSE
    Caller = {s1}
    Callback = {c1}
    Reader = r
    MaxRetries = 2
    AckTimeouts = {"timer"}
    MaxChanges = 0
    MaxPut <- PutBound
PROPERTIES
    QueuedDelivery
CHECK_DEADLOCK FALSE
