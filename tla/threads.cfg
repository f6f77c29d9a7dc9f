SPECIFICATION SessionSpec
CONSTANTS
    A = a
    B = b
    Payload = {1, 2, 3}
    SeqMod = 4
    WireCap = 2
    PutsOfA = 3
    PutsOfB = 1
    Impatient = TRUE
    Noise = FALSE
    Caller = {s1}
    Callback = {c1, c2}
    Reader = r
    MaxRetries = 1
    AckTimeouts = {"timer", "none", "explicit"}
    MaxChanges = 2
    MaxPut <- PutBound
CONSTRAINT EitherManyOrOverlapping
SYMMETRY CallbackSymmetry
INVARIANTS
    SessionTypeOK
    QueueKeepsOrder
    TimerGuards
    ReportedOnce
PROPERTIES
    SessionLinkImplemented
CHECK_DEADLOCK FALSE
