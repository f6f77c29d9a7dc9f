SPECIFICATION ChosenSpec
CONSTANTS
    Readers = {"library", "session"}
    Marks = 3
    SeqMod = 2
    ByteMax = 6
    CrcByte = 6
    PayloadMax = 2
    Message <- AllMessages
    MaxPut = 2
    MaxControls = 1
    MaxFaults = 2
    MaxTexts = 1
    MaxDiscards = 1
INVARIANTS
    TypeOK
    BufferBound
PROPERTIES
    CleanLineIsRead
    LinkImplemented
    GuaranteedDelivery
CHECK_DEADLOCK FALSE
