SPECIFICATION LossSpec
CONSTANTS
    Readers = {"library"}
    Marks = 3
    SeqMod = 4
    ByteMax = 11
    CrcByte = 0
    PayloadMax = 1
    Message <- MarkerAtEnd
    MaxPut = 3
    MaxControls = 0
    MaxFaults = 1
    MaxTexts = 0
    MaxDiscards = 0
PROPERTIES
    GuaranteedDelivery
CHECK_DEADLOCK FALSE
