SPECIFICATION Spec
CONSTANTS
    ByteBase = 4
    Structs <- Header
    CMessages <- InC
    CsMessages <- InCs
    Rooms <- SomeRooms
INVARIANTS
    InBounds
    RoundTrip
    CutIsRefused
    ReadersAgree
    MaxSizeIsEnough
    SizeIsActual
CHECK_DEADLOCK FALSE
