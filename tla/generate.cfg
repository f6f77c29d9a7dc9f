SPECIFICATION Spec
CONSTANTS
    ByteBase = 4
    Headers <- AllHeaders
    MaxRuns = 3
CONSTRAINTS
    EditsBetweenRuns
    TwoRunsOrFew
INVARIANTS
    ExitCode
    OutputsSound
    EnumsFit
    BuildOfOnePiece
CHECK_DEADLOCK FALSE
