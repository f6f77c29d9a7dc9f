SPECIFICATION FairSpec
CONSTANTS
    Bits = 2
    Number <- Numbers
    MaxCommands = 4
    MaxReleases = 2
INVARIANTS
    DemoTypeOK
PROPERTIES
    PatientIsNotOverwritten
    ReadsOwnWrites
    Answered
CHECK_DEADLOCK FALSE
