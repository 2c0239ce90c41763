SPECIFICATION Spec
CONSTANTS
    p1 = p1
    p2 = p2
    People <- MCPeople
    Seed <- MCSeed
    MaxOthers = 2
    Directories <- MCDirectories
INVARIANTS
    TypeOK
    DriversHaveVehicles
    CleanFlushRestoresSeed
PROPERTIES
    RegisteredAreKept
    BookingsSurvive
