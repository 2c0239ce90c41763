CONSTANTS
    r1 = r1
    p1 = p1
    p2 = p2
    driver = driver
    b1 = b1
    b2 = b2
    s1 = s1
    s2 = s2
    here = here
    there = there
    unknown = unknown
    none = none
    Driver = driver
    Unknown = unknown
    None = none
    Rides <- OneRide
    Slots <- TwoSlots
    Passengers <- OnePassenger
    Rows <- OneRow
    Locations <- TwoLocations
SPECIFICATION Spec
INVARIANTS
    TypeOK
    CachedAreBooked
PROPERTIES
    RevertsAreOvertaken
    AcceptedAreHeard
