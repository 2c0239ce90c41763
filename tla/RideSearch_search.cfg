CONSTANTS
    r1 = r1
    p1 = p1
    s1 = s1
    unknown = unknown
    none = none
    Unknown = unknown
    None = none
    Rides <- OneRide
    Passengers <- OnePassenger
    Slots <- OneSlot
    Gender <- Men
    Route <- ThreePoints
    Skew <- AskewRoad
    Source <- From
    Destination <- To
    Locations <- OneLocation
    SourceThreshold = 3
    DestinationThreshold = 3
    DriverThreshold = 4
    MaxNumberOfPassengers = 2
    Maxima <- OneMaximum
    MaxRows = 2
SPECIFICATION Spec
INVARIANTS
    TypeOK
    OffersWereRight
    RightRidesAreOffered
PROPERTIES
    SearchesEnd
