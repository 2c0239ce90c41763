CONSTANTS
    r1 = r1
    r2 = r2
    p1 = p1
    p2 = p2
    p3 = p3
    driver = driver
    b1 = b1
    b2 = b2
    b3 = b3
    s1 = s1
    s2 = s2
    none = none
    Driver = driver
    None = none
    Rides <- TwoRides
    Passengers <- TwoPassengers
    Rows <- TwoRows
    Slots <- TwoSlots
    Endpoints <- BookingEndpoints
    DeviceUsers <- TwoPassengers
SPECIFICATION Spec
INVARIANTS
    FareOfBookedPassengers
SYMMETRY Symmetry
