CONSTANTS
    b1 = b1
    b2 = b2
    b3 = b3
    None = None
    BaseFare = 50
    PerKmFare = 30
    Unit = 12
    Points <- ThreePoints
    Detours <- OneDetour
    Rows <- ThreeRows
SPECIFICATION Spec
SYMMETRY Symmetry
INVARIANTS
    TypeOK
    EstimateIsOrderFree
    SharingIsNotDearer
PROPERTIES
    AdjustmentIsBounded
