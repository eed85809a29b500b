CONSTANTS
    Producers = {p1, p2}
    Consumers = {c1, c2}
    Capacity = 2
    MaxEnqueues = 3
    MaxDequeues = 2
    NoValue = NoValue
    Width = 8
SPECIFICATION Spec
SYMMETRY Symmetry
CHECK_DEADLOCK FALSE
INVARIANTS
    TypeOK
    NoDataRace
    CapacityFits
PROPERTIES
    ImplementsReservationQueue
    RefusalsAreTrue
