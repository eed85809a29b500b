CONSTANTS
    a = a
    b = b
    s = s
    Clients = {a, b, s}
    Loggers = {a, b}
    Flushers = {b}
    Stoppers = {s}
    MaxCalls <- TwoCallsOfA
    Capacity = 2
    MessageLevels = {4}
    Thresholds = {4}
    FlushThresholds = {4}
    Setups <- BlockAndDrop
    None = None
SPECIFICATION Spec
CHECK_DEADLOCK FALSE
INVARIANTS
    TypeOK
    AcceptedLogsAreConserved
    ProducerOrder
    StatsAreExact
    NoItemWithoutSignal
    FlushFailsOnlyWithWorker
PROPERTY
    QueueIsReservationQueue
