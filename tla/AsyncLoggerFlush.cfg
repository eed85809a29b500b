CONSTANTS
    a = a
    b = b
    s = s
    Clients = {a, b, s}
    Loggers = {a}
    Flushers = {a, b}
    Stoppers = {s}
    MaxCalls <- TwoCallsOfA
    Capacity = 2
    MessageLevels = {4}
    Thresholds = {4}
    FlushThresholds = {6}
    Setups <- BlockAutoFlush
    None = None
SPECIFICATION Spec
CHECK_DEADLOCK FALSE
INVARIANTS
    FlushMakesDurable
    NoOperationOutlivesWorker
    FailureIsPublished
PROPERTIES
    ImplementsLoggerPromise
    UsesSinkAsPromised
