CONSTANTS
    a = a
    b = b
    s = s
    Clients = {a, s}
    Loggers = {}
    Flushers = {a}
    Stoppers = {s}
    MaxCalls <- OneCallEach
    Capacity = 2
    MessageLevels = {4}
    Thresholds = {4}
    FlushThresholds = {6}
    Setups <- BlockReliable
    None = None
SPECIFICATION FairSpec
CHECK_DEADLOCK FALSE
PROPERTY
    WorkerWakes
