CONSTANTS
    a = a
    b = b
    s = s
    Clients = {a, s}
    Loggers = {a}
    Flushers = {}
    Stoppers = {s}
    MaxCalls <- OneCallEach
    Capacity = 2
    MessageLevels = {4}
    Thresholds = {4}
    FlushThresholds = {6}
    Setups <- BlockReliable
    None = None
SPECIFICATION Spec
CHECK_DEADLOCK FALSE
INVARIANT
    StopDrainsAcceptedLogs
