CONSTANTS
    a = a
    b = b
    s = s
    Clients = {a, b}
    Loggers = {}
    Flushers = {a, b}
    Stoppers = {}
    MaxCalls <- OneCallEach
    Capacity = 2
    MessageLevels = {4}
    Thresholds = {4}
    FlushThresholds = {6}
    Setups <- BlockReliable
    None = None
SPECIFICATION FairSpec
CHECK_DEADLOCK FALSE
PROPERTY
    SimultaneousFlushesReturn
