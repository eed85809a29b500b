CONSTANTS
    a = a
    b = b
    s = s
    Clients = {a, s}
    Loggers = {a}
    Flushers = {a}
    Stoppers = {s}
    MaxCalls <- ThreeCallsOfA
    Capacity = 2
    MessageLevels = {4}
    Thresholds = {4, 6}
    FlushThresholds = {4}
    Setups <- BlockUnreliable
    None = None
SPECIFICATION FairSpec
CHECK_DEADLOCK FALSE
PROPERTIES
    FailureReleasesCallers
    CallsReturnIfWorkerWakes
