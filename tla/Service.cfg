CONSTANTS
    Peers = {p, q}
    Requests = {"metrics", "invalid"}
    Descriptors = {4, 5}
    Configs <- MCConfigs
    MaxThreads = 2
    MaxWarnings = 1
    None = None
SPECIFICATION FairSpec
CHECK_DEADLOCK FALSE
INVARIANTS
    TypeOK
    SleepersHaveNoWork
    EveryDescriptorHasOneHolder
    AnswersMatchRequests
    ReportIsExact
    LogIsWholeAtExit
PROPERTIES
    ServiceEnds
    EveryConnectionIsServed
