CONSTANTS
    None = None
    Setups <- TwoSinks
    Sizes = {1, 2}
    MaxLines = 3
    MaxTime = 2
    MaxRestarts = 1
SPECIFICATION Spec
CHECK_DEADLOCK FALSE
INVARIANTS
    NoLineIsLostOrRepeated
    FlushedLinesAreInEveryFile
    StagedLinesMeetInterval
PROPERTIES
    PollServesEveryChild
    KeepsSinkPromise
