CONSTANTS
    None = None
    Setups <- OneFile
    Sizes = {2}
    MaxLines = 1
    MaxTime = 3
    MaxRestarts = 0
SPECIFICATION Spec
CHECK_DEADLOCK FALSE
INVARIANT
    LinesMeetInterval
