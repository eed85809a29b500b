CONSTANTS
    MaxFileSizes = {2, 3}
    FileCounts = {0, 1, 2}
    Truncations = {TRUE, FALSE}
    MaxBatchSize = 3
    Sizes = {1, 3}
    MaxLines = 5
    MaxRestarts = 2
    Absent = Absent
SPECIFICATION Spec
CHECK_DEADLOCK FALSE
INVARIANTS
    RetainedIsNewest
    ArchivesAreKept
    FilesRespectMaxSize
    NoLineIsLostInRotation
PROPERTY
    KeepsSinkPromise
