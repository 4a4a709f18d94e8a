SPECIFICATION Spec
CONSTANTS
    m = m
    a = a
    b = b
    x = x
    f = f
    DirPath <- MCDirPath
    FileName = {f}
    Ignored = {x}
    RootSets <- MCRootSets
    MaxDirs = 3
    MaxChanges = 3
    QueueMax = 2
    Limit = 2
    Renames = TRUE
INVARIANTS TypeOK AllWatched AllReported GateCountsAll
CHECK_DEADLOCK FALSE
