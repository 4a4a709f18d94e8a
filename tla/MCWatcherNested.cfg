SPECIFICATION Spec
CONSTANTS
    m = m
    a = a
    b = b
    x = x
    f = f
    DirPath <- MCNestedPath
    FileName = {f}
    Ignored = {x}
    RootSets <- MCNested
    MaxDirs = 3
    MaxChanges = 2
    QueueMax = 2
    Limit = 3
    Renames = FALSE
INVARIANT AllWatched
CHECK_DEADLOCK FALSE
