SPECIFICATION Spec
CONSTANTS
    mkv = mkv
    MKV = MKV
    srt = srt
    ServerRow <- MCServerRow
    FolderRow <- MCFolderRow
    MaxFolders = 2
    NServers = 2
    EventPath <- MCEventPath
    EventType = {"created", "deleted"}
    IgnoreDirs <- MCIgnore
    Lower <- MCLower
    NoDot = NoDot
    None = None
INVARIANTS OneRequestPerMatch ScanCovers SameKeySameScan
CHECK_DEADLOCK FALSE
