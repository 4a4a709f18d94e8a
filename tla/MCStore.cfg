CONSTANTS
    a = a
    b = b
    Keep = Keep
    None = None
    Request = {r1, r2, r3}
    Name = {a, b}
    Path = {"p", "q"}
    Contents = {"p"}
    MaxServers = 2
    MaxFolders = 4
    Creates <- MCCreates
    Patches <- MCPatches
    Saves <- MCSaves
    Tables <- MCTables
SPECIFICATION Spec
SYMMETRY Alike
INVARIANTS NoOrphans WritesRebuilt
PROPERTY OnlySentFields
CHECK_DEADLOCK FALSE
