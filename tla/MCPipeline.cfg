SPECIFICATION Spec
CONSTANTS
    plex = plex
    abs = abs
    k1 = k1
    k2 = k2
    Server <- MCServer
    Key <- MCKey
    ServerOf <- MCServerOf
    Unsupported = {}
    MaxSubmit = 2
    MaxGen = 2
INVARIANTS TypeOK NewRequestsSafe
PROPERTY RemovedIsSilent
CHECK_DEADLOCK FALSE
