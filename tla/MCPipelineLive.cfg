SPECIFICATION FairSpec
CONSTANTS
    plex = plex
    abs = abs
    k1 = k1
    k2 = k2
    Server <- MCServer
    Key <- MCKey
    ServerOf <- MCServerOf
    Unsupported <- MCUnsupported
    MaxSubmit = 2
    MaxGen = 2
PROPERTY EventIsDispatched
CHECK_DEADLOCK FALSE
