SPECIFICATION FairSpec
CONSTANTS
    plex = plex
    abs = abs
    k1 = k1
    k2 = k2
    Server <- MCServer
    Key <- MCKey
    ServerOf <- MCServerOf
    MaxSubmit = 2
INVARIANTS TypeOK TimersExact CarriesNewest NoOrphanTimer
PROPERTIES DispatchNotKilled RefinesCoalescer HeldIsDispatched AcloseTerminates
