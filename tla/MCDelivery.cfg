SPECIFICATION Spec
CONSTANTS
    plex = plex
    emby = emby
    hook = hook
    gone = gone
    k1 = k1
    Server <- MCServer
    TypeOf <- MCTypeOf
    RetryAttempts <- MCRetryAttempts
    Adapted = {plex, emby, hook}
    Request <- MCRequest
    Probes <- MCProbes
    Client = {k1}
    MaxCalls = 3
    Capacity = 2
    RecentLimit = 2
    QueueMax = 2
    None = None
INVARIANTS RetriesAsConfigured OneHonestRecord StreamCurrent
CHECK_DEADLOCK FALSE
