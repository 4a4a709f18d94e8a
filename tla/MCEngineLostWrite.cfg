SPECIFICATION Spec
CONSTANTS
    s1 = s1
    s2 = s2
    p1 = p1
    none = none
    row = row
    odd = odd
    bad = bad
    h1 = h1
    h2 = h2
    b1 = b1
    b2 = b2
    Server <- MCServer1
    Path <- MCPath
    Row <- MCRow2
    Disabled = none
    Corrupt = {}
    Unsupported <- MCUnsupported2
    Handler <- MCHandler1
    Bundle <- MCBundle
    NoBundle = NoBundle
    NoHandler = NoHandler
    Start = Start
    Headless = FALSE
INVARIANT EveryWriteTakesEffect
CHECK_DEADLOCK FALSE
