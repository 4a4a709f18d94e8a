SPECIFICATION Spec
CONSTANTS
    s1 = s1
    s2 = s2
    p1 = p1
    none = none
    row = row
    odd = odd
    bad = bad
    h1 = h1
    h2 = h2
    b1 = b1
    b2 = b2
    Server <- MCServer
    Path <- MCPath
    Row <- MCRow
    Disabled = none
    Corrupt <- MCCorrupt
    Unsupported = {}
    Handler <- MCHandler
    Bundle <- MCBundle
    NoBundle = NoBundle
    NoHandler = NoHandler
    Start = Start
    Headless = FALSE
SYMMETRY Symmetry
INVARIANTS TypeOK Converged OffUnblocks RootsMatch BlockedExplained ClientsExact Released
CHECK_DEADLOCK FALSE
