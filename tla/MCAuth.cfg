SPECIFICATION Spec
CONSTANTS
    c1 = c1
    c2 = c2
    g1 = g1
    g2 = g2
    g3 = g3
    g4 = g4
    g5 = g5
    Client <- MCClient
    Boot = Boot
    Generated <- MCGenerated
    Own = Own
    Wrong = Wrong
    None = None
    MaxAttempts = 2
    MaxResets = 2
    Crashes = TRUE
    WriteFails = TRUE
INVARIANTS TypeOK NeverUnset GeneratedMustChange AdmittedBefore NoLockout Throttled
CHECK_DEADLOCK FALSE
