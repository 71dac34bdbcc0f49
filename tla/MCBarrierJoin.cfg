\* A hard and a soft stream that join before or while rounds are in progress.
CONSTANTS
    h1 = h1
    h2 = h2
    s1 = s1
    s2 = s2
    Stream = {h1, h2, s1, s2}
    Hard = {h1, h2}
    Late = {h2, s2}
    MaxItems = 2
    MaxWindow = 2
SPECIFICATION Spec
INVARIANTS
    SoftWindowsExact
    NoLostWakeup
CHECK_DEADLOCK FALSE
