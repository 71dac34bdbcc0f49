\* One session with two twins: creation, closing and the engine in every order.
CONSTANTS
    s1 = s1
    s2 = s2
    x = x
    y = y
    Sid = {s1}
    TwinId = {x, y}
    MaxTwins = 2
SPECIFICATION FairSpec
INVARIANTS
    NoTwinLost
    NoStrandedEngine
    TwinsBeforeEngine
    InferenceCancelled
PROPERTIES
    InitEnds
    CloseReturns
    ImplementsRegistry
CHECK_DEADLOCK FALSE
