\* Two hard and two soft streams: every way the streams of a round can meet.
CONSTANTS
    h1 = h1
    h2 = h2
    s1 = s1
    s2 = s2
    Stream = {h1, h2, s1, s2}
    Hard = {h1, h2}
    Late = {}
    MaxItems = 3
    MaxWindow = 2
SPECIFICATION FairSpec
INVARIANTS
    PermitsExact
    Lockstep
PROPERTIES
    ImplementsRounds
    HeldPutCompletes
CHECK_DEADLOCK FALSE
