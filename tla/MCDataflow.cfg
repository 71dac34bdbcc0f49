\* Two dtypes, one of them without components, and up to two barriers.
CONSTANTS
    a = a
    b = b
    Dtype = {a, b}
    Consumed = {a}
    MaxItems = 2
    MaxBarriers = 2
SPECIFICATION FairSpec
INVARIANTS
    PipelineExact
    RoundsAligned
    OneAtATime
PROPERTY
    ItemsArrive
CHECK_DEADLOCK FALSE
