\* An agent with an investigator, an investigator in the graph, and an
\* inference for a queued item beside one that another component asked for.
CONSTANTS
    a = a
    i1 = i1
    i2 = i2
    d = d
    k1 = k1
    k2 = k2
    Agent = a
    Child = {i1}
    Direct = {d}
    Call = {k1, k2}
    Queued = {k1}
    MaxModels = 2
    MaxTasks = 2
SPECIFICATION FairSpec
INVARIANTS
    OneCache
    ModelInTime
PROPERTY
    InferenceEnds
CHECK_DEADLOCK FALSE
