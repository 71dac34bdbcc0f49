\* A selection that is made before the first model is published.
CONSTANTS
    a = a
    i1 = i1
    i2 = i2
    d = d
    k1 = k1
    k2 = k2
    Agent = a
    Child = {i1}
    Direct = {d}
    Call = {k1, k2}
    Queued = {k1}
    MaxModels = 2
    MaxTasks = 2
SPECIFICATION Spec
INVARIANT
    LatestModel
CHECK_DEADLOCK FALSE
