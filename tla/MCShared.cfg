\* More keys than the cache holds.
CONSTANTS
    c1 = c1
    c2 = c2
    c3 = c3
    c4 = c4
    k1 = k1
    k2 = k2
    k3 = k3
    NoKey = NoKey
    Caller = {c1, c2, c3, c4}
    Internal = {c1, c2}
    Key = {k1, k2, k3}
    MaxSize = 2
SPECIFICATION SubtaskSpec
INVARIANTS
    CacheIsLRU
    NoOrphans
    ComputedOnce
SYMMETRY SharedSymmetry
CHECK_DEADLOCK FALSE
