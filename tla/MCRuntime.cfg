\* A main loop and a consumer of two components; whatever they do, the twin comes down.
CONSTANTS
    main = main
    consumer = consumer
    k1 = k1
    k2 = k2
    a = a
    Task = {main, consumer}
    Comp = {k1, k2}
    Caller = {a}
    NoError = NoError
    Children <- MCChildren
SPECIFICATION FairSpec
INVARIANTS
    NoTaskEscapes
    CancelReachesComponents
    StopJoins
PROPERTIES
    FirstFailureWins
    StopReturns
    ImplementsLifecycle
