\* A component beside a failing one.
CONSTANTS
    main = main
    consumer = consumer
    k1 = k1
    k2 = k2
    a = a
    Task = {main, consumer}
    Comp = {k1, k2}
    Caller = {a}
    NoError = NoError
    Children <- MCChildren
SPECIFICATION Spec
INVARIANT
    EverythingCancelled
