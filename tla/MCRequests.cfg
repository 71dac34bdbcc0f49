\* A client with two sessions, and one request that comes late; an inference has
\* the default timeout, or an infinite one.
CONSTANTS
    c1 = c1
    s1 = s1
    s2 = s2
    Client = {c1}
    Sid = {s1, s2}
    Calls <- MCCalls
    Timeouts = {"none", "inf"}
    MaxLate = 1
    MaxTwins = 2
SPECIFICATION FairSpec
INVARIANTS
    OneTwinPerId
    ReadyMeansCallable
PROPERTIES
    CallsEnd
    ImplementsRegistry
CHECK_DEADLOCK FALSE
