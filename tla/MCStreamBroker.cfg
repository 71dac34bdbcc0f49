\* Three twins that need the broker, while it fails and dies.
CONSTANTS
    c1 = c1
    c2 = c2
    c3 = c3
    p1 = p1
    p2 = p2
    NoPort = NoPort
    Nobody = Nobody
    Supervisor = Supervisor
    Caller = {c1, c2, c3}
    Port = {p1, p2}
    MaxBrokers = 4
    MaxFails = 3
SPECIFICATION FairSpec
INVARIANTS
    OneBroker
    AddressesStable
PROPERTY
    BrokerRespawns
CHECK_DEADLOCK FALSE
