SPECIFICATION Spec
CONSTANTS
    None = None
    p = p
    a = a
    b = b
    e1 = e1
    e2 = e2
    Peer = {p}
    Name = {a, b}
    Container = {a}
    static <- MCStatic
    Ttl = 2
    UnknownTtl = 1
    normal <- MCNormal
    PerHour = 2
    Request <- MCRequest
    Uptime = 2
    Retention = 1
    PruneAge = {3}
    TailMax = 1
    MaxTime = 5
    MaxRequests = 2
    MaxFaults = 2
INVARIANTS
    SlicesExact
    RetentionBound
    LowDiskPauses
    AttributionCatchesUp
    EveryRequestRecorded
PROPERTIES
    PruneSpares
CHECK_DEADLOCK FALSE
