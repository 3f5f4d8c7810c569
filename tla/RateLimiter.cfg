SPECIFICATION Spec
CONSTANTS
    Ips = {ip1, ip2, ip3}
    Rate = 1
    Burst = 3
    Cost = 2
    Idle = 3
    MaxEntries = 1
    MaxStep = 2
    MaxTime = 6
    NoReply = NoReply
SYMMETRY Symmetry
INVARIANTS
    TypeOK
    WindowBound
    OverLimitIsFresh
PROPERTIES
    BehavesAsBuckets
