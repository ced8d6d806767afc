CONSTANTS
    Target = 3
    Active = 2
    Callers = {p1, p2}
    MaxFaults = 2
SPECIFICATION FairPoolSpec
INVARIANTS
    PoolTypeOK
    WorkloadUsesOpenConnections
PROPERTIES
    StopsAreComplete
    ImplementsLifecycle
    CallsReturn
