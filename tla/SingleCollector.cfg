CONSTANTS
    IisServers = {i1, i2}
    Endpoints = {e1, e2}
    Registered = {e1}
    IisCollectors = {c1}
    MaxDuplicates = 0
    SqlCollectors = {w1}
    CollectionInterval = 1
    LeaseAge = 1
    MaxSnapshotAge = 1
    MaxRuns = 1
    MaxFaults = 1
SPECIFICATION Spec
SYMMETRY Symmetry
INVARIANTS
    TypeOK
    RowStatusFollowsRun
    CompletedRunsKeepInventory
PROPERTIES
    CompletionCountsSockets
    ImplementsLedger
