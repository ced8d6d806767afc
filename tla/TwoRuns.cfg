CONSTANTS
    IisServers = {i1}
    Endpoints = {e1}
    Registered = {e1}
    IisCollectors = {c1}
    MaxDuplicates = 0
    SqlCollectors = {w1}
    CollectionInterval = 1
    LeaseAge = 1
    MaxSnapshotAge = 1
    MaxRuns = 2
    MaxFaults = 1
SPECIFICATION FairPagesSpec
INVARIANTS
    UnknownCountedOnce
    HomeShowsWholeRun
PROPERTIES
    QueuedRunsFinish
