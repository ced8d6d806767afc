CONSTANTS
    IisServers = {i1, i2}
    Endpoints = {e1}
    Registered = {}
    IisCollectors = {c1, c2}
    MaxDuplicates = 0
    CollectionInterval = 1
    LeaseAge = 0
    MaxSnapshotAge = 0
    MaxRuns = 2
    MaxFaults = 1
SPECIFICATION IisSpec
INVARIANTS
    CollectionFenced
    PublishedRunsVisitedAll
    DecisionStillValid
