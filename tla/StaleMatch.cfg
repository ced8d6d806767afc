CONSTANTS
    IisServers = {i1}
    Endpoints = {e1}
    Registered = {e1}
    IisCollectors = {c1}
    MaxDuplicates = 0
    SqlCollectors = {w1}
    CollectionInterval = 1
    LeaseAge = 1
    MaxSnapshotAge = 1
    MaxRuns = 1
    MaxFaults = 0
SPECIFICATION Spec
PROPERTY FreshSnapshotOnly
