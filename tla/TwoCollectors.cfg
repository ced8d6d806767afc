CONSTANTS
    IisServers = {i1}
    Endpoints = {e1, e2}
    Registered = {e1}
    IisCollectors = {c1}
    MaxDuplicates = 1
    SqlCollectors = {w1, w2}
    CollectionInterval = 1
    LeaseAge = 1
    MaxSnapshotAge = 1
    MaxRuns = 1
    MaxFaults = 2
SPECIFICATION Spec
SYMMETRY Symmetry
INVARIANTS
    StagedRowsCounted
    InventoryOnlyOfFinishedRuns
PROPERTY RowsLeaveWithTheirRun
