CONSTANTS
    PollInterval = 1
    HeartbeatInterval = 3
    LongestCycle = 4
    MaxFaults = 4
SPECIFICATION FairLoopSpec
INVARIANTS
    LoopTypeOK
    WorkingServiceIsFresh
PROPERTIES
    ErrorsCanBeSeen
    HeartbeatsGoOn
