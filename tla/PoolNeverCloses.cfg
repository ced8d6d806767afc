CONSTANTS
    Target = 3
    Active = 2
    Callers = {p1}
    MaxFaults = 1
SPECIFICATION PoolSpec
PROPERTY StopCloses
