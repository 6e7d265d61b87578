SPECIFICATION Spec
CONSTANTS
    x1 = x1 x2 = x2 a1 = a1 a2 = a2
    Dirs <- MCDirs
    Regs = {x1, x2}
    Apps = {a1, a2}
    Scenarios <- MCScenarios
    MaxRuns = 2
    Timeout = 2
INVARIANTS ClientIsRight AdvertisedIsRegistered
\* Every call has ended.
CHECK_DEADLOCK FALSE
