SPECIFICATION Spec
CONSTANTS
    c1 = c1 c2 = c2
    Consoles = {c1, c2}
    Plans <- MCPlans
    Suites = {"a", "b"}
    Scripts = {1, 2}
    Disks <- MCDisks
    MaxReloads = 1
INVARIANTS  ResultsAddUp
\* The consoles ask for no more.
CHECK_DEADLOCK FALSE
