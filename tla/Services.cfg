\* Daemons crash, pid files are late, waits time out, directory calls fail.
SPECIFICATION ProcessesSpec
CONSTANTS
    N = 3
    MaxCalls = 2
    p1 = p1 p2 = p2 p3 = p3
    Procs = {p1, p2, p3}
    Waited = {p3}
    Pids = {1, 2}
INVARIANTS RunningIsOwned EveryoneAccounted
PROPERTIES ExitStopsAll 
\* The parent's process ends.
CHECK_DEADLOCK FALSE
