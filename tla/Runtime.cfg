SPECIFICATION RuntimeSpec
CONSTANTS
    Modes = {"cmd", "exit", "shell", "pure"}
    MaxMsgs = 3
INVARIANTS FabricFindsPython
PROPERTY ShutdownEnds
\* The process ends.
CHECK_DEADLOCK FALSE
