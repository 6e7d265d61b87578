\* A descriptor below the listening socket and two above it.  Stale stands for
\* HB_TO * 100; iterations are shorter and longer than each of the three times.
SPECIFICATION MCSpec
CONSTANTS
    p1 = p1 p2 = p2 r1 = r1 r2 = r2
    Pairs = {p1, p2}
    RuntimeOf <- MCTwoPeers
    Fds = {3, 4, 5, 6}
    ListenFd = 4
    MaxClients = 2
    Procs = {p1}
    Peers = {p1, p2}
    HbTo = 2
    Stale = 5
    Deadline = 3
    MaxIter = 6
    Cap = 11
INVARIANTS ChannelsOwned HearsEverything
PROPERTIES  Reconnects 
\* Peers come and go, and the listener may shut down.
CHECK_DEADLOCK FALSE
