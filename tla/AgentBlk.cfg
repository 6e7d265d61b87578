SPECIFICATION FairSpec
CONSTANTS
    s1 = s1 s2 = s2
    Senders = {s1, s2}
INVARIANTS CountsHolders
PROPERTIES ImplementsLifecycle GoneIsFreed
CHECK_DEADLOCK FALSE
