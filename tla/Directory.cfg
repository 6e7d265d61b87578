\* Either two processes that register the same service, each over a connection
\* of its own, the second one a subscriber too; or one process that registers it
\* over two connections.
SPECIFICATION FairSpec
CONSTANTS
    s1 = s1  r1 = r1  r2 = r2  h1 = h1  h2 = h2  h3 = h3
    Services = {s1}
    Runtimes = {r1, r2}
    Handles = {h1, h2, h3}
    Owner <- MCOwner
    Groups = {{h1, h2}, {h1, h3}}
    Subscribers = {r2}
    AnyService = any
    Filters = {any}
    Retention = 2
    ReadyPerHandle = 2
    MaxTime = 6
INVARIANTS
    LossNotMissed
    StateIsTrue
    SubscriberViewAgrees
PROPERTIES GenerationFencing LossApplied
CHECK_DEADLOCK FALSE
