\* Only the threads are fair; WaitEnds states its assumption on the clock.
\* Issuing a request and losing a connection are not fair, so the constraint
\* cuts off no behaviour of the two scenarios it leaves.
SPECIFICATION RequestsSpec
CONSTANTS
    s1 = s1 s2 = s2 c1 = c1 h1 = h1 h2 = h2
    SendReqs = {s1, s2}
    ConnReqs = {c1}
    Conns = {h1, h2}
    Targets <- MCTargets
CONSTRAINT OneBesides
INVARIANTS LossReleasesWaiter
PROPERTIES ImplementsContract WaitEnds
CHECK_DEADLOCK FALSE
