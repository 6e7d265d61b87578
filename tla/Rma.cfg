SPECIFICATION RmaSpec
CONSTANTS
    m1 = m1
    m2 = m2
    r11 = r11
    r12 = r12
    r21 = r21
    a11 = a11
    a12 = a12
    a21 = a21
    Msgs = {m1, m2}
    Bodies <- MCBodies
    ReadOp <- MCReadOp
    AckOp <- MCAckOp
    Handles = {1, 2, 3}
    Reads = {r11, r12, r21}
    Sends = {a11, a12, a21}
    MaxGaveUp = 1
INVARIANT RegionServed
INVARIANT PayloadsInPlace
PROPERTY RegionsReleased
CHECK_DEADLOCK FALSE
