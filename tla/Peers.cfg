SPECIFICATION FairSpec
CONSTANTS
    d1 = d1 d2 = d2 h1 = h1 i1 = i1 u1 = u1 r1 = r1 r2 = r2
    Handles = {d1, d2, h1, i1}
    DirsvcHandles = {d1, d2}
    Users = {u1}
    ConnOf <- MCConnOf
    Outbound = {d1, d2, h1}
    Runtime <- MCRuntime
    Target <- MCTarget
    Groups = {{d1, d2}, {h1, i1}}
    MaxClock = 1
  
PROPERTIES ReplacementKept ReadyIsBound
CHECK_DEADLOCK FALSE
