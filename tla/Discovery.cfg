\* Every kind of middleware, one call, one change of the servers at any point of it.
CONSTANTS
    s1 = s1
    s2 = s2
    n1 = n1
    n2 = n2
    Host = {s1, s2, n1, n2}
    NoHost = NoHost
    Local = {n1}
    Given <- Lists
    Network <- States
    MaxSlot = 2
    MaxNum = 2
    MaxCall = 1
    MaxChange = 1
SPECIFICATION Spec
CHECK_DEADLOCK FALSE
INVARIANTS
    HandedServes
    SteadyObtains
    NoneLost
