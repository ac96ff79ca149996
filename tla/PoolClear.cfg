\* clear() with a connection the pool opened on demand among the idle ones.
CONSTANTS
    t1 = t1
    t2 = t2
    c1 = c1
    c2 = c2
    n1 = n1
    n2 = n2
    Thread = {t1, t2}
    Conn = {c1, c2}
    Node = {n1}
    Callback = {}
    MaxSlot = 0
    Topology <- Whole
    NoThread = NoThread
    MaxHeld = 1
    MaxCreate = 1
SPECIFICATION Spec
CHECK_DEADLOCK FALSE
PROPERTIES
    ClearReturns
