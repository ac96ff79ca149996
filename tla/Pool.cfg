\* Two threads share a pool over two nodes that may change places; the callback
\* of one of them may break a new connection.
CONSTANTS
    t1 = t1
    t2 = t2
    c1 = c1
    c2 = c2
    n1 = n1
    n2 = n2
    Thread = {t1, t2}
    Conn = {c1, c2}
    Node = {n1, n2}
    Callback = {n2}
    MaxSlot = 2
    Topology <- Swapping
    NoThread = NoThread
    MaxHeld = 2
    MaxCreate = 2
SPECIFICATION Spec
SYMMETRY Symmetric
CHECK_DEADLOCK FALSE
INVARIANTS
    TypeOK
    Ownership
    BucketKeyed
    RoutingSound
    ConnectsOnlyOnMiss
PROPERTIES
    RoutingStable
    LeasesImplemented
