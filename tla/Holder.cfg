\* Two runners and three tasks, the second with a callback that uses a runner.
CONSTANTS
    r1 = r1
    r2 = r2
    Runner = {r1, r2}
    MaxTask = 3
    Reentrant = {2}
SPECIFICATION FairSpec
CHECK_DEADLOCK FALSE
INVARIANTS
    OwnResult
    OneFuture
PROPERTIES
    JoinLeavesNone
    ReturnedErased
    JoinReturns
