\* Two calls of run() on the same runner.
CONSTANTS
    n1 = n1
    n2 = n2
    Range = {n1, n2}
    ZeroRange = {}
    TRetryCount = 2
    MaxCommand = 2
    MaxRun = 2
SPECIFICATION RunOnlySpec
CHECK_DEADLOCK FALSE
INVARIANTS
    RunReturnsOwn
