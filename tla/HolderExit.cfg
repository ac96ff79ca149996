\* exit() without join().
CONSTANTS
    r1 = r1
    r2 = r2
    Runner = {r1, r2}
    MaxTask = 2
    Reentrant = {}
SPECIFICATION FairSpec
CHECK_DEADLOCK FALSE
PROPERTIES
    ExitCompletes
