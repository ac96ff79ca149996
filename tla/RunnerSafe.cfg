\* Up to four commands, run in any way, over two nodes; two attempts.
CONSTANTS
    n1 = n1
    n2 = n2
    Range = {n1, n2}
    ZeroRange = {n1}
    TRetryCount = 2
    MaxCommand = 4
    MaxRun = 2
SPECIFICATION Spec
CHECK_DEADLOCK FALSE
INVARIANTS
    RepliesAligned
    RightConnection
    PipelinedOnce
    ExecutedInOrder
    CleanHandBack
    UndefinedOnlyAfterFailure
