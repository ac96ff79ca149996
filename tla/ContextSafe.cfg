\* Two commands over two connections, with every way to open one.
CONSTANTS
    LLONG_MAX = 127
    FormatBuf = 6
    INT_MAX = 20
    MaxAlloc = 9
    StackSize = 3
    Discard = 4
    Command <- Commands
    Answers <- MCAnswers
    Garbage <- MCGarbage
    Option <- MCOption
    MaxAddrs = 2
    MaxCalls = 3
    MaxContexts = 2
    MaxSignals = 1
    RETRIES = 2
SPECIFICATION Spec
CHECK_DEADLOCK FALSE
INVARIANTS
    FdOwned
    OutputConserved
    FailureExplained
    NothingLost
PROPERTIES
    ImplementsPipeline
    CallReturns
