\* redisConnect and redisCommand, and a signal without SA_RESTART.
CONSTANTS
    LLONG_MAX = 127
    FormatBuf = 6
    INT_MAX = 20
    MaxAlloc = 9
    StackSize = 3
    Discard = 4
    Command <- Commands
    Answers <- MCAnswers
    Garbage <- MCGarbage
    Option <- Plain
    MaxAddrs = 1
    MaxContexts = 1
    MaxCalls = 2
    MaxSignals = 1
    RETRIES = 2
SPECIFICATION Spec
CHECK_DEADLOCK FALSE
INVARIANTS
    NullExplained
