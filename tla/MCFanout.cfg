SPECIFICATION FanoutSpec
CONSTANTS
    Calls = {a, b}
    MaxParallel = 2
    MaxFanout = 2
    RetryBudget = 1
    Budget = 4
    MaxLines = 2
    Reports <- MCReport
    MaxResponses = 3
INVARIANTS
    SlotsExact
    FoldTellsTheTruth
PROPERTY EveryCallFolds
CHECK_DEADLOCK FALSE
