SPECIFICATION FanoutSpec
CONSTANTS
    Calls = {a}
    MaxParallel = 2
    MaxFanout = 2
    RetryBudget = 1
    Budget = 4
    MaxLines = 2
    Reports <- MCReports
    MaxResponses = 1
INVARIANT FoldWithinBudget
CHECK_DEADLOCK FALSE
