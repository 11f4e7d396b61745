SPECIFICATION RemoteSpec
CONSTANTS
    Containers = {k1}
    Repos = {r1, r2}
    NoRepo = NoRepo
    MaxCalls = 2
    MaxAttempts = 2
    Triggers = {"run", "attempts", "detach", "webhook", "direct"}
    Requests <- SomeRequests
    MayKeepLog = TRUE
INVARIANTS PayloadIsTrue
PROPERTY
    TableIsWhole
\* Every call ends.
CHECK_DEADLOCK FALSE
