SPECIFICATION Spec
CONSTANTS
    Launches <- EveryLaunch
    MaxRequests = 3
INVARIANTS
    SummaryIsTrue
    DebtsArePaid
\* The command ends.
CHECK_DEADLOCK FALSE
