SPECIFICATION Spec
CONSTANTS
    Callers = {c, d}
    Servers = {s1, s2}
    MaxCalls = 2
    MaxEdits = 1
INVARIANTS AnswerIsRight
    OneServer
PROPERTY EveryOpEnds
CHECK_DEADLOCK FALSE
