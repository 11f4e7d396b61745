SPECIFICATION HandbackSpec
CONSTANTS
    Backends = {"docker", "modal"}
    ExportFails = TRUE
    Files = {f, g}
    Tracked = {f}
    Sessions <- TwoSessions
    MaxCommits = 3
    MaxShips = 2
PROPERTIES
    WorkIsSecured
    ModelCommitsKept
CHECK_DEADLOCK FALSE
