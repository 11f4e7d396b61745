SPECIFICATION EvalsSpec
CONSTANTS
    a = a
    b = b
    Tasks = {a, b}
    Tier <- MCTier
    Broken = {{}, {b}}
    Filters <- MCFilters
    Datasets <- MCDatasets
    Operators <- MCOperators
    Recipes <- MCRecipes
    Trials = 2
    Threads = 2
    EditPhases = {"idle"}
    c1 = c1
    c2 = c2
    c3 = c3
    Cases = {c1, c2, c3}
    Declared <- MCDeclared
    Slices <- MCSlices
    Surfaces <- MCSurfaces
    Replies <- MCReplies
    Commands = 2
    JudgeRoutes = {"gemini", "modal"}
    OtherPhases = {"idle"}
    Projects <- MCProjects
    Growth <- MCGrowth
    Held <- MCSessions
    Registries <- MCRegistries
    Edited = {"importer"}
    Requests <- MCRequests
    Experiments <- MCExperiments
    Failing = {"get", "list", "register", "sessions", "file", "created", "cohort"}
    Invocations = 2
    ThreadCap = 2
INVARIANTS
    VerdictIsFair
    JobIsHonest
    CasesDontLeak
    SuiteIsHonest
    RegisteredOnce
    TracesAreToldTruly
    CohortIsFailures
PROPERTY CommandEnds
\* A job ends, and the commands that may be given do.
CHECK_DEADLOCK FALSE
