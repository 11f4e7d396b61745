SPECIFICATION FilesSpec
CONSTANTS
    Bodies <- ShortBodies
    Olds <- ShortOlds
    News <- SomeNews
    Windows <- SomeWindows
    Caps <- SomeCaps
    MaxBody = 3
    MaxOld = 2
INVARIANTS CutsAreExact
    NeverTorn
\* A call ends.
CHECK_DEADLOCK FALSE
