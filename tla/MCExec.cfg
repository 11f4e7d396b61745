SPECIFICATION Spec
CONSTANTS
    MaxCalls = 2
    MaxGroup = 3
    MaxWritten = 2
INVARIANT ReplyIsWhole
PROPERTY CallEndsUnlessOrphaned
\* The session ends.
CHECK_DEADLOCK FALSE
