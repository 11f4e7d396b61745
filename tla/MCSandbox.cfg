\* Two calls, in turn or overlapping; a call can lose both sandboxes it gets.
SPECIFICATION Spec
CONSTANTS
  Caller = {c1, c2}
  MaxBoxes = 2
  MaxWrites = 2
INVARIANTS NoLeak WritesAreAccounted
PROPERTIES CallEnds
\* The session ends, and the service has a last sandbox to give.
CHECK_DEADLOCK FALSE
