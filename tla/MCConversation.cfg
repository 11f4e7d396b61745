SPECIFICATION Spec
CONSTANTS
  MaxParts = 6
  MaxResumes = 2
INVARIANTS LogIsFaithful
  ReplaysOnceInOrder
  CallsStayAnswered
\* The user may leave and never come back.
CHECK_DEADLOCK FALSE
