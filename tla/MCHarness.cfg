\* Safety and liveness of the interactive core: three lines, turns of up to two
\* deferred legs with up to two calls to decide.
SPECIFICATION FairSpec
CONSTANTS
  Line = {l1, l2, l3}
  MaxCalls = 2
  MaxLegs = 2
\* The program ends: no step is left once the input loop is closed.
CHECK_DEADLOCK FALSE
INVARIANTS TypeOK SingleFlight AbortIsOfThisTurn DecisionHasAsker EveryLineOnce
PROPERTIES NoLegAfterAbort KeepsMailbox TurnEnds
