SPECIFICATION Spec
CONSTANTS
  Persona <- MCPersona
  Settings <- MCSettings
  Response <- MCResponse
  MaxResponses = 2
INVARIANTS OnlyAllowedRuns
\* The responses run out.
CHECK_DEADLOCK FALSE
