SPECIFICATION Spec
CONSTANTS
  Requests <- MCRequests
  Sent <- MCSent
  Forwards = TRUE
INVARIANTS
  OncePerNumber
  TargetsAreSeen
PROPERTIES
  ImplementsGate
  EveryRequestAnswered
CHECK_DEADLOCK FALSE
