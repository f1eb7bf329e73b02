SPECIFICATION Spec
CONSTANTS
  Requests <- MCRequests
  Sent <- MCSent
  Forwards = TRUE
PROPERTIES
  NewestTargetStays
CHECK_DEADLOCK FALSE
