SPECIFICATION Spec
CONSTANTS
  Callers = {a, b}
  Batches <- SomeBatches
  Added = {}
  MsPerDay = 2
  MaxDays = 2
  MaxLives = 2
  MaxOrders = 3
PROPERTIES
  SomeOrderSent
CHECK_DEADLOCK FALSE
