SPECIFICATION Spec
CONSTANTS
  Callers = {a, b}
  Batches <- SomeBatches
  Added <- SessionNames
  MsPerDay = 2
  MaxDays = 2
  MaxLives = 2
  MaxOrders = 3
PROPERTIES
  IdsUniqueWithinDay
  AnswersComplete
  CallsReturn
CHECK_DEADLOCK FALSE
