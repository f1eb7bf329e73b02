SPECIFICATION Spec
CONSTANTS
  MaxOptions = 8
  EnvDays = 0
  Prices = {98, 100}
  Chains <- SomeChains
INVARIANTS
  DistinctSymbols
  NearestOfEachKind
  OnlyEdgeUnpaired
CHECK_DEADLOCK FALSE
