SPECIFICATION Spec
CONSTANTS
  maxBytes = 3
  maxEvents = 2
  MaxWrite = 4
  MaxTotal = 6
  MaxRuns = 2
  tailLimit = 1
INVARIANTS WithinLimits RetainsNewest TailIsNext PrintsInOrder
CHECK_DEADLOCK FALSE
