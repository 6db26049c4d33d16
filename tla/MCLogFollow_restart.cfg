SPECIFICATION Spec
CONSTANTS
  maxBytes = 2
  maxEvents = 2
  MaxWrite = 1
  MaxTotal = 2
  MaxRuns = 2
  tailLimit = 3
INVARIANTS FollowShowsLater
CHECK_DEADLOCK FALSE
