SPECIFICATION FairSpec
CONSTANTS
  MaxCalls = 2
  Paths = {"bridge", "socket"}
  Requests = {"execute", "query"}
  Alphabet = {"a", "b"}
  Secret <- MCSecret
  FrameSize = 1
  MaxBytes = 3
CHECK_DEADLOCK FALSE
INVARIANTS
  AnswersOwn
  ShowsRedaction
  ExitMeansComplete
PROPERTY CallsAnswered
