SPECIFICATION FairSpec
CONSTANTS
  Platform = "unix"
  TreeKinds <- PipedTrees
  Projects = {p}
  Keys = {k}
  ProjectOf <- OneProject
  NoKey = NoKey
  Clients = {c1}
  Main = main
  NoThread = nobody
  MaxInstances = 2
  Requests = {"start", "stop", "restart"}
  Faults = {"spawn", "record", "accept"}
INVARIANTS ShutdownStopsAll
PROPERTIES ShutdownEnds StopEnds ExitRecorded
