SPECIFICATION Spec
CONSTANTS
  Platform = "unix"
  TreeKinds <- EscapedTrees
  Projects = {p}
  Keys = {k}
  ProjectOf <- OneProject
  NoKey = NoKey
  Clients = {c1, c2}
  Main = main
  NoThread = nobody
  MaxInstances = 2
  Requests = {"addProcess", "removeProcess", "start", "stop", "restart"}
  Faults = {"save", "flush", "spawn", "signal", "wait", "accept", "crash"}
SYMMETRY ClientSymmetry
INVARIANTS TypeOK Ownership NoLeak OneLeader StopStops
PROPERTIES LegalTransitions DiskOutcomesFinal
