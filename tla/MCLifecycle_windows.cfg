SPECIFICATION Spec
CONSTANTS
  Platform = "windows"
  TreeKinds <- DetachedTrees
  Projects = {p, q}
  Keys = {k1, k2}
  ProjectOf <- OwnProjects
  NoKey = NoKey
  Clients = {c1}
  Main = main
  NoThread = nobody
  MaxInstances = 2
  Requests = {"addProject", "removeProject", "addProcess", "removeProcess", "start", "stop", "restart"}
  Faults = {"save", "spawn", "wait", "crash"}
INVARIANTS SupervisionInv OneTree DiskIsPast NothingDangles
PROPERTIES ImplementsLedger
