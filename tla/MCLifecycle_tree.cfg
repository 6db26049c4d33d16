SPECIFICATION Spec
CONSTANTS
  Platform = "unix"
  TreeKinds <- DetachedTrees
  Projects = {p}
  Keys = {k}
  ProjectOf <- OneProject
  NoKey = NoKey
  Clients = {c1}
  Main = main
  NoThread = nobody
  MaxInstances = 2
  Requests = {"start", "stop", "restart"}
  Faults = {}
SYMMETRY ClientSymmetry
INVARIANTS OneTree
