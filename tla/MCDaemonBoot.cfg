SPECIFICATION Spec
CONSTANTS
  Daemons = {d1, d2, d3}
  Definitions = {x, y}
  NoDaemon = NoDaemon
  RacingSockets = FALSE
INVARIANTS OneServing Reachable
PROPERTIES RefusedForCause
