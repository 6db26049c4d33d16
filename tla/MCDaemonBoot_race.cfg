SPECIFICATION Spec
CONSTANTS
  Daemons = {d1, d2, d3}
  Definitions = {x}
  NoDaemon = NoDaemon
  RacingSockets = TRUE
INVARIANTS OneServing
