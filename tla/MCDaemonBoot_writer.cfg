SPECIFICATION Spec
CONSTANTS
  Daemons = {d1, d2}
  Definitions = {x}
  NoDaemon = NoDaemon
  RacingSockets = FALSE
INVARIANTS ServedIsStored
