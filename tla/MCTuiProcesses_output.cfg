SPECIFICATION FairSpec
CONSTANTS
  Keys = {k1}
  k1 = k1
  k2 = k2
  NoKey = NoKey
  Registries <- MCOneProcess
  HasLauncher = FALSE
  MaxInstances = 2
  MaxOutput = 1
  MaxOthers = 3
  MaxCommands = 2
CHECK_DEADLOCK FALSE
PROPERTY OutputConverges
