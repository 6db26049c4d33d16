SPECIFICATION FairSpec
CONSTANTS
  Keys = {k1, k2}
  k1 = k1
  k2 = k2
  NoKey = NoKey
  Registries <- MCRegistries
  HasLauncher = TRUE
  MaxInstances = 2
  MaxOutput = 1
  MaxOthers = 1
  MaxCommands = 2
CHECK_DEADLOCK FALSE
INVARIANTS
  FlagsMatch
  ShowsSelected
  EditorActsOnSelection
PROPERTY StatusConverges
