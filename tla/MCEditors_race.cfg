SPECIFICATION Spec
CONSTANTS
  alice = alice
  bob = bob
  shop = shop
  PersonaIds <- MCPersonaIds
  ProjectIds <- MCProjectIds
  Hosts <- MCHosts
  Fold <- MCFold
  Authors <- MCPersonaIds
  NoAuthor = NoAuthor
  Repositories <- PlainRepositories
  Here <- shop
  Stores <- ConfiguredStores
  PolicyChoices <- MCPolicyChoices
  Files <- MCFiles
  Teams <- TerminalAlone
  MaxCommands = 1
  MaxChanges = 2
  MaxFailures = 0
  GitFaults = {}
PROPERTY
  DisableSparesIsolated
CHECK_DEADLOCK FALSE
