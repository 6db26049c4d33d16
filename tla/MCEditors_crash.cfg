SPECIFICATION Spec
CONSTANTS
  alice = alice
  bob = bob
  shop = shop
  PersonaIds <- MCPersonaIds
  ProjectIds <- MCProjectIds
  Hosts <- MCHosts
  Fold <- MCFold
  Authors <- MCPersonaIds
  NoAuthor = NoAuthor
  Repositories <- MCRepositories
  Here <- shop
  Stores <- MCStores
  PolicyChoices <- MCPolicyChoices
  Files <- MCFiles
  Teams <- TuiAlone
  MaxCommands = 2
  MaxChanges = 2
  MaxFailures = 1
  GitFaults = {}
INVARIANT
  ModalHasForm
CHECK_DEADLOCK FALSE
