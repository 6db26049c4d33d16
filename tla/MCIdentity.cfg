SPECIFICATION Spec
CONSTANTS
  alice = alice
  bob = bob
  shop = shop
  c1 = c1
  c2 = c2
  PersonaIds <- MCPersonaIds
  ProjectIds <- MCProjectIds
  Hosts <- MCHosts
  Fold <- MCFold
  Callers <- MCCallers
  MaxSessions = 1
  PersonaInputs <- MCPersonaInputs
  ProjectInputs <- MCProjectInputs
  PolicyInputs <- MCPolicyInputs
  Backends <- MCBackends
  Invocations <- MCInvocations
  Faults = {"flush", "leftover", "remove", "accept", "crash"}
SYMMETRY CallerSymmetry
INVARIANTS
  CallsCovered
  RevokedStaysRevoked
  ContainersOwned
  HostsAgree
PROPERTY SessionLife
