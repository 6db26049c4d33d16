------------------------------ MODULE MCIdentity -----------------------------
(* A small instance of IdentityService: two personas, one project, hosts of *)
(* which two differ only in case.                                           *)
EXTENDS IdentityService, TLC

CONSTANTS alice, bob, shop, c1, c2

MCPersonaIds == {alice, bob}
MCProjectIds == {shop}
MCHosts == {"host", "HOST", "other"}
MCFold == [host \in MCHosts |-> IF host = "HOST" THEN "host" ELSE host]

MCPersonaInputs == {<<alice, "host">>, <<bob, "HOST">>, <<bob, "other">>}

Reader == [preset |-> "read-only", allow |-> {"persona"}, deny |-> {}]
Closer == [preset |-> "collaborate", allow |-> {"merge"}, deny |-> {"comment"}]
MCPolicyInputs == {Closer}

Project(alternatives, mode) ==
  [persona |-> alice, alternatives |-> alternatives, mode |-> mode, proxy |-> TRUE,
   policy |-> Reader]
MCProjectInputs == {Project({bob}, "proxy-level"), Project({}, "agent-isolation")}

MCBackends == {"proxy-level", "native", "docker"}

CloseWithComment ==
  [kind |-> "command", fits |-> TRUE, names |-> {"HOST"}, needs |-> {"close", "comment"}]
View == [kind |-> "api", fits |-> TRUE, names |-> {}, needs |-> {"read"}]
GitCredential == [kind |-> "credential", fits |-> TRUE, names |-> {"host"}, needs |-> {}]
MCInvocations == {CloseWithComment, View, GitCredential}

MCCallers == {c1, c2}
CallerSymmetry == Permutations(MCCallers)
=============================================================================
