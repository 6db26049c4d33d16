------------------------------ MODULE MCEditors ------------------------------
(* A small instance of OperatorClients: two personas, one project, hosts of *)
(* which two differ only in case.                                           *)
EXTENDS OperatorClients

CONSTANTS alice, bob, shop

MCPersonaIds == {alice, bob}
MCProjectIds == {shop}
MCHosts == {"host", "HOST", "other"}
MCFold == [host \in MCHosts |-> IF host = "HOST" THEN "host" ELSE host]

Selector ==
  [preset |-> "read-only", allow |-> {"read", "persona"},
   deny |-> Permissions \ {"read", "persona"}]
MCPolicyChoices == {Selector}

Fresh == [NewState EXCEPT !.personas = [id \in {alice} |-> "host"]]
Shared ==
  [gh |-> TRUE, personas |-> [id \in {alice, bob} |-> "host"],
   projects |-> [id \in {shop} |->
     [persona |-> alice, alternatives |-> {bob}, mode |-> "proxy-level", proxy |-> TRUE,
      policy |-> Selector]]]
MCStores == {Fresh, Shared}
MCRepositories ==
  {[name |-> NoAuthor, email |-> bob, helper |-> <<>>],
   [name |-> bob, email |-> bob, helper |-> <<"cache", "store">>]}

MCFiles ==
  {<<"HOST", [persona |-> bob, alternatives |-> {}, mode |-> "agent-isolation",
              proxy |-> TRUE, policy |-> Selector]>>}

ConfiguredStores == {Shared}
PlainRepositories == {r \in MCRepositories : r.helper = <<>>}

Pairs == {{"tui"}, {"terminal", "gh"}}
TerminalAlone == {{"terminal"}}
TuiAlone == {{"tui"}}
=============================================================================
