---------------------------- MODULE IdentityState ---------------------------
(***************************************************************************)
(* The identity configuration and what can be asked of it: personas,       *)
(* projects with their policies, its validation, and the authorisation of  *)
(* a gh invocation.  Everything here is pure; IdentityService changes it.  *)
(* A Bug_ operator is a faulty variant of the definition that follows it.  *)
(*                                                                         *)
(* Abstractions: a persona is its GitHub host; names, accounts and paths   *)
(* are left out.  Fold gives the lower-case spelling of a host.  Of an     *)
(* invocation's arguments there remain the permissions it needs, the hosts *)
(* it names, and whether they are well formed and about the repository.    *)
(***************************************************************************)
CONSTANTS PersonaIds, ProjectIds, Hosts, Fold

ASSUME FoldAssumption ==
  /\ Fold \in [Hosts -> Hosts]
  /\ \A host \in Hosts : Fold[Fold[host]] = Fold[host]

RepositoryOperations ==
  {"read", "comment", "create", "edit", "close", "review", "merge", "actions"}
Permissions == RepositoryOperations \cup {"persona"}
Presets == {"read-only", "collaborate", "maintain"}
Modes == {"proxy-level", "agent-isolation"}

(* The exceptions of a policy, split into those that allow and that deny.  *)
Policies == [preset : Presets, allow : SUBSET Permissions, deny : SUBSET Permissions]

Projects == [persona : PersonaIds, alternatives : SUBSET PersonaIds, mode : Modes,
             proxy : BOOLEAN, policy : Policies]

(* The identifiers of a configured persona or project are a domain.        *)
Configured(f, Ids, Values) == DOMAIN f \subseteq Ids /\ f \in [DOMAIN f -> Values]
Put(f, id, value) ==
  [x \in DOMAIN f \cup {id} |-> IF x = id THEN value ELSE f[x]]

StateOK(state) ==
  /\ state = [gh |-> state.gh, personas |-> state.personas, projects |-> state.projects]
  /\ state.gh \in BOOLEAN
  /\ Configured(state.personas, PersonaIds, Hosts)
  /\ Configured(state.projects, ProjectIds, Projects)

NewState == [gh |-> FALSE, personas |-> [x \in {} |-> x], projects |-> [x \in {} |-> x]]

PresetAllows(preset, operation) ==
  CASE preset = "read-only"   -> operation = "read"
    [] preset = "collaborate" -> operation \in RepositoryOperations \ {"merge", "actions"}
    [] preset = "maintain"    -> operation # "persona"
    [] OTHER                  -> FALSE

(* An exception overrides the preset, in either direction.                 *)
Allows(policy, operation) ==
  /\ operation \in Permissions
  /\ operation \notin policy.deny
  /\ operation \in policy.allow \/ PresetAllows(policy.preset, operation)

(* The personas a project may act under.                                   *)
PersonasOf(project) == {project.persona} \cup project.alternatives

Bug_ValidateExistence(state) ==
  \A p \in DOMAIN state.projects :
    PersonasOf(state.projects[p]) \subseteq DOMAIN state.personas

Validate(state) ==
  \A p \in DOMAIN state.projects :
    LET project == state.projects[p] IN
    /\ PersonasOf(project) \subseteq DOMAIN state.personas
    /\ \A a \in project.alternatives :
         Fold[state.personas[a]] = Fold[state.personas[project.persona]]

(* sameRepository, and the host of a Git credential request.               *)
SameHost(named, host) == Fold[named] = Fold[host]

(* A command of the catalogue: its arguments are well formed (`fits`), a   *)
(* host it names in --repo is the persona's, and the policy allows its     *)
(* permission, and also "comment" for a `close` with a comment.            *)
AuthorizeCommand(project, host, invocation) ==
  /\ invocation.fits
  /\ \A named \in invocation.names : SameHost(named, host)
  /\ \A operation \in invocation.needs : Allows(project.policy, operation)

Bug_CredentialAnyHost(host, invocation) == invocation.fits /\ invocation.names # {}

(* A Git credential request names its host and needs no permission.        *)
AuthorizeGitCredential(host, invocation) ==
  /\ invocation.fits
  /\ invocation.names # {}
  /\ \A named \in invocation.names : SameHost(named, host)

(* A REST request is about the project's repository (`fits`) and the       *)
(* policy allows its route; it goes to the persona's host and names none.  *)
AuthorizeAPI(project, invocation) ==
  /\ invocation.fits
  /\ \A operation \in invocation.needs : Allows(project.policy, operation)

Authorize(project, host, invocation) ==
  CASE invocation.kind = "credential" -> AuthorizeGitCredential(host, invocation)
    [] invocation.kind = "api"        -> AuthorizeAPI(project, invocation)
    [] OTHER                          -> AuthorizeCommand(project, host, invocation)
=============================================================================
