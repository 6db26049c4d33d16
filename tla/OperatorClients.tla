--------------------------- MODULE OperatorClients --------------------------
(***************************************************************************)
(* Programs that act for the operator on one identity store and one        *)
(* repository: the terminal UI (TuiIdentity), a terminal command that reads*)
(* the store, changes a copy and writes it back, and the gh proxy that     *)
(* runs the original gh under the project's persona.  Commands that are a  *)
(* single request come from anybody at any time.                           *)
(*                                                                         *)
(* The terminal's commands: `identity use`, `policy enable` and `disable`, *)
(* the persona form and the questionnaire of `project configure`, which    *)
(* goes on to the process registry and to the Git configuration.  A request*)
(* may be refused or not arrive, and its answer may be lost; a command that*)
(* is left at a question or refused on the spot has changed nothing.       *)
(* A Bug_ operator is a faulty variant of the definition that follows it.  *)
(***************************************************************************)
EXTENDS TuiIdentity, GitConfig

CONSTANTS
  Here,           \* the project whose directory the commands are given in
  Stores,         \* the configurations there may be at first
  PolicyChoices,  \* the policies set or chosen in the questionnaire
  Files,          \* the <<host, project>> of configuration files
  Teams           \* which of the programs are at work at the same time

ASSUME ClientsAssumption ==
  /\ Here \in ProjectIds
  /\ \A state \in Stores : StateOK(state) /\ Validate(state)
  /\ PolicyChoices \subseteq Policies
  /\ Files \subseteq Hosts \X Projects
  /\ Teams \subseteq SUBSET {"tui", "terminal", "gh"}

VARIABLES
  term,        \* the terminal command that is running
  proxied,     \* the call of the gh proxy that is running
  registered,  \* the process registry has the project
  team         \* the programs at work

vars == <<storeVars, view, commands, gitVars, term, proxied, registered, team>>
tuiVars == <<view, commands>>

NoCommand == [pc |-> "idle", kind |-> "none", list |-> {}, persona |-> {},
              draft |-> {}, found |-> FALSE, applyGit |-> FALSE]
NoCall == [pc |-> "idle", host |-> {}, token |-> {}]

Init ==
  /\ store \in Stores
  /\ changes = 0
  /\ TuiInit
  /\ GitInit
  /\ term = NoCommand
  /\ proxied = NoCall
  /\ registered = (Here \in DOMAIN store.projects)
  /\ team \in Teams

(***************************************************************************)
(* The terminal: what a command reads and makes of it.                     *)
(***************************************************************************)
Starts(command) ==
  /\ "terminal" \in team
  /\ term = NoCommand
  /\ term' = command
  /\ UNCHANGED <<storeVars, gitVars, registered>>

PutNext(kind, persona, draft, applyGit) ==
  [NoCommand EXCEPT !.pc = "put", !.kind = kind, !.persona = persona,
                    !.draft = draft, !.applyGit = applyGit]

(* identity use [--apply-git]                                              *)
UsePersona(id, applyGit) ==
  /\ Here \in DOMAIN store.projects
  /\ id \in DOMAIN store.personas
  /\ Starts(PutNext("use", {<<id, store.personas[id]>>},
                    {[store.projects[Here] EXCEPT !.persona = id]}, applyGit))

(* policy enable and policy disable                                        *)
SwitchPolicy(enabled) ==
  /\ Here \in DOMAIN store.projects
  /\ store.projects[Here].mode = "agent-isolation" => enabled
  /\ Starts(PutNext("policy", {}, {[store.projects[Here] EXCEPT !.proxy = enabled]}, FALSE))

(* EditPersona: the form and its confirmation.                             *)
EditPersona(id, host) ==
  /\ id \in DOMAIN store.personas
  /\ Starts(PutNext("persona", {<<id, host>>}, {}, FALSE))

(* configure reads the configuration before its first question.            *)
StartConfigure ==
  Starts([NoCommand EXCEPT !.pc = "questions", !.kind = "configure", !.list = {store}])

(* A saved persona is taken as it was read, a new one as it is entered.    *)
ChosenPersonas(list) ==
  {<<id, list.personas[id]>> : id \in DOMAIN list.personas} \cup (PersonaIds \X Hosts)

(* The project as it was read, or the defaults.                            *)
FirstDraft(list, persona) ==
  IF Here \in DOMAIN list.projects
  THEN [list.projects[Here] EXCEPT !.persona = persona]
  ELSE [persona |-> persona, alternatives |-> {}, mode |-> "proxy-level", proxy |-> TRUE,
        policy |-> [preset |-> "read-only", allow |-> {}, deny |-> {}]]

(* Only isolation asks for permissions, and only an agent that may select a*)
(* persona for the alternatives, which are on the same host to the letter. *)
Drafts(list, chosen) ==
  LET first == FirstDraft(list, chosen[1])
      others == {a \in DOMAIN list.personas \ {chosen[1]} : list.personas[a] = chosen[2]} IN
  {[first EXCEPT !.mode = "proxy-level"]} \cup
  {[first EXCEPT !.mode = "agent-isolation", !.policy = policy] : policy \in PolicyChoices} \cup
  {[first EXCEPT !.mode = "agent-isolation", !.policy = policy, !.alternatives = chosenToo] :
     policy \in {p \in PolicyChoices : Allows(p, "persona")}, chosenToo \in SUBSET others}

AnswerQuestions(chosen, applyGit) ==
  /\ term.pc = "questions"
  /\ \E list \in term.list :
       /\ chosen \in ChosenPersonas(list)
       /\ \E draft \in Drafts(list, chosen) :
            term' = [term EXCEPT !.pc = "list", !.list = {}, !.persona = {chosen},
                                 !.draft = {draft}, !.applyGit = applyGit]
  /\ UNCHANGED <<storeVars, gitVars, registered>>

(* Is the project registered?  Then the confirmation.                      *)
ListProjects ==
  /\ term.pc = "list"
  /\ term' = [term EXCEPT !.pc = "put", !.found = registered]
  /\ UNCHANGED <<storeVars, gitVars, registered>>

(***************************************************************************)
(* The terminal: what it writes.                                           *)
(***************************************************************************)

WithGh(state) == [state EXCEPT !.gh = TRUE]

(* persona.put, project.put or configure of what the command has made.     *)
Written ==
  CASE term.kind = "persona" ->
         {WithPersona(store, p[1], p[2]) : p \in term.persona}
    [] term.kind = "configure" ->
         {WithProject(WithPersona(WithGh(store), p[1], p[2]), Here, draft) :
            p \in term.persona, draft \in term.draft}
    [] OTHER -> {WithProject(store, Here, draft) : draft \in term.draft}

AfterPut ==
  CASE term.kind = "configure" -> [term EXCEPT !.pc = IF term.found THEN "helper" ELSE "register"]
    [] term.applyGit           -> [term EXCEPT !.pc = "author"]
    [] OTHER                   -> NoCommand

Bug_HelperFirst ==
  /\ term.pc = "put"
  /\ IF term.kind = "configure" /\ job = NoJob /\ git.helper # Installed
     THEN BeginHelper /\ UNCHANGED <<storeVars, term, registered>>
     ELSE /\ \E next \in Written : Update(next)
          /\ term' \in {AfterPut, NoCommand}
          /\ UNCHANGED <<gitVars, registered>>

(* The answer may be lost: the change is made and the command gives up.    *)
PutDraft ==
  /\ term.pc = "put"
  /\ \E next \in Written : Update(next)
  /\ term' \in {AfterPut, NoCommand}
  /\ UNCHANGED <<gitVars, registered>>

PutRefused ==
  /\ term.pc = "put"
  /\ term' = NoCommand
  /\ UNCHANGED <<storeVars, gitVars, registered>>

(* AddProject is refused if somebody registered the project meanwhile.     *)
RegisterProject ==
  /\ term.pc = "register"
  /\ \/ /\ ~registered
        /\ registered' = TRUE
        /\ term' \in {[term EXCEPT !.pc = "helper"], NoCommand}
     \/ term' = NoCommand /\ UNCHANGED registered
  /\ UNCHANGED <<storeVars, gitVars>>

(* ApplyGitCredentialHelper, then ApplyGitAuthor if it was asked for.      *)
StartGit ==
  /\ \/ term.pc = "helper" /\ BeginHelper
     \/ term.pc = "author" /\ \E p \in term.persona : BeginAuthor(p[1])
  /\ term' = [term EXCEPT !.pc = "git"]
  /\ UNCHANGED <<storeVars, registered>>

AfterGit ==
  IF job.kind = "helper" /\ term.applyGit THEN [term EXCEPT !.pc = "author"] ELSE NoCommand

RunGit ==
  /\ \/ Write /\ term' = IF job' = NoJob THEN AfterGit ELSE term
     \/ ReadPrevious /\ term' = IF job' = NoJob THEN NoCommand ELSE term
     \/ WriteFails /\ term' = NoCommand
  /\ UNCHANGED <<storeVars, registered>>

TerminalStep ==
  /\ \/ \E id \in PersonaIds, applyGit \in BOOLEAN : UsePersona(id, applyGit)
     \/ \E enabled \in BOOLEAN : SwitchPolicy(enabled)
     \/ \E id \in PersonaIds, host \in Hosts : EditPersona(id, host)
     \/ StartConfigure
     \/ \E chosen \in PersonaIds \X Hosts, applyGit \in BOOLEAN :
          AnswerQuestions(chosen, applyGit)
     \/ ListProjects \/ PutDraft \/ PutRefused \/ RegisterProject \/ StartGit \/ RunGit
  /\ UNCHANGED <<tuiVars, proxied, team>>

(***************************************************************************)
(* The gh proxy, outside a session: runGHWith and runPersonaGH.            *)
(***************************************************************************)

(* The proxy reads the configuration.  It goes on only for a project that  *)
(* routes its persona: without one, or with its proxy off, the original gh *)
(* runs as it is, and an isolated project is refused by the daemon.        *)
ReadForGh ==
  /\ "gh" \in team
  /\ proxied = NoCall
  /\ Here \in DOMAIN store.projects
  /\ LET project == store.projects[Here] IN
     /\ project.proxy /\ project.mode = "proxy-level"
     /\ proxied' = [pc |-> "credential", host |-> {store.personas[project.persona]},
                    token |-> {}]

(* It asks for the token of the host it has read of; the daemon answers by *)
(* its configuration as it is now, or it refuses or has no token.          *)
FetchCredential ==
  LET request == [kind |-> "credential", fits |-> TRUE, names |-> proxied.host, needs |-> {}]
      project == store.projects[Here]
      host == store.personas[project.persona] IN
  /\ proxied.pc = "credential"
  /\ \/ /\ store.gh
        /\ project.mode # "agent-isolation"
        /\ AuthorizeGitCredential(host, request)
        /\ proxied' = [proxied EXCEPT !.pc = "run", !.token = {host}]
     \/ proxied' = NoCall

(* The original gh runs with GH_HOST and the token, and ends.              *)
RunOriginalGh ==
  /\ proxied.pc = "run"
  /\ proxied' = NoCall

GhStep ==
  /\ ReadForGh \/ FetchCredential \/ RunOriginalGh
  /\ UNCHANGED <<storeVars, tuiVars, gitVars, term, registered, team>>

(***************************************************************************)
(* Anybody.                                                                *)
(***************************************************************************)
(* identity put, policy set, identity gh.                                  *)
PutPersona(id, host) == Update(WithPersona(store, id, host))
SetPolicy(policy) ==
  /\ Here \in DOMAIN store.projects
  /\ Update([store EXCEPT !.projects[Here].policy = policy])
SetGh == Update(WithGh(store))

(* project configure --file: everything as the file has it.                *)
ConfigureFromFile(host, project) ==
  Update(WithProject(WithPersona(WithGh(store), project.persona, host),
                     Here, project))

(* project add.                                                            *)
RegisterElsewhere == ~registered /\ registered' = TRUE

Elsewhere ==
  /\ \/ /\ \/ \E id \in PersonaIds, host \in Hosts : PutPersona(id, host)
           \/ \E policy \in PolicyChoices : SetPolicy(policy)
           \/ SetGh
           \/ \E file \in Files : ConfigureFromFile(file[1], file[2])
        /\ UNCHANGED registered
     \/ RegisterElsewhere /\ UNCHANGED storeVars
  /\ UNCHANGED <<tuiVars, gitVars, term, proxied, team>>

Next ==
  \/ "tui" \in team /\ TuiStep /\ UNCHANGED <<gitVars, term, proxied, registered, team>>
  \/ TerminalStep \/ GhStep \/ Elsewhere

Spec == Init /\ [][Next]_vars

(***************************************************************************)
(* Properties.                                                             *)
(***************************************************************************)

(* Git is sent to Dovik for its credentials only in a repository whose     *)
(* project is configured: wherever the questionnaire fails, is refused or  *)
(* loses an answer, and whoever else writes, the helper is not installed   *)
(* without the configuration it needs (configure, ApplyGitCredentialHelper)*)
HelperOnlyIfConfigured ==
  git.helper = Installed => Here \in DOMAIN store.projects /\ store.gh

(* The original gh is never given the token of one host and sent to another*)
(* although the persona may be edited or exchanged between the read of the *)
(* configuration and the credential (runPersonaGH, AuthorizeGitCredential).*)
TokenFitsHost ==
  proxied.pc = "run" =>
    \A host \in proxied.host, token \in proxied.token : Fold[host] = Fold[token]

(* A project that is isolated keeps its execution policy enabled: no step  *)
(* of any program disables it (runPolicyCommand refuses to).               *)
DisableSparesIsolated ==
  [][\A id \in DOMAIN store.projects :
       store.projects[id].mode = "agent-isolation" /\ store.projects[id].proxy
         => store'.projects[id].proxy]_vars

(* The inductive strengthening of HelperOnlyIfConfigured: the questionnaire*)
(* turns to the registry and to Git only when the configuration is stored, *)
(* and no change takes a configuration back.                               *)
ConfiguredHere == Here \in DOMAIN store.projects /\ store.gh

HelperInv ==
  /\ store = [gh |-> store.gh, personas |-> store.personas, projects |-> store.projects]
  /\ DOMAIN term = DOMAIN NoCommand
  /\ term.pc \in {"register", "helper"} => ConfiguredHere
  /\ job.kind = "helper" => ConfiguredHere
  /\ \A old \in job.previous : old.helper = Installed => ConfiguredHere
  /\ HelperOnlyIfConfigured

(* A call of the proxy has the fields of one.                              *)
ProxyInv ==
  /\ proxied = [pc |-> proxied.pc, host |-> proxied.host, token |-> proxied.token]
  /\ TokenFitsHost
=============================================================================
