--------------------------- MODULE IdentityService --------------------------
(***************************************************************************)
(* The identity service of the daemon: its store and file, the agent       *)
(* sessions, the container runs and the gh executions that use them, while *)
(* an operator reconfigures projects and revokes sessions.                 *)
(*                                                                         *)
(* Store.Update holds the store's lock throughout and is one step.  Session*)
(* creation reads the store in one step and inserts in another; an         *)
(* execution resolves its context in one, reads the executable's path and  *)
(* authorises in another, and runs gh in a third.  Agents call on a native *)
(* listener or over the stdio bridge of a container.                       *)
(*                                                                         *)
(* Store.state.gh says whether the original gh is configured.  Reads       *)
(* ("get", "doctor", an agent's "context") change nothing and are left out.*)
(***************************************************************************)
EXTENDS IdentityState, Naturals

CONSTANTS
  Callers,         \* handler and agent goroutines
  MaxSessions,     \* bound on the sessions ever created
  PersonaInputs,   \* the <<id, host>> an operator may store
  ProjectInputs,   \* the projects an operator may store
  PolicyInputs,    \* the policies an operator may set
  Backends,        \* the session backends asked for
  Invocations,     \* the gh invocations made
  Faults           \* what may go wrong

BackendKinds == {"proxy-level", "native", "docker", "podman"}

ASSUME InputsAssumption ==
  /\ PersonaInputs \subseteq PersonaIds \X Hosts
  /\ ProjectInputs \subseteq Projects
  /\ PolicyInputs \subseteq Policies
  /\ Invocations \subseteq [kind : {"command", "interactive", "api", "credential"},
                            fits : BOOLEAN, names : SUBSET Hosts,
                            needs : SUBSET Permissions]
  /\ \A x \in Invocations : /\ x.kind = "api" => x.names = {}
                            /\ x.kind = "credential" => x.needs = {}
  /\ Backends \subseteq BackendKinds
  /\ MaxSessions \in Nat
  /\ Faults \subseteq {"flush",     \* the file is replaced, Update fails
                       "leftover",  \* a container exists, its creation failed
                       "remove",    \* a container cannot be removed
                       "accept",    \* accepting an agent's connection fails
                       "crash"}     \* the daemon dies

SessionIds == 1 .. MaxSessions
NoSession == 0

VARIABLES
  store,        \* Store.state
  disk,         \* the content of state.json
  sessions,     \* Service.sessions, by session ID
  listeners,    \* Service.listeners, by session ID: the copy of the session
                \* its accept loop works with, and whether the loop goes on
  nextSession,  \* the next fresh session ID
  call,         \* what each goroutine is doing
  containers,   \* the containers that exist, by session: "run" by this
                \* daemon, "left" by a failure or "orphan" of an old daemon
  revoked,      \* history: the sessions that ended
  witness       \* history: the <<project, host>> that were in force for each
                \* execution when it took its context

vars == <<store, disk, sessions, listeners, nextSession, call, containers,
          revoked, witness>>

Sessions == [project : ProjectIds, persona : PersonaIds, backend : BackendKinds,
             status : {"awaiting-agent", "active"}]

(* Steps of createSession, of RunContainer, of serveAgent and of Execute.  *)
CreateSteps == {"snapshot", "insert"}
ContainerSteps == {"launch", "bridge", "ready", "agent", "remove", "revoke"}
ExecuteSteps == {"called", "taken", "cleared", "running"}

(* `arg` holds what a call works on: the <<project, backend>> asked for, its*)
(* own copy of the session, or the project of an execution without one.    *)
Idle == [pc |-> "idle", op |-> "none", session |-> NoSession, arg |-> {},
         invocation |-> {}, taken |-> {}]

At(c, pc) == call[c].pc = pc
Goto(c, pc) == call' = [call EXCEPT ![c].pc = pc]
Return(c) == call' = [call EXCEPT ![c] = Idle]

Init ==
  /\ store = NewState
  /\ disk = NewState
  /\ sessions = [s \in {} |-> s]
  /\ listeners = [s \in {} |-> s]
  /\ nextSession = 1
  /\ call = [c \in Callers |-> Idle]
  /\ containers = [s \in {} |-> s]
  /\ revoked = {}
  /\ witness = [c \in Callers |-> {}]

serviceVars == <<sessions, listeners, nextSession, call, containers, revoked>>
storeVars == <<store, disk>>

(***************************************************************************)
(* The store.  A change that is refused, does not validate or cannot be    *)
(* written leaves everything as it was and is no step.                     *)
(***************************************************************************)

(* replaceState: the flush of the directory may fail after the rename.     *)
Replace(next) ==
  /\ disk' = next
  /\ store' = next \/ ("flush" \in Faults /\ store' = store)

Update(next) ==
  /\ Validate(next)
  /\ Replace(next)
  /\ UNCHANGED serviceVars

(* persona.put                                                             *)
SetPersona(id, host) ==
  Update([store EXCEPT !.personas = Put(@, id, host)])

(* persona.import: nothing that exists is overwritten.                     *)
ImportPersonas(imported) ==
  /\ DOMAIN imported # {}
  /\ DOMAIN imported \cap DOMAIN store.personas = {}
  /\ Update([store EXCEPT !.personas =
               [x \in DOMAIN @ \cup DOMAIN imported |->
                  IF x \in DOMAIN imported THEN imported[x] ELSE @[x]]])

(* project.put                                                             *)
SetProject(id, project) ==
  Update([store EXCEPT !.projects = Put(@, id, project)])

(* gh.set                                                                  *)
SetGH == Update([store EXCEPT !.gh = TRUE])

(* configure: the executable, a persona and a project in one update.       *)
Configure(persona, host, id, project) ==
  Update([gh |-> TRUE, personas |-> Put(store.personas, persona, host),
          projects |-> Put(store.projects, id, project)])

(* policy.set                                                              *)
SetPolicy(id, policy) ==
  /\ id \in DOMAIN store.projects
  /\ Update([store EXCEPT !.projects[id].policy = policy])

(***************************************************************************)
(* Sessions.                                                               *)
(***************************************************************************)
Isolated(project, backend) ==
  project.mode = "agent-isolation" => backend # "proxy-level"

(* session.create and RunContainer, which first looks its project up.      *)
CallCreate(c, op, id, backend) ==
  /\ At(c, "idle")
  /\ op = "container" => backend \in {"docker", "podman"} /\ id \in DOMAIN store.projects
  /\ call' = [call EXCEPT ![c] = [Idle EXCEPT !.pc = "snapshot", !.op = op,
                                  !.arg = {<<id, backend>>}]]
  /\ UNCHANGED <<storeVars, sessions, listeners, nextSession, containers, revoked>>

(* createSession: the project is read from a snapshot of the store.        *)
Snapshot(c) ==
  /\ At(c, "snapshot")
  /\ \E made \in call[c].arg :
       LET id == made[1]
           backend == made[2]
           accepted == /\ id \in DOMAIN store.projects
                       /\ Isolated(store.projects[id], backend)
                       /\ nextSession <= MaxSessions
           session == [project |-> id, persona |-> store.projects[id].persona,
                       backend |-> backend,
                       status |-> IF backend = "proxy-level" THEN "active"
                                  ELSE "awaiting-agent"] IN
       \/ /\ ~accepted
          /\ Return(c)
          /\ UNCHANGED nextSession
       \/ /\ accepted
          /\ nextSession' = nextSession + 1
          /\ call' = [call EXCEPT ![c].pc = "insert", ![c].session = nextSession,
                                  ![c].arg = {session}]
  /\ UNCHANGED <<storeVars, sessions, listeners, containers, revoked>>

(* The session is inserted under the lock, a native one with the listener  *)
(* it is to be reached at, and serveAgent is started with a copy of it;    *)
(* failing to listen, or to find the boundary the native backend needs,    *)
(* creates none.                                                           *)
Insert(c) ==
  /\ At(c, "insert")
  /\ \E session \in call[c].arg :
       \/ /\ session.backend = "native"
          /\ Return(c)
          /\ UNCHANGED <<sessions, listeners>>
       \/ /\ sessions' = Put(sessions, call[c].session, session)
          /\ listeners' = IF session.backend = "native"
                          THEN Put(listeners, call[c].session,
                                   [session |-> session, accepts |-> TRUE])
                          ELSE listeners
          /\ call' = [call EXCEPT ![c] = IF @.op = "container"
                        THEN [@ EXCEPT !.pc = "launch"] ELSE Idle]
  /\ UNCHANGED <<storeVars, nextSession, containers, revoked>>

Without(f, id) == [x \in DOMAIN f \ {id} |-> f[x]]

Bug_ForgetOnly(s) ==
  /\ sessions' = Without(sessions, s)
  /\ revoked' = revoked \cup {s}
  /\ UNCHANGED listeners

(* session.revoke: the session and its listener go together, and with the  *)
(* listener the loop that accepts from it.                                 *)
EndSession(s) ==
  /\ sessions' = Without(sessions, s)
  /\ listeners' = Without(listeners, s)
  /\ revoked' = IF s \in DOMAIN sessions THEN revoked \cup {s} ELSE revoked

Revoke(s) ==
  /\ s \in DOMAIN sessions
  /\ EndSession(s)
  /\ UNCHANGED <<storeVars, nextSession, call, containers>>

(* session.persona, and the "persona" action of an agent.                  *)
SelectSessionPersona(s, persona) ==
  /\ s \in DOMAIN sessions
  /\ sessions[s].project \in DOMAIN store.projects
  /\ LET project == store.projects[sessions[s].project] IN
     /\ Allows(project.policy, "persona")
     /\ persona \in PersonasOf(project)
     /\ persona \in DOMAIN store.personas
     /\ store.personas[persona] = store.personas[project.persona]
  /\ sessions' = [sessions EXCEPT ![s].persona = persona]
  /\ UNCHANGED <<storeVars, listeners, nextSession, call, containers, revoked>>

Bug_ActivateCopy(s, session) == Put(sessions, s, [session EXCEPT !.status = "active"])

(* activateSession goes by the ID: the caller's copy may be old, and a     *)
(* session that was revoked meanwhile stays revoked.                       *)
Activated(s, session) ==
  IF s \in DOMAIN sessions
  THEN [sessions EXCEPT ![s].status = "active"] ELSE sessions

(***************************************************************************)
(* RunContainer, from its session on.  Whatever fails, the bridge, the     *)
(* container and the session are undone in that order.                     *)
(***************************************************************************)
Launch(c) ==
  LET s == call[c].session IN
  /\ At(c, "launch")
  /\ \/ containers' = Put(containers, s, "run") /\ Goto(c, "bridge")
     \/ UNCHANGED containers /\ Goto(c, "revoke")
     \/ /\ "leftover" \in Faults
        /\ containers' = Put(containers, s, "left")
        /\ Goto(c, "revoke")
  /\ UNCHANGED <<storeVars, sessions, listeners, nextSession, revoked>>

Bug_BridgeFails == "revoke"

(* Where a run goes that failed with its container created.                *)
Failed == "remove"

StartBridge(c) ==
  /\ At(c, "bridge")
  /\ Goto(c, "ready") \/ Goto(c, Failed)
  /\ UNCHANGED <<storeVars, sessions, listeners, nextSession, containers, revoked>>

(* The bridge reports in and the agent starts; or it does not in time, is  *)
(* incompatible, or the caller went away.                                  *)
Ready(c) ==
  /\ At(c, "ready")
  /\ \/ \E session \in call[c].arg :
          /\ sessions' = Activated(call[c].session, session)
          /\ Goto(c, "agent")
     \/ UNCHANGED sessions /\ Goto(c, Failed)
  /\ UNCHANGED <<storeVars, listeners, nextSession, containers, revoked>>

(* The agent's command ended or was cancelled.                             *)
AgentEnds(c) ==
  /\ At(c, "agent")
  /\ Goto(c, "remove")
  /\ UNCHANGED <<storeVars, sessions, listeners, nextSession, containers, revoked>>

RemoveContainer(c) ==
  LET s == call[c].session IN
  /\ At(c, "remove")
  /\ Goto(c, "revoke")
  /\ \/ containers' = Without(containers, s)
     \/ "remove" \in Faults /\ containers' = Put(containers, s, "left")
  /\ UNCHANGED <<storeVars, sessions, listeners, nextSession, revoked>>

RevokeOwn(c) ==
  /\ At(c, "revoke")
  /\ EndSession(call[c].session)
  /\ Return(c)
  /\ UNCHANGED <<storeVars, nextSession, containers>>

(***************************************************************************)
(* Executions.                                                             *)
(***************************************************************************)
Begin(c, pc, op, s, arg, invocation) ==
  /\ At(c, "idle")
  /\ call' = [call EXCEPT ![c] = [pc |-> pc, op |-> op, session |-> s, arg |-> arg,
                                  invocation |-> {invocation}, taken |-> {}]]
  /\ UNCHANGED <<storeVars, sessions, listeners, nextSession, containers, revoked>>

(* A control client asks for a project, or for a session it has heard of.  *)
CallExecute(c, invocation) ==
  \/ \E id \in ProjectIds : Begin(c, "called", "execute", NoSession, {id}, invocation)
  \/ \E s \in 1 .. nextSession - 1 : Begin(c, "called", "execute", s, {}, invocation)

(* serveAgent accepts a connection, which it takes for its session's.      *)
AgentConnects(c, s, invocation) ==
  /\ s \in DOMAIN listeners
  /\ listeners[s].accepts
  /\ Begin(c, "connected", "native", s, {listeners[s].session}, invocation)

(* serveAgent returns when Accept fails, for whatever reason.  The session *)
(* and its open listener stay, but no agent is accepted any more.          *)
AcceptFails(s) ==
  /\ "accept" \in Faults
  /\ s \in DOMAIN listeners
  /\ listeners' = [listeners EXCEPT ![s].accepts = FALSE]
  /\ UNCHANGED <<storeVars, sessions, nextSession, call, containers, revoked>>

(* The peer is authenticated against the project as it is now, or dropped. *)
Authenticate(c) ==
  /\ At(c, "connected")
  /\ \/ UNCHANGED sessions /\ Return(c)
     \/ \E session \in call[c].arg :
          /\ session.project \in DOMAIN store.projects
          /\ sessions' = Activated(call[c].session, session)
          /\ Goto(c, "called")
  /\ UNCHANGED <<storeVars, listeners, nextSession, containers, revoked>>

(* One request at a time comes over the bridge; what it has read may be    *)
(* served while the run is already being undone.                           *)
BridgeCalls(c, d, invocation) ==
  /\ call[d].pc \in {"agent", "remove", "revoke"}
  /\ \A e \in Callers : call[e].op # "bridge" \/ call[e].session # call[d].session
  /\ Begin(c, "called", "bridge", call[d].session, {}, invocation)

Bug_AnyBackend(session, project) == session.persona \in PersonasOf(project)

(* A session is judged by the project as it is now.                        *)
StillPermitted(session, project) ==
  /\ Isolated(project, session.backend)
  /\ session.persona \in PersonasOf(project)

(* Context: the project and the persona's host, or nothing when refused.   *)
Context(c) ==
  IF call[c].session # NoSession
  THEN {<<store.projects[session.project], store.personas[session.persona]>> :
          session \in {x \in {sessions[s] : s \in {call[c].session} \cap DOMAIN sessions} :
                        /\ x.project \in DOMAIN store.projects
                        /\ StillPermitted(x, store.projects[x.project])
                        /\ x.persona \in DOMAIN store.personas}}
  ELSE {<<project, store.personas[project.persona]>> :
          project \in {x \in {store.projects[id] : id \in call[c].arg \cap DOMAIN store.projects} :
                        x.mode # "agent-isolation"}}

TakeContext(c) ==
  /\ At(c, "called")
  /\ call' = [call EXCEPT ![c] = IF Context(c) = {} THEN Idle
                                 ELSE [@ EXCEPT !.pc = "taken", !.taken = Context(c)]]
  /\ UNCHANGED <<storeVars, sessions, listeners, nextSession, containers, revoked>>

(* Execute and Executor.Run up to the credential: the path of gh is read   *)
(* now, the rest was taken with the context.  ValidateGH may refuse too.   *)
Clear(c) ==
  /\ At(c, "taken")
  /\ \/ Return(c)
     \/ /\ store.gh
        /\ \A invocation \in call[c].invocation, context \in call[c].taken :
             /\ Authorize(context[1], context[2], invocation)
             /\ invocation.kind # "interactive"
             /\ invocation.kind = "credential" => call[c].session = NoSession
        /\ Goto(c, "cleared")
  /\ UNCHANGED <<storeVars, sessions, listeners, nextSession, containers, revoked>>

(* The account's token is fetched and verified, and gh runs.               *)
Run(c) ==
  /\ At(c, "cleared")
  /\ Goto(c, "running")
  /\ UNCHANGED <<storeVars, sessions, listeners, nextSession, containers, revoked>>

(* gh ended, was cancelled or timed out, or never came to run.             *)
EndCall(c) ==
  /\ At(c, "cleared") \/ At(c, "running")
  /\ Return(c)
  /\ UNCHANGED <<storeVars, sessions, listeners, nextSession, containers, revoked>>

(***************************************************************************)
(* The daemon.  No session survives it.                                    *)
(***************************************************************************)
NewDaemon ==
  /\ Validate(disk)
  /\ store' = disk
  /\ sessions' = [s \in {} |-> s]
  /\ listeners' = [s \in {} |-> s]
  /\ call' = [c \in Callers |-> Idle]
  /\ containers' = [s \in DOMAIN containers |-> "orphan"]
  /\ revoked' = revoked \cup DOMAIN sessions
  /\ UNCHANGED <<disk, nextSession>>

(* Serve waits for its handlers; agents' goroutines are not waited for.    *)
Restart ==
  /\ \A c \in Callers : call[c].op \in {"none", "native", "bridge"}
  /\ NewDaemon

Crash == "crash" \in Faults /\ NewDaemon

(***************************************************************************)
(* The specification.                                                      *)
(***************************************************************************)
Operator ==
  \/ \E input \in PersonaInputs : SetPersona(input[1], input[2])
  \/ \E input \in PersonaInputs : ImportPersonas([x \in {input[1]} |-> input[2]])
  \/ \E id \in ProjectIds, project \in ProjectInputs : SetProject(id, project)
  \/ SetGH
  \/ \E input \in PersonaInputs, id \in ProjectIds, project \in ProjectInputs :
       Configure(input[1], input[2], id, project)
  \/ \E id \in ProjectIds, policy \in PolicyInputs : SetPolicy(id, policy)
  \/ \E s \in SessionIds : Revoke(s)
  \/ \E s \in SessionIds, persona \in PersonaIds : SelectSessionPersona(s, persona)

SessionStep(c) ==
  \/ \E op \in {"create", "container"}, id \in ProjectIds, backend \in Backends :
       CallCreate(c, op, id, backend)
  \/ Snapshot(c) \/ Insert(c)
  \/ Launch(c) \/ StartBridge(c) \/ Ready(c) \/ AgentEnds(c)
  \/ RemoveContainer(c) \/ RevokeOwn(c)

ExecuteStep(c) ==
  \/ \E invocation \in Invocations :
       \/ CallExecute(c, invocation)
       \/ \E s \in SessionIds : AgentConnects(c, s, invocation)
       \/ \E d \in Callers : BridgeCalls(c, d, invocation)
  \/ Authenticate(c) \/ TakeContext(c) \/ Clear(c) \/ Run(c) \/ EndCall(c)

(* What the configuration and the sessions permit an execution to act on,  *)
(* <<project, host>>, at this moment: stated from the rules, not from the  *)
(* order in which Context looks things up.                                 *)
InForce(c) ==
  {<<store.projects[x[1]], store.personas[x[2]]>> :
     x \in
       {x \in (DOMAIN store.projects) \X (DOMAIN store.personas) :
          LET project == store.projects[x[1]]
              own == {s \in DOMAIN sessions :
                        /\ s = call[c].session
                        /\ sessions[s].project = x[1]
                        /\ sessions[s].persona = x[2]} IN
          /\ x[2] = project.persona \/ x[2] \in project.alternatives
          /\ Fold[store.personas[x[2]]] = Fold[store.personas[project.persona]]
          /\ IF call[c].session = NoSession
             THEN /\ x[1] \in call[c].arg
                  /\ x[2] = project.persona
                  /\ project.mode = "proxy-level"
             ELSE \E s \in own : \/ project.mode = "proxy-level"
                                 \/ sessions[s].backend \in {"native", "docker", "podman"}}}

(* The witness of a call is what was in force when it took its context.    *)
Watch ==
  witness' = [c \in Callers |->
    IF call'[c].pc \notin {"taken", "cleared", "running"} THEN {}
    ELSE IF At(c, "called") THEN InForce(c) ELSE witness[c]]

Next ==
  /\ \/ Operator
     \/ \E c \in Callers : SessionStep(c) \/ ExecuteStep(c)
     \/ \E s \in SessionIds : AcceptFails(s)
     \/ Restart \/ Crash
  /\ Watch

Spec == Init /\ [][Next]_vars

(***************************************************************************)
(* Properties.                                                             *)
(***************************************************************************)
(* What a call works on fits the step it is at.                            *)
CallOK(x) ==
  /\ x = [pc |-> x.pc, op |-> x.op, session |-> x.session, arg |-> x.arg,
          invocation |-> x.invocation, taken |-> x.taken]
  /\ x.pc \in {"idle", "connected"} \cup CreateSteps \cup ContainerSteps \cup ExecuteSteps
  /\ x.op \in {"none", "create", "container", "execute", "native", "bridge"}
  /\ x.session \in SessionIds \cup {NoSession}
  /\ x.pc = "snapshot" => x.arg \subseteq ProjectIds \X BackendKinds
  /\ x.pc \in {"insert", "connected"} \cup ContainerSteps =>
       x.arg \subseteq Sessions /\ x.session \in SessionIds
  /\ x.pc \in ContainerSteps => x.op = "container"
  /\ x.invocation \subseteq Invocations
  /\ x.taken \subseteq Projects \X Hosts

(* Every variable has its type; in particular every session names a known  *)
(* kind of backend, a project and a persona, whoever activates it and when.*)
TypeOK ==
  /\ StateOK(store) /\ StateOK(disk)
  /\ Configured(sessions, SessionIds, Sessions)
  /\ Configured(listeners, SessionIds, [session : Sessions, accepts : BOOLEAN])
  /\ nextSession \in 1 .. MaxSessions + 1
  /\ call = [c \in Callers |-> call[c]]
  /\ \A c \in Callers : CallOK(call[c])
  /\ Configured(containers, SessionIds, {"run", "left", "orphan"})
  /\ revoked \subseteq SessionIds

(* A gh that is about to run, or runs, does so for a project and on a host *)
(* that the configuration and its session permitted together at one moment *)
(* after the call: not with a session revoked before, nor one its project  *)
(* no longer accepts, nor with the host of one moment and the policy of    *)
(* another.  That policy permits all the invocation needs, the host is the *)
(* one it names, and no session obtains a Git credential (Service.Context, *)
(* Execute).                                                               *)
CallsCovered ==
  \A c \in Callers : call[c].pc \in {"cleared", "running"} =>
    /\ call[c].taken # {}
    /\ call[c].taken \subseteq witness[c]
    /\ \A context \in call[c].taken, invocation \in call[c].invocation :
         /\ \A operation \in invocation.needs :
              \/ operation \in context[1].policy.allow
              \/ PresetAllows(context[1].policy.preset, operation)
         /\ invocation.needs \cap context[1].policy.deny = {}
         /\ \A named \in invocation.names : Fold[named] = Fold[context[2]]
         /\ invocation.kind = "credential" =>
              call[c].session = NoSession /\ context[1].mode = "proxy-level"

(* A session that was revoked, by the operator, by the end of its container*)
(* run or with its daemon, never comes back, although an agent that is     *)
(* being authenticated or a bridge that reports in activates it afterwards.*)
RevokedStaysRevoked == revoked \cap DOMAIN sessions = {}

(* What no step may do to a session, whoever acts on an old copy of it: an *)
(* agent is only accepted for a native session that has not ended, so      *)
(* revocation closes the way in; a session that awaits its agent becomes   *)
(* active only when a connection to its own project, which must still be   *)
(* there, has been authenticated, or the bridge of its container reported  *)
(* in; and it never goes back to waiting, nor to another project or        *)
(* backend.  (That a session which lives can be reached is not so: see     *)
(* AcceptFails.  createSession, serveAgent, activateSession,               *)
(* selectSessionPersona, session.revoke.)                                  *)
Accepted(s) ==
  \E c \in Callers : At(c, "idle") /\ At(c, "connected")' /\ call'[c].session = s

Earned(s) ==
  \E c \in Callers : /\ call[c].session = s
                     /\ \/ At(c, "connected") /\ sessions[s].project \in DOMAIN store.projects
                        \/ At(c, "ready")

LifeStep(s) ==
  /\ Accepted(s) => s \in DOMAIN sessions /\ sessions[s].backend = "native"
  /\ s \in DOMAIN sessions \cap DOMAIN sessions' =>
       /\ sessions'[s].project = sessions[s].project
       /\ sessions'[s].backend = sessions[s].backend
       /\ \/ sessions'[s].status = sessions[s].status
          \/ sessions'[s].status = "active" /\ Earned(s)

SessionLife == [][\A s \in SessionIds : LifeStep(s)]_vars

(* A container that runs for this daemon has a run that will remove it,    *)
(* whatever failed after its creation; what stays behind was reported by   *)
(* the runtime as failed, or left by an earlier daemon.                    *)
ContainersOwned ==
  \A s \in DOMAIN containers : containers[s] = "run" =>
    \E c \in Callers : /\ call[c].op = "container"
                       /\ call[c].session = s
                       /\ call[c].pc \in {"bridge", "ready", "agent", "remove"}

(* In memory and on disk, every persona a project may act under exists and *)
(* is on the project's host, whatever was changed last: the persona, the   *)
(* project or both (Store.Update validates the whole state).               *)
HostsAgree ==
  \A state \in {store, disk} : \A id \in DOMAIN state.projects :
    LET project == state.projects[id] IN
    /\ project.persona \in DOMAIN state.personas
    /\ \A a \in project.alternatives :
         /\ a \in DOMAIN state.personas
         /\ Fold[state.personas[a]] = Fold[state.personas[project.persona]]

(* The inductive strengthening of the invariants above.                    *)

(* Session IDs are fresh: a session in the making is not known yet, has    *)
(* never ended, and no other call is making it.                            *)
FreshInv ==
  /\ \A s \in DOMAIN sessions \cup revoked : s < nextSession
  /\ \A c \in Callers : call[c].session < nextSession
  /\ \A c \in Callers : At(c, "insert") =>
       /\ call[c].session \notin DOMAIN sessions \cup revoked
       /\ \A d \in Callers : At(d, "insert") /\ call[d].session = call[c].session => c = d

(* A listener that is open is that of a native session that lives, and its *)
(* accept loop works with a copy of that session.                          *)
LoopsFit ==
  \A s \in DOMAIN listeners :
    /\ s \in DOMAIN sessions /\ sessions[s].backend = "native"
    /\ listeners[s].session.project = sessions[s].project

(* So does a connection that is not authenticated yet, while it lives.     *)
ConnectionsFit ==
  \A c \in Callers : At(c, "connected") =>
    /\ call[c].session \in DOMAIN sessions \cup revoked
    /\ call[c].session \in DOMAIN sessions =>
         \A copy \in call[c].arg : copy.project = sessions[call[c].session].project

(* From its context on, a call holds what was in force when it took it;    *)
(* without a session, of a project that does not isolate its agents.       *)
TakenInv ==
  \A c \in Callers : call[c].pc \in {"taken", "cleared", "running"} =>
    /\ call[c].taken # {}
    /\ call[c].taken \subseteq witness[c]
    /\ call[c].session = NoSession =>
         \A context \in call[c].taken : context[1].mode = "proxy-level"

IdentityInv ==
  /\ TypeOK /\ HostsAgree
  /\ FreshInv /\ RevokedStaysRevoked /\ LoopsFit /\ ConnectionsFit
  /\ ContainersOwned
  /\ TakenInv /\ CallsCovered
=============================================================================
