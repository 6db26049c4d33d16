--------------------------- MODULE IdentityProofs ---------------------------
(***************************************************************************)
(* Theorems about IdentityService for every configuration, every number of *)
(* sessions and calls and every fault.  IdentityInv is inductive.          *)
(***************************************************************************)
EXTENDS IdentityService, TLAPS

(***************************************************************************)
(* The operators.                                                          *)
(***************************************************************************)

(* Storing under an identifier adds it and leaves the others alone.        *)
LEMMA PutKeeps ==
  ASSUME NEW f, NEW Ids, NEW Values, Configured(f, Ids, Values),
         NEW id \in Ids, NEW value \in Values
  PROVE  /\ Configured(Put(f, id, value), Ids, Values)
         /\ DOMAIN Put(f, id, value) = DOMAIN f \cup {id}
         /\ \A x \in DOMAIN f \cup {id} :
              Put(f, id, value)[x] = IF x = id THEN value ELSE f[x]
  BY DEF Configured, Put

(* Forgetting an identifier leaves the others alone.                       *)
LEMMA WithoutKeeps ==
  ASSUME NEW f, NEW Ids, NEW Values, Configured(f, Ids, Values), NEW id
  PROVE  /\ Configured(Without(f, id), Ids, Values)
         /\ DOMAIN Without(f, id) = DOMAIN f \ {id}
         /\ \A x \in DOMAIN f \ {id} : Without(f, id)[x] = f[x]
  BY DEF Configured, Without

(* An idle call is a call.                                                 *)
LEMMA IdleOK == CallOK(Idle) /\ Idle.pc = "idle" /\ Idle.session = NoSession
  BY DEF Idle, CallOK, NoSession, CreateSteps, ContainerSteps, ExecuteSteps

(* A call that moves on to a step for which what it works on still fits.   *)
LEMMA GotoOK ==
  ASSUME NEW x, CallOK(x), NEW pc
  PROVE  LET y == [x EXCEPT !.pc = pc] IN
         /\ y = [pc |-> pc, op |-> x.op, session |-> x.session, arg |-> x.arg,
                 invocation |-> x.invocation, taken |-> x.taken]
         /\ y.pc = pc /\ y.op = x.op /\ y.session = x.session /\ y.arg = x.arg
         /\ y.invocation = x.invocation /\ y.taken = x.taken
  BY DEF CallOK

(***************************************************************************)
(* The store.                                                              *)
(***************************************************************************)

(* Validate is what HostsAgree says of one state.                          *)
LEMMA ValidateAgrees ==
  ASSUME NEW state, Validate(state), NEW id \in DOMAIN state.projects
  PROVE  LET project == state.projects[id] IN
         /\ project.persona \in DOMAIN state.personas
         /\ \A a \in project.alternatives :
              /\ a \in DOMAIN state.personas
              /\ Fold[state.personas[a]] = Fold[state.personas[project.persona]]
  BY DEF Validate, PersonasOf

(* Every operation of the operator stores a well-formed state.             *)
LEMMA OperatorStores ==
  ASSUME StateOK(store), Operator
  PROVE  \/ UNCHANGED storeVars
         \/ \E next : StateOK(next) /\ Validate(next) /\ Replace(next) /\ UNCHANGED serviceVars
  <1>1. /\ store = [gh |-> store.gh, personas |-> store.personas, projects |-> store.projects]
        /\ store.gh \in BOOLEAN
        /\ Configured(store.personas, PersonaIds, Hosts)
        /\ Configured(store.projects, ProjectIds, Projects)
    BY DEF StateOK
  <1>2. ASSUME NEW next, Update(next), StateOK(next)
        PROVE  \E new : StateOK(new) /\ Validate(new) /\ Replace(new) /\ UNCHANGED serviceVars
    BY <1>2 DEF Update
  <1>3. ASSUME NEW input \in PersonaInputs
        PROVE  /\ input[1] \in PersonaIds /\ input[2] \in Hosts
               /\ Configured(Put(store.personas, input[1], input[2]), PersonaIds, Hosts)
    <2>1. input[1] \in PersonaIds /\ input[2] \in Hosts
      BY <1>3, InputsAssumption
    <2> QED
      BY <1>1, <2>1, PutKeeps
  <1>4. ASSUME NEW id \in ProjectIds, NEW project \in ProjectInputs
        PROVE  Configured(Put(store.projects, id, project), ProjectIds, Projects)
    <2>1. project \in Projects
      BY <1>4, InputsAssumption
    <2> QED
      BY <1>1, <1>4, <2>1, PutKeeps
  <1>5. ASSUME NEW input \in PersonaInputs, SetPersona(input[1], input[2])
        PROVE  \E new : StateOK(new) /\ Validate(new) /\ Replace(new) /\ UNCHANGED serviceVars
    <2> DEFINE next == [store EXCEPT !.personas = Put(@, input[1], input[2])]
    <2>1. StateOK(next)
      BY <1>1, <1>3 DEF StateOK
    <2> QED
      BY <1>2, <1>5, <2>1 DEF SetPersona
  <1>6. ASSUME NEW input \in PersonaInputs, ImportPersonas([x \in {input[1]} |-> input[2]])
        PROVE  \E new : StateOK(new) /\ Validate(new) /\ Replace(new) /\ UNCHANGED serviceVars
    <2> DEFINE imported == [x \in {input[1]} |-> input[2]]
               merged == [x \in DOMAIN store.personas \cup DOMAIN imported |->
                            IF x \in DOMAIN imported THEN imported[x] ELSE store.personas[x]]
               next == [store EXCEPT !.personas = merged]
    <2>1. Configured(merged, PersonaIds, Hosts)
      BY <1>1, <1>3 DEF Configured
    <2> HIDE DEF merged
    <2>2. StateOK(next)
      BY <1>1, <2>1 DEF StateOK
    <2>3. [store EXCEPT !.personas =
             [x \in DOMAIN @ \cup DOMAIN imported |->
                IF x \in DOMAIN imported THEN imported[x] ELSE @[x]]] = next
      BY DEF merged
    <2> HIDE DEF next, imported
    <2>4. ImportPersonas(imported)
      BY <1>6 DEF imported
    <2>5. Update(next)
      BY <2>3, <2>4 DEF ImportPersonas
    <2> QED
      BY <1>2, <2>2, <2>5
  <1>7. ASSUME NEW id \in ProjectIds, NEW project \in ProjectInputs, SetProject(id, project)
        PROVE  \E new : StateOK(new) /\ Validate(new) /\ Replace(new) /\ UNCHANGED serviceVars
    <2> DEFINE next == [store EXCEPT !.projects = Put(@, id, project)]
    <2>1. StateOK(next)
      BY <1>1, <1>4 DEF StateOK
    <2> QED
      BY <1>2, <1>7, <2>1 DEF SetProject
  <1>8. CASE SetGH
    <2> DEFINE next == [gh |-> TRUE, personas |-> store.personas, projects |-> store.projects]
    <2>1. \A set : [store EXCEPT !.gh = set] =
                  [gh |-> set, personas |-> store.personas, projects |-> store.projects]
      BY <1>1
    <2>2. StateOK(next)
      BY <1>1 DEF StateOK
    <2>3. Update(next)
      BY <1>8, <2>1 DEF SetGH
    <2> QED
      BY <1>2, <2>2, <2>3
  <1>9. ASSUME NEW input \in PersonaInputs, NEW id \in ProjectIds, NEW project \in ProjectInputs,
               Configure(input[1], input[2], id, project)
        PROVE  \E new : StateOK(new) /\ Validate(new) /\ Replace(new) /\ UNCHANGED serviceVars
    <2> DEFINE next == [gh |-> TRUE, personas |-> Put(store.personas, input[1], input[2]),
                        projects |-> Put(store.projects, id, project)]
    <2>1. StateOK(next)
      BY <1>3, <1>4 DEF StateOK
    <2> QED
      BY <1>2, <1>9, <2>1 DEF Configure
  <1>10. ASSUME NEW id \in ProjectIds, NEW policy \in PolicyInputs, SetPolicy(id, policy)
         PROVE  \E new : StateOK(new) /\ Validate(new) /\ Replace(new) /\ UNCHANGED serviceVars
    <2> DEFINE project == [store.projects[id] EXCEPT !.policy = policy]
               projects == [store.projects EXCEPT ![id] = project]
               next == [store EXCEPT !.projects = projects]
    <2>1. policy \in Policies /\ id \in DOMAIN store.projects
      BY <1>10, InputsAssumption DEF SetPolicy
    <2>2. project \in Projects
      BY <1>1, <2>1 DEF Configured, Projects
    <2> HIDE DEF project
    <2>3. Configured(projects, ProjectIds, Projects)
      BY <1>1, <2>1, <2>2 DEF Configured
    <2>4. Update(next)
      BY <1>10 DEF SetPolicy, project
    <2> HIDE DEF projects
    <2>5. StateOK(next)
      BY <1>1, <2>3 DEF StateOK
    <2> QED
      BY <1>2, <2>4, <2>5
  <1>11. CASE \/ \E s \in SessionIds : Revoke(s)
              \/ \E s \in SessionIds, persona \in PersonaIds : SelectSessionPersona(s, persona)
    BY <1>11 DEF Revoke, SelectSessionPersona
  <1> QED
    BY <1>5, <1>6, <1>7, <1>8, <1>9, <1>10, <1>11 DEF Operator

(* What is stored, in memory and on disk, is always well formed and its    *)
(* hosts agree: Update validates the whole of it before it replaces it.    *)
LEMMA StoreKeeps ==
  ASSUME StateOK(store), StateOK(disk), HostsAgree, [Next]_vars
  PROVE  StateOK(store)' /\ StateOK(disk)' /\ HostsAgree'
  <1> DEFINE Agree(state) ==
        \A id \in DOMAIN state.projects :
          LET project == state.projects[id] IN
          /\ project.persona \in DOMAIN state.personas
          /\ \A a \in project.alternatives :
               /\ a \in DOMAIN state.personas
               /\ Fold[state.personas[a]] = Fold[state.personas[project.persona]]
  <1>1. Agree(store) /\ Agree(disk)
    BY DEF HostsAgree
  <1>2. \A state : Validate(state) => Agree(state)
    BY ValidateAgrees
  <1>3. \/ store' = store /\ disk' = disk
        \/ store' = disk /\ disk' = disk
        \/ \E next : /\ StateOK(next) /\ Validate(next)
                     /\ disk' = next
                     /\ store' = next \/ store' = store
    <2>1. CASE Operator
      BY <2>1, OperatorStores DEF storeVars, Replace
    <2>2. CASE NewDaemon
      BY <2>2 DEF NewDaemon
    <2>3. CASE \E c \in Callers : SessionStep(c) \/ ExecuteStep(c)
      BY <2>3 DEF SessionStep, CallCreate, Snapshot, Insert, Launch, StartBridge, Ready, AgentEnds,
         RemoveContainer, RevokeOwn, ExecuteStep, CallExecute, AgentConnects, BridgeCalls, Begin,
         Authenticate, TakeContext, Clear, Run, EndCall, storeVars
    <2>4. CASE UNCHANGED vars \/ \E s \in SessionIds : AcceptFails(s)
      BY <2>4 DEF vars, AcceptFails, storeVars
    <2> QED
      BY <2>1, <2>2, <2>3, <2>4 DEF Next, Restart, Crash
  <1> HIDE DEF Agree
  <1>4. StateOK(store)' /\ StateOK(disk)'
    BY <1>3 DEF StateOK
  <1>5. Agree(store') /\ Agree(disk')
    BY <1>1, <1>2, <1>3
  <1> QED
    BY <1>4, <1>5 DEF HostsAgree, Agree

(***************************************************************************)
(* The steps of a call, sorted by what they do to it, to the sessions and  *)
(* to the containers.                                                      *)
(***************************************************************************)

(* Where a call goes that changes nothing but its step.                    *)
Moves == {<<"insert", "launch">>, <<"launch", "bridge">>, <<"launch", "revoke">>,
          <<"bridge", "ready">>, <<"bridge", "remove">>, <<"ready", "agent">>,
          <<"ready", "remove">>, <<"agent", "remove">>, <<"remove", "revoke">>,
          <<"connected", "called">>, <<"taken", "cleared">>, <<"cleared", "running">>}

SameWork(x, y) == /\ y.op = x.op /\ y.session = x.session /\ y.arg = x.arg
                  /\ y.invocation = x.invocation

(* It ends, but not with a container to remove; it begins to create a      *)
(* session or is allotted its ID; it moves on; it begins an execution; or  *)
(* it takes its context.                                                   *)
Moved(c, new) ==
  \/ new = Idle /\ call[c].pc \notin {"bridge", "ready", "agent", "remove"}
  \/ At(c, "idle") /\ new.pc = "snapshot" /\ new.session = NoSession
  \/ At(c, "snapshot") /\ new.pc = "insert" /\ new.session = nextSession
  \/ /\ <<call[c].pc, new.pc>> \in Moves
     /\ SameWork(call[c], new) /\ new.taken = call[c].taken
  \/ At(c, "idle") /\ new.pc \in {"called", "connected"} /\ new.session < nextSession
  \/ /\ At(c, "called") /\ new.pc = "taken"
     /\ SameWork(call[c], new) /\ new.taken = Context(c) /\ Context(c) # {}

(* A call that only moves on still fits its step.                          *)
LEMMA MoveOK ==
  ASSUME NEW x, CallOK(x), NEW pc, <<x.pc, pc>> \in Moves, pc = "launch" => x.op = "container"
  PROVE  LET new == [x EXCEPT !.pc = pc] IN
         CallOK(new) /\ new.pc = pc /\ SameWork(x, new) /\ new.taken = x.taken
  <1> DEFINE new == [x EXCEPT !.pc = pc]
  <1>1. /\ new = [pc |-> pc, op |-> x.op, session |-> x.session, arg |-> x.arg,
                  invocation |-> x.invocation, taken |-> x.taken]
        /\ new.pc = pc /\ new.op = x.op /\ new.session = x.session /\ new.arg = x.arg
        /\ new.invocation = x.invocation /\ new.taken = x.taken
    BY GotoOK
  <1> HIDE DEF new
  <1>2. CallOK(new)
    BY <1>1 DEF CallOK, Moves, CreateSteps, ContainerSteps, ExecuteSteps
  <1> QED
    BY <1>1, <1>2 DEF SameWork, new

(* The type of a context: what an execution is allowed to act on.          *)
LEMMA ContextOK ==
  ASSUME TypeOK, HostsAgree, NEW c \in Callers
  PROVE  Context(c) \subseteq Projects \X Hosts
  <1>1. /\ \A p \in DOMAIN store.projects : store.projects[p] \in Projects
        /\ \A p \in DOMAIN store.personas : store.personas[p] \in Hosts
    BY DEF TypeOK, StateOK, Configured
  <1>2. \A p \in DOMAIN store.projects : store.projects[p].persona \in DOMAIN store.personas
    BY DEF HostsAgree
  <1> QED
    BY <1>1, <1>2 DEF Context

(* Every step of a call is one of these, and leaves it well formed.        *)
LEMMA CallSteps ==
  ASSUME IdentityInv, NEW c \in Callers, SessionStep(c) \/ ExecuteStep(c)
  PROVE  \E new : call' = [call EXCEPT ![c] = new] /\ CallOK(new) /\ Moved(c, new)
  <1> DEFINE Good(new) == call' = [call EXCEPT ![c] = new] /\ CallOK(new) /\ Moved(c, new)
  <1>0. call[c] = [pc |-> call[c].pc, op |-> call[c].op, session |-> call[c].session,
                  arg |-> call[c].arg, invocation |-> call[c].invocation, taken |-> call[c].taken]
    BY DEF IdentityInv, TypeOK, CallOK
  <1>1. CallOK(call[c]) /\ nextSession \in 1 .. MaxSessions + 1 /\ MaxSessions \in Nat
    BY InputsAssumption DEF IdentityInv, TypeOK
  <1>2. ASSUME Return(c), call[c].pc \notin {"bridge", "ready", "agent", "remove"}
        PROVE  \E new : Good(new)
    <2>1. Good(Idle)
      BY <1>2, IdleOK DEF Return, Moved
    <2> QED
      BY <2>1
  <1>3. ASSUME NEW pc, Goto(c, pc), <<call[c].pc, pc>> \in Moves, pc # "launch"
        PROVE  \E new : Good(new)
    <2> DEFINE new == [call[c] EXCEPT !.pc = pc]
    <2>1. CallOK(new) /\ new.pc = pc /\ SameWork(call[c], new) /\ new.taken = call[c].taken
      BY <1>1, <1>3, MoveOK
    <2>2. call' = [call EXCEPT ![c] = new]
      BY <1>3 DEF Goto
    <2> HIDE DEF new
    <2>3. Moved(c, new)
      BY <1>3, <2>1 DEF Moved
    <2> QED
      BY <2>1, <2>2, <2>3
  <1>4. ASSUME NEW op \in {"create", "container"}, NEW id \in ProjectIds, NEW backend \in Backends,
               CallCreate(c, op, id, backend)
        PROVE  \E new : Good(new)
    <2> DEFINE new == [Idle EXCEPT !.pc = "snapshot", !.op = op, !.arg = {<<id, backend>>}]
    <2>1. new = [pc |-> "snapshot", op |-> op, session |-> NoSession, arg |-> {<<id, backend>>},
                 invocation |-> {}, taken |-> {}]
      <3> DEFINE x == [Idle EXCEPT !.pc = "snapshot"]
                 y == [x EXCEPT !.op = op]
      <3>1. new = [y EXCEPT !.arg = {<<id, backend>>}]
        BY DEF Idle
      <3>2. x = [pc |-> "snapshot", op |-> "none", session |-> NoSession, arg |-> {},
                 invocation |-> {}, taken |-> {}]
        BY DEF Idle
      <3> HIDE DEF x
      <3>3. y = [pc |-> "snapshot", op |-> op, session |-> NoSession, arg |-> {},
                 invocation |-> {}, taken |-> {}]
        BY <3>2
      <3> HIDE DEF y, new
      <3> QED
        BY <3>1, <3>3
    <2>2. At(c, "idle") /\ call' = [call EXCEPT ![c] = new]
      BY <1>4 DEF CallCreate
    <2> HIDE DEF new
    <2>3. backend \in BackendKinds
      BY InputsAssumption
    <2>4. CallOK(new) /\ new.pc = "snapshot" /\ new.session = NoSession
      BY <2>1, <2>3 DEF CallOK, CreateSteps, ContainerSteps, ExecuteSteps, NoSession
    <2> QED
      BY <2>2, <2>4 DEF Moved
  <1>5. CASE Snapshot(c)
    <2>1. At(c, "snapshot")
      BY <1>5 DEF Snapshot
    <2>2. ASSUME NEW made \in call[c].arg,
                 made[1] \in DOMAIN store.projects, nextSession <= MaxSessions,
                 NEW session,
                 session = [project |-> made[1], persona |-> store.projects[made[1]].persona,
                            backend |-> made[2],
                            status |-> IF made[2] = "proxy-level" THEN "active"
                                       ELSE "awaiting-agent"],
                 call' = [call EXCEPT ![c].pc = "insert", ![c].session = nextSession,
                                      ![c].arg = {session}]
          PROVE  \E new : Good(new)
      <3> DEFINE new == [call[c] EXCEPT !.pc = "insert", !.session = nextSession, !.arg = {session}]
      <3>1. made[1] \in ProjectIds /\ made[2] \in BackendKinds
        BY <1>1, <2>1, <2>2 DEF CallOK, At
      <3>2. store.projects[made[1]].persona \in PersonaIds
        BY <2>2 DEF IdentityInv, TypeOK, StateOK, Configured, Projects
      <3>3. session \in Sessions
        BY <2>2, <3>1, <3>2 DEF Sessions
      <3>4. call' = [call EXCEPT ![c] = new]
        BY <2>2 DEF IdentityInv, TypeOK
      <3>5. new = [pc |-> "insert", op |-> call[c].op, session |-> nextSession, arg |-> {session},
                   invocation |-> call[c].invocation, taken |-> call[c].taken]
        <4> DEFINE x == [call[c] EXCEPT !.pc = "insert"]
                   y == [x EXCEPT !.session = nextSession]
        <4>1. new = [y EXCEPT !.arg = {session}]
          BY <1>0
        <4>2. x = [pc |-> "insert", op |-> call[c].op, session |-> call[c].session,
                   arg |-> call[c].arg, invocation |-> call[c].invocation,
                   taken |-> call[c].taken]
          BY <1>0
        <4> HIDE DEF x
        <4>3. y = [pc |-> "insert", op |-> call[c].op, session |-> nextSession,
                   arg |-> call[c].arg, invocation |-> call[c].invocation,
                   taken |-> call[c].taken]
          BY <4>2
        <4> HIDE DEF y, new
        <4> QED
          BY <4>1, <4>3
      <3> HIDE DEF new
      <3>6. nextSession \in SessionIds
        BY <1>1, <2>2 DEF SessionIds
      <3>7. CallOK(new)
        BY <1>1, <3>3, <3>5, <3>6 DEF CallOK, CreateSteps, ContainerSteps, ExecuteSteps
      <3>8. new.pc = "insert" /\ new.session = nextSession
        BY <3>5
      <3> QED
        BY <2>1, <3>4, <3>7, <3>8 DEF Moved
    <2> QED
      BY <1>2, <1>5, <2>2 DEF Snapshot, At
  <1>6. CASE Insert(c)
    <2>1. At(c, "insert") /\ <<call[c].pc, "launch">> \in Moves
      BY <1>6 DEF Insert, Moves, At
    <2>2. CASE call[c].op = "container" /\ call' = [call EXCEPT ![c] = [call[c] EXCEPT !.pc = "launch"]]
      <3> DEFINE new == [call[c] EXCEPT !.pc = "launch"]
      <3>1. CallOK(new) /\ new.pc = "launch" /\ SameWork(call[c], new) /\ new.taken = call[c].taken
        BY <1>1, <2>1, <2>2, MoveOK
      <3>2. call' = [call EXCEPT ![c] = new]
        BY <2>2
      <3> HIDE DEF new
      <3> QED
        BY <2>1, <3>1, <3>2 DEF Moved
    <2>3. CASE call' = [call EXCEPT ![c] = Idle]
      BY <1>2, <2>1, <2>3 DEF Return, At
    <2> QED
      BY <1>6, <2>2, <2>3 DEF Insert, Return
  <1>7. CASE Launch(c) \/ StartBridge(c) \/ Ready(c) \/ AgentEnds(c) \/ RemoveContainer(c)
    <2>1. \E pc : Goto(c, pc) /\ <<call[c].pc, pc>> \in Moves /\ pc # "launch"
      BY <1>7 DEF Launch, StartBridge, Ready, AgentEnds, RemoveContainer, At, Moves, Failed
    <2> QED
      BY <1>3, <2>1
  <1>8. CASE RevokeOwn(c)
    BY <1>2, <1>8 DEF RevokeOwn, At
  <1>9. ASSUME NEW pc \in {"called", "connected"}, NEW op \in {"execute", "native", "bridge"},
               NEW s \in SessionIds \cup {NoSession}, s < nextSession, NEW arg,
               pc = "connected" => s \in SessionIds /\ arg \subseteq Sessions,
               NEW invocation \in Invocations, Begin(c, pc, op, s, arg, invocation)
        PROVE  \E new : Good(new)
    <2> DEFINE new == [pc |-> pc, op |-> op, session |-> s, arg |-> arg,
                       invocation |-> {invocation}, taken |-> {}]
    <2>1. CallOK(new)
      BY <1>9 DEF CallOK, CreateSteps, ContainerSteps, ExecuteSteps
    <2>2. At(c, "idle") /\ call' = [call EXCEPT ![c] = new]
      BY <1>9 DEF Begin
    <2>3. new.pc = pc /\ new.session = s
      OBVIOUS
    <2> HIDE DEF new
    <2> QED
      BY <1>9, <2>1, <2>2, <2>3 DEF Moved
  <1>10. ASSUME NEW invocation \in Invocations, CallExecute(c, invocation)
         PROVE  \E new : Good(new)
    <2>1. NoSession < nextSession
      BY <1>1 DEF NoSession
    <2>2. \A s \in 1 .. nextSession - 1 : s \in SessionIds /\ s < nextSession
      BY <1>1 DEF SessionIds
    <2> QED
      BY <1>9, <1>10, <2>1, <2>2 DEF CallExecute
  <1>11. ASSUME NEW invocation \in Invocations, NEW s \in SessionIds,
                AgentConnects(c, s, invocation)
         PROVE  \E new : Good(new)
    <2>1. s \in DOMAIN listeners /\ s \in DOMAIN sessions
      BY <1>11 DEF AgentConnects, IdentityInv, LoopsFit
    <2>2. listeners[s].session \in Sessions /\ s < nextSession
      BY <2>1 DEF IdentityInv, TypeOK, Configured, FreshInv
    <2> QED
      BY <1>9, <1>11, <2>2 DEF AgentConnects
  <1>12. ASSUME NEW invocation \in Invocations, NEW d \in Callers, BridgeCalls(c, d, invocation)
         PROVE  \E new : Good(new)
    <2>1. call[d].session \in SessionIds \cup {NoSession} /\ call[d].session < nextSession
      BY DEF IdentityInv, TypeOK, CallOK, FreshInv
    <2> QED
      BY <1>9, <1>12, <2>1 DEF BridgeCalls
  <1>13. CASE Authenticate(c)
    <2>1. /\ call[c].pc \notin {"bridge", "ready", "agent", "remove"}
          /\ Return(c) \/ (Goto(c, "called") /\ <<call[c].pc, "called">> \in Moves)
      BY <1>13 DEF Authenticate, At, Moves
    <2> QED
      BY <1>2, <1>3, <2>1
  <1>14. CASE TakeContext(c)
    <2>1. CASE Context(c) # {}
      <3> DEFINE new == [call[c] EXCEPT !.pc = "taken", !.taken = Context(c)]
      <3>1. new = [pc |-> "taken", op |-> call[c].op, session |-> call[c].session,
                   arg |-> call[c].arg, invocation |-> call[c].invocation, taken |-> Context(c)]
        <4> DEFINE x == [call[c] EXCEPT !.pc = "taken"]
        <4>1. new = [x EXCEPT !.taken = Context(c)]
          BY <1>0
        <4>2. x = [pc |-> "taken", op |-> call[c].op, session |-> call[c].session,
                   arg |-> call[c].arg, invocation |-> call[c].invocation,
                   taken |-> call[c].taken]
          BY <1>0
        <4> HIDE DEF x, new
        <4> QED
          BY <4>1, <4>2
      <3>2. At(c, "called") /\ call' = [call EXCEPT ![c] = new]
        BY <1>14, <2>1 DEF TakeContext
      <3>3. Context(c) \subseteq Projects \X Hosts
        BY ContextOK DEF IdentityInv
      <3> HIDE DEF new
      <3>4. CallOK(new)
        BY <1>1, <3>1, <3>3 DEF CallOK, CreateSteps, ContainerSteps, ExecuteSteps
      <3>5. new.pc = "taken" /\ SameWork(call[c], new) /\ new.taken = Context(c)
        BY <3>1 DEF SameWork
      <3> QED
        BY <2>1, <3>2, <3>4, <3>5 DEF Moved
    <2>2. CASE Context(c) = {}
      BY <1>2, <1>14, <2>2 DEF TakeContext, Return, At
    <2> QED
      BY <2>1, <2>2
  <1>15. CASE Clear(c) \/ Run(c) \/ EndCall(c)
    <2>1. /\ call[c].pc \notin {"bridge", "ready", "agent", "remove"}
          /\ \/ Return(c)
             \/ \E pc : Goto(c, pc) /\ <<call[c].pc, pc>> \in Moves /\ pc # "launch"
      BY <1>15 DEF Clear, Run, EndCall, At, Moves
    <2> QED
      BY <1>2, <1>3, <2>1
  <1> QED
    BY <1>4, <1>5, <1>6, <1>7, <1>8, <1>10, <1>11, <1>12, <1>13, <1>14, <1>15
       DEF SessionStep, ExecuteStep

(* What a step does to the sessions.                                       *)
Created(c) ==
  /\ At(c, "insert")
  /\ \E session \in call[c].arg :
       /\ sessions' = Put(sessions, call[c].session, session)
       /\ listeners' = IF session.backend = "native"
                       THEN Put(listeners, call[c].session,
                                [session |-> session, accepts |-> TRUE])
                       ELSE listeners
  /\ call'[c].pc # "insert"
  /\ revoked' = revoked

(* A session changes its status or its persona.                            *)
Changed ==
  /\ Configured(sessions', SessionIds, Sessions)
  /\ DOMAIN sessions' = DOMAIN sessions
  /\ \A s \in DOMAIN sessions : /\ sessions'[s].backend = sessions[s].backend
                               /\ sessions'[s].project = sessions[s].project
  /\ UNCHANGED <<listeners, revoked>>

(* Activation changes a session that is there.                             *)
LEMMA ActivatedOK ==
  ASSUME Configured(sessions, SessionIds, Sessions), NEW s, NEW session,
         sessions' = Activated(s, session), UNCHANGED <<listeners, revoked>>
  PROVE  Changed
  <1>1. CASE s \in DOMAIN sessions
    <2> DEFINE new == [sessions[s] EXCEPT !.status = "active"]
    <2>1. new \in Sessions /\ new.backend = sessions[s].backend /\ new.project = sessions[s].project
      BY <1>1 DEF Configured, Sessions
    <2>2. sessions' = [sessions EXCEPT ![s] = new]
      BY <1>1 DEF Activated
    <2> HIDE DEF new
    <2> QED
      BY <1>1, <2>1, <2>2 DEF Changed, Configured
  <1>2. CASE s \notin DOMAIN sessions
    BY <1>2 DEF Activated, Changed
  <1> QED
    BY <1>1, <1>2

(* A call makes a session by Insert alone and under the ID it was allotted;*)
(* its other steps change one or end one, and only a snapshot that goes on *)
(* to insert allots an ID.                                                 *)
LEMMA SessionSteps ==
  ASSUME IdentityInv, NEW c \in Callers, SessionStep(c) \/ ExecuteStep(c)
  PROVE  /\ \/ UNCHANGED <<sessions, listeners, revoked>>
            \/ Created(c)
            \/ Changed
            \/ \E s : EndSession(s)
         /\ \/ nextSession' = nextSession
            \/ nextSession' = nextSession + 1 /\ nextSession <= MaxSessions
         /\ call'[c].pc = "insert" => nextSession' = nextSession + 1
  <1>1. Configured(sessions, SessionIds, Sessions) /\ call = [x \in Callers |-> call[x]]
        /\ CallOK(call[c])
    BY DEF IdentityInv, TypeOK
  <1>2. PICK new : call' = [call EXCEPT ![c] = new] /\ CallOK(new) /\ Moved(c, new)
    BY CallSteps
  <1>3. call'[c] = new
    BY <1>1, <1>2
  <1>4. CASE new.pc = "insert"
    <2>1. At(c, "snapshot")
      BY <1>2, <1>4, IdleOK DEF Moved, Moves, At
    <2>2. Snapshot(c)
      BY <2>1 DEF At, SessionStep, CallCreate, Insert, Launch, StartBridge, Ready, AgentEnds,
         RemoveContainer, RevokeOwn, ExecuteStep, CallExecute, AgentConnects, BridgeCalls, Begin,
         Authenticate, TakeContext, Clear, Run, EndCall
    <2>3. call' # [call EXCEPT ![c] = Idle]
      BY <1>1, <1>3, <1>4, IdleOK
    <2> QED
      BY <2>2, <2>3 DEF Snapshot, Return
  <1>5. CASE new.pc # "insert"
    <2>1. CASE Snapshot(c)
      BY <1>3, <1>5, <2>1 DEF Snapshot
    <2>2. CASE Insert(c)
      BY <1>3, <1>5, <2>2 DEF Insert, Created
    <2>3. CASE Ready(c) \/ Authenticate(c)
      BY <1>1, <1>3, <1>5, <2>3, ActivatedOK DEF Ready, Authenticate
    <2>4. CASE RevokeOwn(c)
      BY <1>3, <1>5, <2>4 DEF RevokeOwn
    <2> QED
      BY <1>3, <1>5, <2>1, <2>2, <2>3, <2>4 DEF SessionStep, CallCreate, Launch, StartBridge, AgentEnds,
         RemoveContainer, ExecuteStep, CallExecute, AgentConnects, BridgeCalls, Begin,
         TakeContext, Clear, Run, EndCall
  <1> QED
    BY <1>4, <1>5

(* A container is created by a call on its way to the bridge, and removed  *)
(* by one on its way to revoking the session.                              *)
LEMMA ContainerChanges ==
  ASSUME IdentityInv, NEW c \in Callers, SessionStep(c) \/ ExecuteStep(c)
  PROVE  \/ UNCHANGED containers /\ call[c].pc # "remove"
         \/ At(c, "launch") /\ containers' = Put(containers, call[c].session, "run")
            /\ Goto(c, "bridge")
         \/ At(c, "launch") /\ containers' = Put(containers, call[c].session, "left")
         \/ At(c, "remove") /\ containers' = Without(containers, call[c].session)
         \/ At(c, "remove") /\ containers' = Put(containers, call[c].session, "left")
  BY DEF At, SessionStep, CallCreate, Snapshot, Insert, Launch, StartBridge, Ready, AgentEnds,
         RemoveContainer, RevokeOwn, ExecuteStep, CallExecute, AgentConnects, BridgeCalls, Begin,
         Authenticate, TakeContext, Clear, Run, EndCall

(* The operator touches no call and no container.                          *)
LEMMA OperatorSteps ==
  ASSUME IdentityInv, Operator
  PROVE  /\ UNCHANGED <<call, nextSession, containers>>
         /\ \/ UNCHANGED <<sessions, listeners, revoked>>
            \/ Changed
            \/ \E s : EndSession(s)
  <1>1. ASSUME NEW s \in SessionIds, NEW persona \in PersonaIds, SelectSessionPersona(s, persona)
        PROVE  Changed
    <2> DEFINE new == [sessions[s] EXCEPT !.persona = persona]
    <2>1. s \in DOMAIN sessions /\ Configured(sessions, SessionIds, Sessions)
      BY <1>1 DEF SelectSessionPersona, IdentityInv, TypeOK
    <2>2. new \in Sessions /\ new.backend = sessions[s].backend /\ new.project = sessions[s].project
      BY <2>1 DEF Configured, Sessions
    <2>3. sessions' = [sessions EXCEPT ![s] = new] /\ UNCHANGED <<listeners, revoked>>
      BY <1>1 DEF SelectSessionPersona
    <2> HIDE DEF new
    <2> QED
      BY <2>1, <2>2, <2>3 DEF Changed, Configured
  <1>2. CASE \E s \in SessionIds, persona \in PersonaIds : SelectSessionPersona(s, persona)
    BY <1>1, <1>2 DEF SelectSessionPersona
  <1>3. CASE \E s \in SessionIds : Revoke(s)
    BY <1>3 DEF Revoke
  <1> QED
    BY <1>2, <1>3 DEF Operator, SetPersona, ImportPersonas, SetProject, SetGH, Configure, SetPolicy,
       Update, serviceVars

(***************************************************************************)
(* Each part of the invariant.                                             *)
(***************************************************************************)

(* A step of one call leaves the others alone, and all well formed.        *)
LEMMA CallsKeep ==
  ASSUME IdentityInv, NEW c \in Callers, SessionStep(c) \/ ExecuteStep(c)
  PROVE  /\ call' = [d \in Callers |-> call'[d]]
         /\ CallOK(call'[c]) /\ Moved(c, call'[c])
         /\ \A d \in Callers : d # c => call'[d] = call[d]
         /\ \A d \in Callers : CallOK(call'[d])
  <1>1. call = [d \in Callers |-> call[d]] /\ \A d \in Callers : CallOK(call[d])
    BY DEF IdentityInv, TypeOK
  <1>2. PICK new : call' = [call EXCEPT ![c] = new] /\ CallOK(new) /\ Moved(c, new)
    BY CallSteps
  <1>3. call'[c] = new /\ \A d \in Callers : d # c => call'[d] = call[d]
    BY <1>1, <1>2
  <1>4. call' = [d \in Callers |-> call'[d]]
    BY <1>1, <1>2
  <1> QED
    BY <1>1, <1>2, <1>3, <1>4

(* What a listener's accept loop holds.                                    *)
Listeners == [session : Sessions, accepts : BOOLEAN]

(* What the sessions, their listeners and their history satisfy together.  *)
SessionsOK ==
  /\ Configured(sessions, SessionIds, Sessions)
  /\ Configured(listeners, SessionIds, Listeners) /\ revoked \subseteq SessionIds
  /\ RevokedStaysRevoked /\ LoopsFit

Known == DOMAIN sessions \cup revoked

(* No session is made: none comes back and listeners go with theirs.       *)
LEMMA NoneCreated ==
  ASSUME IdentityInv,
         \/ UNCHANGED <<sessions, listeners, revoked>> \/ Changed \/ \E s : EndSession(s)
         \/ \E s : AcceptFails(s)
  PROVE  /\ SessionsOK' /\ Known' = Known
         /\ DOMAIN sessions' \subseteq DOMAIN sessions
         /\ \A s \in DOMAIN sessions' : /\ sessions'[s].project = sessions[s].project
                                       /\ sessions'[s].backend = sessions[s].backend
  <1> DEFINE Kept == \A s \in DOMAIN sessions' : /\ sessions'[s].project = sessions[s].project
                                              /\ sessions'[s].backend = sessions[s].backend
  <1>1. SessionsOK
    BY DEF IdentityInv, TypeOK, SessionsOK, Listeners
  <1>2. CASE UNCHANGED <<sessions, listeners, revoked>>
    BY <1>1, <1>2 DEF SessionsOK, RevokedStaysRevoked, LoopsFit, Known
  <1>3. CASE Changed
    BY <1>1, <1>3 DEF SessionsOK, RevokedStaysRevoked, LoopsFit, Known, Changed
  <1>5. ASSUME NEW s, AcceptFails(s)
        PROVE  SessionsOK' /\ Known' = Known /\ DOMAIN sessions' \subseteq DOMAIN sessions /\ Kept
    <2> DEFINE new == [listeners[s] EXCEPT !.accepts = FALSE]
    <2>1. s \in DOMAIN listeners /\ UNCHANGED <<sessions, revoked>>
      BY <1>5 DEF AcceptFails
    <2>2. new \in Listeners /\ new.session = listeners[s].session
      BY <1>1, <2>1 DEF SessionsOK, Configured, Listeners
    <2>3. listeners' = [listeners EXCEPT ![s] = new]
      BY <1>5 DEF AcceptFails
    <2> HIDE DEF new
    <2>4. Configured(listeners', SessionIds, Listeners) /\ LoopsFit'
      BY <1>1, <2>1, <2>2, <2>3 DEF SessionsOK, Configured, LoopsFit
    <2> QED
      BY <1>1, <2>1, <2>4 DEF SessionsOK, RevokedStaysRevoked, Known
  <1>4. ASSUME NEW s, EndSession(s)
        PROVE  SessionsOK' /\ Known' = Known /\ DOMAIN sessions' \subseteq DOMAIN sessions /\ Kept
    <2>1. /\ Configured(sessions', SessionIds, Sessions)
          /\ DOMAIN sessions' = DOMAIN sessions \ {s}
          /\ \A x \in DOMAIN sessions \ {s} : sessions'[x] = sessions[x]
      BY <1>1, <1>4, WithoutKeeps DEF SessionsOK, EndSession
    <2>4. /\ Configured(listeners', SessionIds, Listeners)
          /\ DOMAIN listeners' = DOMAIN listeners \ {s}
          /\ \A x \in DOMAIN listeners \ {s} : listeners'[x] = listeners[x]
      BY <1>1, <1>4, WithoutKeeps DEF SessionsOK, EndSession
    <2>2. /\ revoked' = IF s \in DOMAIN sessions THEN revoked \cup {s} ELSE revoked
      BY <1>4 DEF EndSession
    <2>3. DOMAIN sessions \subseteq SessionIds
      BY <1>1 DEF SessionsOK, Configured
    <2> QED
      BY <1>1, <2>1, <2>2, <2>3, <2>4 DEF SessionsOK, RevokedStaysRevoked, LoopsFit, Known
  <1> QED
    BY <1>2, <1>3, <1>4, <1>5 DEF Changed

(* One session is made, under an ID that none had before.                  *)
LEMMA OneCreated ==
  ASSUME IdentityInv, NEW c \in Callers, Created(c)
  PROVE  /\ SessionsOK' /\ Known' = Known \cup {call[c].session}
         /\ DOMAIN sessions' = DOMAIN sessions \cup {call[c].session}
         /\ \A s \in DOMAIN sessions : s # call[c].session /\ sessions'[s] = sessions[s]
  <1>1. SessionsOK
    BY DEF IdentityInv, TypeOK, SessionsOK, Listeners
  <1>2. PICK session \in call[c].arg :
          /\ sessions' = Put(sessions, call[c].session, session)
          /\ listeners' = IF session.backend = "native"
                          THEN Put(listeners, call[c].session,
                                   [session |-> session, accepts |-> TRUE])
                          ELSE listeners
    BY DEF Created
  <1>3. session \in Sessions /\ call[c].session \in SessionIds /\ revoked' = revoked
    BY DEF Created, At, IdentityInv, TypeOK, CallOK
  <1>4. call[c].session \notin DOMAIN sessions \cup revoked
    BY DEF Created, IdentityInv, FreshInv
  <1>5. PICK s : s = call[c].session
    OBVIOUS
  <1>6. /\ Configured(sessions', SessionIds, Sessions)
        /\ DOMAIN sessions' = DOMAIN sessions \cup {s}
        /\ \A x \in DOMAIN sessions \cup {s} :
             sessions'[x] = IF x = s THEN session ELSE sessions[x]
    <2>1. Configured(sessions, SessionIds, Sessions) /\ s \in SessionIds /\ session \in Sessions
          /\ sessions' = Put(sessions, s, session)
      BY <1>1, <1>2, <1>3, <1>5 DEF SessionsOK
    <2>2. /\ Configured(Put(sessions, s, session), SessionIds, Sessions)
          /\ DOMAIN Put(sessions, s, session) = DOMAIN sessions \cup {s}
          /\ \A x \in DOMAIN sessions \cup {s} :
               Put(sessions, s, session)[x] = IF x = s THEN session ELSE sessions[x]
      BY <2>1, PutKeeps
    <2> QED
      BY <2>1, <2>2
  <1>7. PICK loop : loop = [session |-> session, accepts |-> TRUE]
    OBVIOUS
  <1>8. loop \in Listeners /\ loop.session = session
    BY <1>3, <1>7 DEF Listeners
  <1>9. Configured(listeners', SessionIds, Listeners) /\ LoopsFit'
    <2>1. CASE session.backend = "native"
      <3>1. /\ Configured(listeners, SessionIds, Listeners) /\ s \in SessionIds
            /\ loop \in Listeners /\ listeners' = Put(listeners, s, loop)
        BY <1>1, <1>2, <1>3, <1>5, <1>7, <1>8, <2>1 DEF SessionsOK
      <3>2. /\ Configured(Put(listeners, s, loop), SessionIds, Listeners)
            /\ DOMAIN Put(listeners, s, loop) = DOMAIN listeners \cup {s}
            /\ \A x \in DOMAIN listeners \cup {s} :
                 Put(listeners, s, loop)[x] = IF x = s THEN loop ELSE listeners[x]
        BY <3>1, PutKeeps
      <3> QED
        BY <1>1, <1>4, <1>5, <1>6, <1>8, <2>1, <3>1, <3>2 DEF SessionsOK, LoopsFit
    <2>2. CASE session.backend # "native"
      BY <1>1, <1>2, <1>4, <1>5, <1>6, <2>2 DEF SessionsOK, LoopsFit
    <2> QED
      BY <2>1, <2>2
  <1> QED
    BY <1>1, <1>3, <1>4, <1>5, <1>6, <1>9 DEF SessionsOK, RevokedStaysRevoked, Known

(* The parts of FreshInv.                                                  *)
LEMMA FreshParts ==
  FreshInv <=> /\ \A s \in Known : s < nextSession
               /\ \A d \in Callers : call[d].session < nextSession
               /\ \A d \in Callers : At(d, "insert") =>
                    /\ call[d].session \notin Known
                    /\ \A e \in Callers :
                         At(e, "insert") /\ call[e].session = call[d].session => d = e
  BY DEF FreshInv, Known

(* Sessions and their IDs, over every step.                                *)
LEMMA SessionsKeep ==
  ASSUME IdentityInv, [Next]_vars
  PROVE  SessionsOK' /\ nextSession' \in 1 .. MaxSessions + 1 /\ FreshInv'
  <1>1. /\ SessionsOK /\ nextSession \in 1 .. MaxSessions + 1 /\ MaxSessions \in Nat
        /\ \A s \in Known : s < nextSession
        /\ \A d \in Callers : call[d].session < nextSession
        /\ \A d \in Callers : At(d, "insert") =>
             /\ call[d].session \notin Known
             /\ \A e \in Callers :
                  At(e, "insert") /\ call[e].session = call[d].session => d = e
        /\ Known \subseteq SessionIds
        /\ \A d \in Callers : call[d].session \in SessionIds \cup {NoSession}
    BY InputsAssumption, FreshParts
       DEF IdentityInv, TypeOK, SessionsOK, Listeners, Configured, Known, CallOK
  <1>2. ASSUME UNCHANGED <<call, nextSession>>,
               \/ UNCHANGED <<sessions, listeners, revoked>> \/ Changed \/ \E s : EndSession(s)
               \/ \E s : AcceptFails(s)
        PROVE  SessionsOK' /\ nextSession' \in 1 .. MaxSessions + 1 /\ FreshInv'
    <2>1. SessionsOK' /\ Known' \subseteq Known
      BY <1>2, NoneCreated
    <2> QED
      BY <1>1, <1>2, <2>1 DEF FreshInv, Known, At
  <1>3. CASE NewDaemon
    <2>1. /\ sessions' = [s \in {} |-> s] /\ listeners' = [s \in {} |-> s]
          /\ revoked' = revoked \cup DOMAIN sessions /\ nextSession' = nextSession
          /\ call' = [d \in Callers |-> Idle]
      BY <1>3 DEF NewDaemon
    <2>2. DOMAIN sessions' = {} /\ DOMAIN listeners' = {} /\ Known' = Known
      BY <2>1 DEF Known
    <2>3. SessionsOK'
      BY <1>1, <2>1, <2>2
         DEF SessionsOK, Configured, RevokedStaysRevoked, LoopsFit, Known
    <2>4. \A d \in Callers : call'[d].session = 0 /\ call'[d].pc = "idle"
      BY <2>1, IdleOK DEF NoSession
    <2>5. FreshInv'
      BY <1>1, <2>1, <2>2, <2>4 DEF FreshInv, Known, At
    <2> QED
      BY <1>1, <2>1, <2>3, <2>5
  <1>4. ASSUME NEW c \in Callers, SessionStep(c) \/ ExecuteStep(c)
        PROVE  SessionsOK' /\ nextSession' \in 1 .. MaxSessions + 1 /\ FreshInv'
    <2>1. /\ CallOK(call'[c]) /\ Moved(c, call'[c])
          /\ \A d \in Callers : d # c => call'[d] = call[d]
      BY <1>4, CallsKeep
    <2>2. /\ \/ UNCHANGED <<sessions, listeners, revoked>>
             \/ Created(c)
             \/ Changed
             \/ \E s : EndSession(s)
          /\ \/ nextSession' = nextSession
             \/ nextSession' = nextSession + 1 /\ nextSession <= MaxSessions
          /\ call'[c].pc = "insert" => nextSession' = nextSession + 1
      BY <1>4, SessionSteps
    <2>3. nextSession' \in 1 .. MaxSessions + 1 /\ nextSession <= nextSession'
      BY <1>1, <2>2
    <2>4. /\ call'[c].pc = "insert" => call'[c].session = nextSession
          /\ call'[c].session \in {NoSession, call[c].session}
               \/ (call'[c].pc = "insert" /\ call'[c].session = nextSession)
               \/ call'[c].session < nextSession
      BY <2>1, IdleOK DEF Moved, Moves, SameWork
    <2>5. call'[c].session < nextSession'
      <3>1. nextSession \in Nat /\ nextSession' \in Nat /\ nextSession > 0
        BY <1>1, <2>3
      <3>2. call[c].session \in Nat /\ call[c].session < nextSession
            /\ call'[c].session \in Nat
        BY <1>1, <2>1 DEF CallOK, SessionIds, NoSession
      <3>3. \/ call'[c].session = 0 \/ call'[c].session = call[c].session
            \/ call'[c].pc = "insert" /\ call'[c].session = nextSession
            \/ call'[c].session < nextSession
        BY <2>4 DEF NoSession
      <3>4. CASE call'[c].pc = "insert" /\ call'[c].session = nextSession
        BY <2>2, <3>1, <3>4
      <3> QED
        BY <2>3, <3>1, <3>2, <3>3, <3>4
    <2>6. \A d \in Callers : call'[d].session < nextSession'
      <3> SUFFICES ASSUME NEW d \in Callers, d # c PROVE call'[d].session < nextSession'
        BY <2>5
      <3>1. call'[d].session = call[d].session /\ call[d].session < nextSession
        BY <1>1, <2>1
      <3>2. call[d].session \in Nat /\ nextSession \in Nat /\ nextSession' \in Nat
        BY <1>1, <2>3 DEF SessionIds, NoSession
      <3> QED
        BY <2>3, <3>1, <3>2
    <2>7. \A d, e \in Callers : d # c /\ e = c /\ At(e, "insert")' => call'[d].session # call'[e].session
      <3> SUFFICES ASSUME NEW d \in Callers, d # c, call'[c].pc = "insert"
                   PROVE  call'[d].session # call'[c].session
        BY DEF At
      <3>1. call'[d].session < nextSession /\ call'[c].session = nextSession
        BY <1>1, <2>1, <2>4
      <3> QED
        BY <1>1, <3>1
    <2>8. CASE Created(c)
      <3>1. SessionsOK' /\ Known' = Known \cup {call[c].session}
        BY <2>8, OneCreated
      <3>2. At(c, "insert") /\ call'[c].pc # "insert"
        BY <2>8 DEF Created
      <3>3. \A s \in Known' : s < nextSession'
        <4> SUFFICES ASSUME NEW s \in Known' PROVE s < nextSession'
          OBVIOUS
        <4>1. s \in SessionIds \cup {NoSession} /\ s < nextSession
          BY <1>1, <3>1
        <4> QED
          BY <1>1, <2>3, <4>1 DEF SessionIds, NoSession
      <3>4. \A d \in Callers : At(d, "insert")' =>
              /\ d # c /\ At(d, "insert") /\ call'[d] = call[d]
              /\ call[d].session \notin Known /\ call[d].session # call[c].session
        BY <1>1, <2>1, <3>2 DEF At
      <3>5. FreshInv'
        <4>1. \A d \in Callers : At(d, "insert")' =>
                /\ call'[d].session \notin Known'
                /\ \A e \in Callers :
                     At(e, "insert")' /\ call'[e].session = call'[d].session => d = e
          BY <1>1, <3>1, <3>4
        <4> QED
          BY <2>6, <3>3, <4>1 DEF FreshInv, Known
      <3> QED
        BY <2>3, <3>1, <3>5
    <2>9. CASE UNCHANGED <<sessions, listeners, revoked>> \/ Changed \/ \E s : EndSession(s)
      <3>1. SessionsOK' /\ Known' \subseteq Known
        BY <2>9, NoneCreated
      <3>2. \A s \in Known' : s < nextSession'
        <4> SUFFICES ASSUME NEW s \in Known' PROVE s < nextSession'
          OBVIOUS
        <4>1. s \in SessionIds /\ s < nextSession
          BY <1>1, <3>1
        <4> QED
          BY <1>1, <2>3, <4>1 DEF SessionIds
      <3>3. \A d \in Callers : At(d, "insert")' => call'[d].session \notin Known'
        <4> SUFFICES ASSUME NEW d \in Callers, call'[d].pc = "insert"
                     PROVE  call'[d].session \notin Known
          BY <3>1 DEF At
        <4>1. CASE d = c
          <5>1. call'[d].session = nextSession
            BY <2>4, <4>1
          <5>2. nextSession \notin Known
            BY <1>1
          <5> QED
            BY <5>1, <5>2
        <4>2. CASE d # c
          BY <1>1, <2>1, <4>2 DEF At
        <4> QED
          BY <4>1, <4>2
      <3>4. \A d, e \in Callers :
              At(d, "insert")' /\ At(e, "insert")' /\ call'[e].session = call'[d].session => d = e
        <4> SUFFICES ASSUME NEW d \in Callers, NEW e \in Callers,
                            At(d, "insert")', At(e, "insert")',
                            call'[e].session = call'[d].session, d # e
                     PROVE  FALSE
          OBVIOUS
        <4>1. d # c /\ e # c
          BY <2>7
        <4> QED
          BY <1>1, <2>1, <4>1 DEF At
      <3>5. FreshInv'
        BY <2>6, <3>2, <3>3, <3>4 DEF FreshInv, Known
      <3> QED
        BY <2>3, <3>1, <3>5
    <2> QED
      BY <2>2, <2>8, <2>9
  <1>5. CASE UNCHANGED vars
    BY <1>2, <1>5 DEF vars
  <1>6. CASE Operator
    BY <1>2, <1>6, OperatorSteps
  <1>7. CASE \E s \in SessionIds : AcceptFails(s)
    BY <1>2, <1>7 DEF AcceptFails
  <1> QED
    BY <1>3, <1>4, <1>5, <1>6, <1>7 DEF Next, Restart, Crash

(* No session that was known comes back, nor does it change its project.   *)
LEMMA SessionsStable ==
  ASSUME IdentityInv, [Next]_vars
  PROVE  /\ Known \subseteq Known'
         /\ \A s \in Known \cap DOMAIN sessions' :
              /\ s \in DOMAIN sessions
              /\ sessions'[s].project = sessions[s].project
              /\ sessions'[s].backend = sessions[s].backend
  <1>1. CASE \/ UNCHANGED <<sessions, listeners, revoked>> \/ Changed \/ \E s : EndSession(s)
             \/ \E s : AcceptFails(s)
    <2>1. /\ Known' = Known /\ DOMAIN sessions' \subseteq DOMAIN sessions
          /\ \A s \in DOMAIN sessions' : /\ sessions'[s].project = sessions[s].project
                                        /\ sessions'[s].backend = sessions[s].backend
      BY <1>1, NoneCreated
    <2> QED
      BY <2>1
  <1>2. CASE NewDaemon
    BY <1>2 DEF NewDaemon, Known
  <1>3. ASSUME NEW c \in Callers, Created(c)
        PROVE  /\ Known \subseteq Known'
               /\ \A s \in Known \cap DOMAIN sessions' :
                    s \in DOMAIN sessions /\ sessions'[s] = sessions[s]
    <2>1. call[c].session \notin Known
      BY <1>3 DEF Created, IdentityInv, FreshInv, Known
    <2>2. /\ Known' = Known \cup {call[c].session}
          /\ DOMAIN sessions' = DOMAIN sessions \cup {call[c].session}
          /\ \A s \in DOMAIN sessions : s # call[c].session /\ sessions'[s] = sessions[s]
      BY <1>3, OneCreated
    <2> QED
      BY <2>1, <2>2
  <1>4. ASSUME NEW c \in Callers, SessionStep(c) \/ ExecuteStep(c)
        PROVE  \/ UNCHANGED <<sessions, listeners, revoked>> \/ Changed \/ \E s : EndSession(s)
               \/ Created(c)
    BY <1>4, SessionSteps
  <1>5. CASE Operator \/ UNCHANGED vars
    BY <1>1, <1>5, OperatorSteps DEF vars
  <1>6. CASE \E c \in Callers : SessionStep(c) \/ ExecuteStep(c)
    BY <1>1, <1>3, <1>4, <1>6
  <1> QED
    BY <1>1, <1>2, <1>5, <1>6 DEF Next, Restart, Crash

(* serveAgent alone takes a connection, for a session it listens for.      *)
LEMMA Connects ==
  ASSUME IdentityInv, [Next]_vars, NEW d \in Callers, call'[d].pc = "connected"
  PROVE  \/ call'[d] = call[d]
         \/ /\ At(d, "idle") /\ call'[d].session \in DOMAIN listeners
            /\ call'[d].arg = {listeners[call'[d].session].session}
  <1>1. call = [x \in Callers |-> call[x]]
    BY DEF IdentityInv, TypeOK
  <1>2. CASE Operator \/ UNCHANGED vars \/ \E s \in SessionIds : AcceptFails(s)
    BY <1>2, OperatorSteps DEF vars, AcceptFails
  <1>3. CASE NewDaemon
    BY <1>3, IdleOK DEF NewDaemon
  <1>4. ASSUME NEW c \in Callers, SessionStep(c) \/ ExecuteStep(c), c # d
        PROVE  call'[d] = call[d]
    BY <1>4, CallsKeep
  <1>5. CASE SessionStep(d) \/ ExecuteStep(d)
    <2>1. Moved(d, call'[d])
      BY <1>5, CallsKeep
    <2>2. At(d, "idle")
      BY <2>1, IdleOK DEF Moved, Moves
    <2>3. PICK invocation \in Invocations, s \in SessionIds : AgentConnects(d, s, invocation)
      <3>1. ASSUME NEW pc, NEW op, NEW s, NEW arg, NEW invocation,
                   Begin(d, pc, op, s, arg, invocation)
            PROVE  call'[d].pc = pc
        BY <1>1, <3>1 DEF Begin
      <3>2. ASSUME NEW op, NEW id, NEW backend, CallCreate(d, op, id, backend)
            PROVE  call'[d].pc = "snapshot"
        BY <1>1, <3>2 DEF CallCreate, Idle
      <3> QED
        BY <1>5, <2>2, <3>1, <3>2
           DEF At, SessionStep, Snapshot, Insert, Launch, StartBridge, Ready, AgentEnds,
               RemoveContainer, RevokeOwn, ExecuteStep, CallExecute, BridgeCalls,
               Authenticate, TakeContext, Clear, Run, EndCall
    <2>4. /\ s \in DOMAIN listeners
          /\ call'[d].session = s /\ call'[d].arg = {listeners[s].session}
      BY <1>1, <2>3 DEF AgentConnects, Begin
    <2> QED
      BY <2>2, <2>4
  <1> QED
    BY <1>2, <1>3, <1>4, <1>5 DEF Next, Restart, Crash

(* A connection goes on holding a copy of its session while that lives.    *)
LEMMA ConnectionsKeep ==
  ASSUME IdentityInv, [Next]_vars
  PROVE  ConnectionsFit'
  <1> SUFFICES ASSUME NEW d \in Callers, call'[d].pc = "connected"
               PROVE  /\ call'[d].session \in Known'
                      /\ call'[d].session \in DOMAIN sessions' =>
                           \A copy \in call'[d].arg :
                             copy.project = sessions'[call'[d].session].project
    BY DEF ConnectionsFit, At, Known
  <1> DEFINE s == call'[d].session
  <1>1. /\ s \in Known
        /\ s \in DOMAIN sessions => \A copy \in call'[d].arg : copy.project = sessions[s].project
    <2>1. CASE call'[d] = call[d]
      BY <2>1 DEF IdentityInv, ConnectionsFit, At, Known
    <2>2. CASE s \in DOMAIN listeners /\ call'[d].arg = {listeners[s].session}
      BY <2>2 DEF IdentityInv, LoopsFit, Known
    <2> QED
      BY <2>1, <2>2, Connects
  <1> QED
    BY <1>1, SessionsStable

(* A session becomes active by Ready and Authenticate alone.               *)
LEMMA StatusEarned ==
  ASSUME IdentityInv, [Next]_vars, NEW s \in DOMAIN sessions, s \in DOMAIN sessions'
  PROVE  \/ sessions'[s].status = sessions[s].status
         \/ sessions'[s].status = "active" /\ Earned(s)
  <1>1. sessions[s] \in Sessions /\ Configured(sessions, SessionIds, Sessions)
    BY DEF IdentityInv, TypeOK, Configured
  <1>2. CASE UNCHANGED sessions
    BY <1>2
  <1>3. ASSUME NEW t, EndSession(t)
        PROVE  sessions'[s] = sessions[s]
    BY <1>1, <1>3, WithoutKeeps DEF EndSession
  <1>4. ASSUME NEW t, NEW session, sessions' = Activated(t, session), s # t
        PROVE  sessions'[s] = sessions[s]
    BY <1>1, <1>4 DEF Activated
  <1>5. ASSUME NEW session, sessions' = Activated(s, session)
        PROVE  sessions'[s].status = "active"
    <2>1. sessions' = [sessions EXCEPT ![s] = [sessions[s] EXCEPT !.status = "active"]]
      BY <1>5 DEF Activated
    <2> QED
      BY <1>1, <2>1 DEF Sessions
  <1>6. ASSUME NEW c \in Callers, Ready(c)
        PROVE  \/ sessions'[s] = sessions[s]
               \/ sessions'[s].status = "active" /\ Earned(s)
    BY <1>4, <1>5, <1>6 DEF Ready, Earned
  <1>7. ASSUME NEW c \in Callers, Authenticate(c)
        PROVE  \/ sessions'[s] = sessions[s]
               \/ sessions'[s].status = "active" /\ Earned(s)
    <2>1. CASE UNCHANGED sessions
      BY <2>1
    <2>2. ASSUME NEW session \in call[c].arg, session.project \in DOMAIN store.projects,
                 sessions' = Activated(call[c].session, session)
          PROVE  \/ sessions'[s] = sessions[s]
                 \/ sessions'[s].status = "active" /\ Earned(s)
      <3>1. CASE call[c].session = s
        <4>1. At(c, "connected") /\ session.project = sessions[s].project
          BY <1>7, <2>2, <3>1 DEF Authenticate, IdentityInv, ConnectionsFit
        <4> QED
          BY <1>5, <2>2, <3>1, <4>1 DEF Earned
      <3>2. CASE call[c].session # s
        BY <1>4, <2>2, <3>2
      <3> QED
        BY <3>1, <3>2
    <2> QED
      BY <1>7, <2>1, <2>2 DEF Authenticate
  <1>8. ASSUME NEW c \in Callers, Created(c)
        PROVE  sessions'[s] = sessions[s]
    BY <1>8, OneCreated
  <1>9. ASSUME NEW c \in Callers, SessionStep(c) \/ ExecuteStep(c)
        PROVE  \/ sessions'[s].status = sessions[s].status
               \/ sessions'[s].status = "active" /\ Earned(s)
    <2>1. CASE Ready(c) \/ Authenticate(c)
      BY <1>6, <1>7, <2>1
    <2>2. CASE RevokeOwn(c)
      BY <1>3, <2>2 DEF RevokeOwn
    <2>3. CASE Insert(c)
      <3>1. CASE UNCHANGED sessions
        BY <3>1
      <3>2. CASE ~UNCHANGED sessions
        <4>1. \/ Created(c) \/ Changed \/ \E t : EndSession(t)
          BY <1>9, <3>2, SessionSteps
        <4>2. PICK session \in call[c].arg : sessions' = Put(sessions, call[c].session, session)
          BY <2>3, <3>2 DEF Insert
        <4>3. call[c].session # s
          BY <2>3 DEF Insert, IdentityInv, FreshInv
        <4> QED
          BY <1>1, <4>2, <4>3 DEF Put, Configured
      <3> QED
        BY <3>1, <3>2
    <2> QED
      BY <1>2, <1>9, <2>1, <2>2, <2>3
         DEF SessionStep, CallCreate, Snapshot, Launch, StartBridge, AgentEnds, RemoveContainer,
             ExecuteStep, CallExecute, AgentConnects, BridgeCalls, Begin, TakeContext, Clear, Run,
             EndCall
  <1>10. ASSUME NEW t, NEW persona, SelectSessionPersona(t, persona)
         PROVE  sessions'[s].status = sessions[s].status
    <2>1. sessions' = [sessions EXCEPT ![t] = [sessions[t] EXCEPT !.persona = persona]]
      BY <1>10 DEF SelectSessionPersona
    <2> QED
      BY <1>1, <2>1 DEF Sessions
  <1>11. CASE Operator
    BY <1>2, <1>3, <1>10, <1>11
       DEF Operator, SetPersona, ImportPersonas, SetProject, SetGH, Configure, SetPolicy, Update,
           serviceVars, Revoke
  <1>12. CASE NewDaemon
    BY <1>12 DEF NewDaemon
  <1>13. CASE UNCHANGED vars \/ \E t \in SessionIds : AcceptFails(t)
    BY <1>2, <1>13 DEF vars, AcceptFails
  <1> QED
    BY <1>9, <1>11, <1>12, <1>13 DEF Next, Restart, Crash

(* What no step does to a session.                                         *)
LEMMA LifeSteps ==
  ASSUME IdentityInv, [Next]_vars, NEW s \in SessionIds
  PROVE  LifeStep(s)
  <1>1. ASSUME NEW d \in Callers, At(d, "idle"), call'[d].pc = "connected", call'[d].session = s
        PROVE  s \in DOMAIN sessions /\ sessions[s].backend = "native"
    BY <1>1, Connects DEF At, IdentityInv, LoopsFit
  <1>2. ASSUME s \in DOMAIN sessions, s \in DOMAIN sessions'
        PROVE  /\ sessions'[s].project = sessions[s].project
               /\ sessions'[s].backend = sessions[s].backend
               /\ \/ sessions'[s].status = sessions[s].status
                  \/ sessions'[s].status = "active" /\ Earned(s)
    BY <1>2, SessionsStable, StatusEarned DEF Known
  <1> QED
    BY <1>1, <1>2 DEF LifeStep, Accepted, At

(* A container of this daemon never loses the call that will remove it.    *)
ContainersOK == Configured(containers, SessionIds, {"run", "left", "orphan"})

(* Containers and the runs that will remove them.                          *)
LEMMA ContainersKeep ==
  ASSUME IdentityInv, [Next]_vars
  PROVE  ContainersOK' /\ ContainersOwned'
  <1>1. ContainersOK /\ ContainersOwned
    BY DEF IdentityInv, TypeOK, ContainersOK
  <1>2. CASE UNCHANGED <<call, containers>>
    BY <1>1, <1>2 DEF ContainersOK, ContainersOwned
  <1>3. CASE NewDaemon
    BY <1>1, <1>3 DEF NewDaemon, ContainersOK, ContainersOwned, Configured
  <1>4. ASSUME NEW c \in Callers, SessionStep(c) \/ ExecuteStep(c)
        PROVE  ContainersOK' /\ ContainersOwned'
    <2>1. /\ CallOK(call'[c]) /\ Moved(c, call'[c])
          /\ \A d \in Callers : d # c => call'[d] = call[d]
          /\ call = [d \in Callers |-> call[d]]
      BY <1>4, CallsKeep DEF IdentityInv, TypeOK
    <2>2. CallOK(call[c])
      BY DEF IdentityInv, TypeOK
    <2>3. PICK s : s = call[c].session
      OBVIOUS
    <2>4. ASSUME NEW t, \E d \in Callers : /\ d # c /\ call[d].op = "container"
                                           /\ call[d].session = t
                                           /\ call[d].pc \in {"bridge", "ready", "agent", "remove"}
          PROVE  \E d \in Callers : /\ call'[d].op = "container"
                                    /\ call'[d].session = t
                                    /\ call'[d].pc \in {"bridge", "ready", "agent", "remove"}
      BY <2>1, <2>4
    <2>5. CASE UNCHANGED containers /\ call[c].pc # "remove"
      <3>1. call[c].pc \in {"bridge", "ready", "agent"} =>
              /\ call'[c].pc \in {"bridge", "ready", "agent", "remove"}
              /\ call'[c].op = call[c].op /\ call'[c].session = call[c].session
        BY <2>1 DEF Moved, Moves, SameWork, At
      <3>2. ContainersOwned'
        BY <1>1, <2>4, <2>5, <3>1 DEF ContainersOwned
      <3> QED
        BY <1>1, <2>5, <3>2 DEF ContainersOK
    <2>6. ASSUME NEW kind \in {"run", "left"}, At(c, "launch") \/ At(c, "remove"),
                 containers' = Put(containers, s, kind),
                 kind = "run" => call'[c].pc = "bridge" /\ call'[c].op = "container"
                                 /\ call'[c].session = s
          PROVE  ContainersOK' /\ ContainersOwned'
      <3>1. s \in SessionIds
        BY <2>2, <2>3, <2>6 DEF CallOK, At, ContainerSteps
      <3>2. /\ ContainersOK'
            /\ DOMAIN containers' = DOMAIN containers \cup {s}
            /\ \A t \in DOMAIN containers \cup {s} :
                 containers'[t] = IF t = s THEN kind ELSE containers[t]
        <4>1. /\ Configured(Put(containers, s, kind), SessionIds, {"run", "left", "orphan"})
              /\ DOMAIN Put(containers, s, kind) = DOMAIN containers \cup {s}
              /\ \A t \in DOMAIN containers \cup {s} :
                   Put(containers, s, kind)[t] = IF t = s THEN kind ELSE containers[t]
          <5>1. /\ kind \in {"run", "left", "orphan"}
                /\ Configured(containers, SessionIds, {"run", "left", "orphan"})
            BY <1>1 DEF ContainersOK
          <5> QED
            BY <3>1, <5>1, PutKeeps
        <4> QED
          BY <2>6, <4>1 DEF ContainersOK
      <3>3. \A t \in DOMAIN containers \ {s} : containers[t] = "run" =>
              \E d \in Callers : /\ d # c /\ call[d].op = "container"
                                 /\ call[d].session = t
                                 /\ call[d].pc \in {"bridge", "ready", "agent", "remove"}
        BY <1>1, <2>3 DEF ContainersOwned
      <3>4. ContainersOwned'
        <4> SUFFICES ASSUME NEW t \in DOMAIN containers', containers'[t] = "run"
                     PROVE  \E d \in Callers : /\ call'[d].op = "container"
                                               /\ call'[d].session = t
                                               /\ call'[d].pc \in {"bridge", "ready", "agent", "remove"}
          BY DEF ContainersOwned
        <4>1. CASE t = s
          BY <2>6, <3>2, <4>1
        <4>2. CASE t # s
          BY <2>4, <3>2, <3>3, <4>2
        <4> QED
          BY <4>1, <4>2
      <3> QED
        BY <3>2, <3>4
    <2>7. CASE At(c, "launch") /\ containers' = Put(containers, call[c].session, "run")
               /\ Goto(c, "bridge")
      <3> DEFINE new == [call[c] EXCEPT !.pc = "bridge"]
      <3>1. call' = [call EXCEPT ![c] = new]
        BY <2>7 DEF Goto
      <3>2. new.pc = "bridge" /\ new.op = call[c].op /\ new.session = s
        BY <2>2, <2>3, GotoOK
      <3> HIDE DEF new
      <3>3. call'[c] = new
        BY <2>1, <3>1
      <3>4. call[c].op = "container"
        BY <2>2, <2>7 DEF CallOK, At, ContainerSteps
      <3> QED
        BY <2>3, <2>6, <2>7, <3>2, <3>3, <3>4
    <2>8. CASE \/ At(c, "launch") /\ containers' = Put(containers, call[c].session, "left")
               \/ At(c, "remove") /\ containers' = Put(containers, call[c].session, "left")
      BY <2>3, <2>6, <2>8
    <2>9. CASE At(c, "remove") /\ containers' = Without(containers, call[c].session)
      <3>1. /\ ContainersOK'
            /\ DOMAIN containers' = DOMAIN containers \ {s}
            /\ \A t \in DOMAIN containers \ {s} : containers'[t] = containers[t]
        BY <1>1, <2>3, <2>9, WithoutKeeps DEF ContainersOK
      <3>2. \A t \in DOMAIN containers \ {s} : containers[t] = "run" =>
              \E d \in Callers : /\ d # c /\ call[d].op = "container"
                                 /\ call[d].session = t
                                 /\ call[d].pc \in {"bridge", "ready", "agent", "remove"}
        BY <1>1, <2>3 DEF ContainersOwned
      <3> QED
        BY <2>4, <3>1, <3>2 DEF ContainersOwned
    <2> QED
      BY <1>4, <2>5, <2>7, <2>8, <2>9, ContainerChanges
  <1>5. CASE UNCHANGED vars
    BY <1>2, <1>5 DEF vars
  <1>6. CASE Operator
    BY <1>2, <1>6, OperatorSteps
  <1>7. CASE \E s \in SessionIds : AcceptFails(s)
    BY <1>2, <1>7 DEF AcceptFails
  <1> QED
    BY <1>3, <1>4, <1>5, <1>6, <1>7 DEF Next, Restart, Crash

(***************************************************************************)
(* Executions.                                                             *)
(***************************************************************************)

(* Service.Context resolves nothing but what is in force at that moment,   *)
(* and without a session only for a project that does not isolate agents.  *)
LEMMA ContextInForce ==
  ASSUME TypeOK, HostsAgree, NEW c \in Callers
  PROVE  /\ Context(c) \subseteq InForce(c)
         /\ call[c].session = NoSession =>
              \A context \in Context(c) : context[1].mode = "proxy-level"
  <1>1. /\ \A p \in DOMAIN store.projects : store.projects[p] \in Projects
        /\ \A s \in DOMAIN sessions : sessions[s] \in Sessions
    BY DEF TypeOK, StateOK, Configured
  <1>2. \A p \in DOMAIN store.projects :
          LET project == store.projects[p] IN
          /\ project.persona \in DOMAIN store.personas
          /\ \A a \in project.alternatives :
               Fold[store.personas[a]] = Fold[store.personas[project.persona]]
    BY DEF HostsAgree
  <1> DEFINE Ok(p, q) ==
        LET project == store.projects[p]
            own == {s \in DOMAIN sessions :
                      /\ s = call[c].session
                      /\ sessions[s].project = p
                      /\ sessions[s].persona = q} IN
        /\ q = project.persona \/ q \in project.alternatives
        /\ Fold[store.personas[q]] = Fold[store.personas[project.persona]]
        /\ IF call[c].session = NoSession
           THEN /\ p \in call[c].arg
                /\ q = project.persona
                /\ project.mode = "proxy-level"
           ELSE \E s \in own : \/ project.mode = "proxy-level"
                               \/ sessions[s].backend \in {"native", "docker", "podman"}
  <1>3. ASSUME NEW p \in DOMAIN store.projects, NEW q \in DOMAIN store.personas, Ok(p, q)
        PROVE  <<store.projects[p], store.personas[q]>> \in InForce(c)
    <2> DEFINE x == <<p, q>>
    <2>1. x \in (DOMAIN store.projects) \X (DOMAIN store.personas) /\ x[1] = p /\ x[2] = q
      OBVIOUS
    <2>2. Ok(x[1], x[2])
      BY <1>3, <2>1
    <2> HIDE DEF x
    <2>3. <<store.projects[x[1]], store.personas[x[2]]>> \in InForce(c)
      BY <2>1, <2>2 DEF InForce
    <2> QED
      BY <2>1, <2>3
  <1>4. ASSUME NEW context \in Context(c), call[c].session # NoSession
        PROVE  context \in InForce(c)
    <2>1. PICK s \in DOMAIN sessions :
            /\ s = call[c].session
            /\ sessions[s].project \in DOMAIN store.projects
            /\ StillPermitted(sessions[s], store.projects[sessions[s].project])
            /\ sessions[s].persona \in DOMAIN store.personas
            /\ context = <<store.projects[sessions[s].project],
                           store.personas[sessions[s].persona]>>
      BY <1>4 DEF Context
    <2>2. PICK p, q : p = sessions[s].project /\ q = sessions[s].persona
      OBVIOUS
    <2>3. /\ q = store.projects[p].persona \/ q \in store.projects[p].alternatives
          /\ store.projects[p].mode = "agent-isolation" => sessions[s].backend # "proxy-level"
      BY <2>1, <2>2 DEF StillPermitted, Isolated, PersonasOf
    <2>4. store.projects[p].mode \in Modes /\ sessions[s].backend \in BackendKinds
      BY <1>1, <2>1, <2>2 DEF Projects, Sessions
    <2>5. Fold[store.personas[q]] = Fold[store.personas[store.projects[p].persona]]
      BY <1>2, <2>1, <2>2, <2>3
    <2>6. Ok(p, q)
      BY <1>4, <2>1, <2>2, <2>3, <2>4, <2>5 DEF Modes, BackendKinds
    <2> HIDE DEF Ok
    <2> QED
      BY <1>3, <2>1, <2>2, <2>6
  <1>5. ASSUME NEW context \in Context(c), call[c].session = NoSession
        PROVE  context \in InForce(c) /\ context[1].mode = "proxy-level"
    <2>1. PICK p \in DOMAIN store.projects :
            /\ p \in call[c].arg
            /\ store.projects[p].mode # "agent-isolation"
            /\ context = <<store.projects[p], store.personas[store.projects[p].persona]>>
      BY <1>5 DEF Context
    <2>2. store.projects[p].mode = "proxy-level"
      BY <1>1, <2>1 DEF Projects, Modes
    <2>3. PICK q : q = store.projects[p].persona
      OBVIOUS
    <2>4. q \in DOMAIN store.personas /\ Ok(p, q)
      BY <1>2, <1>5, <2>1, <2>2, <2>3
    <2> HIDE DEF Ok
    <2> QED
      BY <1>3, <2>1, <2>2, <2>3, <2>4
  <1> QED
    BY <1>4, <1>5

(* What is remembered of a call that has taken its context.                *)
LEMMA WatchKeeps ==
  ASSUME IdentityInv, [Next]_vars, NEW d \in Callers,
         call'[d].pc \in {"taken", "cleared", "running"}
  PROVE  \/ ~At(d, "called") /\ witness'[d] = witness[d]
         \/ At(d, "called") /\ witness'[d] = InForce(d)
  <1>1. CASE UNCHANGED vars
    BY <1>1 DEF vars, At
  <1>2. CASE Watch
    BY <1>2 DEF Watch, At
  <1> QED
    BY <1>1, <1>2 DEF Next

(* What was in force when a call took its context is still recorded.       *)
LEMMA TakenKeeps ==
  ASSUME IdentityInv, [Next]_vars
  PROVE  TakenInv'
  <1> SUFFICES ASSUME NEW d \in Callers, call'[d].pc \in {"taken", "cleared", "running"}
               PROVE  /\ call'[d].taken # {}
                      /\ call'[d].taken \subseteq witness'[d]
                      /\ call'[d].session = NoSession =>
                           \A context \in call'[d].taken : context[1].mode = "proxy-level"
    BY DEF TakenInv
  <1>1. \/ ~At(d, "called") /\ witness'[d] = witness[d]
        \/ At(d, "called") /\ witness'[d] = InForce(d)
    BY WatchKeeps
  <1>2. call[d].pc \in {"taken", "cleared", "running"} =>
          /\ call[d].taken # {}
          /\ call[d].taken \subseteq witness[d]
          /\ call[d].session = NoSession =>
               \A context \in call[d].taken : context[1].mode = "proxy-level"
    BY DEF IdentityInv, TakenInv
  <1>3. CASE call'[d] = call[d]
    BY <1>1, <1>2, <1>3 DEF At
  <1>4. CASE Moved(d, call'[d])
    <2>1. \/ /\ call[d].pc \in {"taken", "cleared", "running"}
             /\ call'[d].taken = call[d].taken /\ call'[d].session = call[d].session
          \/ /\ At(d, "called") /\ call'[d].pc = "taken" /\ call'[d].session = call[d].session
             /\ call'[d].taken = Context(d) /\ Context(d) # {}
      BY <1>4, IdleOK DEF Moved, Moves, SameWork
    <2>2. /\ Context(d) \subseteq InForce(d)
          /\ call[d].session = NoSession =>
               \A context \in Context(d) : context[1].mode = "proxy-level"
      BY ContextInForce DEF IdentityInv
    <2> QED
      BY <1>1, <1>2, <2>1, <2>2 DEF At
  <1>5. CASE NewDaemon
    BY <1>5, IdleOK DEF NewDaemon
  <1>6. CASE Operator \/ UNCHANGED vars \/ \E s \in SessionIds : AcceptFails(s)
    BY <1>3, <1>6, OperatorSteps DEF vars, AcceptFails
  <1>7. ASSUME NEW c \in Callers, SessionStep(c) \/ ExecuteStep(c)
        PROVE  call'[d] = call[d] \/ Moved(d, call'[d])
    BY <1>7, CallsKeep
  <1> QED
    BY <1>3, <1>4, <1>5, <1>6, <1>7 DEF Next, Restart, Crash

(* What the authorisation of an invocation amounts to, for every kind.     *)
Covered(context, invocation) ==
  /\ \A operation \in invocation.needs :
       \/ operation \in context[1].policy.allow
       \/ PresetAllows(context[1].policy.preset, operation)
  /\ invocation.needs \cap context[1].policy.deny = {}
  /\ \A named \in invocation.names : Fold[named] = Fold[context[2]]

(* Executor.Run authorises what the context's policy allows.               *)
LEMMA AuthorizeCovers ==
  ASSUME NEW context, NEW invocation \in Invocations,
         Authorize(context[1], context[2], invocation)
  PROVE  Covered(context, invocation)
  <1>1. /\ invocation.kind = "api" => invocation.names = {}
        /\ invocation.kind = "credential" => invocation.needs = {}
    BY InputsAssumption
  <1>2. CASE invocation.kind = "credential"
    <2>1. AuthorizeGitCredential(context[2], invocation)
      BY <1>2 DEF Authorize
    <2> QED
      BY <1>1, <1>2, <2>1 DEF AuthorizeGitCredential, SameHost, Covered
  <1>3. CASE invocation.kind = "api"
    <2>1. AuthorizeAPI(context[1], invocation)
      BY <1>3 DEF Authorize
    <2> QED
      BY <1>1, <1>3, <2>1 DEF AuthorizeAPI, Allows, Covered
  <1>4. CASE invocation.kind \notin {"credential", "api"}
    <2>1. AuthorizeCommand(context[1], context[2], invocation)
      BY <1>4 DEF Authorize
    <2> QED
      BY <2>1 DEF AuthorizeCommand, SameHost, Allows, Covered
  <1> QED
    BY <1>2, <1>3, <1>4

(* A call is cleared by Clear alone, which authorises what it holds.       *)
LEMMA ClearCovers ==
  ASSUME IdentityInv, NEW c \in Callers, SessionStep(c) \/ ExecuteStep(c), call'[c].pc = "cleared"
  PROVE  /\ \A context \in call[c].taken, invocation \in call[c].invocation :
              /\ Covered(context, invocation)
              /\ invocation.kind = "credential" => call[c].session = NoSession
         /\ call'[c].taken = call[c].taken /\ call'[c].invocation = call[c].invocation
         /\ call'[c].session = call[c].session
  <1>1. Moved(c, call'[c]) /\ call = [d \in Callers |-> call[d]]
    BY CallsKeep DEF IdentityInv, TypeOK
  <1>2. At(c, "taken") /\ SameWork(call[c], call'[c]) /\ call'[c].taken = call[c].taken
    BY <1>1, IdleOK DEF Moved, Moves, At
  <1>3. Clear(c)
    BY <1>2 DEF At, SessionStep, CallCreate, Snapshot, Insert, Launch, StartBridge, Ready, AgentEnds,
       RemoveContainer, RevokeOwn, ExecuteStep, CallExecute, AgentConnects, BridgeCalls, Begin,
       Authenticate, TakeContext, Run, EndCall
  <1>4. ~Return(c)
    BY <1>1, IdleOK DEF Return
  <1>5. \A invocation \in call[c].invocation, context \in call[c].taken :
          /\ Authorize(context[1], context[2], invocation)
          /\ invocation.kind = "credential" => call[c].session = NoSession
    BY <1>3, <1>4 DEF Clear
  <1>6. call[c].invocation \subseteq Invocations
    BY DEF IdentityInv, TypeOK, CallOK
  <1> QED
    BY <1>2, <1>5, <1>6, AuthorizeCovers DEF SameWork

(* A gh that runs is covered when it starts, and nothing changes what it   *)
(* acts on.                                                                *)
LEMMA CallsCoveredKeeps ==
  ASSUME IdentityInv, [Next]_vars
  PROVE  CallsCovered'
  <1> SUFFICES ASSUME NEW d \in Callers, call'[d].pc \in {"cleared", "running"}
               PROVE  /\ call'[d].taken # {}
                      /\ call'[d].taken \subseteq witness'[d]
                      /\ \A context \in call'[d].taken, invocation \in call'[d].invocation :
                           /\ Covered(context, invocation)
                           /\ invocation.kind = "credential" =>
                                call'[d].session = NoSession /\ context[1].mode = "proxy-level"
    BY DEF CallsCovered, Covered
  <1>1. /\ call'[d].taken # {}
        /\ call'[d].taken \subseteq witness'[d]
        /\ call'[d].session = NoSession =>
             \A context \in call'[d].taken : context[1].mode = "proxy-level"
    BY TakenKeeps DEF TakenInv
  <1>2. call[d].pc \in {"cleared", "running"} =>
          \A context \in call[d].taken, invocation \in call[d].invocation :
            /\ Covered(context, invocation)
            /\ invocation.kind = "credential" => call[d].session = NoSession
    BY DEF IdentityInv, CallsCovered, Covered
  <1>3. CASE call'[d] = call[d]
    BY <1>1, <1>2, <1>3
  <1>4. ASSUME SessionStep(d) \/ ExecuteStep(d)
        PROVE  \A context \in call'[d].taken, invocation \in call'[d].invocation :
                 /\ Covered(context, invocation)
                 /\ invocation.kind = "credential" => call'[d].session = NoSession
    <2>1. CASE call'[d].pc = "cleared"
      BY <1>4, <2>1, ClearCovers
    <2>2. CASE call'[d].pc = "running"
      <3>1. Moved(d, call'[d])
        BY <1>4, CallsKeep
      <3>2. call[d].pc = "cleared" /\ SameWork(call[d], call'[d]) /\ call'[d].taken = call[d].taken
        BY <2>2, <3>1, IdleOK DEF Moved, Moves
      <3> QED
        BY <1>2, <3>2 DEF SameWork
    <2> QED
      BY <2>1, <2>2
  <1>5. CASE NewDaemon
    BY <1>5, IdleOK DEF NewDaemon
  <1>6. CASE Operator \/ UNCHANGED vars \/ \E s \in SessionIds : AcceptFails(s)
    BY <1>3, <1>6, OperatorSteps DEF vars, AcceptFails
  <1>7. ASSUME NEW c \in Callers, SessionStep(c) \/ ExecuteStep(c)
        PROVE  call'[d] = call[d] \/ SessionStep(d) \/ ExecuteStep(d)
    BY <1>7, CallsKeep
  <1> QED
    BY <1>1, <1>3, <1>4, <1>5, <1>6, <1>7 DEF Next, Restart, Crash

(***************************************************************************)
(* The theorems.                                                           *)
(***************************************************************************)
LEMMA InitIdentity == Init => IdentityInv
  <1> SUFFICES ASSUME Init PROVE IdentityInv
    OBVIOUS
  <1>1. StateOK(NewState) /\ DOMAIN NewState.projects = {}
    BY DEF NewState, StateOK, Configured
  <1>2. /\ store = NewState /\ disk = NewState /\ DOMAIN sessions = {} /\ DOMAIN listeners = {}
        /\ listeners = [s \in {} |-> s] /\ nextSession = 1 /\ call = [c \in Callers |-> Idle] /\ DOMAIN containers = {}
        /\ revoked = {} /\ sessions = [s \in {} |-> s] /\ containers = [s \in {} |-> s]
    BY DEF Init
  <1>3. call = [c \in Callers |-> call[c]] /\ \A c \in Callers : call[c] = Idle
    BY <1>2
  <1>4. TypeOK
    <2>1. Configured(sessions, SessionIds, Sessions)
          /\ Configured(listeners, SessionIds, [session : Sessions, accepts : BOOLEAN])
          /\ Configured(containers, SessionIds, {"run", "left", "orphan"})
      BY <1>2 DEF Configured
    <2>2. nextSession \in 1 .. MaxSessions + 1
      BY <1>2, InputsAssumption
    <2> QED
      BY <1>1, <1>2, <1>3, <2>1, <2>2, IdleOK DEF TypeOK
  <1>5. HostsAgree
    BY <1>1, <1>2 DEF HostsAgree
  <1>6. FreshInv /\ RevokedStaysRevoked /\ LoopsFit /\ ConnectionsFit
    BY <1>2, <1>3, IdleOK
       DEF FreshInv, RevokedStaysRevoked, LoopsFit, ConnectionsFit, NoSession, At
  <1>7. ContainersOwned /\ TakenInv /\ CallsCovered
    BY <1>2, <1>3, IdleOK DEF ContainersOwned, TakenInv, CallsCovered
  <1> QED
    BY <1>4, <1>5, <1>6, <1>7 DEF IdentityInv

(* Every step preserves the invariant.                                     *)
LEMMA NextIdentity == IdentityInv /\ [Next]_vars => IdentityInv'
  <1> SUFFICES ASSUME IdentityInv, [Next]_vars PROVE IdentityInv'
    OBVIOUS
  <1>1. StateOK(store)' /\ StateOK(disk)' /\ HostsAgree'
    BY StoreKeeps DEF IdentityInv, TypeOK
  <1>2. SessionsOK' /\ nextSession' \in 1 .. MaxSessions + 1 /\ FreshInv'
    BY SessionsKeep
  <1>3. ContainersOK' /\ ContainersOwned'
    BY ContainersKeep
  <1>4. call' = [c \in Callers |-> call'[c]] /\ \A c \in Callers : CallOK(call'[c])
    <2>1. CASE Operator \/ UNCHANGED vars \/ \E s \in SessionIds : AcceptFails(s)
      BY <2>1, OperatorSteps DEF IdentityInv, TypeOK, vars, AcceptFails
    <2>2. CASE NewDaemon
      BY <2>2, IdleOK DEF NewDaemon
    <2>3. CASE \E c \in Callers : SessionStep(c) \/ ExecuteStep(c)
      BY <2>3, CallsKeep
    <2> QED
      BY <2>1, <2>2, <2>3 DEF Next, Restart, Crash
  <1>5. TypeOK'
    BY <1>1, <1>2, <1>3, <1>4 DEF TypeOK, SessionsOK, Listeners, ContainersOK
  <1> QED
    BY <1>1, <1>2, <1>3, <1>5, ConnectionsKeep, TakenKeeps, CallsCoveredKeeps
       DEF IdentityInv, SessionsOK

(* The strengthening is inductive: it holds in every reachable state of the*)
(* service, whatever operators, agents and handlers do at the same time    *)
(* and whichever faults happen.                                            *)
THEOREM IdentityCorrect == Spec => []IdentityInv
  BY InitIdentity, NextIdentity, PTL DEF Spec

(* No gh runs but for a project and on a host that were permitted together *)
(* at one moment after the call, and within that project's policy          *)
(* (Service.Context, Executor.Run).                                        *)
THEOREM EveryCallCovered == Spec => []CallsCovered
  <1>1. IdentityInv => CallsCovered
    BY DEF IdentityInv
  <1> QED
    BY <1>1, IdentityCorrect, PTL

(* A session that ended never comes back, although activations of it may   *)
(* still be on their way (activateSession goes by the ID).                 *)
THEOREM RevocationIsFinal == Spec => []RevokedStaysRevoked
  <1>1. IdentityInv => RevokedStaysRevoked
    BY DEF IdentityInv
  <1> QED
    BY <1>1, IdentityCorrect, PTL

(* No agent is accepted for a session that has ended, and a session becomes*)
(* active once, by an agent authenticated against its own project or by the*)
(* bridge of its container (createSession, serveAgent, activateSession,    *)
(* selectSessionPersona, session.revoke).                                  *)
THEOREM SessionsLiveOnce == Spec => SessionLife
  <1>1. IdentityInv /\ [Next]_vars => [\A s \in SessionIds : LifeStep(s)]_vars
    BY LifeSteps
  <1> QED
    BY <1>1, IdentityCorrect, PTL DEF Spec, SessionLife

(* Every container that runs for this daemon has a run that removes it     *)
(* (the deferred clean-up of RunContainer).                                *)
THEOREM ContainersHaveOwners == Spec => []ContainersOwned
  <1>1. IdentityInv => ContainersOwned
    BY DEF IdentityInv
  <1> QED
    BY <1>1, IdentityCorrect, PTL

(* In memory and on disk, all personas of a project exist and share its    *)
(* host, even when a replacement was written but reported as failed.       *)
THEOREM HostsAlwaysAgree == Spec => []HostsAgree
  <1>1. IdentityInv => HostsAgree
    BY DEF IdentityInv
  <1> QED
    BY <1>1, IdentityCorrect, PTL
=============================================================================
