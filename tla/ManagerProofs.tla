---------------------------- MODULE ManagerProofs ----------------------------
(***************************************************************************)
(* Theorems about what the manager achieves for its clients: the registry  *)
(* it keeps in memory and on disk, the runs it promises (Lifecycle         *)
(* implements RunLedger), and what Stop and Shutdown leave behind.         *)
(***************************************************************************)
EXTENDS LifecycleLedger, LifecycleProofs

(***************************************************************************)
(* First, the registry.  RegistryStep sorts the steps of Next by what they *)
(* do to the registry, the file and the outputs; every theorem about these *)
(* is then a case analysis over those six kinds of step.                   *)
(***************************************************************************)

(***************************************************************************)
(* What a step does to the registry.                                       *)
(***************************************************************************)

(* Nothing.                                                                *)
QuietStep ==
  /\ UNCHANGED <<registry, disk, outputs, nextInst>>
  /\ mode' = "down" <=> mode = "down"

(* The four changes of the definitions, with the keys whose output goes.   *)
Redefined(changed, cleared) ==
  \/ /\ cleared = {}
     /\ \E p \in Projects : changed = [registry EXCEPT !.projects = @ \cup {p}]
  \/ /\ cleared = {}
     /\ \E p \in Projects : /\ \A k \in registry.processes : ProjectOf[k] # p
                            /\ changed = [registry EXCEPT !.projects = @ \ {p}]
  \/ /\ cleared = {}
     /\ \E k \in Keys : /\ ProjectOf[k] \in registry.projects /\ ~Registered(k)
                        /\ changed = [registry EXCEPT !.processes = @ \cup {k}]
  \/ \E k \in Keys : /\ cleared = {k} /\ ProcessRemovable(k)
                     /\ changed = [registry EXCEPT !.processes = @ \ {k},
                                                   !.runtime[k] = NilRuntime]

DefineStep ==
  /\ mode # "down" /\ mode' # "down" /\ UNCHANGED nextInst
  /\ \E changed, cleared : \E result \in Results :
       /\ Redefined(changed, cleared)
       /\ Save(changed, result)
       /\ registry' = IF result = "ok" THEN changed ELSE registry
       /\ outputs' = [k \in Keys |-> IF result = "ok" /\ k \in cleared
                                     THEN Nil ELSE outputs[k]]

(* A new attempt is begun, or its first Save fails.                        *)
BeginStep(k) ==
  LET starting == WithRuntime(k, NewProcessRuntime(nextInst)) IN
  /\ mode # "down" /\ mode' # "down" /\ UNCHANGED outputs
  /\ Registered(k) /\ ~IsActive(registry.runtime[k].state)
  /\ nextInst \in Instances /\ nextInst' = nextInst + 1
  /\ \E result \in Results :
       /\ Save(starting, result)
       /\ registry' = IF result = "ok" THEN starting ELSE registry

(* The current attempt moves on to rt; a Stop whose Save fails leaves it.  *)
AdvanceStep(k, rt) ==
  LET old == registry.runtime[k] IN
  /\ mode # "down" /\ mode' # "down" /\ UNCHANGED nextInst
  /\ Registered(k) /\ IsActive(old.state)
  /\ rt \in Runtimes /\ rt.inst = old.inst
  /\ CanTransition(old.state, rt.state)
  /\ IsActive(rt.state) => rt.reason = old.reason /\ rt.exit = old.exit
  /\ \A j \in Keys \ {k} : outputs'[j] = outputs[j]
  /\ \E result \in Results :
       /\ Save(WithRuntime(k, rt), result)
       /\ \/ registry' = WithRuntime(k, rt)
          \/ registry' = registry /\ IsActive(rt.state) /\ result = "err"

(* The daemon boots from the file, or cannot.                              *)
BootStep ==
  /\ mode = "down" /\ UNCHANGED <<outputs, nextInst>>
  /\ \/ /\ Save(Reconciled(disk), "ok")
        /\ mode' # "down" /\ registry' = Reconciled(disk)
     \/ /\ Save(Reconciled(disk), "err")
        /\ UNCHANGED <<mode, registry>>

(* The daemon ends.                                                        *)
LossStep ==
  /\ mode # "down" /\ mode' = "down"
  /\ registry' = NewRegistry
  /\ outputs' = [k \in Keys |-> Nil]
  /\ UNCHANGED <<disk, nextInst>>

RegistryStep ==
  \/ QuietStep \/ DefineStep \/ BootStep \/ LossStep
  \/ \E k \in Keys : BeginStep(k) \/ \E rt \in Runtimes : AdvanceStep(k, rt)

(* The definition operations commit one of the four changes.               *)
LEMMA DefinitionKind ==
  ASSUME SupervisionInv, NEW t \in Threads, DefinitionStep(t)
  PROVE  QuietStep \/ DefineStep
  <1> DEFINE k == thread[t].key
  <1>1. mode # "down" /\ k \in Keys
    <2>1. thread[t].pc # "idle"
      BY DEF DefinitionStep, AddProject, RemoveProject, AddProcess, RemoveProcess, Enters, At
    <2> QED
      BY <2>1, BusyIsUp
  <1>2. ProjectOf[k] \in Projects
    BY <1>1, KeysAssumption
  <1>3. CASE Refuse(t)
    BY <1>3 DEF Refuse, QuietStep, managerVars
  <1>4. ASSUME NEW changed, NEW cleared, Redefined(changed, cleared),
               Commit(t, changed, cleared)
        PROVE  DefineStep
    BY <1>1, <1>4 DEF Commit, RolledBack, DefineStep
  <1>5. CASE AddProject(t)
    <2>1. Redefined([registry EXCEPT !.projects = @ \cup {ProjectOf[k]}], {})
      BY <1>2 DEF Redefined
    <2> QED
      BY <1>3, <1>4, <1>5, <2>1 DEF AddProject
  <1>6. CASE RemoveProject(t)
    <2>1. ProjectRemovable(ProjectOf[k]) =>
            Redefined([registry EXCEPT !.projects = @ \ {ProjectOf[k]}], {})
      BY <1>2 DEF Redefined, ProjectRemovable
    <2> QED
      BY <1>3, <1>4, <1>6, <2>1 DEF RemoveProject
  <1>7. CASE AddProcess(t)
    <2>1. ProjectOf[k] \in registry.projects /\ ~Registered(k) =>
            Redefined([registry EXCEPT !.processes = @ \cup {k}], {})
      BY <1>1 DEF Redefined
    <2> QED
      BY <1>3, <1>4, <1>7, <2>1 DEF AddProcess
  <1>8. CASE RemoveProcess(t)
    <2>1. ProcessRemovable(k) =>
            Redefined([registry EXCEPT !.processes = @ \ {k},
                                       !.runtime[k] = NilRuntime], {k})
      BY <1>1 DEF Redefined
    <2> QED
      BY <1>3, <1>4, <1>8, <2>1 DEF RemoveProcess
  <1> QED
    BY <1>5, <1>6, <1>7, <1>8 DEF DefinitionStep

(* Start begins an attempt.                                                *)
LEMMA StartBeginKind ==
  ASSUME SupervisionInv, NEW t \in Threads, StartBegin(t)
  PROVE  QuietStep \/ \E k \in Keys : BeginStep(k)
  <1> DEFINE k == thread[t].key
  <1>1. mode # "down" /\ k \in Keys
    BY BusyIsUp DEF StartBegin, Enters, At
  <1>2. nextInst \in Nat /\ nextInst >= 1 /\ MaxInstances \in Nat
    BY BoundAssumption DEF SupervisionInv, TypeOK
  <1>3. CASE Refuse(t)
    BY <1>3 DEF Refuse, QuietStep, managerVars
  <1>4. CASE ~Refuse(t)
    <2>1. /\ Registered(k) /\ ~IsActive(registry.runtime[k].state)
          /\ ~(nextInst > MaxInstances)
          /\ nextInst' = nextInst + 1
          /\ UNCHANGED <<mode, outputs>>
      BY <1>4 DEF StartBegin
    <2>2. nextInst \in Instances
      BY <1>2, <2>1 DEF Instances
    <2>3. \/ /\ Save(WithRuntime(k, NewProcessRuntime(nextInst)), "ok")
             /\ registry' = WithRuntime(k, NewProcessRuntime(nextInst))
          \/ /\ Save(WithRuntime(k, NewProcessRuntime(nextInst)), "err")
             /\ registry' = registry
      BY <1>4 DEF StartBegin
    <2>4. BeginStep(k)
      BY <1>1, <2>1, <2>2, <2>3 DEF BeginStep, Results
    <2> QED
      BY <1>1, <2>4
  <1> QED
    BY <1>3, <1>4

(* Stop moves a running attempt to stopping.                               *)
LEMMA StopBeginKind ==
  ASSUME SupervisionInv, NEW t \in Threads, StopBegin(t)
  PROVE  QuietStep \/ \E k \in Keys, rt \in Runtimes : AdvanceStep(k, rt)
  <1> DEFINE k == thread[t].key
             rt == registry.runtime[k]
             new == Transition(rt, "stopping")
  <1>1. mode # "down" /\ k \in Keys
    BY BusyIsUp DEF StopBegin, Enters, At
  <1>2. CASE UNCHANGED <<mode, managerVars>>
    BY <1>2 DEF QuietStep, managerVars
  <1>3. CASE ~UNCHANGED <<mode, managerVars>>
    <2>1. /\ Registered(k) /\ IsActive(rt.state) /\ active[k] = rt.inst
          /\ rt.state # "stopping"
          /\ UNCHANGED <<mode, outputs, nextInst>>
          /\ \/ Save(WithRuntime(k, new), "ok") /\ registry' = WithRuntime(k, new)
             \/ Save(WithRuntime(k, new), "err") /\ registry' = registry
      BY <1>3 DEF StopBegin, Refuse, managerVars
    <2>2. rt \in Runtimes /\ rt.inst # Nil
      BY <1>1, <2>1 DEF SupervisionInv, TypeOK, Registries, ActiveInv
    <2>3. rt.state = "running"
      BY <1>1, <2>1, <2>2 DEF SupervisionInv, OwnerInv, Ownership
    <2>4. /\ new \in Runtimes /\ new.inst = rt.inst
          /\ new.state = "stopping" /\ new.reason = rt.reason /\ new.exit = rt.exit
          /\ CanTransition(rt.state, new.state)
      BY <2>2, <2>3 DEF Transition, CanTransition, Runtimes, States, ActiveStates
    <2> HIDE DEF new
    <2>5. AdvanceStep(k, new)
      BY <1>1, <2>1, <2>4 DEF AdvanceStep, Results, IsActive, ActiveStates
    <2> QED
      BY <1>1, <2>4, <2>5
  <1> QED
    BY <1>2, <1>3

(* The later steps of Start move its attempt on.                           *)
LEMMA StartStepKind ==
  ASSUME SupervisionInv, NEW t \in Threads, Spawn(t) \/ PersistRunning(t) \/ AbortWait(t)
  PROVE  QuietStep \/ \E k \in Keys, rt \in Runtimes : AdvanceStep(k, rt)
  <1> DEFINE k == thread[t].key
             rt == registry.runtime[k]
  <1>1. thread[t].pc \in StartSteps
    BY DEF Spawn, PersistRunning, AbortWait, At, StartSteps
  <1>2. mu = t /\ mu # NoThread /\ k \in Keys /\ rt \in Runtimes /\ mode # "down"
    BY <1>1, InStart, BusyIsUp DEF StartSteps
  <1>3. /\ Registered(k)
        /\ rt.state = IF thread[t].pc = "abort" THEN "running" ELSE "starting"
    BY <1>2 DEF SupervisionInv, StartInv
  <1>4. IsActive(rt.state)
    BY <1>3 DEF IsActive, ActiveStates
  <1>5. CASE UNCHANGED <<mode, managerVars>>
    BY <1>5 DEF QuietStep, managerVars
  <1>6. CASE ~UNCHANGED <<mode, managerVars>>
    <2>1. PICK new :
            /\ registry' = WithRuntime(k, new)
            /\ \E result \in Results : Save(WithRuntime(k, new), result)
            /\ \/ At(t, "spawn") /\ new = Fail(rt, "start-failed")
               \/ At(t, "persist") /\ new = Transition(rt, "running")
               \/ At(t, "abort") /\ new = Fail(rt, "observation-failed")
            /\ UNCHANGED <<mode, nextInst>>
            /\ outputs' = outputs \/ \E i : outputs' = [outputs EXCEPT ![k] = i]
      <3>1. CASE Spawn(t)
        BY <1>6, <3>1 DEF Spawn
      <3>2. CASE PersistRunning(t)
        BY <1>6, <3>2 DEF PersistRunning, Results
      <3>3. CASE AbortWait(t)
        BY <1>6, <3>3 DEF AbortWait
      <3> QED
        BY <3>1, <3>2, <3>3
    <2>2. /\ new \in Runtimes /\ new.inst = rt.inst
          /\ CanTransition(rt.state, new.state)
          /\ IsActive(new.state) => new.reason = rt.reason /\ new.exit = rt.exit
      <3>1. CASE At(t, "persist") /\ new = Transition(rt, "running")
        BY <3>1, <1>2, <1>3 DEF At, Transition, CanTransition, Runtimes, States, ActiveStates
      <3>2. CASE ~At(t, "persist")
        <4>1. PICK reason \in Reasons : new = Fail(rt, reason)
          BY <3>2, <2>1 DEF Reasons
        <4> QED
          BY <4>1, <1>2, <1>4, FailType, FailLegal
      <3> QED
        BY <2>1, <3>1, <3>2 DEF At
    <2>3. \A j \in Keys \ {k} : outputs'[j] = outputs[j]
      BY <2>1 DEF SupervisionInv, TypeOK
    <2>4. AdvanceStep(k, new)
      BY <1>2, <1>3, <1>4, <2>1, <2>2, <2>3 DEF AdvanceStep
    <2> QED
      BY <1>2, <2>2, <2>4
  <1> QED
    BY <1>5, <1>6

(* An observer records the end of the attempt it watched: the definition   *)
(* is still registered under that attempt, and Finish is a legal move.     *)
LEMMA RecordExitKind ==
  ASSUME SupervisionInv, NEW i \in Instances, RecordExit(i)
  PROVE  \E k \in Keys, rt \in Runtimes : AdvanceStep(k, rt)
  <1> DEFINE k == tree[i].key
             rt == registry.runtime[k]
  <1>1. k \in Keys /\ active[k] = i /\ i # Nil
    BY BoundAssumption DEF SupervisionInv, OwnerInv, RecordExit, Instances, Nil
  <1>2. /\ rt \in Runtimes /\ rt.state \in {"running", "stopping"}
        /\ Registered(k) /\ rt.inst = i /\ mode # "down"
    BY <1>1 DEF SupervisionInv, TypeOK, OwnerInv, Ownership, Registries, DownInv
  <1>3. PICK waitErr \in WaitErrors, result \in Results :
          /\ registry' = WithRuntime(k, Finish(rt, tree[i].code, waitErr))
          /\ IF CanTransition(rt.state, Outcome(rt, tree[i].code, waitErr).state)
             THEN Save(WithRuntime(k, Finish(rt, tree[i].code, waitErr)), result)
             ELSE result = "err" /\ UNCHANGED disk
          /\ UNCHANGED <<mode, outputs, nextInst>>
    BY <1>2 DEF RecordExit
  <1>4. tree[i].code \in ExitCodes /\ waitErr \in BOOLEAN
    BY <1>3 DEF SupervisionInv, TypeOK, Trees, ExitCodes, WaitErrors
  <1> DEFINE new == Finish(rt, tree[i].code, waitErr)
  <1>5. /\ new \in Runtimes /\ new.inst = rt.inst /\ ~IsActive(new.state)
        /\ CanTransition(rt.state, new.state)
    BY <1>2, <1>4, FinishType
  <1>6. CanTransition(rt.state, Outcome(rt, tree[i].code, waitErr).state)
    BY <1>2, <1>4, Zenon DEF Outcome, CanTransition
  <1>7. Save(WithRuntime(k, new), result)
    BY <1>3, <1>6
  <1>8. IsActive(rt.state)
    BY <1>2 DEF IsActive, ActiveStates
  <1>9. registry' = WithRuntime(k, new) /\ UNCHANGED <<mode, outputs, nextInst>>
    BY <1>3
  <1> HIDE DEF new
  <1>10. AdvanceStep(k, new)
    BY <1>2, <1>5, <1>7, <1>8, <1>9 DEF AdvanceStep
  <1> QED
    BY <1>1, <1>5, <1>10

(* Boot reconciles what the file holds.                                    *)
LEMMA BootKind ==
  ASSUME Boot
  PROVE  BootStep
  <1>1. PICK result \in Results :
          /\ IF Reconciled(disk) = disk
             THEN result = "ok" /\ UNCHANGED disk
             ELSE Save(Reconciled(disk), result)
          /\ IF result = "ok"
             THEN mode' = "serving" /\ registry' = Reconciled(disk)
             ELSE UNCHANGED <<mode, registry>>
    BY DEF Boot
  <1>2. Save(Reconciled(disk), result)
    BY <1>1 DEF Save
  <1>3. mode = "down" /\ UNCHANGED <<outputs, nextInst>>
    BY DEF Boot
  <1> QED
    BY <1>1, <1>2, <1>3 DEF BootStep, Results

(* Every step is of one of the six kinds.                                  *)
LEMMA StepKinds ==
  ASSUME SupervisionInv, [Next]_vars
  PROVE  RegistryStep
  <1>1. CASE \E c \in Clients, op \in Requests, k \in Keys : Call(c, op, k)
    BY <1>1 DEF Call, RegistryStep, QuietStep, managerVars
  <1>2. ASSUME NEW t \in Threads, LockStep(t)
        PROVE  RegistryStep
    <2>1. CASE StatusWithError(t)
      BY <2>1 DEF StatusWithError, RegistryStep, QuietStep, managerVars
    <2> QED
      BY <1>2, <2>1, DefinitionKind, StartBeginKind, StopBeginKind DEF LockStep, RegistryStep
  <1>3. ASSUME NEW t \in Threads, FreeStep(t)
        PROVE  RegistryStep
    <2>1. CASE Signal(t) \/ WaitDone(t) \/ WaitCancelled(t)
      BY <2>1 DEF Signal, WaitDone, WaitCancelled, RegistryStep, QuietStep, managerVars
    <2> QED
      BY <1>3, <2>1, StartStepKind DEF FreeStep, RegistryStep
  <1>4. ASSUME NEW i \in Instances,
               ObserveEnd(i) \/ RecordExit(i) \/ LeaderExit(i) \/ ChildExit(i)
        PROVE  RegistryStep
    <2>1. CASE ObserveEnd(i) \/ LeaderExit(i) \/ ChildExit(i)
      BY <2>1 DEF ObserveEnd, LeaderExit, ChildExit, RegistryStep, QuietStep, managerVars
    <2> QED
      BY <1>4, <2>1, RecordExitKind DEF RegistryStep
  <1>5. CASE Boot
    BY <1>5, BootKind DEF RegistryStep
  <1>6. CASE Terminate \/ AcceptFails \/ ServeReturns \/ ShutdownExpires
    BY <1>6 DEF Terminate, AcceptFails, ServeReturns, ShutdownExpires, RegistryStep, QuietStep,
       managerVars
  <1>7. ASSUME NEW k \in Keys, ShutdownNext(k)
        PROVE  RegistryStep
    BY <1>7 DEF ShutdownNext, RegistryStep, QuietStep, managerVars
  <1>8. CASE Exit \/ Crash
    BY <1>8 DEF Exit, Crash, Gone, RegistryStep, LossStep
  <1>9. CASE UNCHANGED vars
    BY <1>9 DEF vars, RegistryStep, QuietStep
  <1> QED
    BY <1>1, <1>2, <1>3, <1>4, <1>5, <1>6, <1>7, <1>8, <1>9 DEF Next

(***************************************************************************)
(* The parts of the registry a step of each kind leaves.                   *)
(***************************************************************************)

(* A Save leaves the file, or replaces it by the document.                 *)
LEMMA SaveCases ==
  ASSUME NEW document, NEW result \in Results, Save(document, result)
  PROVE  /\ disk' = disk \/ disk' = document
         /\ result = "ok" => disk' = document
         /\ result = "err" /\ "flush" \notin Faults => disk' = disk
  BY DEF Save, Results

(* A change of the definitions keeps the hierarchy, and takes no runtime   *)
(* but an ended one away.                                                  *)
LEMMA RedefinedKeeps ==
  ASSUME registry \in Registries, Hierarchy(registry),
         NEW changed, NEW cleared, Redefined(changed, cleared)
  PROVE  /\ Hierarchy(changed)
         /\ cleared \subseteq Keys
         /\ \A k \in Keys :
              /\ k \notin cleared => /\ changed.runtime[k] = registry.runtime[k]
                                     /\ Registered(k) => k \in changed.processes
              /\ k \in cleared => changed.runtime[k] = NilRuntime
  <1>1. CASE \E p \in Projects : /\ cleared = {}
                                 /\ changed = [registry EXCEPT !.projects = @ \cup {p}]
    BY <1>1 DEF Registries, Hierarchy, Registered
  <1>2. CASE \E p \in Projects : /\ cleared = {}
                                 /\ \A k \in registry.processes : ProjectOf[k] # p
                                 /\ changed = [registry EXCEPT !.projects = @ \ {p}]
    BY <1>2 DEF Registries, Hierarchy, Registered
  <1>3. CASE \E k \in Keys : /\ cleared = {}
                             /\ ProjectOf[k] \in registry.projects /\ ~Registered(k)
                             /\ changed = [registry EXCEPT !.processes = @ \cup {k}]
    BY <1>3 DEF Registries, Hierarchy, Registered
  <1>4. CASE \E k \in Keys : /\ cleared = {k} /\ ProcessRemovable(k)
                             /\ changed = [registry EXCEPT !.processes = @ \ {k},
                                                           !.runtime[k] = NilRuntime]
    <2>1. PICK k \in Keys : /\ cleared = {k}
                            /\ changed = [registry EXCEPT !.processes = @ \ {k},
                                                          !.runtime[k] = NilRuntime]
      BY <1>4
    <2>2. /\ changed.projects = registry.projects
          /\ changed.processes = registry.processes \ {k}
          /\ changed.runtime = [registry.runtime EXCEPT ![k] = NilRuntime]
      BY <2>1 DEF Registries
    <2>3. \A j \in Keys : changed.runtime[j] = IF j = k THEN NilRuntime ELSE registry.runtime[j]
      BY <2>2 DEF Registries
    <2> QED
      BY <2>1, <2>2, <2>3 DEF Hierarchy, Registered
  <1> QED
    BY <1>1, <1>2, <1>3, <1>4 DEF Redefined

(* Replacing the runtime of a registered definition.                       *)
LEMMA WithRuntimeKeeps ==
  ASSUME registry \in Registries, Hierarchy(registry), NEW k \in Keys, Registered(k),
         NEW rt
  PROVE  /\ Hierarchy(WithRuntime(k, rt))
         /\ WithRuntime(k, rt).projects = registry.projects
         /\ WithRuntime(k, rt).processes = registry.processes
         /\ \A j \in Keys : WithRuntime(k, rt).runtime[j]
                              = IF j = k THEN rt ELSE registry.runtime[j]
  <1>1. /\ WithRuntime(k, rt).projects = registry.projects
        /\ WithRuntime(k, rt).processes = registry.processes
        /\ WithRuntime(k, rt).runtime = [registry.runtime EXCEPT ![k] = rt]
    BY DEF WithRuntime, Registries
  <1>2. \A j \in Keys : WithRuntime(k, rt).runtime[j] = IF j = k THEN rt ELSE registry.runtime[j]
    BY <1>1 DEF Registries
  <1> QED
    BY <1>1, <1>2 DEF Hierarchy, Registered

(* Reconciling the file keeps its definitions and every runtime that ended.*)
LEMMA ReconciledKeeps ==
  ASSUME disk \in Registries, Hierarchy(disk)
  PROVE  /\ Hierarchy(Reconciled(disk))
         /\ Reconciled(disk).projects = disk.projects
         /\ Reconciled(disk).processes = disk.processes
         /\ \A k \in Keys : /\ Reconciled(disk).runtime[k] = Reconcile(disk.runtime[k])
                            /\ ~IsActive(Reconciled(disk).runtime[k].state)
                            /\ ~IsActive(disk.runtime[k].state) =>
                                 Reconciled(disk).runtime[k] = disk.runtime[k]
  <1>1. /\ Reconciled(disk).projects = disk.projects
        /\ Reconciled(disk).processes = disk.processes
        /\ Reconciled(disk).runtime = [k \in Keys |-> Reconcile(disk.runtime[k])]
    BY DEF Reconciled, Registries
  <1>2. ASSUME NEW k \in Keys
        PROVE  /\ Reconciled(disk).runtime[k] = Reconcile(disk.runtime[k])
               /\ ~IsActive(Reconciled(disk).runtime[k].state)
               /\ ~IsActive(disk.runtime[k].state) =>
                    Reconciled(disk).runtime[k] = disk.runtime[k]
    <2>1. disk.runtime[k] \in Runtimes
      BY DEF Registries
    <2> QED
      BY <1>1, <2>1, ReconcileType DEF Reconcile
  <1>3. Hierarchy(Reconciled(disk))
    <2> SUFFICES ASSUME NEW k \in Keys
                 PROVE  /\ k \in disk.processes => ProjectOf[k] \in disk.projects
                        /\ k \notin disk.processes => Reconciled(disk).runtime[k] = NilRuntime
      BY <1>1 DEF Hierarchy
    <2>1. k \notin disk.processes => disk.runtime[k] = NilRuntime
      BY DEF Hierarchy
    <2> QED
      BY <1>2, <2>1, NilRuntimeType DEF Hierarchy
  <1> QED
    BY <1>1, <1>2, <1>3

(***************************************************************************)
(* RegistryInv is inductive.                                               *)
(***************************************************************************)

(* The definitions a file starts with have no runtimes.                    *)
LEMMA RegistryInit == Init => RegistryInv
  <1> SUFFICES ASSUME Init PROVE RegistryInv
    OBVIOUS
  <1>1. PICK processes \in SUBSET Keys :
          disk = [NewRegistry EXCEPT !.projects = {ProjectOf[k] : k \in processes},
                                     !.processes = processes]
    BY DEF Init
  <1>2. /\ registry = NewRegistry
        /\ disk.processes = processes
        /\ disk.projects = {ProjectOf[k] : k \in processes}
        /\ disk.runtime = [k \in Keys |-> NilRuntime]
        /\ registry.runtime = [k \in Keys |-> NilRuntime]
        /\ registry.processes = {}
    BY <1>1 DEF Init, NewRegistry
  <1>3. Hierarchy(registry) /\ Hierarchy(disk)
    BY <1>2 DEF Hierarchy
  <1>4. Clean(registry) /\ Clean(disk)
    BY <1>2, NilRuntimeType DEF Clean
  <1> QED
    BY <1>3, <1>4 DEF Init, RegistryInv, NothingDangles, OutcomeInv

(* Definitions change.                                                     *)
LEMMA DefineKeeps ==
  ASSUME SupervisionInv, RegistryInv, DefineStep
  PROVE  /\ Hierarchy(registry)' /\ Hierarchy(disk)'
         /\ \A k \in Keys : ~Registered(k)' => outputs'[k] = Nil
         /\ Clean(registry)' /\ Clean(disk)' /\ OutcomeInv'
  <1>1. registry \in Registries /\ Hierarchy(registry) /\ Hierarchy(disk)
    BY DEF SupervisionInv, TypeOK, RegistryInv, NothingDangles
  <1>2. PICK changed, cleared : \E result \in Results :
          /\ Redefined(changed, cleared)
          /\ Save(changed, result)
          /\ registry' = IF result = "ok" THEN changed ELSE registry
          /\ outputs' = [k \in Keys |-> IF result = "ok" /\ k \in cleared
                                        THEN Nil ELSE outputs[k]]
    BY DEF DefineStep
  <1>3. PICK result \in Results :
          /\ Redefined(changed, cleared)
          /\ Save(changed, result)
          /\ registry' = IF result = "ok" THEN changed ELSE registry
          /\ outputs' = [k \in Keys |-> IF result = "ok" /\ k \in cleared
                                        THEN Nil ELSE outputs[k]]
    BY <1>2
  <1>4. /\ Hierarchy(changed)
        /\ \A k \in Keys :
              /\ k \notin cleared => /\ changed.runtime[k] = registry.runtime[k]
                                     /\ Registered(k) => k \in changed.processes
              /\ k \in cleared => changed.runtime[k] = NilRuntime
    BY <1>1, <1>3, RedefinedKeeps
  <1>5. /\ disk' = disk \/ disk' = changed
        /\ registry' = registry \/ registry' = changed
        /\ registry' = changed => disk' = changed \/ changed = registry
    BY <1>3, SaveCases DEF Results
  <1>6. Hierarchy(registry)' /\ Hierarchy(disk)'
    BY <1>1, <1>4, <1>5 DEF Hierarchy
  <1>7. \A k \in Keys : ~Registered(k)' => outputs'[k] = Nil
    BY <1>3, <1>4 DEF RegistryInv, NothingDangles, Registered
  <1>8. Clean(changed)
    BY <1>4, NilRuntimeType DEF RegistryInv, Clean
  <1>9. Clean(registry)' /\ Clean(disk)'
    BY <1>5, <1>8 DEF RegistryInv, Clean
  <1>10. OutcomeInv'
    <2> SUFFICES ASSUME NEW k \in Keys, disk'.runtime[k].inst # Nil,
                        registry'.runtime[k].inst = disk'.runtime[k].inst,
                        ~IsActive(disk'.runtime[k].state)
                 PROVE  registry'.runtime[k] = disk'.runtime[k]
      BY DEF OutcomeInv
    <2>1. CASE disk' = disk /\ registry' = registry
      BY <2>1 DEF RegistryInv, OutcomeInv, DefineStep
    <2>2. CASE disk' = changed /\ registry' = registry
      <3>1. changed.runtime[k] \in {registry.runtime[k], NilRuntime}
        BY <1>4
      <3> QED
        BY <2>2, <3>1, NilRuntimeType
    <2>3. CASE disk' = changed /\ registry' = changed
      BY <2>3
    <2> QED
      BY <1>5, <2>1, <2>2, <2>3
  <1> QED
    BY <1>6, <1>7, <1>9, <1>10

(* An attempt is begun: what the file may hold of it is not an outcome.    *)
LEMMA BeginKeeps ==
  ASSUME SupervisionInv, RegistryInv, NEW k \in Keys, BeginStep(k)
  PROVE  /\ Hierarchy(registry)' /\ Hierarchy(disk)'
         /\ \A j \in Keys : ~Registered(j)' => outputs'[j] = Nil
         /\ Clean(registry)' /\ Clean(disk)' /\ OutcomeInv'
  <1> DEFINE new == NewProcessRuntime(nextInst)
             starting == WithRuntime(k, new)
  <1>1. registry \in Registries /\ Hierarchy(registry) /\ Hierarchy(disk) /\ Registered(k)
    BY DEF SupervisionInv, TypeOK, RegistryInv, NothingDangles, BeginStep
  <1>2. PICK result \in Results :
          Save(starting, result) /\ registry' = IF result = "ok" THEN starting ELSE registry
    BY DEF BeginStep
  <1>3. new.state = "starting" /\ new.reason = "" /\ new.exit = "none" /\ IsActive(new.state)
    BY DEF NewProcessRuntime, IsActive, ActiveStates
  <1> HIDE DEF new
  <1>4. /\ Hierarchy(starting) /\ starting.processes = registry.processes
        /\ \A j \in Keys : starting.runtime[j] = IF j = k THEN new ELSE registry.runtime[j]
    BY <1>1, WithRuntimeKeeps
  <1>5. /\ disk' = disk \/ disk' = starting
        /\ registry' = registry \/ registry' = starting
        /\ registry' # registry => disk' = starting /\ registry' = starting
    BY <1>2, SaveCases DEF Results
  <1> HIDE DEF starting
  <1>6. Hierarchy(registry)' /\ Hierarchy(disk)'
    BY <1>1, <1>4, <1>5 DEF Hierarchy
  <1>7. \A j \in Keys : ~Registered(j)' => outputs'[j] = Nil
    BY <1>4, <1>5 DEF RegistryInv, NothingDangles, Registered, BeginStep
  <1>8. Clean(starting)
    BY <1>3, <1>4 DEF RegistryInv, Clean
  <1>9. Clean(registry)' /\ Clean(disk)'
    BY <1>5, <1>8 DEF RegistryInv, Clean
  <1>10. OutcomeInv'
    <2> SUFFICES ASSUME NEW j \in Keys, disk'.runtime[j].inst # Nil,
                        registry'.runtime[j].inst = disk'.runtime[j].inst,
                        ~IsActive(disk'.runtime[j].state)
                 PROVE  registry'.runtime[j] = disk'.runtime[j]
      BY DEF OutcomeInv
    <2>1. CASE disk' = disk /\ registry' = registry
      BY <2>1 DEF RegistryInv, OutcomeInv, BeginStep
    <2>2. CASE disk' = starting /\ registry' = registry
      BY <2>2, <1>3, <1>4
    <2>3. CASE disk' = starting /\ registry' = starting
      BY <2>3
    <2> QED
      BY <1>5, <2>1, <2>2, <2>3
  <1> QED
    BY <1>6, <1>7, <1>9, <1>10

(* An attempt moves on.  While it is active in memory the file holds no    *)
(* outcome of it, and an outcome in the file is the one in memory.         *)
LEMMA AdvanceKeeps ==
  ASSUME SupervisionInv, RegistryInv, NEW k \in Keys, NEW rt \in Runtimes, AdvanceStep(k, rt)
  PROVE  /\ Hierarchy(registry)' /\ Hierarchy(disk)'
         /\ \A j \in Keys : ~Registered(j)' => outputs'[j] = Nil
         /\ Clean(registry)' /\ Clean(disk)' /\ OutcomeInv'
  <1> DEFINE next == WithRuntime(k, rt)
  <1>1. registry \in Registries /\ Hierarchy(registry) /\ Hierarchy(disk) /\ Registered(k)
    BY DEF SupervisionInv, TypeOK, RegistryInv, NothingDangles, AdvanceStep
  <1>2. PICK result \in Results : Save(next, result)
    BY DEF AdvanceStep
  <1>3. /\ IsActive(registry.runtime[k].state) /\ rt.inst = registry.runtime[k].inst
        /\ IsActive(rt.state) => /\ rt.reason = registry.runtime[k].reason
                                 /\ rt.exit = registry.runtime[k].exit
        /\ \A j \in Keys \ {k} : outputs'[j] = outputs[j]
        /\ \/ registry' = next
           \/ registry' = registry /\ IsActive(rt.state)
        /\ mode # "down"
    BY DEF AdvanceStep
  <1>4. /\ Hierarchy(next) /\ next.processes = registry.processes
        /\ \A j \in Keys : next.runtime[j] = IF j = k THEN rt ELSE registry.runtime[j]
    BY <1>1, WithRuntimeKeeps
  <1>5. disk' = disk \/ disk' = next
    BY <1>2, SaveCases
  <1> HIDE DEF next
  <1>6. Hierarchy(registry)' /\ Hierarchy(disk)'
    BY <1>1, <1>3, <1>4, <1>5 DEF Hierarchy
  <1>7. \A j \in Keys : ~Registered(j)' => outputs'[j] = Nil
    BY <1>1, <1>3, <1>4 DEF RegistryInv, NothingDangles, Registered
  <1>8. Clean(next)
    BY <1>3, <1>4 DEF RegistryInv, Clean
  <1>9. Clean(registry)' /\ Clean(disk)'
    BY <1>3, <1>5, <1>8 DEF RegistryInv, Clean
  <1>10. OutcomeInv'
    <2> SUFFICES ASSUME NEW j \in Keys, disk'.runtime[j].inst # Nil,
                        registry'.runtime[j].inst = disk'.runtime[j].inst,
                        ~IsActive(disk'.runtime[j].state)
                 PROVE  registry'.runtime[j] = disk'.runtime[j]
      BY DEF OutcomeInv
    <2>1. CASE disk' = disk /\ registry' = registry
      BY <2>1, <1>3 DEF RegistryInv, OutcomeInv
    <2>2. CASE disk' = next /\ registry' = registry /\ IsActive(rt.state)
      BY <2>2, <1>4
    <2>3. CASE disk' = next /\ registry' = next
      BY <2>3
    <2>4. CASE disk' = disk /\ registry' = next
      <3>1. CASE j = k
        <4>1. registry.runtime[k] = disk.runtime[k]
          BY <2>4, <3>1, <1>3, <1>4 DEF RegistryInv, OutcomeInv
        <4> QED
          BY <4>1, <2>4, <3>1, <1>3
      <3>2. CASE j # k
        BY <2>4, <3>2, <1>3, <1>4 DEF RegistryInv, OutcomeInv
      <3> QED
        BY <3>1, <3>2
    <2> QED
      BY <1>3, <1>5, <2>1, <2>2, <2>3, <2>4
  <1> QED
    BY <1>6, <1>7, <1>9, <1>10

(* The daemon boots with what the file says, all of it ended.              *)
LEMMA BootKeeps ==
  ASSUME SupervisionInv, RegistryInv, BootStep
  PROVE  /\ Hierarchy(registry)' /\ Hierarchy(disk)'
         /\ \A j \in Keys : outputs'[j] = Nil
         /\ Clean(registry)' /\ Clean(disk)' /\ OutcomeInv'
  <1> DEFINE new == Reconciled(disk)
  <1>1. disk \in Registries /\ Hierarchy(registry) /\ Hierarchy(disk)
    BY DEF SupervisionInv, TypeOK, RegistryInv, NothingDangles
  <1>2. Hierarchy(new) /\ \A k \in Keys : ~IsActive(new.runtime[k].state)
    BY <1>1, ReconciledKeeps
  <1>3. /\ disk' = disk \/ disk' = new
        /\ \/ registry' = new /\ disk' = new
           \/ registry' = registry /\ mode' = "down"
        /\ mode = "down" /\ outputs' = outputs
    BY SaveCases DEF BootStep, Results
  <1> HIDE DEF new
  <1>4. Hierarchy(registry)' /\ Hierarchy(disk)'
    BY <1>1, <1>2, <1>3 DEF Hierarchy
  <1>5. Clean(registry)' /\ Clean(disk)'
    BY <1>2, <1>3 DEF RegistryInv, Clean
  <1>6. OutcomeInv'
    BY <1>3 DEF OutcomeInv
  <1> QED
    BY <1>3, <1>4, <1>5, <1>6 DEF RegistryInv

(* Every step keeps RegistryInv.                                           *)
LEMMA RegistryNext ==
  ASSUME SupervisionInv, RegistryInv, [Next]_vars
  PROVE  RegistryInv'
  <1>1. SupervisionInv' /\ RegistryStep
    BY NextInv, StepKinds
  <1>2. \A k \in Keys : ~Registered(k)' => active'[k] = Nil
    BY <1>1 DEF SupervisionInv, OwnerInv, Ownership
  <1> DEFINE Parts ==
        /\ Hierarchy(registry)' /\ Hierarchy(disk)'
        /\ \A k \in Keys : ~Registered(k)' => outputs'[k] = Nil
        /\ mode' = "down" => \A k \in Keys : outputs'[k] = Nil
        /\ Clean(registry)' /\ Clean(disk)' /\ OutcomeInv'
  <1>3. SUFFICES Parts
    BY <1>2 DEF RegistryInv, NothingDangles, Registered
  <1>4. CASE QuietStep
    BY <1>4 DEF QuietStep, RegistryInv, NothingDangles, Hierarchy, Registered, Clean, OutcomeInv
  <1>5. CASE DefineStep
    BY <1>5, DefineKeeps DEF DefineStep
  <1>6. ASSUME NEW k \in Keys, BeginStep(k)
        PROVE  Parts
    BY <1>6, BeginKeeps DEF BeginStep
  <1>7. ASSUME NEW k \in Keys, NEW rt \in Runtimes, AdvanceStep(k, rt)
        PROVE  Parts
    BY <1>7, AdvanceKeeps DEF AdvanceStep
  <1>8. CASE BootStep
    BY <1>8, BootKeeps
  <1>9. CASE LossStep
    <2>1. NewRegistry.processes = {} /\ NewRegistry.runtime = [k \in Keys |-> NilRuntime]
      BY DEF NewRegistry
    <2>2. Hierarchy(NewRegistry) /\ Clean(NewRegistry)
      BY <2>1, NilRuntimeType DEF Hierarchy, Clean
    <2> QED
      BY <1>9, <2>2 DEF LossStep, RegistryInv, NothingDangles, Hierarchy, Clean, OutcomeInv
  <1> HIDE DEF Parts
  <1> QED
    BY <1>1, <1>4, <1>5, <1>6, <1>7, <1>8, <1>9 DEF RegistryStep

(* The registry in memory and on disk is in order at every step, under     *)
(* every fault.                                                            *)
THEOREM RegistryCorrect == Spec => []RegistryInv
  <1>1. Init => RegistryInv
    BY RegistryInit
  <1>2. SupervisionInv /\ RegistryInv /\ [Next]_vars => RegistryInv'
    BY RegistryNext
  <1> QED
    BY <1>1, <1>2, SupervisionCorrect, PTL DEF Spec

(* No definition is without its project and no runtime, owner or output    *)
(* without its definition, whatever is removed and whatever Save fails.    *)
THEOREM NothingEverDangles == Spec => []NothingDangles
  <1>1. RegistryInv => NothingDangles
    BY DEF RegistryInv
  <1> QED
    BY <1>1, RegistryCorrect, PTL

(***************************************************************************)
(* What the file may do.                                                   *)
(***************************************************************************)

(* An outcome the file holds is never taken back: not by a later save, not *)
(* by one that fails half-way, not by the reconciliation of a restart.     *)
(* Every document that is saved takes the outcome over from memory, which  *)
(* agrees with the file on it.                                             *)
THEOREM OutcomesFinal == Spec => DiskOutcomesFinal
  <1> DEFINE Final(k) ==
        LET old == disk.runtime[k]
            new == disk'.runtime[k] IN
        old.inst # Nil /\ new.inst = old.inst /\ ~IsActive(old.state) => new = old
  <1>1. ASSUME SupervisionInv, RegistryInv, [Next]_vars, NEW j \in Keys
        PROVE  Final(j)
    <2> SUFFICES ASSUME disk.runtime[j].inst # Nil,
                        disk'.runtime[j].inst = disk.runtime[j].inst,
                        ~IsActive(disk.runtime[j].state), disk' # disk
                 PROVE  disk'.runtime[j] = disk.runtime[j]
      OBVIOUS
    <2>1. /\ RegistryStep /\ registry \in Registries /\ disk \in Registries
          /\ Hierarchy(registry) /\ Hierarchy(disk)
      BY <1>1, StepKinds DEF SupervisionInv, TypeOK, RegistryInv, NothingDangles
    <2>2. mode # "down" /\ registry.runtime[j].inst = disk.runtime[j].inst =>
            registry.runtime[j] = disk.runtime[j]
      BY <1>1 DEF RegistryInv, OutcomeInv
    <2>3. CASE DefineStep
      <3>1. PICK changed, cleared : Redefined(changed, cleared) /\ disk' = changed
        BY <2>3, SaveCases DEF DefineStep
      <3>2. disk'.runtime[j] \in {registry.runtime[j], NilRuntime}
        BY <2>1, <3>1, RedefinedKeeps
      <3> QED
        BY <2>2, <2>3, <3>2, NilRuntimeType DEF DefineStep
    <2>4. ASSUME NEW k \in Keys, BeginStep(k)
          PROVE  disk'.runtime[j] = disk.runtime[j]
      <3>1. disk' = WithRuntime(k, NewProcessRuntime(nextInst)) /\ Registered(k)
        BY <2>4, SaveCases DEF BeginStep
      <3>2. disk'.runtime[j] = IF j = k THEN NewProcessRuntime(nextInst) ELSE registry.runtime[j]
        BY <2>1, <3>1, WithRuntimeKeeps
      <3>3. NewProcessRuntime(nextInst).inst = nextInst
        BY DEF NewProcessRuntime
      <3>4. disk.runtime[j].inst # nextInst
        BY <1>1, BoundAssumption DEF SupervisionInv, TypeOK, FreshInv, Registries, Runtimes
      <3> QED
        BY <2>2, <2>4, <3>2, <3>3, <3>4 DEF BeginStep
    <2>5. ASSUME NEW k \in Keys, NEW rt \in Runtimes, AdvanceStep(k, rt)
          PROVE  disk'.runtime[j] = disk.runtime[j]
      <3>1. disk' = WithRuntime(k, rt) /\ Registered(k)
        BY <2>5, SaveCases DEF AdvanceStep
      <3>2. disk'.runtime[j] = IF j = k THEN rt ELSE registry.runtime[j]
        BY <2>1, <3>1, WithRuntimeKeeps
      <3>3. j # k
        BY <2>2, <2>5, <3>2 DEF AdvanceStep
      <3> QED
        BY <2>2, <2>5, <3>2, <3>3 DEF AdvanceStep
    <2>6. CASE BootStep
      <3>1. disk' = Reconciled(disk)
        BY <2>6, SaveCases DEF BootStep, Results
      <3> QED
        BY <2>1, <3>1, ReconciledKeeps
    <2> QED
      BY <2>1, <2>3, <2>4, <2>5, <2>6 DEF RegistryStep, QuietStep, LossStep
  <1>2. SupervisionInv /\ RegistryInv /\ [Next]_vars => [\A k \in Keys : Final(k)]_vars
    BY <1>1
  <1>3. Spec => [][\A k \in Keys : Final(k)]_vars
    BY <1>2, SupervisionCorrect, RegistryCorrect, PTL DEF Spec
  <1> QED
    BY <1>3, PTL DEF DiskOutcomesFinal

(* As long as a failed Save keeps the old file, the file lags behind       *)
(* memory by at most the later states of an attempt.                       *)
THEOREM FileIsPast ==
  ASSUME "flush" \notin Faults
  PROVE  Spec => []DiskIsPast
  <1> DEFINE Lags(j) == \/ disk.runtime[j] = registry.runtime[j]
                        \/ Earlier(disk.runtime[j], registry.runtime[j])
  <1>1. Init => DiskIsPast
    BY DEF Init, DiskIsPast
  <1>2. ASSUME SupervisionInv, RegistryInv, DiskIsPast, [Next]_vars
        PROVE  DiskIsPast'
    <2>1. /\ RegistryStep /\ registry \in Registries /\ disk \in Registries
          /\ Hierarchy(registry) /\ Hierarchy(disk)
      BY <1>2, StepKinds DEF SupervisionInv, TypeOK, RegistryInv, NothingDangles
    <2>2. CASE QuietStep
      BY <1>2, <2>2 DEF QuietStep, DiskIsPast
    <2>3. CASE DefineStep
      <3>1. \/ disk' = registry'
            \/ disk' = disk /\ registry' = registry
        BY <2>3, SaveCases DEF DefineStep, Results
      <3> QED
        BY <1>2, <2>3, <3>1 DEF DefineStep, DiskIsPast
    <2>4. ASSUME NEW k \in Keys, BeginStep(k)
          PROVE  DiskIsPast'
      <3>1. \/ disk' = registry'
            \/ disk' = disk /\ registry' = registry
        BY <2>4, SaveCases DEF BeginStep, Results
      <3> QED
        BY <1>2, <2>4, <3>1 DEF BeginStep, DiskIsPast
    <2>5. ASSUME NEW k \in Keys, NEW rt \in Runtimes, AdvanceStep(k, rt)
          PROVE  DiskIsPast'
      <3>1. /\ mode # "down" /\ Registered(k)
            /\ registry' = WithRuntime(k, rt) \/ registry' = registry
            /\ disk' = WithRuntime(k, rt) \/ disk' = disk
            /\ rt.inst = registry.runtime[k].inst
            /\ CanTransition(registry.runtime[k].state, rt.state)
            /\ IsActive(registry.runtime[k].state)
        BY <2>5, SaveCases DEF AdvanceStep
      <3>2. /\ WithRuntime(k, rt).projects = registry.projects
            /\ WithRuntime(k, rt).processes = registry.processes
            /\ \A j \in Keys : WithRuntime(k, rt).runtime[j]
                                 = IF j = k THEN rt ELSE registry.runtime[j]
        BY <2>1, <3>1, WithRuntimeKeeps
      <3>3. /\ disk.projects = registry.projects
            /\ disk.processes = registry.processes
            /\ \A j \in Keys : Lags(j)
        BY <1>2, <3>1 DEF DiskIsPast
      <3>4. CASE disk' = registry' \/ (disk' = disk /\ registry' = registry)
        BY <3>3, <3>4 DEF DiskIsPast
      <3>5. CASE disk' = disk /\ registry' = WithRuntime(k, rt)
        <4>1. rt.state # "starting"
          BY <3>1 DEF CanTransition
        <4>2. Earlier(disk.runtime[k], rt)
          BY <3>1, <3>3, <4>1 DEF Earlier
        <4> QED
          BY <3>2, <3>3, <3>5, <4>2 DEF DiskIsPast
      <3>6. CASE disk' = WithRuntime(k, rt) /\ registry' = registry
        <4>1. disk' = disk \/ registry' = WithRuntime(k, rt)
          BY <2>5, SaveCases DEF AdvanceStep, Results
        <4> QED
          BY <3>4, <3>6, <4>1
      <3> QED
        BY <3>1, <3>4, <3>5, <3>6
    <2>6. CASE BootStep
      BY <2>6, SaveCases DEF BootStep, DiskIsPast, Results
    <2>7. CASE LossStep
      BY <2>7 DEF LossStep, DiskIsPast
    <2> QED
      BY <2>1, <2>2, <2>3, <2>4, <2>5, <2>6, <2>7 DEF RegistryStep
  <1>3. SupervisionInv /\ RegistryInv /\ DiskIsPast /\ [Next]_vars => DiskIsPast'
    BY <1>2
  <1> QED
    BY <1>1, <1>3, SupervisionCorrect, RegistryCorrect, PTL DEF Spec

(***************************************************************************)
(* Lifecycle implements RunLedger.                                         *)
(***************************************************************************)

(* What a lost daemon leaves of a run is the run as it was saved, or the   *)
(* failure reconciliation makes of an attempt the file still has active.   *)
LEMMA LostRun ==
  ASSUME SupervisionInv, RegistryInv, DiskIsPast, mode # "down", NEW k \in Keys
  PROVE  LET run == registry.runtime[k]
             left == Reconcile(disk.runtime[k]) IN
         /\ left = run \/ left = Ledger!Lost(run)
         /\ IsActive(run.state) => left = Ledger!Lost(run)
         /\ run.inst = Nil => left = run
  <1> DEFINE run == registry.runtime[k]
             file == disk.runtime[k]
  <1>1. run \in Runtimes /\ file \in Runtimes
    BY DEF SupervisionInv, TypeOK, Registries
  <1>2. file = run \/ Earlier(file, run)
    BY DEF DiskIsPast
  <1>3. IsActive(file.state) => file.exit = "none" /\ file.inst # Nil
    BY DEF RegistryInv, Clean, SupervisionInv, ActiveInv
  <1>4. file.inst = run.inst
    BY <1>2 DEF Earlier
  <1> HIDE DEF run, file
  <1>5. CASE IsActive(file.state)
    <2>1. /\ Reconcile(file) = Fail(file, "daemon-restart")
          /\ CanTransition(file.state, "failed")
      BY <1>5 DEF Reconcile, CanTransition, IsActive, ActiveStates
    <2>2. Reconcile(file) = [[file EXCEPT !.reason = "daemon-restart"] EXCEPT !.state = "failed"]
      BY <1>1, <2>1 DEF Fail, Transition, Runtimes
    <2>3. Reconcile(file) = Ledger!Lost(run)
      BY <1>1, <1>3, <1>4, <1>5, <2>2 DEF Ledger!Lost, Runtimes
    <2> QED
      BY <1>3, <1>4, <1>5, <2>3 DEF run, file
  <1>6. CASE ~IsActive(file.state)
    <2>1. file = run
      BY <1>2, <1>6 DEF Earlier
    <2> QED
      BY <1>6, <2>1 DEF Reconcile, run, file
  <1> QED
    BY <1>5, <1>6

(* The ledger's view of the two states of a step.                          *)
LEMMA Views ==
  /\ mode # "down" => View = registry
  /\ mode' # "down" => View' = registry'
  /\ mode = "down" => View = Reconciled(disk)
  /\ mode' = "down" => View' = Reconciled(disk')
  BY DEF View, Reconciled

(* Changing the definitions registers or deregisters one process, or does  *)
(* not concern the ledger.                                                 *)
LEMMA DefineRefines ==
  ASSUME SupervisionInv, RegistryInv, DefineStep
  PROVE  Ledger!LNext \/ UNCHANGED Ledger!ledger
  <1>1. /\ View = registry /\ View' = registry' /\ nextInst' = nextInst
        /\ registry \in Registries
    BY Views DEF DefineStep, SupervisionInv, TypeOK
  <1>2. PICK changed, cleared : /\ Redefined(changed, cleared)
                                /\ registry' = changed \/ registry' = registry
    BY DEF DefineStep
  <1>3. CASE registry'.processes = registry.processes /\ registry'.runtime = registry.runtime
    BY <1>1, <1>3 DEF Ledger!ledger
  <1>4. ASSUME NEW k \in Keys, ~Registered(k),
               registry' = [registry EXCEPT !.processes = @ \cup {k}]
        PROVE  Ledger!LNext
    <2>1. Ledger!Register(k)
      BY <1>1, <1>4 DEF Ledger!Register, Registered, Registries
    <2> QED
      BY <2>1 DEF Ledger!LNext
  <1>5. ASSUME NEW k \in Keys, ProcessRemovable(k),
               registry' = [registry EXCEPT !.processes = @ \ {k}, !.runtime[k] = NilRuntime]
        PROVE  Ledger!LNext
    <2>1. Ledger!Deregister(k)
      BY <1>1, <1>5 DEF Ledger!Deregister, ProcessRemovable, Registered, Registries,
         Ledger!IsActive, Ledger!ActiveStates, IsActive, ActiveStates, Ledger!NilRuntime,
         NilRuntime, Ledger!Nil, Nil
    <2> QED
      BY <2>1 DEF Ledger!LNext
  <1>6. CASE \E p : registry' \in {[registry EXCEPT !.projects = @ \cup {p}],
                                   [registry EXCEPT !.projects = @ \ {p}]}
    BY <1>1, <1>3, <1>6 DEF Registries
  <1> QED
    BY <1>2, <1>3, <1>4, <1>5, <1>6 DEF Redefined

(* A new attempt is begun in the ledger, or only its instance ID is drawn. *)
LEMMA BeginRefines ==
  ASSUME SupervisionInv, RegistryInv, NEW k \in Keys, BeginStep(k)
  PROVE  Ledger!LNext
  <1>1. /\ View = registry /\ View' = registry'
        /\ registry \in Registries
    BY Views DEF BeginStep, SupervisionInv, TypeOK
  <1>2. /\ Registered(k) /\ ~IsActive(registry.runtime[k].state)
        /\ nextInst' = nextInst + 1 /\ nextInst \in Nat
        /\ \/ registry' = WithRuntime(k, NewProcessRuntime(nextInst))
           \/ registry' = registry
    BY BoundAssumption DEF BeginStep, SupervisionInv, TypeOK
  <1>3. nextInst' - 1 = (nextInst - 1) + 1 /\ (nextInst - 1) + 1 = nextInst
    BY <1>2
  <1>4. CASE registry' = registry
    <2>1. Ledger!Draw
      BY <1>1, <1>3, <1>4 DEF Ledger!Draw
    <2> QED
      BY <2>1 DEF Ledger!LNext
  <1>5. CASE registry' = WithRuntime(k, NewProcessRuntime(nextInst))
    <2>1. /\ registry'.processes = registry.processes
          /\ registry'.runtime = [registry.runtime EXCEPT ![k] = NewProcessRuntime(nextInst)]
      BY <1>1, <1>5 DEF WithRuntime, Registries
    <2>2. /\ NewProcessRuntime(nextInst) = Ledger!NewProcessRuntime((nextInst - 1) + 1)
          /\ ~Ledger!IsActive(registry.runtime[k].state)
      BY <1>2, <1>3 DEF NewProcessRuntime, Ledger!NewProcessRuntime, Ledger!IsActive,
         Ledger!ActiveStates, IsActive, ActiveStates
    <2>3. Ledger!Begin(k)
      BY <1>1, <1>2, <1>3, <2>1, <2>2 DEF Ledger!Begin, Registered
    <2> QED
      BY <2>3 DEF Ledger!LNext
  <1> QED
    BY <1>2, <1>4, <1>5

(* One move of an attempt is one move of its run.                          *)
LEMMA AdvanceRefines ==
  ASSUME SupervisionInv, RegistryInv, NEW k \in Keys, NEW rt \in Runtimes, AdvanceStep(k, rt)
  PROVE  Ledger!LNext \/ UNCHANGED Ledger!ledger
  <1> DEFINE old == registry.runtime[k]
  <1>1. /\ View = registry /\ View' = registry' /\ nextInst' = nextInst
        /\ registry \in Registries /\ old \in Runtimes
    BY Views DEF AdvanceStep, SupervisionInv, TypeOK, Registries
  <1>2. /\ IsActive(old.state) /\ rt.inst = old.inst /\ old.inst # Nil
        /\ CanTransition(old.state, rt.state)
        /\ IsActive(rt.state) => rt.reason = "" /\ rt.exit = "none"
        /\ registry' = WithRuntime(k, rt) \/ registry' = registry
    BY DEF AdvanceStep, RegistryInv, Clean, SupervisionInv, ActiveInv
  <1>3. CASE registry' = registry
    BY <1>1, <1>3 DEF Ledger!ledger
  <1>4. CASE registry' = WithRuntime(k, rt)
    <2>1. /\ registry'.processes = registry.processes
          /\ registry'.runtime = [registry.runtime EXCEPT ![k] = rt]
      BY <1>1, <1>4 DEF WithRuntime, Registries
    <2>2. /\ rt.state \in Ledger!States /\ rt.reason \in Ledger!Reasons
          /\ rt.exit \in Ledger!ExitCodes
          /\ rt = [inst |-> old.inst, state |-> rt.state, reason |-> rt.reason,
                   exit |-> rt.exit]
      BY <1>2 DEF Runtimes, States, Ledger!States, ActiveStates, Ledger!ActiveStates,
         TerminalStates, Ledger!TerminalStates, Reasons, Ledger!Reasons, ExitCodes,
         Ledger!ExitCodes
    <2>3. /\ Ledger!CanTransition(old.state, rt.state)
          /\ Ledger!IsActive(rt.state) => rt.reason = "" /\ rt.exit = "none"
          /\ old.inst # Ledger!Nil
      BY <1>2 DEF CanTransition, Ledger!CanTransition, IsActive, Ledger!IsActive, ActiveStates,
         Ledger!ActiveStates, Nil, Ledger!Nil
    <2>4. View'.runtime = [View.runtime EXCEPT
                             ![k] = [inst |-> View.runtime[k].inst, state |-> rt.state,
                                     reason |-> rt.reason, exit |-> rt.exit]]
      BY <1>1, <2>1, <2>2
    <2>5. /\ View.runtime[k] = old
          /\ UNCHANGED <<View.processes, nextInst - 1>>
      BY <1>1, <2>1
    <2>6. \E state \in Ledger!States, reason \in Ledger!Reasons, exit \in Ledger!ExitCodes :
            /\ Ledger!CanTransition(View.runtime[k].state, state)
            /\ Ledger!IsActive(state) => reason = "" /\ exit = "none"
            /\ View'.runtime = [View.runtime EXCEPT
                                  ![k] = [inst |-> View.runtime[k].inst, state |-> state,
                                          reason |-> reason, exit |-> exit]]
      <3> USE <2>2
      <3> WITNESS rt.state \in Ledger!States, rt.reason \in Ledger!Reasons,
                  rt.exit \in Ledger!ExitCodes
      <3> QED
        BY <2>3, <2>4, <2>5
    <2>7. Ledger!Advance(k)
      BY <2>3, <2>5, <2>6 DEF Ledger!Advance
    <2> QED
      BY <2>7 DEF Ledger!LNext
  <1> QED
    BY <1>2, <1>3, <1>4

(* The next daemon boots with what the ledger already showed.              *)
LEMMA BootRefines ==
  ASSUME SupervisionInv, RegistryInv, BootStep, "flush" \notin Faults
  PROVE  UNCHANGED Ledger!ledger
  <1>1. View = Reconciled(disk) /\ nextInst' = nextInst
    BY Views DEF BootStep
  <1>2. View' = Reconciled(disk)
    BY Views, SaveCases DEF BootStep, Results
  <1> QED
    BY <1>1, <1>2 DEF Ledger!ledger

(* Losing the daemon loses it in the ledger.                               *)
LEMMA LossRefines ==
  ASSUME SupervisionInv, RegistryInv, DiskIsPast, LossStep
  PROVE  Ledger!LNext
  <1> DEFINE saved == {k \in Keys : /\ ~IsActive(registry.runtime[k].state)
                                    /\ Reconcile(disk.runtime[k]) = registry.runtime[k]}
  <1>1. /\ View = registry /\ View' = Reconciled(disk) /\ nextInst' = nextInst
        /\ mode # "down"
    BY Views DEF LossStep
  <1>2. /\ Reconciled(disk).processes = disk.processes
        /\ Reconciled(disk).runtime = [k \in Keys |-> Reconcile(disk.runtime[k])]
        /\ disk.processes = registry.processes
    BY <1>1 DEF Reconciled, SupervisionInv, TypeOK, Registries, DiskIsPast
  <1>3. \A k \in Keys : Reconcile(disk.runtime[k])
                          = IF k \in saved THEN registry.runtime[k]
                            ELSE Ledger!Lost(registry.runtime[k])
    BY <1>1, LostRun
  <1>4. \A k \in Keys : registry.runtime[k].inst = Nil => k \in saved
    BY <1>1, LostRun DEF SupervisionInv, ActiveInv
  <1>5. saved \in SUBSET {k \in Keys : ~Ledger!IsActive(registry.runtime[k].state)}
    BY DEF IsActive, Ledger!IsActive, ActiveStates, Ledger!ActiveStates
  <1> HIDE DEF saved
  <1>6. View'.runtime = [k \in Keys |-> IF k \in saved THEN registry.runtime[k]
                                        ELSE Ledger!Lost(registry.runtime[k])]
    BY <1>1, <1>2, <1>3
  <1>7. \A k \in Keys : registry.runtime[k].inst = Ledger!Nil => k \in saved
    BY <1>4 DEF Nil, Ledger!Nil
  <1>8. Ledger!LoseDaemon
    BY <1>1, <1>2, <1>5, <1>6, <1>7 DEF Ledger!LoseDaemon
  <1> QED
    BY <1>8 DEF Ledger!LNext

(* What the daemon and its file answer for is the ledger: Start, Stop,     *)
(* observeExit, the definition operations, every failure, crash and        *)
(* restart is a step of RunLedger or none.  A Save that fails after it     *)
(* replaced the file would show the client one thing and the next daemon   *)
(* another, hence the assumption.                                          *)
THEOREM LifecycleImplementsLedger ==
  ASSUME "flush" \notin Faults
  PROVE  Spec => ImplementsLedger
  <1>1. Init => Ledger!LInit
    <2> SUFFICES ASSUME Init PROVE Ledger!LInit
      OBVIOUS
    <2>1. SupervisionInv /\ RegistryInv /\ mode = "down" /\ nextInst = 1
      BY InitInv, RegistryInit DEF Init
    <2>2. PICK processes \in SUBSET Keys :
            disk = [NewRegistry EXCEPT !.projects = {ProjectOf[k] : k \in processes},
                                       !.processes = processes]
      BY DEF Init
    <2>3. disk.processes = processes /\ disk.runtime = [k \in Keys |-> NilRuntime]
      BY <2>2 DEF NewRegistry
    <2>4. /\ View = Reconciled(disk) /\ View.processes = processes
          /\ View.runtime = [k \in Keys |-> Reconcile(NilRuntime)]
      BY <2>1, <2>3 DEF View, Reconciled, SupervisionInv, TypeOK, Registries
    <2>5. Reconcile(NilRuntime) = NilRuntime
      BY NilRuntimeType DEF Reconcile
    <2>6. NilRuntime = Ledger!NilRuntime
      BY DEF NilRuntime, Ledger!NilRuntime, Nil, Ledger!Nil
    <2> QED
      BY <2>1, <2>4, <2>5, <2>6 DEF Ledger!LInit
  <1>2. SupervisionInv /\ RegistryInv /\ DiskIsPast /\ [Next]_vars =>
          [Ledger!LNext]_(Ledger!ledger)
    <2> SUFFICES ASSUME SupervisionInv, RegistryInv, DiskIsPast, [Next]_vars
                 PROVE  Ledger!LNext \/ UNCHANGED Ledger!ledger
      OBVIOUS
    <2>1. RegistryStep
      BY StepKinds
    <2>2. CASE QuietStep
      BY <2>2 DEF QuietStep, Ledger!ledger, View
    <2> QED
      BY <2>1, <2>2, DefineRefines, BeginRefines, AdvanceRefines, BootRefines, LossRefines
      DEF RegistryStep
  <1> QED
    BY <1>1, <1>2, SupervisionCorrect, RegistryCorrect, FileIsPast, PTL
    DEF Spec, ImplementsLedger, Ledger!LSpec

(***************************************************************************)
(* Second, Stop and Shutdown: a Stop that succeeds stopped its process, a  *)
(* Windows job never overlaps the next one, and a shutdown leaves no leader*)
(* behind.                                                                 *)
(***************************************************************************)

(***************************************************************************)
(* What a step does to one process tree and to its observer.               *)
(***************************************************************************)

(* Nothing, or it takes processes away.                                    *)
Weakened(old, new) ==
  \/ new \in {old, Kill(old), RequestStop(old), Close(old)}
  \/ new = [old EXCEPT !.child = "none"]
  \/ LeaderAlive(old) /\ \E code \in ExitCodes :
                           new = [old EXCEPT !.leader = "dead", !.code = code]

(* Start spawns it.                                                        *)
Spawned(t, i) ==
  /\ At(t, "spawn") /\ thread[t].inst = i
  /\ \E kind \in TreeKinds : tree'[i] = NewTree(thread[t].key, kind)
  /\ thread' = [thread EXCEPT ![t].pc = "persist"] /\ UNCHANGED mu

Observed(i) ==
  \/ observer'[i] = observer[i]
  \/ observer[i] = "none" /\ observer'[i] = "waiting"
  \/ /\ observer[i] = "waiting" /\ observer'[i] = "exited"
     /\ Ended(tree[i]) /\ tree'[i] = Close(tree[i])
  \/ observer[i] = "exited" /\ observer'[i] = "done" /\ tree'[i] = tree[i]

(* Every step but the end of the daemon weakens a tree or spawns it.       *)
LEMMA TreeStep ==
  ASSUME SupervisionInv, [Next]_vars, ~Gone, NEW i \in Instances
  PROVE  Weakened(tree[i], tree'[i]) \/ \E t \in Threads : Spawned(t, i)
  <1>0. /\ tree \in [Instances -> Trees(Keys \cup {NoKey})]
        /\ \A t \in Threads : thread[t].pc \in StartSteps \cup StopSteps =>
             thread[t].inst \in Instances
    BY DEF SupervisionInv, TypeOK, ThreadInv
  <1>1. CASE UNCHANGED tree
    BY <1>1 DEF Weakened
  <1>2. ASSUME NEW t \in Threads, FreeStep(t), ~UNCHANGED tree
        PROVE  Weakened(tree[i], tree'[i]) \/ Spawned(t, i)
    <2> DEFINE l == thread[t].inst
    <2>1. CASE Spawn(t)
      <3>1. l \in Instances /\ At(t, "spawn")
        BY <1>0, <2>1 DEF Spawn, At, StartSteps
      <3>2. PICK kind \in TreeKinds :
              /\ tree' = [tree EXCEPT ![l] = NewTree(thread[t].key, kind)]
              /\ thread' = [thread EXCEPT ![t].pc = "persist"] /\ UNCHANGED mu
        BY <1>2, <2>1 DEF Spawn, Goto, managerVars
      <3> QED
        BY <1>0, <3>1, <3>2 DEF Weakened, Spawned
    <2>2. CASE ~Spawn(t)
      <3>1. l \in Instances
        BY <1>0, <1>2, <2>2 DEF FreeStep, PersistRunning, AbortWait, Signal, WaitDone,
           WaitCancelled, At, StartSteps, StopSteps
      <3>2. \E tr \in {tree[l], Kill(tree[l]), RequestStop(tree[l]), Close(tree[l])} :
              tree' = [tree EXCEPT ![l] = tr]
        BY <1>2, <2>2 DEF FreeStep, PersistRunning, AbortWait, Signal, WaitDone, WaitCancelled
      <3> QED
        BY <1>0, <3>1, <3>2 DEF Weakened
    <2> QED
      BY <2>1, <2>2
  <1>3. ASSUME NEW l \in Instances, ObserveEnd(l) \/ LeaderExit(l) \/ ChildExit(l)
        PROVE  Weakened(tree[i], tree'[i])
    <2>1. CASE ObserveEnd(l)
      BY <1>0, <2>1 DEF ObserveEnd, Weakened
    <2>2. CASE LeaderExit(l)
      <3>1. PICK code \in NaturalCodes :
              tree' = [tree EXCEPT ![l].leader = "dead", ![l].code = code]
        BY <2>2 DEF LeaderExit
      <3>2. code \in ExitCodes /\ LeaderAlive(tree[l])
        BY <2>2, <3>1 DEF NaturalCodes, ExitCodes, LeaderExit
      <3> QED
        BY <1>0, <3>1, <3>2 DEF Weakened
    <2>3. CASE ChildExit(l)
      BY <1>0, <2>3 DEF ChildExit, Weakened
    <2> QED
      BY <1>3, <2>1, <2>2, <2>3
  <1> QED
    BY <1>1, <1>2, <1>3
    DEF Next, Call, LockStep, DefinitionStep, AddProject, RemoveProject, AddProcess,
        RemoveProcess, Commit, Refuse, StartBegin, StopBegin, StatusWithError, RecordExit, Boot,
        Terminate, AcceptFails, ServeReturns, ShutdownNext, ShutdownExpires, Exit, Crash, vars

(* Every step but the end of the daemon moves an observer along its code.  *)
LEMMA ObserverStep ==
  ASSUME SupervisionInv, [Next]_vars, ~Gone, NEW i \in Instances
  PROVE  Observed(i)
  <1>0. /\ tree \in [Instances -> Trees(Keys \cup {NoKey})]
        /\ observer \in [Instances -> {"none", "waiting", "exited", "done"}]
    BY DEF SupervisionInv, TypeOK
  <1>1. CASE UNCHANGED observer
    BY <1>1 DEF Observed
  <1>2. ASSUME NEW t \in Threads, PersistRunning(t), ~UNCHANGED observer
        PROVE  Observed(i)
    <2>1. thread[t].pc \in StartSteps /\ mu = t /\ mu # NoThread
      BY <1>2, InStart DEF PersistRunning, At, StartSteps
    <2>2. observer[thread[t].inst] = "none"
      BY <2>1 DEF SupervisionInv, StartInv
    <2>3. observer' = [observer EXCEPT ![thread[t].inst] = "waiting"]
      BY <1>2 DEF PersistRunning
    <2> QED
      BY <1>0, <2>2, <2>3 DEF Observed
  <1>3. ASSUME NEW l \in Instances, ObserveEnd(l)
        PROVE  Observed(i)
    BY <1>0, <1>3 DEF ObserveEnd, Observed
  <1>4. ASSUME NEW l \in Instances, RecordExit(l)
        PROVE  Observed(i)
    BY <1>0, <1>4 DEF RecordExit, Release, Observed
  <1> QED
    BY <1>1, <1>2, <1>3, <1>4
    DEF Next, Call, LockStep, DefinitionStep, AddProject, RemoveProject, AddProcess,
        RemoveProcess, Commit, Refuse, StartBegin, StopBegin, StatusWithError, FreeStep, Spawn,
        AbortWait, Signal, WaitDone, WaitCancelled, LeaderExit, ChildExit, Boot, Terminate,
        AcceptFails, ServeReturns, ShutdownNext, ShutdownExpires, Exit, Crash, vars

(* A tree that has ended stays so.                                         *)
LEMMA WeakenedEnded ==
  ASSUME NEW K, NEW old \in Trees(K), NEW new, Weakened(old, new)
  PROVE  /\ Ended(old) => Ended(new)
         /\ new.key = old.key /\ new.owner = old.owner
         /\ LeaderAlive(new) => LeaderAlive(old)
         /\ new.leader = "none" <=> old.leader = "none"
         /\ new.child \in {old.child, "none"}
  BY DEF Weakened, Ended, Kill, RequestStop, Close, Trees, LeaderAlive

(***************************************************************************)
(* A Stop that succeeds.                                                   *)
(***************************************************************************)

(* EndedInv is inductive.                                                  *)
LEMMA EndedNext ==
  ASSUME SupervisionInv, EndedInv, [Next]_vars
  PROVE  EndedInv'
  <1>1. CASE Gone
    BY <1>1 DEF Gone, EndedInv, Closed, At, Idle
  <1>2. ASSUME ~Gone, NEW i \in Instances, Closed(i)'
        PROVE  Ended(tree'[i])
    <2>1. tree[i] \in Trees(Keys \cup {NoKey})
      BY DEF SupervisionInv, TypeOK
    <2>2. Observed(i) /\ (Weakened(tree[i], tree'[i]) \/ \E t \in Threads : Spawned(t, i))
      BY <1>2, ObserverStep, TreeStep
    <2>3. CASE observer[i] = "waiting"
      <3>1. Ended(tree[i]) /\ tree'[i] = Close(tree[i])
        BY <1>2, <2>2, <2>3 DEF Observed, Closed
      <3> QED
        BY <2>1, <3>1, WeakenedEnded DEF Weakened
    <2>4. CASE observer[i] # "waiting"
      <3>1. Closed(i) /\ Ended(tree[i])
        BY <1>2, <2>2, <2>4 DEF Observed, Closed, EndedInv
      <3>2. \A t \in Threads : ~Spawned(t, i)
        <4> SUFFICES ASSUME NEW t \in Threads, Spawned(t, i) PROVE FALSE
          OBVIOUS
        <4>1. mu = t /\ mu # NoThread
          BY InStart DEF Spawned, At, StartSteps
        <4> QED
          BY <3>1, <4>1 DEF SupervisionInv, StartInv, Spawned, Closed
      <3> QED
        BY <2>1, <2>2, <3>1, <3>2, WeakenedEnded
    <2> QED
      BY <2>3, <2>4
  <1>3. ASSUME ~Gone, NEW t \in Threads, thread'[t].pc = "status", thread'[t].result = "ok"
        PROVE  observer'[thread'[t].inst] = "done"
    <2>0. /\ thread \in [Threads -> ThreadStates]
          /\ SupervisionInv'
      BY NextInv DEF SupervisionInv, TypeOK
    <2>1. \/ thread'[t] = thread[t]
          \/ observer[thread[t].inst] = "done" /\ thread'[t].inst = thread[t].inst
      <3>1. ASSUME NEW s \in Threads, LockStep(s)
            PROVE  thread'[t] = thread[t]
        <4>1. CASE StartBegin(s)
          <5>1. \/ thread' = [thread EXCEPT ![s] = Idle]
                \/ thread' = [thread EXCEPT ![s].pc = "spawn", ![s].inst = nextInst]
            BY <4>1 DEF StartBegin, Refuse, Return
          <5> QED
            BY <1>3, <2>0, <3>1, <5>1 DEF Idle, ThreadStates
        <4>2. CASE StopBegin(s)
          <5> DEFINE l == registry.runtime[thread[s].key].inst
                     k == thread[s].key
          <5>1. \/ thread' = [thread EXCEPT ![s] = Idle]
                \/ thread' = [thread EXCEPT ![s] = Calling("start", k)]
                \/ thread' = [thread EXCEPT ![s].pc = "wait", ![s].inst = l]
                \/ thread' = [thread EXCEPT ![s].pc = "signal", ![s].inst = l]
            BY <4>2 DEF StopBegin, Refuse, Return, StopSucceeds
          <5> HIDE DEF l, k
          <5> QED
            BY <1>3, <2>0, <3>1, <5>1 DEF Idle, Calling, ThreadStates
        <4>3. CASE DefinitionStep(s)
          BY <1>3, <2>0, <3>1, <4>3 DEF DefinitionStep, AddProject, RemoveProject, AddProcess,
             RemoveProcess, Commit, Refuse, Return, Idle
        <4>4. CASE StatusWithError(s)
          BY <1>3, <2>0, <3>1, <4>4 DEF StatusWithError, Return, StopSucceeds, Calling, Idle
        <4> QED
          BY <3>1, <4>1, <4>2, <4>3, <4>4 DEF LockStep
      <3>2. ASSUME NEW s \in Threads, FreeStep(s)
            PROVE  \/ thread'[t] = thread[t]
                   \/ observer[thread[t].inst] = "done" /\ thread'[t].inst = thread[t].inst
        <4>1. CASE WaitDone(s)
          BY <1>3, <2>0, <3>2, <4>1 DEF WaitDone, Done
        <4>2. CASE ~WaitDone(s)
          <5>1. \/ thread' = [thread EXCEPT ![s] = Idle]
                \/ \E pc \in {"persist", "abort", "wait"} : thread' = [thread EXCEPT ![s].pc = pc]
                \/ thread' = [thread EXCEPT ![s].pc = "status", ![s].result = "err"]
            BY <3>2, <4>2 DEF FreeStep, Spawn, PersistRunning, AbortWait, Signal, WaitCancelled,
               Goto, Leave, Return
          <5> QED
            BY <1>3, <2>0, <3>2, <5>1 DEF Idle, ThreadStates
        <4> QED
          BY <4>1, <4>2
      <3>3. CASE \E s \in Threads : \E op, k : thread' = [thread EXCEPT ![s] = Calling(op, k)]
        BY <1>3, <2>0, <3>3 DEF Calling, ThreadStates
      <3>4. CASE UNCHANGED thread
        BY <3>4
      <3>5. CASE \E c \in Clients, op \in Requests, k \in Keys : Call(c, op, k)
        BY <3>3, <3>5 DEF Call, Threads
      <3>6. CASE \E k \in Keys : ShutdownNext(k)
        BY <3>3, <3>6 DEF ShutdownNext, Threads
      <3>7. CASE \E i \in Instances :
                   ObserveEnd(i) \/ RecordExit(i) \/ LeaderExit(i) \/ ChildExit(i)
        BY <3>4, <3>7 DEF ObserveEnd, RecordExit, LeaderExit, ChildExit
      <3>8. CASE \/ Boot \/ Terminate \/ AcceptFails \/ ServeReturns \/ ShutdownExpires
                 \/ UNCHANGED vars
        BY <3>4, <3>8 DEF Boot, Terminate, AcceptFails, ServeReturns, ShutdownExpires, vars
      <3> QED
        BY <1>3, <3>1, <3>2, <3>5, <3>6, <3>7, <3>8 DEF Next, Exit, Crash
    <2>2. observer[thread'[t].inst] = "done"
      BY <1>3, <2>1 DEF EndedInv, At, Done
    <2>3. thread'[t].inst \in Instances
      BY <1>3, <2>0 DEF SupervisionInv, ThreadInv, StopSteps
    <2>4. Observed(thread'[t].inst)
      BY <1>3, <2>3, ObserverStep
    <2> QED
      BY <2>2, <2>4 DEF Observed
  <1> QED
    BY <1>1, <1>2, <1>3 DEF EndedInv, At, Done

(* Owners are closed, and waiters released, only after the end.            *)
THEOREM EndsObserved == Spec => []EndedInv
  <1>1. Init => EndedInv
    BY DEF Init, EndedInv, Closed, At, Idle
  <1>2. SupervisionInv /\ EndedInv /\ [Next]_vars => EndedInv'
    BY EndedNext
  <1> QED
    BY <1>1, <1>2, SupervisionCorrect, PTL DEF Spec

(* A Stop or Restart that is about to report success finds its instance    *)
(* ended, unowned and not active, although it looks the definition up      *)
(* again only after other handlers may have removed or restarted it.       *)
THEOREM StopsStop == Spec => []StopStops
  <1>1. SupervisionInv /\ EndedInv => StopStops
    <2> SUFFICES ASSUME SupervisionInv, EndedInv, NEW t \in Threads,
                        At(t, "status"), thread[t].result = "ok"
                 PROVE  LET i == thread[t].inst
                            rt == registry.runtime[thread[t].key] IN
                        /\ Ended(tree[i])
                        /\ active[thread[t].key] # i
                        /\ rt.inst = i => ~IsActive(rt.state)
      BY DEF StopStops
    <2> DEFINE i == thread[t].inst
               k == thread[t].key
    <2>1. i \in Instances /\ i # Nil /\ k \in Keys
      BY BoundAssumption DEF SupervisionInv, ThreadInv, At, StopSteps, Instances, Nil
    <2>2. observer[i] = "done" /\ Ended(tree[i])
      BY <2>1 DEF EndedInv, Done, Closed
    <2>3. active[k] # i
      BY <2>1, <2>2 DEF SupervisionInv, OwnerInv, Ownership
    <2>4. ~Starting(k, i)
      BY <2>2 DEF SupervisionInv, StartInv, Starting
    <2>5. registry.runtime[k].inst = i => ~IsActive(registry.runtime[k].state)
      BY <2>1, <2>3, <2>4 DEF SupervisionInv, OwnerInv, Ownership
    <2> QED
      BY <2>2, <2>3, <2>5
  <1> QED
    BY <1>1, SupervisionCorrect, EndsObserved, PTL

(***************************************************************************)
(* One job per definition, on Windows.                                     *)
(***************************************************************************)

(* A goroutine that moves is not idle, and it is the only one that moves.  *)
LEMMA OneMoves ==
  ASSUME SupervisionInv, NEW t \in Threads, LockStep(t) \/ FreeStep(t)
  PROVE  thread[t].pc # "idle" /\ \A s \in Threads \ {t} : thread'[s] = thread[s]
  <1>0. thread \in [Threads -> ThreadStates]
    BY DEF SupervisionInv, TypeOK
  <1>1. CASE DefinitionStep(t)
    BY <1>0, <1>1 DEF DefinitionStep, AddProject, RemoveProject, AddProcess, RemoveProcess,
       Commit, Refuse, Return, Enters, At
  <1>2. CASE StartBegin(t)
    BY <1>0, <1>2 DEF StartBegin, Refuse, Return, Enters, At
  <1>3. CASE StopBegin(t)
    BY <1>0, <1>3 DEF StopBegin, StopSucceeds, Refuse, Return, Enters, At
  <1>4. CASE StatusWithError(t)
    BY <1>0, <1>4 DEF StatusWithError, StopSucceeds, Return, At
  <1>5. CASE FreeStep(t)
    BY <1>0, <1>5 DEF FreeStep, Spawn, PersistRunning, AbortWait, Signal, WaitDone,
       WaitCancelled, Goto, Leave, Return, At
  <1> QED
    BY <1>1, <1>2, <1>3, <1>4, <1>5 DEF LockStep

(* An owned tree stays owned until its end has been observed, or until a   *)
(* Start that did not spawn it or that killed it gives it up.              *)
LEMMA OwnedStep ==
  ASSUME SupervisionInv, [Next]_vars, ~Gone, NEW i \in Instances, NEW k \in Keys,
         tree[i].key = k \/ tree[i].leader = "none",
         active[k] = i \/ Starting(k, i)
  PROVE  \/ active'[k] = i \/ Starting(k, i)'
         \/ observer[i] = "exited" /\ tree'[i] = tree[i]
         \/ tree[i].leader = "none" /\ tree'[i] = tree[i]
         \/ Ended(tree[i]) /\ tree'[i] = Close(tree[i])
  <1> DEFINE Kept == active'[k] = i \/ Starting(k, i)'
  <1>0. /\ i # Nil
        /\ active \in [Keys -> 0 .. MaxInstances]
        /\ thread \in [Threads -> ThreadStates]
        /\ tree \in [Instances -> Trees(Keys \cup {NoKey})]
        /\ mu # NoThread => /\ mu \in Threads /\ thread[mu].pc \in StartSteps
                            /\ active[thread[mu].key] = Nil
    <2>1. i # Nil
      BY BoundAssumption DEF Instances, Nil
    <2>2. mu # NoThread => mu \in Threads /\ thread[mu].pc \in StartSteps
      BY DEF SupervisionInv, TypeOK, ThreadInv
    <2> QED
      BY <2>1, <2>2 DEF SupervisionInv, TypeOK, StartInv
  <1>1. ASSUME UNCHANGED <<active, mu>>,
               mu # NoThread => /\ thread'[mu].key = thread[mu].key
                                /\ thread'[mu].inst = thread[mu].inst
        PROVE  Kept
    BY <1>1 DEF Starting
  <1>2. ASSUME mu = NoThread, UNCHANGED active
        PROVE  Kept
    BY <1>2 DEF Starting
  <1>3. ASSUME NEW t \in Threads, LockStep(t)
        PROVE  Kept
    BY <1>2, <1>3 DEF LockStep, DefinitionStep, AddProject, RemoveProject, AddProcess,
       RemoveProcess, StartBegin, StopBegin, StatusWithError, Enters, Commit, Refuse,
       managerVars
  <1>4. ASSUME NEW t \in Threads, Signal(t) \/ WaitDone(t) \/ WaitCancelled(t)
        PROVE  Kept
    <2>1. thread[t].pc \notin StartSteps /\ UNCHANGED <<active, mu>>
      BY <1>4 DEF Signal, WaitDone, WaitCancelled, At, StartSteps, managerVars
    <2>2. mu # NoThread => thread'[mu] = thread[mu]
      BY <1>0, <1>4, <2>1, OneMoves DEF FreeStep
    <2> QED
      BY <1>1, <2>1, <2>2
  <1>5. ASSUME NEW t \in Threads, Spawn(t) \/ PersistRunning(t) \/ AbortWait(t)
        PROVE  \/ Kept
               \/ tree[i].leader = "none" /\ tree'[i] = tree[i]
               \/ Ended(tree[i]) /\ tree'[i] = Close(tree[i])
    <2> DEFINE l == thread[t].inst
               j == thread[t].key
    <2>1. thread[t].pc \in StartSteps
      BY <1>5 DEF Spawn, PersistRunning, AbortWait, At, StartSteps
    <2>2. mu = t /\ mu # NoThread /\ j \in Keys /\ l \in Instances
      BY <2>1, InStart
    <2>3. Starting(k, i) <=> k = j /\ i = l
      BY <2>2 DEF Starting
    <2>4. active[k] = i => k # j
      BY <1>0, <2>2
    <2>5. CASE Spawn(t)
      <3>1. CASE Goto(t, "persist") /\ UNCHANGED <<active, mu>>
        BY <1>0, <1>1, <2>2, <3>1 DEF Goto, ThreadStates
      <3>2. CASE UNCHANGED <<active, tree>>
        <4>1. tree[l].leader = "none"
          BY <2>2, <2>5 DEF SupervisionInv, StartInv, Spawn, At
        <4> QED
          BY <2>3, <3>2, <4>1
      <3> QED
        BY <2>5, <3>1, <3>2 DEF Spawn, managerVars
    <2>6. CASE PersistRunning(t)
      <3>1. CASE Goto(t, "abort") /\ UNCHANGED <<active, mu>>
        BY <1>0, <1>1, <2>2, <3>1 DEF Goto, ThreadStates
      <3>2. CASE active' = [active EXCEPT ![j] = l]
        BY <1>0, <2>2, <2>3, <2>4, <3>2
      <3> QED
        BY <2>6, <3>1, <3>2 DEF PersistRunning
    <2>7. CASE AbortWait(t)
      <3>1. Ended(tree[l]) /\ tree'[l] = Close(tree[l]) /\ UNCHANGED active
        BY <1>0, <2>2, <2>7 DEF AbortWait
      <3> QED
        BY <2>3, <3>1
    <2> QED
      BY <1>5, <2>5, <2>6, <2>7
  <1>6. ASSUME NEW l \in Instances, RecordExit(l)
        PROVE  Kept \/ (observer[i] = "exited" /\ tree'[i] = tree[i])
    <2>1. mu = NoThread /\ observer[l] = "exited" /\ UNCHANGED tree
      BY <1>6 DEF RecordExit
    <2>2. active[k] = i /\ active[tree[l].key] = l /\ tree[l].key \in Keys
      BY <2>1 DEF SupervisionInv, OwnerInv, Starting
    <2>3. active' = active \/ active' = [active EXCEPT ![tree[l].key] = Nil]
      BY <1>6 DEF RecordExit
    <2> QED
      BY <1>0, <2>1, <2>2, <2>3
  <1>7. CASE \E c \in Clients, op \in Requests, j \in Keys : Call(c, op, j)
    <2>1. PICK c \in Clients, op \in Requests, j \in Keys : Call(c, op, j)
      BY <1>7
    <2>2. mu # NoThread => mu # c
      BY <1>0, <2>1 DEF Call, At, StartSteps
    <2>3. mu # NoThread => thread'[mu] = thread[mu]
      BY <1>0, <2>1, <2>2 DEF Call
    <2> QED
      BY <1>1, <2>1, <2>3 DEF Call, managerVars
  <1>8. CASE \E j \in Keys : ShutdownNext(j)
    <2>1. mu # NoThread => mu # Main
      BY <1>0, <1>8 DEF ShutdownNext, At, StartSteps
    <2>2. mu # NoThread => thread'[mu] = thread[mu]
      BY <1>0, <1>8, <2>1 DEF ShutdownNext
    <2> QED
      BY <1>1, <1>8, <2>2 DEF ShutdownNext, managerVars
  <1>9. CASE \E l \in Instances : ObserveEnd(l) \/ LeaderExit(l) \/ ChildExit(l)
    BY <1>1, <1>9 DEF ObserveEnd, LeaderExit, ChildExit, managerVars
  <1>10. CASE \/ Boot \/ Terminate \/ AcceptFails \/ ServeReturns \/ ShutdownExpires
              \/ UNCHANGED vars
    BY <1>1, <1>10 DEF Boot, Terminate, AcceptFails, ServeReturns, ShutdownExpires, managerVars,
       vars
  <1> QED
    BY <1>3, <1>4, <1>5, <1>6, <1>7, <1>8, <1>9, <1>10 DEF Next, FreeStep, Exit, Crash

(* Terminating a job that nothing escapes from ends all of it.             *)
LEMMA JobEnds ==
  ASSUME NEW K, NEW tr \in Trees(K), tr.child # "escaped", Platform = "windows"
  PROVE  /\ ~TreeAlive(Close(tr)) /\ Close(tr).child = "none"
         /\ ~TreeAlive(Orphan(tr)) /\ Orphan(tr).child = "none"
  BY DEF TreeAlive, Close, Kill, Orphan, Trees

(* JobInv is inductive on Windows.                                         *)
LEMMA JobNext ==
  ASSUME SupervisionInv, JobInv, [Next]_vars, Platform = "windows", NEW i \in Instances
  PROVE  Contained(i)'
  <1>0. /\ tree[i] \in Trees(Keys \cup {NoKey})
        /\ tree[i].child # "escaped"
        /\ tree[i].leader = "none" => tree[i].child = "none"
        /\ Closed(i) => ~TreeAlive(tree[i])
        /\ TreeAlive(tree[i]) /\ tree[i].owner = "daemon" =>
             active[tree[i].key] = i \/ Starting(tree[i].key, i)
    BY DEF SupervisionInv, TypeOK, JobInv, Contained
  <1>1. CASE Gone
    <2>1. tree'[i] = Orphan(tree[i]) /\ observer'[i] = "none"
      BY <1>1 DEF Gone
    <2> QED
      BY <1>0, <2>1, JobEnds, OrphanType DEF Closed, Contained
  <1>2. CASE ~Gone /\ Weakened(tree[i], tree'[i])
    <2>1. /\ tree'[i].key = tree[i].key /\ tree'[i].owner = tree[i].owner
          /\ LeaderAlive(tree'[i]) => LeaderAlive(tree[i])
          /\ tree'[i].leader = "none" <=> tree[i].leader = "none"
          /\ tree'[i].child \in {tree[i].child, "none"}
      BY <1>0, <1>2, WeakenedEnded
    <2>2. TreeAlive(tree'[i]) => TreeAlive(tree[i])
      BY <2>1 DEF TreeAlive, LeaderAlive
    <2>3. Closed(i)' => ~TreeAlive(tree'[i])
      <3>1. Observed(i)
        BY <1>2, ObserverStep
      <3> QED
        BY <1>0, <2>2, <3>1, JobEnds DEF Observed, Closed
    <2>4. ASSUME TreeAlive(tree'[i]), tree'[i].owner = "daemon"
          PROVE  (active[tree[i].key] = i \/ Starting(tree[i].key, i))'
      <3>1. active[tree[i].key] = i \/ Starting(tree[i].key, i)
        BY <1>0, <2>1, <2>2, <2>4
      <3>2. tree[i].leader # "none"
        BY <1>0, <2>2, <2>4 DEF TreeAlive
      <3>3. PICK k \in Keys : k = tree[i].key
        BY <3>2 DEF SupervisionInv, FreshInv
      <3>4. \/ active'[k] = i \/ Starting(k, i)'
            \/ observer[i] = "exited" /\ tree'[i] = tree[i]
            \/ Ended(tree[i]) /\ tree'[i] = Close(tree[i])
        BY <1>2, <3>1, <3>2, <3>3, OwnedStep
      <3>5. active'[k] = i \/ Starting(k, i)'
        BY <1>0, <2>2, <2>4, <3>4, JobEnds DEF Closed
      <3> QED
        BY <2>1, <3>3, <3>5 DEF Starting
    <2> QED
      BY <1>0, <2>1, <2>3, <2>4 DEF Contained
  <1>3. CASE ~Gone /\ \E t \in Threads : Spawned(t, i)
    <2>1. PICK t \in Threads : Spawned(t, i)
      BY <1>3
    <2>2. PICK kind \in TreeKinds : tree'[i] = NewTree(thread[t].key, kind)
      BY <2>1 DEF Spawned
    <2>3. /\ tree'[i].child = kind.child /\ tree'[i].leader = "alive"
          /\ tree'[i].key = thread[t].key
      BY <2>2 DEF NewTree
    <2>4. kind.child # "escaped"
      BY <2>2, TreeKindsAssumption
    <2>5. mu = t /\ mu # NoThread /\ observer[i] = "none"
      <3>1. mu = t /\ mu # NoThread
        BY <2>1, InStart DEF Spawned, At, StartSteps
      <3> QED
        BY <2>1, <3>1 DEF SupervisionInv, StartInv, Spawned
    <2>6. Starting(tree[i].key, i)'
      <3>1. thread'[t].key = thread[t].key /\ thread'[t].inst = i /\ mu' = t
        BY <2>1, <2>5 DEF Spawned, SupervisionInv, TypeOK, ThreadStates
      <3> QED
        BY <2>3, <2>5, <3>1 DEF Starting
    <2>7. ~Closed(i)'
      <3>1. Observed(i)
        BY <1>3, ObserverStep
      <3> QED
        BY <2>5, <3>1 DEF Observed, Closed
    <2> QED
      BY <2>3, <2>4, <2>6, <2>7 DEF Contained
  <1> QED
    BY <1>1, <1>2, <1>3, TreeStep

(* On Windows a new instance of a definition exists only once the job of   *)
(* the one before it has ended, descendants included: Close, in Wait and   *)
(* in the failure of Start, terminates the job before ownership is given   *)
(* up.                                                                     *)
THEOREM OneTreeEach ==
  ASSUME Platform = "windows"
  PROVE  Spec => []OneTree
  <1>1. Init => JobInv
    BY DEF Init, JobInv, Contained, NoTree, Closed, TreeAlive
  <1>2. SupervisionInv /\ JobInv /\ [Next]_vars => JobInv'
    BY JobNext DEF JobInv
  <1>3. SupervisionInv /\ JobInv => OneTree
    <2> SUFFICES ASSUME SupervisionInv, JobInv, NEW i \in Instances, NEW j \in Instances,
                        tree[i].key = tree[j].key,
                        TreeAlive(tree[i]), tree[i].owner = "daemon",
                        TreeAlive(tree[j]), tree[j].owner = "daemon"
                 PROVE  i = j
      BY DEF OneTree
    <2>1. /\ active[tree[i].key] = i \/ Starting(tree[i].key, i)
          /\ active[tree[i].key] = j \/ Starting(tree[i].key, j)
      BY DEF JobInv, Contained
    <2>2. \A k, l : Starting(k, l) => active[k] = Nil
      BY DEF SupervisionInv, StartInv, Starting
    <2>3. i # Nil /\ j # Nil
      BY BoundAssumption DEF Instances, Nil
    <2> QED
      BY <2>1, <2>2, <2>3 DEF Starting
  <1> QED
    BY <1>1, <1>2, <1>3, SupervisionCorrect, PTL DEF Spec

(***************************************************************************)
(* Shutdown, as long as no Save but that of a started process, and no      *)
(* RequestStop, fails.                                                     *)
(***************************************************************************)

(* A leader that is alive after a step was alive before it, with the same  *)
(* definition and owner, unless Start just spawned it.                     *)
LEMMA LeaderStep ==
  ASSUME SupervisionInv, [Next]_vars, ~Gone, NEW i \in Instances,
         \A t \in Threads : thread[t].pc # "spawn",
         LeaderAlive(tree'[i])
  PROVE  LeaderAlive(tree[i]) /\ tree'[i].key = tree[i].key /\ tree'[i].owner = tree[i].owner
  <1>1. tree[i] \in Trees(Keys \cup {NoKey})
    BY DEF SupervisionInv, TypeOK
  <1>2. Weakened(tree[i], tree'[i])
    BY TreeStep DEF Spawned, At
  <1> QED
    BY <1>1, <1>2, WeakenedEnded

(* Until Serve has returned the main goroutine does not call the manager.  *)
LEMMA MainWaits ==
  ASSUME SupervisionInv, [Next]_vars, ~Gone, At(Main, "idle"),
         mode \notin {"shutdown", "expired"}
  PROVE  At(Main, "idle")'
  <1>0. Main \in Threads /\ thread \in [Threads -> ThreadStates] /\ Main \notin Clients
    BY ThreadsAssumption DEF Threads, SupervisionInv, TypeOK
  <1>1. ASSUME NEW t \in Threads, LockStep(t) \/ FreeStep(t)
        PROVE  At(Main, "idle")'
    BY <1>0, <1>1, OneMoves DEF At
  <1>2. CASE \E c \in Clients, op \in Requests, k \in Keys : Call(c, op, k)
    BY <1>0, <1>2 DEF Call, At, Threads
  <1>3. CASE UNCHANGED thread
    BY <1>3 DEF At
  <1> QED
    BY <1>1, <1>2, <1>3
    DEF Next, ObserveEnd, RecordExit, LeaderExit, ChildExit, Boot, Terminate, AcceptFails,
        ServeReturns, ShutdownNext, ShutdownExpires, Exit, Crash, vars

(* Serve returns: what is alive is owned, and so listed.                   *)
LEMMA ServeReturnsKeeps ==
  ASSUME SupervisionInv, ShutdownInv, ServeReturns
  PROVE  ShutdownInv'
  <1>1. /\ mode \notin {"shutdown", "expired"} /\ mode' = "shutdown"
        /\ todo' = {k \in Keys : active[k] # Nil}
        /\ HandlersReturned /\ mu = NoThread
        /\ UNCHANGED <<mu, tree, thread>>
    BY DEF ServeReturns, managerVars
  <1>2. At(Main, "idle")
    BY <1>1 DEF ShutdownInv
  <1>3. ASSUME NEW i \in Instances, LeaderAlive(tree[i]), tree[i].owner = "daemon"
        PROVE  tree[i].key \in todo'
    <2>1. active[tree[i].key] = i /\ i # Nil
      BY <1>1, <1>3, BoundAssumption DEF SupervisionInv, NoLeak, Starting, Instances, Nil
    <2>2. tree[i].key \in Keys
      BY <1>3 DEF SupervisionInv, FreshInv, LeaderAlive
    <2> QED
      BY <1>1, <2>1, <2>2
  <1> QED
    BY <1>1, <1>2, <1>3 DEF ShutdownInv, HandlersReturned, At

(* A step of Shutdown itself: StopBegin finds a live leader owned and goes *)
(* after it, and only its end or its killing takes Stop further.           *)
LEMMA MainStepKeeps ==
  ASSUME SupervisionInv, EndedInv, ShutdownInv, mode \in {"shutdown", "expired"},
         [Next]_vars, ~Gone, LockStep(Main) \/ FreeStep(Main),
         Faults \cap {"save", "flush", "signal"} = {}
  PROVE  /\ mode' = mode /\ todo' = todo /\ mu' = NoThread
         /\ ~At(Main, "idle")' => thread'[Main].op = "stop"
         /\ \A i \in Instances : LeaderAlive(tree'[i]) /\ tree'[i].owner = "daemon" =>
              tree'[i].key \in todo' \/ Stopping(i)'
  <1> DEFINE th == thread[Main]
             k == th.key
  <1>0. Main \in Threads /\ th \in ThreadStates /\ thread \in [Threads -> ThreadStates]
    BY DEF Threads, SupervisionInv, TypeOK
  <1>1. /\ th.pc # "idle" /\ th.op = "stop" /\ mu = NoThread /\ HandlersReturned
        /\ \A i \in Instances : LeaderAlive(tree[i]) /\ tree[i].owner = "daemon" =>
             tree[i].key \in todo \/ Stopping(i)
    BY <1>0, OneMoves DEF ShutdownInv, At
  <1>2. \A t \in Threads : thread[t].pc \notin StartSteps
    <2>1. Main # NoThread /\ \A c \in Clients : c # NoThread
      BY ThreadsAssumption DEF Threads
    <2> QED
      BY <1>1, <2>1 DEF SupervisionInv, ThreadInv, Threads
  <1>3. ASSUME NEW i \in Instances, LeaderAlive(tree'[i]), tree'[i].owner = "daemon"
        PROVE  /\ LeaderAlive(tree[i]) /\ tree[i].owner = "daemon"
               /\ tree'[i].key = tree[i].key
    BY <1>2, <1>3, LeaderStep DEF StartSteps
  <1>4. CASE StopBegin(Main)
    <2> DEFINE rt == registry.runtime[k]
    <2>1. th.pc = "called" /\ UNCHANGED <<mode, todo, mu, tree>>
      BY <1>4 DEF StopBegin, Enters, At, Refuse, managerVars
    <2>2. \/ thread' = [thread EXCEPT ![Main] = Idle]
          \/ thread' = [thread EXCEPT ![Main].pc = "wait", ![Main].inst = rt.inst]
          \/ thread' = [thread EXCEPT ![Main].pc = "signal", ![Main].inst = rt.inst]
      BY <1>1, <1>4 DEF StopBegin, Refuse, Return, StopSucceeds
    <2>3. ~At(Main, "idle")' => thread'[Main].op = "stop"
      BY <1>0, <1>1, <2>2 DEF At, Idle, ThreadStates
    <2>4. ASSUME NEW i \in Instances, LeaderAlive(tree[i]), tree[i].owner = "daemon",
                 tree[i].key \notin todo
          PROVE  Stopping(i)'
      <3>1. tree[i].key = k /\ k \in Keys
        BY <1>1, <2>4 DEF Stopping, SupervisionInv, FreshInv, LeaderAlive
      <3>2. active[k] = i /\ i # Nil
        BY <1>1, <2>4, <3>1, BoundAssumption
        DEF SupervisionInv, NoLeak, Starting, Instances, Nil
      <3>3. Registered(k) /\ rt.inst = i /\ rt.state \in {"running", "stopping"}
        BY <3>1, <3>2 DEF SupervisionInv, OwnerInv, Ownership
      <3>4. IsActive(rt.state)
        BY <3>3 DEF IsActive, ActiveStates
      <3>5. \/ thread' = [thread EXCEPT ![Main].pc = "wait", ![Main].inst = rt.inst]
            \/ thread' = [thread EXCEPT ![Main].pc = "signal", ![Main].inst = rt.inst]
        <4>1. ~SaveFails
          BY <1>2 DEF SaveFails, StartSteps
        <4> QED
          BY <4>1, <1>4, <3>2, <3>3, <3>4 DEF StopBegin, Save
      <3>6. /\ thread'[Main].key = k /\ thread'[Main].inst = i
            /\ thread'[Main].pc \in {"signal", "wait"}
        BY <1>0, <3>3, <3>5 DEF ThreadStates
      <3> QED
        BY <2>1, <3>1, <3>6 DEF Stopping
    <2> QED
      BY <1>1, <1>3, <2>1, <2>3, <2>4
  <1>5. CASE StatusWithError(Main)
    <2>1. /\ thread' = [thread EXCEPT ![Main] = Idle] /\ th.pc = "status"
          /\ UNCHANGED <<mode, todo, mu, tree>>
      BY <1>1, <1>5 DEF StatusWithError, StopSucceeds, Return, At, managerVars
    <2>2. \A i \in Instances : ~Stopping(i)
      BY <2>1 DEF Stopping, At
    <2>3. thread'[Main].pc = "idle"
      BY <1>0, <2>1 DEF Idle
    <2> QED
      BY <1>1, <1>3, <2>1, <2>2, <2>3 DEF At
  <1>6. CASE Signal(Main)
    <2>1. /\ thread' = [thread EXCEPT ![Main].pc = "wait"] /\ th.pc = "signal"
          /\ UNCHANGED <<mode, todo, mu>>
      BY <1>6 DEF Signal, Goto, At, managerVars
    <2>2. /\ thread'[Main].pc = "wait" /\ thread'[Main].key = k
          /\ thread'[Main].inst = th.inst /\ thread'[Main].op = "stop"
      BY <1>0, <1>1, <2>1 DEF ThreadStates
    <2>3. ASSUME NEW i \in Instances, Stopping(i), tree'[i].key = tree[i].key
          PROVE  Stopping(i)'
      BY <2>1, <2>2, <2>3 DEF Stopping, At
    <2> QED
      BY <1>1, <1>3, <2>1, <2>2, <2>3
  <1>7. CASE WaitDone(Main) \/ WaitCancelled(Main)
    <2>1. /\ th.pc = "wait" /\ th.inst \in Instances
          /\ UNCHANGED <<mode, todo, mu>>
          /\ \E result : thread' = [thread EXCEPT ![Main].pc = "status", ![Main].result = result]
      BY <1>0, <1>7 DEF WaitDone, WaitCancelled, At, managerVars, SupervisionInv, ThreadInv,
         StopSteps
    <2>2. thread'[Main].pc = "status" /\ thread'[Main].op = "stop"
      BY <1>0, <1>1, <2>1 DEF ThreadStates
    <2>3. ~LeaderAlive(tree'[th.inst])
      <3>1. tree[th.inst] \in Trees(Keys \cup {NoKey}) /\ tree \in [Instances -> Trees(Keys \cup {NoKey})]
        BY <2>1 DEF SupervisionInv, TypeOK
      <3>2. Closed(th.inst) => ~LeaderAlive(tree[th.inst])
        BY <2>1 DEF EndedInv, Ended, LeaderAlive
      <3>3. CASE WaitDone(Main)
        BY <3>2, <3>3 DEF WaitDone, Done, Closed
      <3>4. CASE WaitCancelled(Main)
        BY <2>1, <3>1, <3>2, <3>4, KillEndsLeader DEF WaitCancelled, LeaderAlive
      <3> QED
        BY <1>7, <3>3, <3>4
    <2>4. \A i \in Instances : Stopping(i) => i = th.inst
      BY <2>1 DEF Stopping, At
    <2> QED
      BY <1>1, <1>3, <2>1, <2>2, <2>3, <2>4
  <1>8. ~DefinitionStep(Main) /\ ~StartBegin(Main)
    BY <1>1 DEF DefinitionStep, AddProject, RemoveProject, AddProcess, RemoveProcess, StartBegin,
       Enters
  <1>9. ~Spawn(Main) /\ ~PersistRunning(Main) /\ ~AbortWait(Main)
    BY <1>0, <1>2 DEF Spawn, PersistRunning, AbortWait, At, StartSteps
  <1> QED
    BY <1>4, <1>5, <1>6, <1>7, <1>8, <1>9 DEF LockStep, FreeStep

(* ShutdownInv is inductive.                                               *)
LEMMA ShutdownNextKeeps ==
  ASSUME SupervisionInv, EndedInv, ShutdownInv, [Next]_vars,
         Faults \cap {"save", "flush", "signal"} = {}
  PROVE  ShutdownInv'
  <1>0. /\ Main \in Threads /\ Main \notin Clients
        /\ thread \in [Threads -> ThreadStates]
    BY ThreadsAssumption DEF Threads, SupervisionInv, TypeOK
  <1>1. CASE Gone
    BY <1>0, <1>1 DEF Gone, ShutdownInv, At, Idle
  <1>2. CASE ServeReturns
    BY <1>2, ServeReturnsKeeps
  <1>3. CASE ~Gone /\ ~ServeReturns /\ mode \notin {"shutdown", "expired"}
    <2>1. At(Main, "idle")'
      BY <1>3, MainWaits DEF ShutdownInv
    <2>2. mode' \notin {"shutdown", "expired"}
      <3>1. mode' = mode \/ mode' \in {"serving", "closing", "draining"}
        BY <1>3 DEF Next, LockStep, FreeStep, DefinitionStep, AddProject, RemoveProject,
           AddProcess, RemoveProcess, Commit, Refuse, StartBegin, StopBegin, StatusWithError,
           Spawn, PersistRunning, AbortWait, Signal, WaitDone, WaitCancelled, Call, ObserveEnd,
           RecordExit, LeaderExit, ChildExit, Boot, Terminate, AcceptFails, ShutdownNext,
           ShutdownExpires, Exit, Crash, vars
      <3> QED
        BY <1>3, <3>1
    <2> QED
      BY <2>1, <2>2 DEF ShutdownInv
  <1>4. CASE ~Gone /\ mode \in {"shutdown", "expired"}
    <2>1. /\ HandlersReturned /\ mu = NoThread
          /\ ~At(Main, "idle") => thread[Main].op = "stop"
          /\ \A i \in Instances : LeaderAlive(tree[i]) /\ tree[i].owner = "daemon" =>
               tree[i].key \in todo \/ Stopping(i)
      BY <1>4 DEF ShutdownInv
    <2>2. \A t \in Threads : thread[t].pc # "spawn"
      <3>1. \A t \in Threads : t # NoThread
        BY ThreadsAssumption
      <3> QED
        BY <2>1, <3>1 DEF SupervisionInv, ThreadInv, StartSteps
    <2>3. ASSUME NEW i \in Instances, LeaderAlive(tree'[i]), tree'[i].owner = "daemon"
          PROVE  /\ LeaderAlive(tree[i]) /\ tree[i].owner = "daemon"
                 /\ tree'[i].key = tree[i].key
      BY <1>4, <2>2, <2>3, LeaderStep
    <2>4. ASSUME NEW t \in Threads, LockStep(t) \/ FreeStep(t)
          PROVE  ShutdownInv'
      <3>1. t = Main
        BY <2>1, <2>4, OneMoves DEF HandlersReturned, At, Threads
      <3>2. HandlersReturned'
        BY <1>0, <2>1, <2>4, <3>1, OneMoves DEF HandlersReturned, At, Threads
      <3> QED
        BY <1>4, <2>4, <3>1, <3>2, MainStepKeeps DEF ShutdownInv
    <2>5. ASSUME UNCHANGED <<todo, mu, thread>>, mode' \in {"shutdown", "expired"}
          PROVE  ShutdownInv'
      <3>1. ASSUME NEW i \in Instances, Stopping(i), tree'[i].key = tree[i].key
            PROVE  Stopping(i)'
        BY <2>5, <3>1 DEF Stopping, At
      <3> QED
        BY <2>1, <2>3, <2>5, <3>1 DEF ShutdownInv, HandlersReturned, At
    <2>6. ASSUME NEW k \in Keys, ShutdownNext(k)
          PROVE  ShutdownInv'
      <3>1. /\ todo' = todo \ {k} /\ At(Main, "idle")
            /\ thread' = [thread EXCEPT ![Main] = Calling("stop", k)]
            /\ UNCHANGED <<mode, mu, tree>>
        BY <2>6 DEF ShutdownNext, managerVars
      <3>2. /\ thread'[Main] = Calling("stop", k)
            /\ \A c \in Clients : thread'[c] = thread[c]
        BY <1>0, <3>1 DEF Threads
      <3>3. \A i \in Instances : ~Stopping(i)
        BY <3>1 DEF Stopping, At
      <3>4. \A i \in Instances : tree[i].key = k => Stopping(i)'
        BY <3>1, <3>2 DEF Stopping, At, Calling
      <3> QED
        BY <1>4, <2>1, <3>1, <3>2, <3>3, <3>4 DEF ShutdownInv, HandlersReturned, At, Calling
    <2>7. ~(\E c \in Clients, op \in Requests, k \in Keys : Call(c, op, k))
      BY <1>4 DEF Call
    <2>8. CASE \E i \in Instances :
                 ObserveEnd(i) \/ RecordExit(i) \/ LeaderExit(i) \/ ChildExit(i)
      BY <1>4, <2>5, <2>8 DEF ObserveEnd, RecordExit, LeaderExit, ChildExit, managerVars
    <2>9. CASE ShutdownExpires \/ UNCHANGED vars
      BY <1>4, <2>5, <2>9 DEF ShutdownExpires, managerVars, vars
    <2>10. ~Boot /\ ~Terminate /\ ~AcceptFails /\ ~ServeReturns
      BY <1>4 DEF Boot, Terminate, AcceptFails, ServeReturns
    <2> QED
      BY <1>4, <2>4, <2>6, <2>7, <2>8, <2>9, <2>10 DEF Next, Exit, Crash
  <1> QED
    BY <1>1, <1>2, <1>3, <1>4

(* A shutdown that runs to its end leaves no leader of this daemon behind, *)
(* however many runtimes there are, whatever they do with SIGTERM, whether *)
(* they end by themselves meanwhile and whether the ten seconds expire:    *)
(* provided the stopping states can be saved and the signals sent.         *)
THEOREM ShutdownLeavesNothing ==
  ASSUME Faults \cap {"save", "flush", "signal"} = {}
  PROVE  Spec => []ShutdownStopsAll
  <1>1. Init => ShutdownInv
    BY DEF Init, ShutdownInv, At, Idle, Threads
  <1>2. SupervisionInv /\ EndedInv /\ ShutdownInv /\ [Next]_vars => ShutdownInv'
    BY ShutdownNextKeeps
  <1>3. ShutdownInv => ShutdownStopsAll
    BY DEF ShutdownInv, ShutdownStopsAll, Stopping, At
  <1> QED
    BY <1>1, <1>2, <1>3, SupervisionCorrect, EndsObserved, PTL DEF Spec
=============================================================================
