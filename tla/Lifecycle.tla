------------------------------ MODULE Lifecycle -----------------------------
(***************************************************************************)
(* The daemon's process supervision: the registry it keeps in memory and   *)
(* on disk, the LifecycleManager that owns the live processes, the request *)
(* handlers that call it, the observer goroutine of every runtime, the     *)
(* operating system underneath, and the daemon's own boot, shutdown and    *)
(* crash.                                                                  *)
(*                                                                         *)
(* manager.mu is the variable mu.  An operation that takes and releases it *)
(* in one go is one action enabled while mu is free; Start holds it over   *)
(* several steps (persist, spawn, persist again), between which processes  *)
(* exit and the daemon may crash; Stop releases it before it signals and   *)
(* waits.                                                                  *)
(***************************************************************************)
EXTENDS ProcessState, ProcessTree, FiniteSets

CONSTANTS
  Projects,      \* project IDs
  Keys,          \* processKeys, the (project, process) pairs clients may name
  ProjectOf,     \* the project of every key
  NoKey,         \* the key of an idle thread
  Clients,       \* control connections, one handler goroutine each
  Main,          \* the daemon's main goroutine, which runs Shutdown
  NoThread,      \* the holder of an unlocked mutex
  MaxInstances,  \* bound on start attempts; beyond it newInstanceID fails
  Requests,      \* the operations clients call
  Faults         \* which calls may fail, and whether the daemon may crash

Threads == Clients \cup {Main}
Instances == 1 .. MaxInstances

FaultKinds == {"save",    \* Save fails and the file keeps its old content
               "record",  \* only the Save that records a started process does
               "flush",   \* Save fails after the rename: the directory flush
               "spawn",   \* the command cannot be started
               "signal",  \* RequestStop returns an error
               "wait",    \* Wait or Close returns an error
               "accept",  \* Accept fails while the context is live
               "crash"}   \* the daemon dies

ASSUME KeysAssumption ==
  /\ ProjectOf \in [Keys -> Projects]
  /\ NoKey \notin Keys
ASSUME ThreadsAssumption == Main \notin Clients /\ NoThread \notin Threads
ASSUME BoundAssumption == MaxInstances \in Nat
ASSUME FaultsAssumption ==
  Faults \subseteq FaultKinds /\ (Platform = "windows" => "flush" \notin Faults)

Results == {"ok", "err"}
DefinitionOps == {"addProject", "removeProject", "addProcess", "removeProcess"}
Ops == DefinitionOps \cup {"start", "stop", "restart"}
StartSteps == {"spawn", "persist", "abort"}
StopSteps == {"signal", "wait", "status"}

ASSUME RequestsAssumption == Requests \subseteq Ops

VARIABLES
  mode,       \* "down", "serving", "closing" (Accept failed), "draining"
              \* (context cancelled), "shutdown", "expired" (10 s are over)
  todo,       \* keys Shutdown has still to stop
  registry,   \* manager.registry
  disk,       \* the content of registry.json
  mu,         \* manager.mu: its holder
  active,     \* manager.active: the owned instance of each key, or Nil
  outputs,    \* manager.outputs: the instance whose output each key serves
  nextInst,   \* the next fresh instance ID
  tree,       \* the operating-system process tree of each instance
  observer,   \* observeExit of each instance: "none", "waiting" (in Wait),
              \* "exited" (Wait returned), "done" (recorded, done closed)
  finishErr,  \* managedRuntime.finishErr of each instance
  thread      \* what each goroutine is doing

managerVars == <<registry, disk, mu, active, outputs, nextInst>>
vars == <<mode, todo, registry, disk, mu, active, outputs, nextInst, tree,
          observer, finishErr, thread>>

Runtimes == [inst : 0 .. MaxInstances, state : States, reason : Reasons,
             exit : ExitCodes]
Registries == [projects : SUBSET Projects, processes : SUBSET Keys,
               runtime : [Keys -> Runtimes]]
ThreadStates == [pc : {"idle", "called"} \cup StartSteps \cup StopSteps,
                 op : Ops, key : Keys \cup {NoKey}, inst : 0 .. MaxInstances,
                 result : Results]

Idle == [pc |-> "idle", op |-> "start", key |-> NoKey, inst |-> Nil,
         result |-> "ok"]
Calling(op, k) == [pc |-> "called", op |-> op, key |-> k, inst |-> Nil,
                   result |-> "ok"]

NewRegistry == [projects |-> {}, processes |-> {},
                runtime |-> [k \in Keys |-> NilRuntime]]

(* The daemon is not running; the file holds some definitions, or none.    *)
Init ==
  /\ mode = "down"
  /\ todo = {}
  /\ registry = NewRegistry
  /\ \E processes \in SUBSET Keys :
       disk = [NewRegistry EXCEPT !.projects = {ProjectOf[k] : k \in processes},
                                  !.processes = processes]
  /\ mu = NoThread
  /\ active = [k \in Keys |-> Nil]
  /\ outputs = [k \in Keys |-> Nil]
  /\ nextInst = 1
  /\ tree = [i \in Instances |-> NoTree(NoKey)]
  /\ observer = [i \in Instances |-> "none"]
  /\ finishErr = [i \in Instances |-> "ok"]
  /\ thread = [t \in Threads |-> Idle]

(***************************************************************************)
(* Persistence.                                                            *)
(***************************************************************************)

(* FileRegistry.Save: the document replaces the file atomically.  A failed *)
(* Save keeps the old file, except that on Unix the rename may be done and *)
(* only the flush of the directory fails.  A Start at "persist" holds mu,  *)
(* so that the Save that meets one there is its own.                       *)
SaveFails ==
  \/ "save" \in Faults
  \/ "record" \in Faults /\ \E t \in Threads : thread[t].pc = "persist"

Save(document, result) ==
  \/ result = "ok"  /\ disk' = document
  \/ result = "err" /\ SaveFails /\ disk' = disk
  \/ result = "err" /\ "flush" \in Faults /\ disk' = document

WithRuntime(k, rt) == [registry EXCEPT !.runtime[k] = rt]

(* LoadAndReconcile                                                        *)
Reconciled(document) ==
  [document EXCEPT !.runtime = [k \in Keys |-> Reconcile(document.runtime[k])]]

(***************************************************************************)
(* Requests.                                                               *)
(***************************************************************************)
Goto(t, pc) == thread' = [thread EXCEPT ![t].pc = pc]
Return(t) == thread' = [thread EXCEPT ![t] = Idle]

At(t, pc) == thread[t].pc = pc
Registered(k) == k \in registry.processes

Bug_NoShutdownTimeout(t) ==
  t # Main /\ mode \in {"draining", "shutdown", "expired"}

(* The context of a handler is the server's; Shutdown has its own.         *)
Cancelled(t) ==
  IF t = Main THEN mode = "expired" ELSE mode \in {"draining", "shutdown", "expired"}

(* A connection is accepted and its request decoded.                       *)
Call(c, op, k) ==
  /\ mode = "serving"
  /\ At(c, "idle")
  /\ thread' = [thread EXCEPT ![c] = Calling(op, k)]
  /\ UNCHANGED <<mode, todo, managerVars, tree, observer, finishErr>>

(* The prologue shared by every operation: the goroutine gets the lock.    *)
Enters(t, op) == At(t, "called") /\ thread[t].op = op /\ mu = NoThread

(* The operation returns an error and leaves everything as it was.         *)
Refuse(t) ==
  /\ Return(t)
  /\ UNCHANGED <<mode, todo, managerVars, tree, observer, finishErr>>

Bug_NoRollback(changed, result) == changed

(* The change is undone in memory when it could not be saved.              *)
RolledBack(changed, result) == IF result = "ok" THEN changed ELSE registry

(* The changed registry is saved; memory keeps the change, and the outputs *)
(* of the cleared keys are dropped, only if Save succeeds.                 *)
Commit(t, changed, cleared) ==
  /\ \E result \in Results :
       /\ Save(changed, result)
       /\ registry' = RolledBack(changed, result)
       /\ outputs' = [k \in Keys |-> IF result = "ok" /\ k \in cleared
                                     THEN Nil ELSE outputs[k]]
  /\ Return(t)
  /\ UNCHANGED <<mode, todo, mu, active, nextInst, tree, observer, finishErr>>

(* Both additions also refuse an input that does not validate: an empty ID *)
(* or command, a root that is not absolute, a directory that is missing.   *)
AddProject(t) ==
  LET p == ProjectOf[thread[t].key] IN
  /\ Enters(t, "addProject")
  /\ \/ Refuse(t)
     \/ /\ p \notin registry.projects
        /\ Commit(t, [registry EXCEPT !.projects = @ \cup {p}], {})

Bug_ProjectIdle(p) ==
  /\ p \in registry.projects
  /\ \A k \in registry.processes :
       ProjectOf[k] = p => ~IsActive(registry.runtime[k].state)

ProjectRemovable(p) ==
  /\ p \in registry.projects
  /\ \A k \in registry.processes : ProjectOf[k] # p

RemoveProject(t) ==
  LET p == ProjectOf[thread[t].key] IN
  /\ Enters(t, "removeProject")
  /\ \/ ~ProjectRemovable(p) /\ Refuse(t)
     \/ ProjectRemovable(p) /\ Commit(t, [registry EXCEPT !.projects = @ \ {p}], {})

AddProcess(t) ==
  LET k == thread[t].key IN
  /\ Enters(t, "addProcess")
  /\ \/ Refuse(t)
     \/ /\ ProjectOf[k] \in registry.projects
        /\ ~Registered(k)
        /\ Commit(t, [registry EXCEPT !.processes = @ \cup {k}], {})

Bug_RemoveActive(k) == Registered(k)

ProcessRemovable(k) == Registered(k) /\ ~IsActive(registry.runtime[k].state)

RemoveProcess(t) ==
  LET k == thread[t].key IN
  /\ Enters(t, "removeProcess")
  /\ \/ ~ProcessRemovable(k) /\ Refuse(t)
     \/ /\ ProcessRemovable(k)
        /\ Commit(t, [registry EXCEPT !.processes = @ \ {k},
                                      !.runtime[k] = NilRuntime], {k})

(***************************************************************************)
(* Start, which holds the lock from StartBegin to its return.              *)
(***************************************************************************)
Bug_KeepsLock(t) == UNCHANGED mu /\ Return(t)

Leave(t) == mu' = NoThread /\ Return(t)

(* An unknown definition is an error, an active runtime is returned as it  *)
(* is.  Otherwise a fresh instance is persisted as starting; if that fails *)
(* the previous runtime is put back.                                       *)
StartBegin(t) ==
  LET k == thread[t].key
      starting == WithRuntime(k, NewProcessRuntime(nextInst))
      returns == \/ ~Registered(k)
                 \/ IsActive(registry.runtime[k].state)
                 \/ nextInst > MaxInstances IN
  /\ Enters(t, "start")
  /\ \/ returns /\ Refuse(t)
     \/ /\ ~returns
        /\ Save(starting, "ok")
        /\ registry' = starting
        /\ nextInst' = nextInst + 1
        /\ mu' = t
        /\ thread' = [thread EXCEPT ![t].pc = "spawn", ![t].inst = nextInst]
        /\ UNCHANGED <<mode, todo, active, outputs, tree, observer, finishErr>>
     \/ /\ ~returns
        /\ Save(starting, "err")
        /\ nextInst' = nextInst + 1
        /\ Return(t)
        /\ UNCHANGED <<mode, todo, registry, mu, active, outputs, tree,
                       observer, finishErr>>

(* startOwnedProcess, and failStart when it fails.                         *)
Spawn(t) ==
  LET k == thread[t].key
      i == thread[t].inst
      failed == WithRuntime(k, Fail(registry.runtime[k], "start-failed")) IN
  /\ At(t, "spawn")
  /\ \/ \E kind \in TreeKinds :
          /\ tree' = [tree EXCEPT ![i] = NewTree(k, kind)]
          /\ Goto(t, "persist")
          /\ UNCHANGED <<mode, todo, managerVars, observer, finishErr>>
     \/ /\ "spawn" \in Faults
        /\ \E result \in Results : Save(failed, result)
        /\ registry' = failed
        /\ Leave(t)
        /\ UNCHANGED <<mode, todo, active, outputs, nextInst, tree, observer,
                       finishErr>>

(* The runtime is running and saved: from here the manager owns it and     *)
(* observeExit watches it.  If Save fails the process is killed instead.   *)
PersistRunning(t) ==
  LET k == thread[t].key
      i == thread[t].inst
      running == WithRuntime(k, Transition(registry.runtime[k], "running")) IN
  /\ At(t, "persist")
  /\ registry' = running
  /\ \/ /\ Save(running, "ok")
        /\ active' = [active EXCEPT ![k] = i]
        /\ outputs' = [outputs EXCEPT ![k] = i]
        /\ observer' = [observer EXCEPT ![i] = "waiting"]
        /\ Leave(t)
        /\ UNCHANGED <<mode, todo, nextInst, tree, finishErr>>
     \/ /\ Save(running, "err")
        /\ tree' = [tree EXCEPT ![i] = Kill(@)]
        /\ Goto(t, "abort")
        /\ UNCHANGED <<mode, todo, mu, active, outputs, nextInst, observer,
                       finishErr>>

(* owned.Wait() with the lock held, then failRunningProcess, which ignores *)
(* whether its Save succeeds.                                              *)
AbortWait(t) ==
  LET k == thread[t].key
      i == thread[t].inst
      failed == WithRuntime(k, Fail(registry.runtime[k], "observation-failed")) IN
  /\ At(t, "abort")
  /\ Ended(tree[i])
  /\ tree' = [tree EXCEPT ![i] = Close(@)]
  /\ registry' = failed
  /\ \E result \in Results : Save(failed, result)
  /\ Leave(t)
  /\ UNCHANGED <<mode, todo, active, outputs, nextInst, observer, finishErr>>

(***************************************************************************)
(* Stop, and Restart, which is Stop and then, unless it failed, Start.     *)
(***************************************************************************)

(* Stop returned without an error.                                         *)
StopSucceeds(t) ==
  IF thread[t].op = "restart"
  THEN thread' = [thread EXCEPT ![t] = Calling("start", thread[t].key)]
  ELSE Return(t)

(* Under the lock: nothing to do for an inactive definition, an error for  *)
(* a runtime this daemon does not own; the first Stop of a runtime persists*)
(* stopping and goes on to signal it, a later one only waits.              *)
StopBegin(t) ==
  LET k == thread[t].key
      rt == registry.runtime[k]
      stopping == WithRuntime(k, Transition(rt, "stopping"))
      idleNow == Registered(k) /\ ~IsActive(rt.state)
      owned == Registered(k) /\ IsActive(rt.state) /\ active[k] = rt.inst
      proceed(pc) == thread' = [thread EXCEPT ![t].pc = pc, ![t].inst = rt.inst] IN
  /\ Enters(t, "stop") \/ Enters(t, "restart")
  /\ \/ ~idleNow /\ ~owned /\ Refuse(t)
     \/ /\ idleNow
        /\ StopSucceeds(t)
        /\ UNCHANGED <<mode, todo, managerVars, tree, observer, finishErr>>
     \/ /\ owned
        /\ rt.state = "stopping"
        /\ proceed("wait")
        /\ UNCHANGED <<mode, todo, managerVars, tree, observer, finishErr>>
     \/ /\ owned
        /\ rt.state # "stopping"
        /\ Save(stopping, "ok")
        /\ registry' = stopping
        /\ proceed("signal")
        /\ UNCHANGED <<mode, todo, mu, active, outputs, nextInst, tree,
                       observer, finishErr>>
     \/ /\ owned
        /\ rt.state # "stopping"
        /\ Save(stopping, "err")
        /\ Return(t)
        /\ UNCHANGED <<mode, todo, registry, mu, active, outputs, nextInst,
                       tree, observer, finishErr>>

(* The platform owner is closed once Wait has returned; from then on every *)
(* signal is a no-op.                                                      *)
Closed(i) == observer[i] \in {"exited", "done"}

Bug_SignalLocked(t) ==
  /\ At(t, "signal")
  /\ mu = NoThread
  /\ mu' = t
  /\ tree' = [tree EXCEPT ![thread[t].inst] = RequestStop(@)]
  /\ Goto(t, "wait")
  /\ UNCHANGED <<mode, todo, registry, disk, active, outputs, nextInst, observer,
                 finishErr>>

(* Without the lock: RequestStop, by the call that made the transition.    *)
Signal(t) ==
  LET i == thread[t].inst IN
  /\ At(t, "signal")
  /\ \/ /\ tree' = [tree EXCEPT ![i] = IF Closed(i) THEN @ ELSE RequestStop(@)]
        /\ Goto(t, "wait")
     \/ /\ "signal" \in Faults
        /\ ~Closed(i)
        /\ thread' = [thread EXCEPT ![t].pc = "status", ![t].result = "err"]
        /\ UNCHANGED tree
  /\ UNCHANGED <<mode, todo, managerVars, observer, finishErr>>

Bug_DoneEarly(i) == Closed(i)

(* managed.done is closed.                                                 *)
Done(i) == observer[i] = "done"

(* select: done is closed, or the context ends first and the tree is       *)
(* killed.  When both are ready either branch may be taken.                *)
WaitDone(t) ==
  /\ At(t, "wait")
  /\ Done(thread[t].inst)
  /\ thread' = [thread EXCEPT ![t].pc = "status",
                              ![t].result = finishErr[thread[t].inst]]
  /\ UNCHANGED <<mode, todo, managerVars, tree, observer, finishErr>>

WaitCancelled(t) ==
  LET i == thread[t].inst IN
  /\ At(t, "wait")
  /\ Cancelled(t)
  /\ tree' = [tree EXCEPT ![i] = IF Closed(i) THEN @ ELSE Kill(@)]
  /\ thread' = [thread EXCEPT ![t].pc = "status", ![t].result = "err"]
  /\ UNCHANGED <<mode, todo, managerVars, observer, finishErr>>

(* statusWithError looks the definition up again under the lock: it may be *)
(* gone, or run a newer instance, by now.                                  *)
StatusWithError(t) ==
  /\ At(t, "status")
  /\ mu = NoThread
  /\ IF thread[t].result = "ok" /\ Registered(thread[t].key)
     THEN StopSucceeds(t) ELSE Return(t)
  /\ UNCHANGED <<mode, todo, managerVars, tree, observer, finishErr>>

(***************************************************************************)
(* observeExit, one goroutine per owned runtime.                           *)
(***************************************************************************)

(* ownedProcess.Wait: the process ended and its owner is closed.           *)
ObserveEnd(i) ==
  /\ observer[i] = "waiting"
  /\ Ended(tree[i])
  /\ observer' = [observer EXCEPT ![i] = "exited"]
  /\ tree' = [tree EXCEPT ![i] = Close(@)]
  /\ UNCHANGED <<mode, todo, managerVars, finishErr, thread>>

(* Copying the output or closing the job may fail.                         *)
WaitErrors == IF "wait" \in Faults THEN BOOLEAN ELSE {FALSE}

(* close(managed.done), deferred, with the error its waiters are to see.   *)
Release(i, result) ==
  /\ finishErr' = [finishErr EXCEPT ![i] = result]
  /\ observer' = [observer EXCEPT ![i] = "done"]

(* The terminal state is recorded and saved, the runtime is no longer      *)
(* owned and everybody who waits for it is released.  Losing the definition*)
(* or the instance in between only releases them, with an error.           *)
RecordExit(i) ==
  LET k == tree[i].key
      rt == registry.runtime[k]
      current == Registered(k) /\ rt.inst = i IN
  /\ observer[i] = "exited"
  /\ mu = NoThread
  /\ IF ~current
     THEN /\ Release(i, "err")
          /\ UNCHANGED <<registry, disk, active>>
     ELSE \E waitErr \in WaitErrors, result \in Results :
          LET next == Outcome(rt, tree[i].code, waitErr).state
              ended == WithRuntime(k, Finish(rt, tree[i].code, waitErr)) IN
          /\ IF CanTransition(rt.state, next)
             THEN Save(ended, result)
             ELSE result = "err" /\ UNCHANGED disk
          /\ registry' = ended
          /\ Release(i, result)
          /\ active' = [active EXCEPT ![k] = Nil]
  /\ UNCHANGED <<mode, todo, mu, outputs, nextInst, tree, thread>>

(***************************************************************************)
(* The operating system.                                                   *)
(***************************************************************************)
LeaderExit(i) ==
  /\ LeaderAlive(tree[i])
  /\ \E code \in NaturalCodes :
       tree' = [tree EXCEPT ![i].leader = "dead", ![i].code = code]
  /\ UNCHANGED <<mode, todo, managerVars, observer, finishErr, thread>>

ChildExit(i) ==
  /\ tree[i].child # "none"
  /\ tree' = [tree EXCEPT ![i].child = "none"]
  /\ UNCHANGED <<mode, todo, managerVars, observer, finishErr, thread>>

(***************************************************************************)
(* The daemon process.                                                     *)
(***************************************************************************)

(* runDaemon up to Serve: interrupted runtimes are failed, and the result  *)
(* saved, before anything is served.                                       *)
Boot ==
  /\ mode = "down"
  /\ \E result \in Results :
       /\ IF Reconciled(disk) = disk
          THEN result = "ok" /\ UNCHANGED disk
          ELSE Save(Reconciled(disk), result)
       /\ IF result = "ok"
          THEN mode' = "serving" /\ registry' = Reconciled(disk)
          ELSE UNCHANGED <<mode, registry>>
  /\ UNCHANGED <<todo, mu, active, outputs, nextInst, tree, observer,
                 finishErr, thread>>

(* SIGINT or SIGTERM cancels the server's context.                         *)
Terminate ==
  /\ mode \in {"serving", "closing"}
  /\ mode' = "draining"
  /\ UNCHANGED <<todo, managerVars, tree, observer, finishErr, thread>>

(* Accept returns another error: Serve leaves its loop and waits for its   *)
(* handlers with their context still live.                                 *)
AcceptFails ==
  /\ "accept" \in Faults
  /\ mode = "serving"
  /\ mode' = "closing"
  /\ UNCHANGED <<todo, managerVars, tree, observer, finishErr, thread>>

Bug_NoHandlerWait == TRUE

(* connections.Wait()                                                      *)
HandlersReturned == \A c \in Clients : At(c, "idle")

(* Serve returns once its handlers have, and Shutdown lists what is active.*)
ServeReturns ==
  /\ mode \in {"closing", "draining"}
  /\ HandlersReturned
  /\ mu = NoThread
  /\ mode' = "shutdown"
  /\ todo' = {k \in Keys : active[k] # Nil}
  /\ UNCHANGED <<managerVars, tree, observer, finishErr, thread>>

(* Shutdown stops the listed runtimes one after the other.                 *)
ShutdownNext(k) ==
  /\ mode \in {"shutdown", "expired"}
  /\ At(Main, "idle")
  /\ k \in todo
  /\ todo' = todo \ {k}
  /\ thread' = [thread EXCEPT ![Main] = Calling("stop", k)]
  /\ UNCHANGED <<mode, managerVars, tree, observer, finishErr>>

ShutdownExpires ==
  /\ mode = "shutdown"
  /\ mode' = "expired"
  /\ UNCHANGED <<todo, managerVars, tree, observer, finishErr, thread>>

(* The process is gone, with all it had in memory.                         *)
Gone ==
  /\ mode' = "down"
  /\ todo' = {}
  /\ registry' = NewRegistry
  /\ mu' = NoThread
  /\ active' = [k \in Keys |-> Nil]
  /\ outputs' = [k \in Keys |-> Nil]
  /\ tree' = [i \in Instances |-> Orphan(tree[i])]
  /\ observer' = [i \in Instances |-> "none"]
  /\ finishErr' = [i \in Instances |-> "ok"]
  /\ thread' = [t \in Threads |-> Idle]
  /\ UNCHANGED <<disk, nextInst>>

Exit ==
  /\ mode \in {"shutdown", "expired"}
  /\ todo = {}
  /\ At(Main, "idle")
  /\ Gone

Crash ==
  /\ "crash" \in Faults
  /\ mode # "down"
  /\ Gone

(***************************************************************************)
(* The specification.                                                      *)
(***************************************************************************)
DefinitionStep(t) ==
  AddProject(t) \/ RemoveProject(t) \/ AddProcess(t) \/ RemoveProcess(t)
LockStep(t) ==
  DefinitionStep(t) \/ StartBegin(t) \/ StopBegin(t) \/ StatusWithError(t)
FreeStep(t) ==
  \/ Spawn(t) \/ PersistRunning(t) \/ AbortWait(t)
  \/ Signal(t) \/ WaitDone(t) \/ WaitCancelled(t)

Next ==
  \/ \E c \in Clients, op \in Requests, k \in Keys : Call(c, op, k)
  \/ \E t \in Threads : LockStep(t) \/ FreeStep(t)
  \/ \E i \in Instances :
       ObserveEnd(i) \/ RecordExit(i) \/ LeaderExit(i) \/ ChildExit(i)
  \/ Boot \/ Terminate \/ AcceptFails \/ ServeReturns
  \/ \E k \in Keys : ShutdownNext(k)
  \/ ShutdownExpires \/ Exit \/ Crash

Spec == Init /\ [][Next]_vars

(* Fairness.  The goroutines of a live daemon run on, so a step that needs *)
(* no lock is weakly fair; Go's mutex hands over to a waiter that starves, *)
(* so a step that needs the lock is strongly fair.  A started context      *)
(* timeout fires.  A process that hears SIGTERM and got it, or holds the   *)
(* pipes of one, ends; nothing else makes a process end, a client call or  *)
(* the daemon start or stop.                                               *)
HearsAndStops(i) == tree[i].term = "yes" /\ tree[i].hearing = "hears"

Fairness ==
  /\ \A t \in Threads : WF_vars(FreeStep(t)) /\ SF_vars(LockStep(t))
  /\ \A i \in Instances :
       /\ WF_vars(ObserveEnd(i))
       /\ SF_vars(RecordExit(i))
       /\ WF_vars(HearsAndStops(i) /\ LeaderExit(i))
       /\ WF_vars(HearsAndStops(i) /\ tree[i].child = "piped" /\ ChildExit(i))
  /\ SF_vars(ServeReturns)
  /\ WF_vars(\E k \in Keys : ShutdownNext(k))
  /\ WF_vars(ShutdownExpires)
  /\ WF_vars(Exit)

FairSpec == Spec /\ Fairness

(***************************************************************************)
(* Properties.                                                             *)
(***************************************************************************)

(* Every variable keeps its type.                                          *)
TypeOK ==
  /\ mode \in {"down", "serving", "closing", "draining", "shutdown", "expired"}
  /\ todo \in SUBSET Keys
  /\ registry \in Registries
  /\ disk \in Registries
  /\ mu \in Threads \cup {NoThread}
  /\ active \in [Keys -> 0 .. MaxInstances]
  /\ outputs \in [Keys -> 0 .. MaxInstances]
  /\ nextInst \in 1 .. MaxInstances + 1
  /\ tree \in [Instances -> Trees(Keys \cup {NoKey})]
  /\ observer \in [Instances -> {"none", "waiting", "exited", "done"}]
  /\ finishErr \in [Instances -> Results]
  /\ thread \in [Threads -> ThreadStates]

(* The instance a Start in progress is bringing up for a definition.       *)
Starting(k, i) ==
  mu # NoThread /\ thread[mu].key = k /\ thread[mu].inst = i

(* manager.active and the registry never disagree: a definition with an    *)
(* active runtime is either owned under that very instance, or a Start     *)
(* that holds the lock is still bringing that instance up; the logs served *)
(* for an owned runtime are its own.  So the error                         *)
(* branches "not owned by this daemon" and "runtime ownership changed" are *)
(* never taken, and after a boot nothing claims to run.                    *)
Ownership ==
  \A k \in Keys :
    LET rt == registry.runtime[k] IN
    /\ active[k] # Nil =>
         /\ Registered(k)
         /\ rt.inst = active[k]
         /\ outputs[k] = active[k]
         /\ rt.state \in {"running", "stopping"}
         /\ observer[active[k]] \in {"waiting", "exited"}
    /\ IsActive(rt.state) => active[k] = rt.inst \/ Starting(k, rt.inst)

(* No process is leaked: a leader this daemon started and that still runs  *)
(* is owned, or is in the hands of the Start that spawned it, whatever     *)
(* Save, RequestStop or Wait returned on the way.                          *)
NoLeak ==
  \A i \in Instances :
    LeaderAlive(tree[i]) /\ tree[i].owner = "daemon" =>
      active[tree[i].key] = i \/ Starting(tree[i].key, i)

(* One active instance per definition: two start attempts of the same      *)
(* definition by the same daemon never both have a live leader.            *)
OneLeader ==
  \A i, j \in Instances :
    /\ tree[i].key = tree[j].key
    /\ LeaderAlive(tree[i]) /\ tree[i].owner = "daemon"
    /\ LeaderAlive(tree[j]) /\ tree[j].owner = "daemon"
    => i = j

(* The inductive strengthening of the three invariants above.              *)

(* A thread in an operation has a key, past its first step an instance;    *)
(* exactly the thread inside Start holds the lock.                         *)
ThreadInv ==
  \A t \in Threads :
    /\ thread[t].pc # "idle" => thread[t].key \in Keys
    /\ thread[t].pc \in StartSteps \cup StopSteps =>
         thread[t].inst \in Instances /\ thread[t].inst < nextInst
    /\ thread[t].pc \in StartSteps <=> mu = t

(* What Start has made of its definition by each of its steps.             *)
StartInv ==
  mu # NoThread =>
    LET k == thread[mu].key
        i == thread[mu].inst IN
    /\ Registered(k)
    /\ active[k] = Nil
    /\ observer[i] = "none"
    /\ registry.runtime[k].inst = i
    /\ registry.runtime[k].state = IF thread[mu].pc = "abort" THEN "running" ELSE "starting"
    /\ thread[mu].pc = "spawn" => tree[i].leader = "none"
    /\ thread[mu].pc # "spawn" => tree[i].key = k /\ tree[i].leader # "none"
    /\ thread[mu].pc = "abort" => tree[i].leader = "dead"

(* The owner of a definition and the observer of its instance agree.       *)
OwnerInv ==
  /\ Ownership
  /\ \A k \in Keys : active[k] # Nil =>
       /\ tree[active[k]].key = k
       /\ observer[active[k]] = "exited" => tree[active[k]].leader = "dead"
  /\ \A i \in Instances : observer[i] \in {"waiting", "exited"} =>
       tree[i].key \in Keys /\ active[tree[i].key] = i

(* Instance IDs are fresh: none from nextInst on is in use; a process that *)
(* was started belongs to a definition.                                    *)
FreshInv ==
  /\ \A k \in Keys :
       registry.runtime[k].inst < nextInst /\ disk.runtime[k].inst < nextInst
  /\ \A i \in Instances :
       /\ i >= nextInst => tree[i].leader = "none" /\ observer[i] = "none"
       /\ tree[i].leader # "none" => tree[i].key \in Keys

(* A runtime that is active has an instance.                               *)
ActiveInv ==
  \A k \in Keys :
    /\ IsActive(registry.runtime[k].state) => registry.runtime[k].inst # Nil
    /\ IsActive(disk.runtime[k].state) => disk.runtime[k].inst # Nil

(* Nothing is in memory while the daemon is down.                          *)
DownInv ==
  mode = "down" =>
    /\ mu = NoThread
    /\ \A t \in Threads : thread[t].pc = "idle"
    /\ \A i \in Instances : observer[i] = "none"
    /\ \A k \in Keys : active[k] = Nil /\ registry.runtime[k] = NilRuntime

(* Together: the state supervision is in at every step.                    *)
SupervisionInv ==
  /\ TypeOK /\ ThreadInv /\ StartInv /\ OwnerInv /\ FreshInv /\ ActiveInv
  /\ DownInv /\ NoLeak

(* The same of whole trees, descendants included: a new instance only      *)
(* exists once the tree of the one before it has terminated.               *)
OneTree ==
  \A i, j \in Instances :
    /\ tree[i].key = tree[j].key
    /\ TreeAlive(tree[i]) /\ tree[i].owner = "daemon"
    /\ TreeAlive(tree[j]) /\ tree[j].owner = "daemon"
    => i = j

(* A Stop that waited and is about to report success has stopped what it   *)
(* was asked to stop: the instance ended and is no longer the active one.  *)
StopStops ==
  \A t \in Threads :
    At(t, "status") /\ thread[t].result = "ok" =>
      LET i == thread[t].inst
          rt == registry.runtime[thread[t].key] IN
      /\ Ended(tree[i])
      /\ active[thread[t].key] # i
      /\ rt.inst = i => ~IsActive(rt.state)

(* What the file says is what memory says, or an earlier state of the same *)
(* start attempt.  Definitions always agree.                               *)
Earlier(old, new) ==
  /\ old.inst = new.inst
  /\ IsActive(old.state)
  /\ old.state = "starting" \/ new.state # "starting"

DiskIsPast ==
  mode # "down" =>
    /\ disk.projects = registry.projects
    /\ disk.processes = registry.processes
    /\ \A k \in Keys :
         \/ disk.runtime[k] = registry.runtime[k]
         \/ Earlier(disk.runtime[k], registry.runtime[k])

(* Definitions form a hierarchy that removal never breaks, in memory and   *)
(* on disk: every process has its project, and only a registered process   *)
(* has a runtime, an owner or output.                                      *)
Hierarchy(reg) ==
  \A k \in Keys :
    /\ k \in reg.processes => ProjectOf[k] \in reg.projects
    /\ k \notin reg.processes => reg.runtime[k] = NilRuntime

NothingDangles ==
  /\ Hierarchy(registry) /\ Hierarchy(disk)
  /\ \A k \in Keys \ registry.processes : active[k] = Nil /\ outputs[k] = Nil

(* A clean shutdown leaves no leader running.                              *)
ShutdownStopsAll ==
  (mode \in {"shutdown", "expired"} /\ todo = {} /\ At(Main, "idle")) =>
    \A i \in Instances : tree[i].owner = "daemon" => ~LeaderAlive(tree[i])

(* The inductive strengthening of StopStops, OneTree and ShutdownStopsAll. *)

(* An owner is closed only once the process has ended, and a Stop succeeds *)
(* only once the end is recorded.                                          *)
EndedInv ==
  /\ \A i \in Instances : Closed(i) => Ended(tree[i])
  /\ \A t \in Threads :
       At(t, "status") /\ thread[t].result = "ok" => Done(thread[t].inst)

(* On Windows a job ends as a whole: nothing of it outlives its owner.     *)
Contained(i) ==
  /\ tree[i].child # "escaped"
  /\ tree[i].leader = "none" => tree[i].child = "none"
  /\ Closed(i) => ~TreeAlive(tree[i])
  /\ TreeAlive(tree[i]) /\ tree[i].owner = "daemon" =>
       active[tree[i].key] = i \/ Starting(tree[i].key, i)

JobInv == \A i \in Instances : Contained(i)

(* During Shutdown no handler is left, the main goroutine only stops, and  *)
(* a leader still alive is listed or the one being stopped.                *)
Stopping(i) ==
  /\ thread[Main].key = tree[i].key
  /\ \/ At(Main, "called")
     \/ thread[Main].pc \in {"signal", "wait"} /\ thread[Main].inst = i

ShutdownInv ==
  IF mode \in {"shutdown", "expired"}
  THEN /\ HandlersReturned
       /\ mu = NoThread
       /\ ~At(Main, "idle") => thread[Main].op = "stop"
       /\ \A i \in Instances : LeaderAlive(tree[i]) /\ tree[i].owner = "daemon" =>
            tree[i].key \in todo \/ Stopping(i)
  ELSE At(Main, "idle")

(* A runtime only moves along CanTransition, in memory by one transition   *)
(* at a time, until another start attempt or a removal replaces it.        *)
LegalTransitions ==
  [][\A k \in Keys :
       LET old == registry.runtime[k]
           new == registry'.runtime[k] IN
       old.inst # Nil /\ new.inst = old.inst /\ new # old =>
         CanTransition(old.state, new.state)]_vars

(* On disk a terminal outcome is final across crashes and restarts of the  *)
(* daemon: it is only ever replaced with the definition or by a newer run. *)
DiskOutcomesFinal ==
  [][\A k \in Keys :
       LET old == disk.runtime[k]
           new == disk'.runtime[k] IN
       old.inst # Nil /\ new.inst = old.inst /\ ~IsActive(old.state) =>
         new = old]_vars

(* The inductive strengthening of NothingDangles and DiskOutcomesFinal.    *)

(* A runtime has a reason and an exit code only once it has ended.         *)
Clean(reg) ==
  \A k \in Keys : IsActive(reg.runtime[k].state) =>
    reg.runtime[k].reason = "" /\ reg.runtime[k].exit = "none"

(* An outcome the file holds of the very attempt memory is at is also the  *)
(* one in memory, so no Save takes it back.                                *)
OutcomeInv ==
  mode # "down" =>
    \A k \in Keys :
      LET old == disk.runtime[k]
          new == registry.runtime[k] IN
      old.inst # Nil /\ new.inst = old.inst /\ ~IsActive(old.state) => new = old

RegistryInv ==
  /\ NothingDangles
  /\ mode = "down" => \A k \in Keys : outputs[k] = Nil
  /\ Clean(registry) /\ Clean(disk)
  /\ OutcomeInv

(* Once the daemon is asked to terminate it does, whatever its processes   *)
(* do with SIGTERM.                                                        *)
ShutdownEnds == mode = "draining" ~> mode = "down"

(* A Stop or Restart of a runtime that hears SIGTERM does not wait forever.*)
StopEnds ==
  \A c \in Clients, i \in Instances :
    At(c, "wait") /\ thread[c].inst = i /\ HearsAndStops(i)
      ~> ~(At(c, "wait") /\ thread[c].inst = i)

(* A process that ended is recorded as ended, whatever else is going on.   *)
ExitRecorded ==
  \A k \in Keys, i \in Instances :
    observer[i] = "waiting" /\ tree[i].key = k /\ Ended(tree[i])
      ~> \/ mode = "down"
         \/ registry.runtime[k].inst # i
         \/ ~IsActive(registry.runtime[k].state)
=============================================================================
