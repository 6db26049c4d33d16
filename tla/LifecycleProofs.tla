--------------------------- MODULE LifecycleProofs --------------------------
(***************************************************************************)
(* Theorems about Lifecycle for every number of projects, definitions,     *)
(* clients and start attempts, both platforms and every set of faults.     *)
(* SupervisionInv is inductive; the safety invariants follow from it.      *)
(***************************************************************************)
EXTENDS Lifecycle, TLAPS

(***************************************************************************)
(* The operators the actions are built from keep the types.                *)
(***************************************************************************)

(* Transition returns a runtime of the same instance.                      *)
LEMMA TransitionType ==
  ASSUME NEW rt \in Runtimes, NEW state \in States
  PROVE  /\ Transition(rt, state) \in Runtimes
         /\ Transition(rt, state).inst = rt.inst
  BY DEF Transition, Runtimes

(* Fail ends an active runtime and keeps its instance.                     *)
LEMMA FailType ==
  ASSUME NEW rt \in Runtimes, NEW reason \in Reasons
  PROVE  /\ Fail(rt, reason) \in Runtimes
         /\ Fail(rt, reason).inst = rt.inst
         /\ ~IsActive(Fail(rt, reason).state)
  BY DEF Fail, Transition, CanTransition, Runtimes, States, ActiveStates,
         TerminalStates, IsActive

(* Finish ends a running or stopping runtime, by a legal transition.       *)
LEMMA FinishType ==
  ASSUME NEW rt \in Runtimes, NEW code \in ExitCodes, NEW waitErr \in BOOLEAN
  PROVE  /\ Finish(rt, code, waitErr) \in Runtimes
         /\ Finish(rt, code, waitErr).inst = rt.inst
         /\ rt.state \in {"running", "stopping"} =>
              /\ ~IsActive(Finish(rt, code, waitErr).state)
              /\ CanTransition(rt.state, Finish(rt, code, waitErr).state)
  <1> DEFINE outcome == Outcome(rt, code, waitErr)
  <1>1. /\ outcome.state \in {"failed", "stopped", "exited"}
        /\ outcome.reason \in Reasons
        /\ rt.state \in {"running", "stopping"} => CanTransition(rt.state, outcome.state)
    BY Zenon DEF Outcome, CanTransition, Reasons
  <1> HIDE DEF outcome
  <1>2. Finish(rt, code, waitErr)
          = Transition([rt EXCEPT !.exit = code, !.reason = outcome.reason],
                       outcome.state)
    BY DEF Finish, outcome
  <1> QED
    BY <1>1, <1>2 DEF Transition, CanTransition, Runtimes, States, ActiveStates,
                      TerminalStates, IsActive

(* Reconcile leaves no runtime active and keeps the instance.              *)
LEMMA ReconcileType ==
  ASSUME NEW rt \in Runtimes
  PROVE  /\ Reconcile(rt) \in Runtimes
         /\ Reconcile(rt).inst = rt.inst
         /\ ~IsActive(Reconcile(rt).state)
  BY FailType DEF Reconcile, Reasons

(* A fresh runtime is starting.                                            *)
LEMMA NewRuntimeType ==
  ASSUME NEW i \in Instances
  PROVE  /\ NewProcessRuntime(i) \in Runtimes
         /\ NewProcessRuntime(i).inst = i
         /\ NewProcessRuntime(i).state = "starting"
  <1>1. i \in 0 .. MaxInstances
    BY BoundAssumption DEF Instances
  <1> QED
    BY <1>1 DEF NewProcessRuntime, Runtimes, States, ActiveStates, TerminalStates,
                Reasons, ExitCodes

(* The runtime of a definition that was never started is not active.       *)
LEMMA NilRuntimeType == NilRuntime \in Runtimes /\ ~IsActive(NilRuntime.state)
                        /\ NilRuntime.inst = Nil
  BY BoundAssumption DEF NilRuntime, Runtimes, States, TerminalStates, ActiveStates,
     IsActive, Reasons, ExitCodes, Nil

(* Replacing one runtime changes nothing else of the registry.             *)
LEMMA WithRuntimeType ==
  ASSUME registry \in Registries, NEW k \in Keys, NEW rt \in Runtimes
  PROVE  /\ WithRuntime(k, rt) \in Registries
         /\ WithRuntime(k, rt).processes = registry.processes
         /\ WithRuntime(k, rt).runtime = [registry.runtime EXCEPT ![k] = rt]
  BY DEF WithRuntime, Registries

(* What is done to a tree keeps its key and never brings a leader back.    *)
LEMMA TreeOpsType ==
  ASSUME NEW K, NEW tr \in Trees(K), NEW op \in {Kill(tr), RequestStop(tr), Close(tr)}
  PROVE  /\ op \in Trees(K)
         /\ op.key = tr.key
         /\ op.owner = tr.owner
         /\ op.leader # tr.leader => op.leader = "dead" /\ tr.leader = "alive"
  BY DEF Trees, Kill, RequestStop, Close, ChildKinds

(* Killing the tree ends its leader.                                       *)
LEMMA KillEndsLeader ==
  ASSUME NEW K, NEW tr \in Trees(K)
  PROVE  Kill(tr).leader # "alive" /\ (tr.leader # "none" => Kill(tr).leader = "dead")
  BY DEF Trees, Kill

(* A tree that loses its daemon keeps its key and has no owner.            *)
LEMMA OrphanType ==
  ASSUME NEW K, NEW tr \in Trees(K)
  PROVE  /\ Orphan(tr) \in Trees(K)
         /\ Orphan(tr).owner = "nobody"
         /\ Orphan(tr).key = tr.key
         /\ tr.leader = "none" => Orphan(tr).leader = "none"
  <1>1. Close(tr) \in Trees(K) /\ Close(tr).key = tr.key /\ (tr.leader = "none" => Close(tr).leader = "none")
    BY TreeOpsType
  <1> QED
    BY <1>1 DEF Trees, Orphan

(* A started tree belongs to its definition and has a live leader.         *)
LEMMA NewTreeType ==
  ASSUME NEW K, NEW k \in K, NEW kind \in TreeKinds
  PROVE  /\ NewTree(k, kind) \in Trees(K)
         /\ NewTree(k, kind).key = k
         /\ NewTree(k, kind).leader = "alive"
  BY TreeKindsAssumption DEF Trees, NewTree, ChildKinds, Hearings

(* An idle goroutine is a state of a goroutine.                            *)
LEMMA IdleType == Idle \in ThreadStates
  BY BoundAssumption DEF Idle, ThreadStates, Ops, Results, Nil

(***************************************************************************)
(* SupervisionInv holds initially.                                         *)
(***************************************************************************)
(* Nothing is started, owned or in progress before the first boot.         *)
LEMMA InitInv == Init => SupervisionInv
  <1> SUFFICES ASSUME Init PROVE SupervisionInv
    OBVIOUS
  <1>1. PICK processes \in SUBSET Keys :
          disk = [NewRegistry EXCEPT !.projects = {ProjectOf[k] : k \in processes},
                                     !.processes = processes]
    BY DEF Init
  <1>2. NewRegistry \in Registries /\ NewRegistry.runtime = [k \in Keys |-> NilRuntime]
    BY NilRuntimeType DEF NewRegistry, Registries
  <1>3. {ProjectOf[k] : k \in processes} \in SUBSET Projects
    BY KeysAssumption
  <1>4. /\ registry \in Registries
        /\ disk \in Registries
        /\ \A k \in Keys : registry.runtime[k] = NilRuntime /\ disk.runtime[k] = NilRuntime
    BY <1>1, <1>2, <1>3 DEF Init, Registries
  <1>5. tree \in [Instances -> Trees(Keys \cup {NoKey})]
    BY DEF Init, NoTree, Trees, ChildKinds, Hearings
  <1>6. thread \in [Threads -> ThreadStates]
    BY IdleType DEF Init
  <1>7. Nil \in 0 .. MaxInstances /\ 1 \in 1 .. MaxInstances + 1
    BY BoundAssumption DEF Nil
  <1>8. TypeOK
    BY <1>4, <1>5, <1>6, <1>7 DEF Init, TypeOK, Results
  <1>9. ThreadInv /\ StartInv /\ DownInv
    BY <1>4, ThreadsAssumption DEF Init, ThreadInv, StartInv, DownInv, Idle, StartSteps,
       StopSteps
  <1>10. OwnerInv /\ ActiveInv /\ NoLeak
    BY <1>4, NilRuntimeType DEF Init, OwnerInv, Ownership, ActiveInv, NoLeak, NoTree, LeaderAlive
  <1>11. FreshInv
    BY <1>4, NilRuntimeType DEF Init, FreshInv, NoTree, Nil
  <1> QED
    BY <1>8, <1>9, <1>10, <1>11 DEF SupervisionInv

(***************************************************************************)
(* Every step preserves it.                                                *)
(***************************************************************************)

(* A frame for the steps that leave the registry, the lock and ownership   *)
(* alone: threads move outside Start, trees only lose processes, an        *)
(* observer only sees the end of its process, the file may have been       *)
(* replaced and instances used up.                                         *)
LEMMA QuietStepInv ==
  ASSUME SupervisionInv,
         mode' \in {"down", "serving", "closing", "draining", "shutdown", "expired"},
         mode' = "down" => mode = "down",
         todo' \in SUBSET Keys,
         UNCHANGED <<registry, mu, active, outputs, finishErr>>,
         disk' \in Registries,
         nextInst' \in 1 .. MaxInstances + 1, nextInst' >= nextInst,
         \A k \in Keys : /\ disk'.runtime[k].inst < nextInst'
                         /\ IsActive(disk'.runtime[k].state) => disk'.runtime[k].inst # Nil,
         thread' \in [Threads -> ThreadStates],
         \A t \in Threads : thread'[t] # thread[t] =>
            /\ mode' # "down"
            /\ thread[t].pc \notin StartSteps /\ thread'[t].pc \notin StartSteps
            /\ thread'[t].pc # "idle" => thread'[t].key \in Keys
            /\ thread'[t].pc \in StopSteps =>
                 thread'[t].inst \in Instances /\ thread'[t].inst < nextInst',
         tree' \in [Instances -> Trees(Keys \cup {NoKey})],
         \A i \in Instances :
            /\ tree'[i].key = tree[i].key /\ tree'[i].owner = tree[i].owner
            /\ tree'[i].leader # tree[i].leader =>
                 tree'[i].leader = "dead" /\ tree[i].leader = "alive",
         observer' \in [Instances -> {"none", "waiting", "exited", "done"}],
         \A i \in Instances : observer'[i] # observer[i] =>
            observer[i] = "waiting" /\ observer'[i] = "exited" /\ tree'[i].leader = "dead"
  PROVE  SupervisionInv'
  <1> USE DEF SupervisionInv
  <1>0. nextInst \in Nat /\ nextInst' \in Nat /\ \A i \in 0 .. MaxInstances : i \in Nat
    BY BoundAssumption DEF TypeOK
  <1>1. TypeOK'
    BY DEF TypeOK
  <1>2. ThreadInv'
    <2> SUFFICES ASSUME NEW t \in Threads
                 PROVE  /\ thread'[t].pc # "idle" => thread'[t].key \in Keys
                        /\ thread'[t].pc \in StartSteps \cup StopSteps =>
                             thread'[t].inst \in Instances /\ thread'[t].inst < nextInst'
                        /\ thread'[t].pc \in StartSteps <=> mu' = t
      BY DEF ThreadInv
    <2>1. CASE thread'[t] = thread[t]
      BY <2>1, <1>0, BoundAssumption DEF ThreadInv, Instances
    <2>2. CASE thread'[t] # thread[t]
      BY <2>2 DEF ThreadInv
    <2> QED
      BY <2>1, <2>2
  <1>3. mu # NoThread =>
          /\ mu \in Threads /\ thread'[mu] = thread[mu]
          /\ thread[mu].pc \in StartSteps
          /\ thread[mu].key \in Keys /\ thread[mu].inst \in Instances
    BY DEF TypeOK, ThreadInv, StartSteps
  <1>4. StartInv'
    <2> SUFFICES ASSUME mu # NoThread
                 PROVE  StartInv'
      BY DEF StartInv
    <2>1. thread[mu].pc # "spawn" =>
            /\ tree'[thread[mu].inst].key = thread[mu].key
            /\ tree'[thread[mu].inst].leader # "none"
      BY <1>3 DEF StartInv
    <2>2. /\ thread[mu].pc = "abort" => tree'[thread[mu].inst].leader = "dead"
          /\ thread[mu].pc = "spawn" => tree'[thread[mu].inst].leader = "none"
      BY <1>3 DEF StartInv
    <2>3. observer'[thread[mu].inst] = "none"
      BY <1>3 DEF StartInv
    <2> QED
      BY <1>3, <2>1, <2>2, <2>3 DEF StartInv, Registered
  <1>5. \A k, i : Starting(k, i)' <=> Starting(k, i)
    BY <1>3 DEF Starting
  <1>6. \A k \in Keys : active[k] # Nil => active[k] \in Instances
    BY BoundAssumption DEF TypeOK, Instances, Nil
  <1>7. Ownership'
    BY <1>5, <1>6 DEF OwnerInv, Ownership, Registered
  <1>8. OwnerInv'
    BY <1>6, <1>7 DEF OwnerInv, Ownership
  <1>9. NoLeak'
    BY <1>5 DEF NoLeak, LeaderAlive
  <1>10. FreshInv'
    <2>1. \A k \in Keys : registry'.runtime[k].inst < nextInst'
      <3> SUFFICES ASSUME NEW k \in Keys PROVE registry.runtime[k].inst < nextInst'
        OBVIOUS
      <3>1. registry.runtime[k].inst \in Nat
        BY <1>0 DEF TypeOK, Registries, Runtimes
      <3> QED
        BY <3>1, <1>0 DEF FreshInv
    <2>2. \A i \in Instances : i >= nextInst' =>
            tree'[i].leader = "none" /\ observer'[i] = "none"
      BY <1>0, BoundAssumption DEF FreshInv, Instances
    <2>3. \A i \in Instances : tree'[i].leader # "none" => tree'[i].key \in Keys
      BY DEF FreshInv
    <2> QED
      BY <2>1, <2>2, <2>3 DEF FreshInv
  <1>11. ActiveInv' /\ DownInv'
    <2>1. ActiveInv'
      BY DEF ActiveInv
    <2>2. DownInv'
      BY DEF DownInv
    <2> QED
      BY <2>1, <2>2
  <1> QED
    BY <1>1, <1>2, <1>4, <1>8, <1>9, <1>10, <1>11

(* The file and the supply of instances of a step that leaves them alone.  *)
LEMMA SameFile ==
  ASSUME SupervisionInv, UNCHANGED <<disk, nextInst>>
  PROVE  /\ disk' \in Registries
         /\ nextInst' \in 1 .. MaxInstances + 1 /\ nextInst' >= nextInst
         /\ \A k \in Keys :
              /\ disk'.runtime[k].inst < nextInst'
              /\ IsActive(disk'.runtime[k].state) => disk'.runtime[k].inst # Nil
  BY BoundAssumption DEF SupervisionInv, TypeOK, FreshInv, ActiveInv

(* A step of one thread outside Start, with one tree at most losing        *)
(* processes to it.                                                        *)
LEMMA ThreadStepInv ==
  ASSUME SupervisionInv, NEW t \in Threads, NEW th \in ThreadStates,
         thread' = [thread EXCEPT ![t] = th],
         mode # "down", mode' = mode, todo' \in SUBSET Keys,
         UNCHANGED <<managerVars, observer, finishErr>>,
         thread[t].pc \notin StartSteps, th.pc \notin StartSteps,
         th.pc # "idle" => th.key \in Keys,
         th.pc \in StopSteps => th.inst \in Instances /\ th.inst < nextInst,
         \/ UNCHANGED tree
         \/ \E i \in Instances :
              /\ tree' = [tree EXCEPT ![i] = tree'[i]]
              /\ tree'[i] \in {Kill(tree[i]), RequestStop(tree[i]), Close(tree[i])}
  PROVE  SupervisionInv'
  <1> USE DEF managerVars
  <1>1. SupervisionInv /\ TypeOK
    BY DEF SupervisionInv
  <1>2. thread' \in [Threads -> ThreadStates]
    BY <1>1 DEF TypeOK
  <1>3. \A s \in Threads : thread'[s] # thread[s] => s = t /\ thread'[s] = th
    BY <1>1 DEF TypeOK
  <1>4. /\ tree' \in [Instances -> Trees(Keys \cup {NoKey})]
        /\ \A i \in Instances :
            /\ tree'[i].key = tree[i].key /\ tree'[i].owner = tree[i].owner
            /\ tree'[i].leader # tree[i].leader =>
                 tree'[i].leader = "dead" /\ tree[i].leader = "alive"
    <2>1. CASE UNCHANGED tree
      BY <2>1, <1>1 DEF TypeOK
    <2>2. CASE ~UNCHANGED tree
      <3>1. PICK i \in Instances :
              /\ tree' = [tree EXCEPT ![i] = tree'[i]]
              /\ tree'[i] \in {Kill(tree[i]), RequestStop(tree[i]), Close(tree[i])}
        BY <2>2
      <3>2. tree[i] \in Trees(Keys \cup {NoKey})
        BY <1>1 DEF TypeOK
      <3>3. /\ tree'[i] \in Trees(Keys \cup {NoKey})
            /\ tree'[i].key = tree[i].key /\ tree'[i].owner = tree[i].owner
            /\ tree'[i].leader # tree[i].leader =>
                 tree'[i].leader = "dead" /\ tree[i].leader = "alive"
        BY <3>1, <3>2, TreeOpsType
      <3> QED
        BY <3>1, <3>3, <1>1 DEF TypeOK
    <2> QED
      BY <2>1, <2>2
  <1> QED
    BY <1>1, <1>2, <1>3, <1>4, SameFile, QuietStepInv DEF TypeOK

(* A goroutine that is not idle belongs to a daemon that is up.            *)
LEMMA BusyIsUp ==
  ASSUME SupervisionInv, NEW t \in Threads, thread[t].pc # "idle"
  PROVE  mode # "down" /\ thread[t].key \in Keys /\ thread[t] \in ThreadStates
  BY DEF SupervisionInv, DownInv, ThreadInv, TypeOK

(* A goroutine about to run an operation.                                  *)
LEMMA CallingType ==
  ASSUME NEW op \in Ops, NEW k \in Keys
  PROVE  /\ Calling(op, k) \in ThreadStates
         /\ Calling(op, k).pc = "called"
         /\ Calling(op, k).key = k
         /\ "called" \notin StartSteps \cup StopSteps
  BY BoundAssumption DEF Calling, ThreadStates, Nil, Results, StartSteps, StopSteps

(* Accepting a request.                                                    *)
LEMMA CallInv ==
  ASSUME SupervisionInv, NEW c \in Clients, NEW op \in Requests, NEW k \in Keys,
         Call(c, op, k)
  PROVE  SupervisionInv'
  <1>1. c \in Threads /\ todo \in SUBSET Keys /\ op \in Ops
    BY RequestsAssumption DEF Threads, SupervisionInv, TypeOK
  <1> QED
    BY <1>1, CallingType, ThreadStepInv DEF Call, At, StartSteps, StopSteps

(* An operation that returns, leaving everything as it was.                *)
LEMMA ReturnInv ==
  ASSUME SupervisionInv, NEW t \in Threads, mode # "down",
         thread[t].pc \notin StartSteps, Refuse(t)
  PROVE  SupervisionInv'
  <1>1. Idle \in ThreadStates /\ Idle.pc = "idle"
    BY IdleType DEF Idle
  <1>2. todo \in SUBSET Keys
    BY DEF SupervisionInv, TypeOK
  <1> QED
    BY <1>1, <1>2, ThreadStepInv DEF Refuse, Return, StartSteps, StopSteps

(* A Stop that succeeds, whether or not a Start follows it.                *)
LEMMA StopSucceedsInv ==
  ASSUME SupervisionInv, NEW t \in Threads, mode # "down",
         thread[t].pc \notin StartSteps, thread[t].key \in Keys,
         StopSucceeds(t), UNCHANGED <<mode, todo, managerVars, tree, observer, finishErr>>
  PROVE  SupervisionInv'
  <1> DEFINE th == Calling("start", thread[t].key)
  <1>1. /\ th \in ThreadStates /\ th.pc = "called" /\ th.key = thread[t].key
        /\ "called" \notin StartSteps \cup StopSteps
    BY CallingType DEF Ops
  <1> HIDE DEF th
  <1>2. \/ thread' = [thread EXCEPT ![t] = th]
        \/ Refuse(t)
    BY DEF StopSucceeds, th, Refuse
  <1>3. todo \in SUBSET Keys
    BY DEF SupervisionInv, TypeOK
  <1>4. CASE thread' = [thread EXCEPT ![t] = th]
    BY <1>1, <1>3, <1>4, ThreadStepInv
  <1>5. CASE Refuse(t)
    BY <1>5, ReturnInv
  <1> QED
    BY <1>2, <1>4, <1>5

(* Without the lock, Stop signals, waits and gives up.                     *)
LEMMA SignalInv ==
  ASSUME SupervisionInv, NEW t \in Threads, Signal(t)
  PROVE  SupervisionInv'
  <1>1. /\ mode # "down" /\ thread[t].key \in Keys /\ thread[t] \in ThreadStates
        /\ thread[t].pc = "signal" /\ todo \in SUBSET Keys
        /\ tree \in [Instances -> Trees(Keys \cup {NoKey})]
        /\ thread[t].inst \in Instances /\ thread[t].inst < nextInst
    BY BusyIsUp DEF Signal, At, SupervisionInv, TypeOK, ThreadInv, StopSteps
  <1>2. CASE Goto(t, "wait")
    <2> DEFINE th == [thread[t] EXCEPT !.pc = "wait"]
    <2>1. /\ th \in ThreadStates /\ th.pc = "wait" /\ th.key = thread[t].key
          /\ th.inst = thread[t].inst
      BY <1>1 DEF ThreadStates, StopSteps
    <2>2. thread' = [thread EXCEPT ![t] = th]
      BY <1>2 DEF Goto
    <2> HIDE DEF th
    <2>3. \/ UNCHANGED tree
          \/ \E i \in Instances :
               /\ tree' = [tree EXCEPT ![i] = tree'[i]]
               /\ tree'[i] \in {Kill(tree[i]), RequestStop(tree[i]), Close(tree[i])}
      <3>1. \/ UNCHANGED tree
            \/ tree' = [tree EXCEPT ![thread[t].inst] = RequestStop(tree[thread[t].inst])]
        BY <1>1, <1>2 DEF Signal
      <3> QED
        BY <1>1, <3>1
    <2> QED
      BY <1>1, <2>1, <2>2, <2>3, ThreadStepInv DEF Signal, StartSteps, StopSteps
  <1>3. CASE ~Goto(t, "wait")
    <2> DEFINE th == [thread[t] EXCEPT !.pc = "status", !.result = "err"]
    <2>1. /\ th \in ThreadStates /\ th.pc = "status" /\ th.key = thread[t].key
          /\ th.inst = thread[t].inst
      BY <1>1 DEF ThreadStates, StopSteps, Results
    <2>2. thread' = [thread EXCEPT ![t] = th] /\ UNCHANGED tree
      BY <1>3 DEF Signal
    <2> HIDE DEF th
    <2> QED
      BY <1>1, <2>1, <2>2, ThreadStepInv DEF Signal, StartSteps, StopSteps
  <1> QED
    BY <1>2, <1>3

(* The runtime ended while Stop waited.                                    *)
LEMMA WaitDoneInv ==
  ASSUME SupervisionInv, NEW t \in Threads, WaitDone(t)
  PROVE  SupervisionInv'
  <1>1. /\ mode # "down" /\ thread[t].key \in Keys /\ thread[t] \in ThreadStates
        /\ thread[t].pc = "wait" /\ todo \in SUBSET Keys
        /\ thread[t].inst \in Instances /\ thread[t].inst < nextInst
        /\ finishErr[thread[t].inst] \in Results
    BY BusyIsUp DEF WaitDone, At, SupervisionInv, TypeOK, ThreadInv, StopSteps
  <1> DEFINE th == [thread[t] EXCEPT !.pc = "status",
                                     !.result = finishErr[thread[t].inst]]
  <1>2. /\ th \in ThreadStates /\ th.pc = "status" /\ th.key = thread[t].key
        /\ th.inst = thread[t].inst
    BY <1>1 DEF ThreadStates, StopSteps
  <1>3. thread' = [thread EXCEPT ![t] = th]
    BY DEF WaitDone
  <1> HIDE DEF th
  <1> QED
    BY <1>1, <1>2, <1>3, ThreadStepInv DEF WaitDone, StartSteps, StopSteps

(* The context ended while Stop waited.                                    *)
LEMMA WaitCancelledInv ==
  ASSUME SupervisionInv, NEW t \in Threads, WaitCancelled(t)
  PROVE  SupervisionInv'
  <1>1. /\ mode # "down" /\ thread[t].key \in Keys /\ thread[t] \in ThreadStates
        /\ thread[t].pc = "wait" /\ todo \in SUBSET Keys
        /\ thread[t].inst \in Instances /\ thread[t].inst < nextInst
        /\ tree \in [Instances -> Trees(Keys \cup {NoKey})]
    BY BusyIsUp DEF WaitCancelled, At, SupervisionInv, TypeOK, ThreadInv, StopSteps
  <1> DEFINE th == [thread[t] EXCEPT !.pc = "status", !.result = "err"]
  <1>2. /\ th \in ThreadStates /\ th.pc = "status" /\ th.key = thread[t].key
        /\ th.inst = thread[t].inst
    BY <1>1 DEF ThreadStates, StopSteps, Results
  <1>3. thread' = [thread EXCEPT ![t] = th]
    BY DEF WaitCancelled
  <1> HIDE DEF th
  <1>4. \/ UNCHANGED tree
        \/ tree' = [tree EXCEPT ![thread[t].inst] = Kill(tree[thread[t].inst])]
    BY <1>1 DEF WaitCancelled
  <1>5. \/ UNCHANGED tree
        \/ \E i \in Instances :
             /\ tree' = [tree EXCEPT ![i] = tree'[i]]
             /\ tree'[i] \in {Kill(tree[i]), RequestStop(tree[i]), Close(tree[i])}
    BY <1>1, <1>4
  <1> QED
    BY <1>1, <1>2, <1>3, <1>5, ThreadStepInv DEF WaitCancelled, StartSteps, StopSteps

(* Stop reads the outcome back.                                            *)
LEMMA StatusInv ==
  ASSUME SupervisionInv, NEW t \in Threads, StatusWithError(t)
  PROVE  SupervisionInv'
  <1>1. /\ mode # "down" /\ thread[t].key \in Keys
        /\ thread[t].pc = "status" /\ thread[t].pc \notin StartSteps
    BY BusyIsUp DEF StatusWithError, At, StartSteps
  <1>2. StopSucceeds(t) \/ Refuse(t)
    BY DEF StatusWithError, Refuse
  <1> QED
    BY <1>1, <1>2, StopSucceedsInv, ReturnInv DEF StatusWithError

(* observeExit sees its process end.                                       *)
LEMMA ObserveEndInv ==
  ASSUME SupervisionInv, NEW i \in Instances, ObserveEnd(i)
  PROVE  SupervisionInv'
  <1> USE DEF ObserveEnd, managerVars
  <1>1. TypeOK /\ tree[i] \in Trees(Keys \cup {NoKey}) /\ tree[i].leader = "dead"
    BY DEF SupervisionInv, TypeOK, Ended
  <1>2. /\ Close(tree[i]) \in Trees(Keys \cup {NoKey})
        /\ Close(tree[i]).key = tree[i].key /\ Close(tree[i]).owner = tree[i].owner
        /\ Close(tree[i]).leader = "dead"
    BY <1>1, TreeOpsType
  <1> QED
    BY <1>1, <1>2, SameFile, QuietStepInv DEF TypeOK

(* The leader exits.                                                       *)
LEMMA LeaderExitInv ==
  ASSUME SupervisionInv, NEW i \in Instances, LeaderExit(i)
  PROVE  SupervisionInv'
  <1> USE DEF LeaderExit, managerVars
  <1>1. TypeOK /\ tree[i] \in Trees(Keys \cup {NoKey}) /\ tree[i].leader = "alive"
    BY DEF SupervisionInv, TypeOK, LeaderAlive
  <1>2. PICK code \in NaturalCodes :
          tree' = [tree EXCEPT ![i].leader = "dead", ![i].code = code]
    OBVIOUS
  <1> DEFINE tr == [tree[i] EXCEPT !.leader = "dead", !.code = code]
  <1>3. /\ tr \in Trees(Keys \cup {NoKey}) /\ tr.key = tree[i].key
        /\ tr.owner = tree[i].owner /\ tr.leader = "dead"
    BY <1>1, <1>2 DEF Trees, NaturalCodes
  <1>4. tree' = [tree EXCEPT ![i] = tr]
    BY <1>2
  <1> HIDE DEF tr
  <1> QED
    BY <1>1, <1>3, <1>4, SameFile, QuietStepInv DEF TypeOK

(* A descendant exits.                                                     *)
LEMMA ChildExitInv ==
  ASSUME SupervisionInv, NEW i \in Instances, ChildExit(i)
  PROVE  SupervisionInv'
  <1> USE DEF ChildExit, managerVars
  <1>1. TypeOK /\ tree[i] \in Trees(Keys \cup {NoKey})
    BY DEF SupervisionInv, TypeOK
  <1> DEFINE tr == [tree[i] EXCEPT !.child = "none"]
  <1>2. /\ tr \in Trees(Keys \cup {NoKey}) /\ tr.key = tree[i].key
        /\ tr.owner = tree[i].owner /\ tr.leader = tree[i].leader
    BY <1>1 DEF Trees, ChildKinds
  <1>3. tree' = [tree EXCEPT ![i] = tr]
    OBVIOUS
  <1> HIDE DEF tr
  <1> QED
    BY <1>1, <1>2, <1>3, SameFile, QuietStepInv DEF TypeOK

(* Steps of the main goroutine that only change how far the daemon is.     *)
LEMMA ModeInv ==
  ASSUME SupervisionInv, Terminate \/ AcceptFails \/ ServeReturns \/ ShutdownExpires
  PROVE  SupervisionInv'
  <1>1. /\ TypeOK /\ mode' \in {"closing", "draining", "shutdown", "expired"}
        /\ todo' \in SUBSET Keys
        /\ UNCHANGED <<managerVars, tree, observer, finishErr, thread>>
    BY DEF SupervisionInv, TypeOK, Terminate, AcceptFails, ServeReturns, ShutdownExpires
  <1> QED
    BY <1>1, SameFile, QuietStepInv DEF TypeOK, managerVars

(* Shutdown calls Stop for the next runtime.                               *)
LEMMA ShutdownNextInv ==
  ASSUME SupervisionInv, NEW k \in Keys, ShutdownNext(k)
  PROVE  SupervisionInv'
  <1>1. Main \in Threads /\ todo' \in SUBSET Keys /\ "stop" \in Ops
    BY DEF Threads, SupervisionInv, TypeOK, ShutdownNext, Ops
  <1> QED
    BY <1>1, CallingType, ThreadStepInv DEF ShutdownNext, At, StartSteps, StopSteps

(* What a Save of a well-formed document leaves in the file, failed or not.*)
LEMMA SavedFile ==
  ASSUME SupervisionInv, NEW document \in Registries, NEW result, Save(document, result),
         NEW n \in Nat, n >= nextInst,
         \A k \in Keys : /\ document.runtime[k].inst < n
                         /\ IsActive(document.runtime[k].state) =>
                              document.runtime[k].inst # Nil
  PROVE  /\ disk' \in Registries
         /\ \A k \in Keys :
              /\ disk'.runtime[k].inst < n
              /\ IsActive(disk'.runtime[k].state) => disk'.runtime[k].inst # Nil
  <1>1. disk' \in {disk, document}
    BY DEF Save
  <1>2. /\ disk \in Registries /\ nextInst \in Nat
        /\ \A k \in Keys : /\ disk.runtime[k].inst \in Nat /\ disk.runtime[k].inst < nextInst
                           /\ IsActive(disk.runtime[k].state) => disk.runtime[k].inst # Nil
    BY BoundAssumption DEF SupervisionInv, TypeOK, FreshInv, ActiveInv, Registries, Runtimes
  <1>3. \A k \in Keys : disk.runtime[k].inst < n
    BY <1>2
  <1> QED
    BY <1>1, <1>2, <1>3

(* The registry with one runtime replaced, of an instance below n.         *)
LEMMA ReplacedRuntime ==
  ASSUME SupervisionInv, NEW k \in Keys, NEW rt \in Runtimes, NEW n \in Nat,
         n >= nextInst, rt.inst < n, IsActive(rt.state) => rt.inst # Nil
  PROVE  LET reg == WithRuntime(k, rt) IN
         /\ reg \in Registries
         /\ reg.processes = registry.processes
         /\ reg.runtime[k] = rt
         /\ \A j \in Keys : j # k => reg.runtime[j] = registry.runtime[j]
         /\ \A j \in Keys : /\ reg.runtime[j].inst < n
                            /\ IsActive(reg.runtime[j].state) => reg.runtime[j].inst # Nil
  <1> DEFINE reg == WithRuntime(k, rt)
  <1>1. registry \in Registries /\ nextInst \in Nat
    BY BoundAssumption DEF SupervisionInv, TypeOK
  <1>2. /\ reg \in Registries
        /\ reg.processes = registry.processes
        /\ reg.runtime = [registry.runtime EXCEPT ![k] = rt]
    BY <1>1, WithRuntimeType
  <1>3. /\ reg.runtime[k] = rt
        /\ \A j \in Keys : j # k => reg.runtime[j] = registry.runtime[j]
    BY <1>1, <1>2 DEF Registries
  <1>4. ASSUME NEW j \in Keys
        PROVE  /\ registry.runtime[j].inst \in Nat
               /\ registry.runtime[j].inst < nextInst
               /\ IsActive(registry.runtime[j].state) => registry.runtime[j].inst # Nil
    BY <1>1, BoundAssumption DEF Registries, Runtimes, SupervisionInv, FreshInv, ActiveInv
  <1> HIDE DEF reg
  <1>5. ASSUME NEW j \in Keys
        PROVE  /\ reg.runtime[j].inst < n
               /\ IsActive(reg.runtime[j].state) => reg.runtime[j].inst # Nil
    <2>1. CASE j = k
      BY <2>1, <1>3
    <2>2. CASE j # k
      BY <2>2, <1>1, <1>3, <1>4
    <2> QED
      BY <2>1, <2>2
  <1>6. QED
    BY <1>2, <1>3, <1>5 DEF reg

(* The definition operations: a registry that differs from the old one in  *)
(* definitions and in dropped inactive runtimes is saved, or undone.       *)
LEMMA CommitInv ==
  ASSUME SupervisionInv, NEW t \in Threads, NEW changed \in Registries, NEW cleared,
         mode # "down", mu = NoThread, thread[t].pc \notin StartSteps,
         Commit(t, changed, cleared),
         \A k \in Keys :
           /\ active[k] # Nil => k \in changed.processes /\ k \notin cleared
           /\ \/ changed.runtime[k] = registry.runtime[k]
              \/ changed.runtime[k] = NilRuntime /\ ~IsActive(registry.runtime[k].state)
  PROVE  SupervisionInv'
  <1> USE DEF SupervisionInv
  <1>1. PICK result \in Results :
          /\ Save(changed, result)
          /\ registry' = RolledBack(changed, result)
          /\ outputs' = [k \in Keys |-> IF result = "ok" /\ k \in cleared
                                        THEN Nil ELSE outputs[k]]
    BY DEF Commit
  <1>2. /\ thread' = [thread EXCEPT ![t] = Idle]
        /\ UNCHANGED <<mode, todo, mu, active, nextInst, tree, observer, finishErr>>
    BY DEF Commit, Return
  <1>3. registry' \in {registry, changed} /\ registry' \in Registries
    BY <1>1 DEF RolledBack, TypeOK
  <1>4. ASSUME NEW k \in Keys
        PROVE  /\ changed.runtime[k].inst < nextInst
               /\ IsActive(changed.runtime[k].state) => changed.runtime[k].inst # Nil
    BY NilRuntimeType, BoundAssumption DEF FreshInv, ActiveInv, Nil, TypeOK
  <1>5. nextInst \in Nat
    BY BoundAssumption DEF TypeOK
  <1>6. /\ disk' \in Registries
        /\ \A k \in Keys : /\ disk'.runtime[k].inst < nextInst
                           /\ IsActive(disk'.runtime[k].state) => disk'.runtime[k].inst # Nil
    BY <1>1, <1>4, <1>5, SavedFile
  <1>7. outputs' \in [Keys -> 0 .. MaxInstances]
    BY <1>1, BoundAssumption DEF TypeOK, Nil
  <1>8. TypeOK'
    BY <1>2, <1>3, <1>6, <1>7, IdleType DEF TypeOK
  <1>9. ThreadInv'
    BY <1>2, ThreadsAssumption DEF TypeOK, ThreadInv, Idle, StartSteps, StopSteps
  <1>10. StartInv' /\ DownInv'
    BY <1>2 DEF StartInv, DownInv
  <1>11. ASSUME NEW k \in Keys
         PROVE  \/ registry'.runtime[k] = registry.runtime[k]
                \/ registry'.runtime[k] = NilRuntime /\ ~IsActive(registry.runtime[k].state)
    BY <1>3
  <1>12. ASSUME NEW k \in Keys, active[k] # Nil
         PROVE  /\ k \in registry'.processes
                /\ outputs'[k] = outputs[k]
                /\ registry'.runtime[k] = registry.runtime[k]
    <2>1. k \in registry.processes /\ IsActive(registry.runtime[k].state)
      BY <1>12 DEF OwnerInv, Ownership, Registered, IsActive, ActiveStates
    <2> QED
      BY <1>1, <1>3, <1>11, <1>12, <2>1
  <1>13. ASSUME NEW k \in Keys, IsActive(registry'.runtime[k].state)
         PROVE  registry'.runtime[k] = registry.runtime[k]
    BY <1>11, <1>13, NilRuntimeType
  <1>14. \A k, i : ~Starting(k, i) /\ ~Starting(k, i)'
    BY <1>2 DEF Starting
  <1>15. Ownership'
    BY <1>2, <1>12, <1>13, <1>14 DEF OwnerInv, Ownership, Registered
  <1>16. OwnerInv' /\ NoLeak'
    BY <1>2, <1>14, <1>15 DEF OwnerInv, NoLeak
  <1>17. FreshInv' /\ ActiveInv'
    BY <1>2, <1>3, <1>4, <1>6 DEF FreshInv, ActiveInv
  <1> QED
    BY <1>8, <1>9, <1>10, <1>16, <1>17

(* Adding and removing projects and process definitions.                   *)
LEMMA DefinitionInv ==
  ASSUME SupervisionInv, NEW t \in Threads, DefinitionStep(t)
  PROVE  SupervisionInv'
  <1> DEFINE k == thread[t].key
             p == ProjectOf[k]
  <1>1. /\ mode # "down" /\ k \in Keys /\ mu = NoThread
        /\ thread[t].pc = "called" /\ thread[t].pc \notin StartSteps
    BY BusyIsUp DEF DefinitionStep, AddProject, RemoveProject, AddProcess, RemoveProcess,
                    Enters, At, StartSteps
  <1>2. registry \in Registries /\ p \in Projects
    BY <1>1, KeysAssumption DEF SupervisionInv, TypeOK
  <1>3. \A j \in Keys : active[j] # Nil =>
          j \in registry.processes /\ IsActive(registry.runtime[j].state)
    BY DEF SupervisionInv, OwnerInv, Ownership, Registered, IsActive, ActiveStates
  <1>4. CASE Refuse(t)
    BY <1>1, <1>4, ReturnInv
  <1>5. CASE AddProject(t) /\ ~Refuse(t)
    <2> DEFINE changed == [registry EXCEPT !.projects = @ \cup {p}]
    <2>1. /\ changed \in Registries /\ changed.processes = registry.processes
          /\ changed.runtime = registry.runtime
      BY <1>2 DEF Registries
    <2>2. Commit(t, changed, {})
      BY <1>5 DEF AddProject
    <2> HIDE DEF changed
    <2> QED
      BY <1>1, <1>3, <2>1, <2>2, CommitInv
  <1>6. CASE RemoveProject(t) /\ ~Refuse(t)
    <2> DEFINE changed == [registry EXCEPT !.projects = @ \ {p}]
    <2>1. /\ changed \in Registries /\ changed.processes = registry.processes
          /\ changed.runtime = registry.runtime
      BY <1>2 DEF Registries
    <2>2. Commit(t, changed, {})
      BY <1>6 DEF RemoveProject
    <2> HIDE DEF changed
    <2> QED
      BY <1>1, <1>3, <2>1, <2>2, CommitInv
  <1>7. CASE AddProcess(t) /\ ~Refuse(t)
    <2> DEFINE changed == [registry EXCEPT !.processes = @ \cup {k}]
    <2>1. /\ changed \in Registries /\ changed.processes = registry.processes \cup {k}
          /\ changed.runtime = registry.runtime
      BY <1>1, <1>2 DEF Registries
    <2>2. Commit(t, changed, {})
      BY <1>7 DEF AddProcess
    <2> HIDE DEF changed
    <2> QED
      BY <1>1, <1>3, <2>1, <2>2, CommitInv
  <1>8. CASE RemoveProcess(t) /\ ~Refuse(t)
    <2> DEFINE changed == [registry EXCEPT !.processes = @ \ {k}, !.runtime[k] = NilRuntime]
    <2>1. /\ changed \in Registries /\ changed.processes = registry.processes \ {k}
          /\ changed.runtime = [registry.runtime EXCEPT ![k] = NilRuntime]
      BY <1>1, <1>2, NilRuntimeType DEF Registries
    <2>2. Commit(t, changed, {k}) /\ ~IsActive(registry.runtime[k].state)
      BY <1>8 DEF RemoveProcess, ProcessRemovable
    <2> HIDE DEF changed
    <2>3. active[k] = Nil
      BY <1>1, <1>3, <2>2
    <2>4. \A j \in Keys :
            /\ active[j] # Nil => j \in changed.processes /\ j \notin {k}
            /\ \/ changed.runtime[j] = registry.runtime[j]
               \/ changed.runtime[j] = NilRuntime /\ ~IsActive(registry.runtime[j].state)
      BY <1>1, <1>2, <1>3, <2>1, <2>2, <2>3 DEF Registries
    <2> QED
      BY <1>1, <2>1, <2>2, <2>4, CommitInv
  <1> QED
    BY <1>4, <1>5, <1>6, <1>7, <1>8 DEF DefinitionStep

(* Start takes the lock and persists a fresh instance as starting.         *)
LEMMA StartBeginInv ==
  ASSUME SupervisionInv, NEW t \in Threads, StartBegin(t)
  PROVE  SupervisionInv'
  <1> DEFINE k == thread[t].key
             fresh == NewProcessRuntime(nextInst)
             starting == WithRuntime(k, fresh)
  <1>1. /\ mode # "down" /\ k \in Keys /\ mu = NoThread /\ thread[t] \in ThreadStates
        /\ thread[t].pc = "called" /\ thread[t].pc \notin StartSteps
    BY BusyIsUp DEF StartBegin, Enters, At, StartSteps
  <1>2. CASE Refuse(t)
    BY <1>1, <1>2, ReturnInv
  <1>3. CASE ~Refuse(t)
    <2>1. /\ Registered(k) /\ ~IsActive(registry.runtime[k].state)
          /\ ~(nextInst > MaxInstances) /\ nextInst' = nextInst + 1
          /\ UNCHANGED <<mode, todo, active, outputs, tree, observer, finishErr>>
      BY <1>3 DEF StartBegin
    <2>2. nextInst \in Nat /\ nextInst + 1 \in Nat /\ nextInst \in Instances
          /\ nextInst + 1 \in 1 .. MaxInstances + 1 /\ nextInst # Nil
          /\ nextInst \in 0 .. MaxInstances
      BY <2>1, BoundAssumption DEF SupervisionInv, TypeOK, Instances, Nil
    <2>3. /\ fresh \in Runtimes /\ fresh.inst = nextInst /\ fresh.state = "starting"
      BY <2>2, NewRuntimeType
    <2> HIDE DEF fresh
    <2>4. /\ starting \in Registries
          /\ starting.processes = registry.processes
          /\ starting.runtime[k] = fresh
          /\ \A j \in Keys : j # k => starting.runtime[j] = registry.runtime[j]
          /\ \A j \in Keys : /\ starting.runtime[j].inst < nextInst + 1
                             /\ IsActive(starting.runtime[j].state) =>
                                  starting.runtime[j].inst # Nil
      BY <1>1, <2>2, <2>3, ReplacedRuntime
    <2> HIDE DEF starting
    <2>5. ASSUME NEW result, Save(starting, result)
          PROVE  /\ disk' \in Registries
                 /\ \A j \in Keys :
                      /\ disk'.runtime[j].inst < nextInst + 1
                      /\ IsActive(disk'.runtime[j].state) => disk'.runtime[j].inst # Nil
      BY <2>2, <2>4, <2>5, SavedFile
    <2>6. CASE Save(starting, "err") /\ Return(t) /\ UNCHANGED <<registry, mu>>
      <3>1. TypeOK
        BY DEF SupervisionInv
      <3>2. thread' = [thread EXCEPT ![t] = Idle] /\ Idle.pc = "idle" /\ Idle \in ThreadStates
        BY <2>6, IdleType DEF Return, Idle
      <3>3. thread' \in [Threads -> ThreadStates]
        BY <3>1, <3>2 DEF TypeOK
      <3>4. \A s \in Threads : thread'[s] # thread[s] =>
              /\ s = t /\ thread'[s].pc = "idle"
              /\ "idle" \notin StartSteps \cup StopSteps
        BY <3>1, <3>2 DEF TypeOK, StartSteps, StopSteps
      <3> QED
        <4>1. nextInst' \in 1 .. MaxInstances + 1 /\ nextInst' >= nextInst
          BY <2>1, <2>2
        <4>2. /\ disk' \in Registries
              /\ \A j \in Keys :
                   /\ disk'.runtime[j].inst < nextInst'
                   /\ IsActive(disk'.runtime[j].state) => disk'.runtime[j].inst # Nil
          BY <2>1, <2>5, <2>6
        <4>3. UNCHANGED <<mode, todo, tree, observer, registry, mu, active, outputs, finishErr>>
          BY <2>1, <2>6
        <4> QED
          BY <1>1, <3>1, <3>3, <3>4, <4>1, <4>2, <4>3, QuietStepInv DEF TypeOK
    <2>7. CASE /\ Save(starting, "ok") /\ registry' = starting /\ mu' = t
               /\ thread' = [thread EXCEPT ![t].pc = "spawn", ![t].inst = nextInst]
      <3> USE DEF SupervisionInv
      <3> DEFINE th == [thread[t] EXCEPT !.pc = "spawn", !.inst = nextInst]
      <3>1. /\ th \in ThreadStates /\ th.pc = "spawn" /\ th.key = k /\ th.inst = nextInst
        BY <1>1, <2>2 DEF ThreadStates, StartSteps
      <3>2. thread' = [thread EXCEPT ![t] = th]
        BY <2>7
      <3> HIDE DEF th
      <3>3. thread' \in [Threads -> ThreadStates] /\ thread'[t] = th
            /\ \A s \in Threads : s # t => thread'[s] = thread[s]
        BY <3>1, <3>2 DEF TypeOK
      <3>4. TypeOK'
        BY <2>1, <2>2, <2>4, <2>5, <2>7, <3>3 DEF TypeOK
      <3>5. ThreadInv'
        <4> SUFFICES ASSUME NEW s \in Threads
                     PROVE  /\ thread'[s].pc # "idle" => thread'[s].key \in Keys
                            /\ thread'[s].pc \in StartSteps \cup StopSteps =>
                                 thread'[s].inst \in Instances /\ thread'[s].inst < nextInst'
                            /\ thread'[s].pc \in StartSteps <=> mu' = s
          BY DEF ThreadInv
        <4>1. CASE s = t
          BY <4>1, <1>1, <2>1, <2>2, <2>7, <3>1, <3>3 DEF StartSteps
        <4>2. CASE s # t
          BY <4>2, <1>1, <2>1, <2>2, <2>7, <3>3, ThreadsAssumption, BoundAssumption
          DEF ThreadInv, Instances
        <4> QED
          BY <4>1, <4>2
      <3>6. active[k] = Nil /\ tree[nextInst].leader = "none" /\ observer[nextInst] = "none"
        BY <1>1, <2>1, <2>2 DEF OwnerInv, Ownership, FreshInv, IsActive, ActiveStates
      <3>7. StartInv'
        BY <1>1, <2>1, <2>3, <2>4, <2>7, <3>1, <3>3, <3>6 DEF StartInv, Registered
      <3>8. /\ mu' # NoThread /\ thread'[mu'].key = k /\ thread'[mu'].inst = nextInst
            /\ \A j, i : ~Starting(j, i)
        BY <1>1, <2>7, <3>1, <3>3, ThreadsAssumption DEF Starting
      <3>9. Ownership'
        <4> SUFFICES ASSUME NEW j \in Keys
                     PROVE  LET rt == registry'.runtime[j] IN
                            /\ active'[j] # Nil =>
                                 /\ j \in registry'.processes
                                 /\ rt.inst = active'[j]
                                 /\ outputs'[j] = active'[j]
                                 /\ rt.state \in {"running", "stopping"}
                                 /\ observer'[active'[j]] \in {"waiting", "exited"}
                            /\ IsActive(rt.state) =>
                                 \/ active'[j] = rt.inst
                                 \/ /\ mu' # NoThread
                                    /\ thread'[mu'].key = j /\ thread'[mu'].inst = rt.inst
          BY DEF Ownership, Registered, Starting
        <4>1. CASE j = k
          BY <4>1, <2>1, <2>3, <2>4, <2>7, <3>6, <3>8
        <4>2. CASE j # k
          BY <4>2, <2>1, <2>4, <2>7, <3>8 DEF OwnerInv, Ownership, Registered
        <4> QED
          BY <4>1, <4>2
      <3>10. OwnerInv'
        BY <2>1, <3>9 DEF OwnerInv
      <3>11. NoLeak'
        BY <2>1, <3>8 DEF NoLeak
      <3>12. FreshInv'
        <4>1. \A i \in Instances : i >= nextInst' =>
                tree'[i].leader = "none" /\ observer'[i] = "none"
          BY <2>1, <2>2, BoundAssumption DEF FreshInv, Instances
        <4> QED
          BY <2>1, <2>4, <2>5, <2>7, <4>1, FreshInv DEF FreshInv
      <3>13. ActiveInv' /\ DownInv'
        BY <1>1, <2>1, <2>4, <2>5, <2>7 DEF ActiveInv, DownInv
      <3> QED
        BY <3>4, <3>5, <3>7, <3>10, <3>11, <3>12, <3>13
    <2> QED
      BY <1>3, <2>6, <2>7 DEF StartBegin, starting, fresh
  <1> QED
    BY <1>2, <1>3

(* What a goroutine inside Start can rely on.                              *)
LEMMA InStart ==
  ASSUME SupervisionInv, NEW t \in Threads, thread[t].pc \in StartSteps
  PROVE  LET k == thread[t].key
             i == thread[t].inst IN
         /\ mu = t /\ mu # NoThread /\ mode # "down"
         /\ k \in Keys /\ i \in Instances /\ i < nextInst /\ i # Nil
         /\ thread[t] \in ThreadStates
         /\ registry.runtime[k] \in Runtimes /\ registry.runtime[k].inst = i
         /\ nextInst \in Nat
  BY ThreadsAssumption, BoundAssumption
  DEF SupervisionInv, TypeOK, ThreadInv, StartInv, DownInv, StartSteps, Registries,
      Instances, Nil

(* Start returns, having given its instance up or handed it to observeExit.*)
LEMMA LeaveInv ==
  ASSUME SupervisionInv, NEW t \in Threads, thread[t].pc \in StartSteps, Leave(t),
         NEW rt \in Runtimes, rt.inst = thread[t].inst,
         registry' = WithRuntime(thread[t].key, rt),
         NEW result, Save(WithRuntime(thread[t].key, rt), result),
         UNCHANGED <<mode, todo, nextInst, finishErr>>,
         tree' \in [Instances -> Trees(Keys \cup {NoKey})],
         \A j \in Instances :
            /\ tree'[j].key = tree[j].key /\ tree'[j].owner = tree[j].owner
            /\ tree'[j].leader # tree[j].leader =>
                 tree'[j].leader = "dead" /\ tree[j].leader = "alive",
         active' \in [Keys -> 0 .. MaxInstances],
         outputs' \in [Keys -> 0 .. MaxInstances],
         observer' \in [Instances -> {"none", "waiting", "exited", "done"}],
         \A j \in Keys : j # thread[t].key =>
            active'[j] = active[j] /\ outputs'[j] = outputs[j],
         \A j \in Instances : j # thread[t].inst => observer'[j] = observer[j],
         \/ /\ ~IsActive(rt.state)
            /\ tree'[thread[t].inst].leader # "alive"
            /\ active'[thread[t].key] = Nil
            /\ observer'[thread[t].inst] = "none"
         \/ /\ rt.state = "running"
            /\ thread[t].pc = "persist"
            /\ active'[thread[t].key] = thread[t].inst
            /\ outputs'[thread[t].key] = thread[t].inst
            /\ observer'[thread[t].inst] = "waiting"
  PROVE  SupervisionInv'
  <1> DEFINE k == thread[t].key
             i == thread[t].inst
  <1> USE DEF SupervisionInv
  <1>1. /\ mu = t /\ mu # NoThread /\ mode # "down"
        /\ k \in Keys /\ i \in Instances /\ i < nextInst /\ i # Nil
        /\ nextInst \in Nat
    BY InStart
  <1>2. /\ registry' \in Registries
        /\ registry'.processes = registry.processes
        /\ registry'.runtime[k] = rt
        /\ \A j \in Keys : j # k => registry'.runtime[j] = registry.runtime[j]
        /\ \A j \in Keys :
             /\ registry'.runtime[j].inst < nextInst
             /\ IsActive(registry'.runtime[j].state) => registry'.runtime[j].inst # Nil
    BY <1>1, ReplacedRuntime
  <1>3. /\ disk' \in Registries
        /\ \A j \in Keys : /\ disk'.runtime[j].inst < nextInst
                           /\ IsActive(disk'.runtime[j].state) => disk'.runtime[j].inst # Nil
    BY <1>1, <1>2, SavedFile
  <1>4. /\ mu' = NoThread /\ thread' = [thread EXCEPT ![t] = Idle]
        /\ Idle.pc = "idle" /\ Idle \in ThreadStates
    BY IdleType DEF Leave, Return, Idle
  <1>5. /\ k \in registry.processes /\ active[k] = Nil /\ observer[i] = "none"
        /\ thread[t].pc = "persist" => tree[i].key = k
    BY <1>1 DEF StartInv, Registered
  <1> HIDE DEF k, i
  <1>6. /\ active' \in [Keys -> 0 .. MaxInstances] /\ outputs' \in [Keys -> 0 .. MaxInstances]
        /\ observer' \in [Instances -> {"none", "waiting", "exited", "done"}]
        /\ \A j \in Keys : j # k => active'[j] = active[j] /\ outputs'[j] = outputs[j]
        /\ \A j \in Instances : j # i => observer'[j] = observer[j]
    BY DEF k, i
  <1>7. \/ /\ ~IsActive(rt.state)
           /\ tree'[i].leader # "alive" /\ active'[k] = Nil /\ observer'[i] = "none"
        \/ /\ rt.state = "running" /\ thread[t].pc = "persist"
           /\ active'[k] = i /\ outputs'[k] = i /\ observer'[i] = "waiting"
    BY DEF k, i
  <1>8. TypeOK'
    BY <1>2, <1>3, <1>4, <1>6 DEF TypeOK
  <1>9. ThreadInv'
    BY <1>1, <1>4, ThreadsAssumption DEF TypeOK, ThreadInv, StartSteps, StopSteps
  <1>10. StartInv' /\ DownInv'
    BY <1>1, <1>4 DEF StartInv, DownInv
  <1>11. \A j \in Keys : active[j] # Nil => active[j] \in Instances /\ active[j] # i
    <2>1. \A j \in Keys : active[j] # Nil => active[j] \in Instances
      BY BoundAssumption DEF TypeOK, Instances, Nil
    <2>2. \A j \in Keys : active[j] # Nil => observer[active[j]] # "none"
      BY DEF OwnerInv, Ownership
    <2> QED
      BY <2>1, <2>2, <1>5
  <1>12. ASSUME NEW j \in Keys
         PROVE  /\ active'[j] # Nil =>
                     /\ j \in registry'.processes
                     /\ registry'.runtime[j].inst = active'[j]
                     /\ outputs'[j] = active'[j]
                     /\ registry'.runtime[j].state \in {"running", "stopping"}
                     /\ observer'[active'[j]] \in {"waiting", "exited"}
                     /\ tree'[active'[j]].key = j
                     /\ observer'[active'[j]] = "exited" => tree'[active'[j]].leader = "dead"
                /\ IsActive(registry'.runtime[j].state) =>
                     active'[j] = registry'.runtime[j].inst
    <2>1. CASE j = k
      BY <2>1, <1>1, <1>2, <1>5, <1>7 DEF i
    <2>2. CASE j # k
      <3>1. registry'.runtime[j] = registry.runtime[j] /\ active'[j] = active[j]
            /\ outputs'[j] = outputs[j]
        BY <2>2, <1>2, <1>6
      <3>2. IsActive(registry.runtime[j].state) => active[j] = registry.runtime[j].inst
        BY <2>2, <1>1 DEF OwnerInv, Ownership, Starting, k
      <3>3. active[j] # Nil => observer'[active[j]] = observer[active[j]]
        BY <1>6, <1>11
      <3> QED
        BY <3>1, <3>2, <3>3, <1>2, <1>11 DEF OwnerInv, Ownership, Registered
    <2> QED
      BY <2>1, <2>2
  <1>13. Ownership'
    BY <1>12 DEF Ownership, Registered
  <1>14. ASSUME NEW j \in Instances, observer'[j] \in {"waiting", "exited"}
         PROVE  tree'[j].key \in Keys /\ active'[tree'[j].key] = j
    <2>1. CASE j = i
      BY <2>1, <1>1, <1>5, <1>7, <1>14
    <2>2. CASE j # i
      <3>1. observer[j] \in {"waiting", "exited"} /\ tree'[j].key = tree[j].key
        BY <2>2, <1>6, <1>14
      <3>2. tree[j].key \in Keys /\ active[tree[j].key] = j
        BY <3>1 DEF OwnerInv
      <3>3. tree[j].key # k
        BY <3>2, <1>5, BoundAssumption DEF Instances, Nil
      <3> QED
        BY <3>1, <3>2, <3>3, <1>6
    <2> QED
      BY <2>1, <2>2
  <1>15. OwnerInv'
    BY <1>12, <1>13, <1>14 DEF OwnerInv
  <1>16. NoLeak'
    <2> SUFFICES ASSUME NEW j \in Instances, tree'[j].leader = "alive",
                        tree'[j].owner = "daemon"
                 PROVE  active'[tree'[j].key] = j
      BY DEF NoLeak, LeaderAlive
    <2>1. tree[j].leader = "alive" /\ tree[j].owner = "daemon" /\ tree'[j].key = tree[j].key
      OBVIOUS
    <2>2. CASE j = i
      BY <2>2, <1>5, <1>7, <2>1
    <2>3. CASE j # i
      <3>1. active[tree[j].key] = j
        BY <2>1, <2>3, <1>1 DEF NoLeak, LeaderAlive, Starting, i
      <3>2. tree[j].key # k
        BY <3>1, <1>5, BoundAssumption DEF Instances, Nil
      <3>3. active'[tree[j].key] = active[tree[j].key]
        BY <3>2, <1>6, <2>1 DEF FreshInv
      <3> QED
        BY <3>1, <3>3, <2>1
    <2> QED
      BY <2>2, <2>3
  <1>17. FreshInv'
    <2>1. \A j \in Instances : j >= nextInst => j # i
      BY <1>1, BoundAssumption DEF Instances
    <2>2. \A j \in Instances : j >= nextInst' =>
            tree'[j].leader = "none" /\ observer'[j] = "none"
      BY <2>1, <1>6 DEF FreshInv
    <2>3. \A j \in Instances : tree'[j].leader # "none" => tree'[j].key \in Keys
      BY DEF FreshInv
    <2> QED
      BY <1>2, <1>3, <2>2, <2>3 DEF FreshInv
  <1>18. ActiveInv'
    BY <1>2, <1>3 DEF ActiveInv
  <1> QED
    BY <1>8, <1>9, <1>10, <1>15, <1>16, <1>17, <1>18

(* Start moves on to a later step, with its tree and its runtime.          *)
LEMMA StartStepInv ==
  ASSUME SupervisionInv, NEW t \in Threads, thread[t].pc \in StartSteps,
         NEW pc \in {"persist", "abort"}, Goto(t, pc),
         NEW tr \in Trees(Keys \cup {NoKey}), tree' = [tree EXCEPT ![thread[t].inst] = tr],
         tr.key = thread[t].key, tr.leader # "none",
         pc = "abort" => tr.leader = "dead",
         NEW rt \in Runtimes, rt.inst = thread[t].inst,
         rt.state = IF pc = "abort" THEN "running" ELSE "starting",
         registry' = WithRuntime(thread[t].key, rt),
         \/ UNCHANGED disk
         \/ \E result \in Results : Save(WithRuntime(thread[t].key, rt), result),
         UNCHANGED <<mode, todo, mu, active, outputs, nextInst, observer, finishErr>>
  PROVE  SupervisionInv'
  <1> DEFINE k == thread[t].key
             i == thread[t].inst
  <1> USE DEF SupervisionInv
  <1>1. /\ mu = t /\ mu # NoThread /\ mode # "down"
        /\ k \in Keys /\ i \in Instances /\ i < nextInst /\ i # Nil
        /\ nextInst \in Nat /\ thread[t] \in ThreadStates
    BY InStart
  <1>2. /\ registry' \in Registries
        /\ registry'.processes = registry.processes
        /\ registry'.runtime[k] = rt
        /\ \A j \in Keys : j # k => registry'.runtime[j] = registry.runtime[j]
        /\ \A j \in Keys :
             /\ registry'.runtime[j].inst < nextInst
             /\ IsActive(registry'.runtime[j].state) => registry'.runtime[j].inst # Nil
    BY <1>1, ReplacedRuntime
  <1>3. /\ disk' \in Registries
        /\ \A j \in Keys : /\ disk'.runtime[j].inst < nextInst
                           /\ IsActive(disk'.runtime[j].state) => disk'.runtime[j].inst # Nil
    <2>1. CASE UNCHANGED disk
      BY <2>1 DEF TypeOK, FreshInv, ActiveInv
    <2>2. CASE ~UNCHANGED disk
      BY <2>2, <1>1, <1>2, SavedFile
    <2> QED
      BY <2>1, <2>2
  <1> DEFINE th == [thread[t] EXCEPT !.pc = pc]
  <1>4. /\ th \in ThreadStates /\ th.pc = pc /\ th.key = k /\ th.inst = i
        /\ thread' = [thread EXCEPT ![t] = th]
    BY <1>1 DEF ThreadStates, Goto, StartSteps
  <1>5. /\ k \in registry.processes /\ active[k] = Nil /\ observer[i] = "none"
    BY <1>1 DEF StartInv, Registered
  <1> HIDE DEF k, i, th
  <1>6. /\ thread' \in [Threads -> ThreadStates] /\ thread'[t] = th
        /\ \A s \in Threads : s # t => thread'[s] = thread[s]
    BY <1>4 DEF TypeOK
  <1>7. /\ tree' \in [Instances -> Trees(Keys \cup {NoKey})] /\ tree'[i] = tr
        /\ \A j \in Instances : j # i => tree'[j] = tree[j]
    BY <1>1 DEF TypeOK, i
  <1>8. TypeOK'
    BY <1>2, <1>3, <1>6, <1>7 DEF TypeOK
  <1>9. ThreadInv'
    <2> SUFFICES ASSUME NEW s \in Threads
                 PROVE  /\ thread'[s].pc # "idle" => thread'[s].key \in Keys
                        /\ thread'[s].pc \in StartSteps \cup StopSteps =>
                             thread'[s].inst \in Instances /\ thread'[s].inst < nextInst'
                        /\ thread'[s].pc \in StartSteps <=> mu' = s
      BY DEF ThreadInv
    <2>1. CASE s = t
      BY <2>1, <1>1, <1>4, <1>6 DEF StartSteps
    <2>2. CASE s # t
      BY <2>2, <1>1, <1>6 DEF ThreadInv
    <2> QED
      BY <2>1, <2>2
  <1>10. StartInv' /\ DownInv'
    <2>1. StartInv'
      BY <1>1, <1>2, <1>4, <1>5, <1>6, <1>7 DEF StartInv, Registered, k, i
    <2> QED
      BY <2>1, <1>1 DEF DownInv
  <1>11. \A j \in Keys : active[j] # Nil => active[j] \in Instances /\ active[j] # i
    <2>1. \A j \in Keys : active[j] # Nil => active[j] \in Instances
      BY BoundAssumption DEF TypeOK, Instances, Nil
    <2>2. \A j \in Keys : active[j] # Nil => observer[active[j]] # "none"
      BY DEF OwnerInv, Ownership
    <2> QED
      BY <2>1, <2>2, <1>5
  <1>12. Ownership'
    <2> SUFFICES ASSUME NEW j \in Keys
                 PROVE  /\ active[j] # Nil =>
                             /\ j \in registry'.processes
                             /\ registry'.runtime[j].inst = active[j]
                             /\ outputs[j] = active[j]
                             /\ registry'.runtime[j].state \in {"running", "stopping"}
                             /\ observer[active[j]] \in {"waiting", "exited"}
                        /\ IsActive(registry'.runtime[j].state) =>
                             \/ active[j] = registry'.runtime[j].inst
                             \/ /\ thread'[t].key = j
                                /\ thread'[t].inst = registry'.runtime[j].inst
      BY <1>1 DEF Ownership, Registered, Starting
    <2>1. CASE j = k
      BY <2>1, <1>2, <1>4, <1>5, <1>6 DEF i
    <2>2. CASE j # k
      <3>1. registry'.runtime[j] = registry.runtime[j]
        BY <2>2, <1>2
      <3>2. ~Starting(j, registry.runtime[j].inst)
        BY <2>2, <1>1 DEF Starting, k
      <3> QED
        BY <3>1, <3>2, <1>2 DEF OwnerInv, Ownership, Registered
    <2> QED
      BY <2>1, <2>2
  <1>13. OwnerInv'
    <2>1. \A j \in Keys : active'[j] # Nil =>
            /\ tree'[active'[j]].key = j
            /\ observer'[active'[j]] = "exited" => tree'[active'[j]].leader = "dead"
      BY <1>7, <1>11 DEF OwnerInv
    <2>2. \A j \in Instances : observer'[j] \in {"waiting", "exited"} =>
            tree'[j].key \in Keys /\ active'[tree'[j].key] = j
      BY <1>5, <1>7 DEF OwnerInv
    <2> QED
      BY <1>12, <2>1, <2>2 DEF OwnerInv
  <1>14. NoLeak'
    <2> SUFFICES ASSUME NEW j \in Instances, tree'[j].leader = "alive",
                        tree'[j].owner = "daemon"
                 PROVE  \/ active[tree'[j].key] = j
                        \/ thread'[t].key = tree'[j].key /\ thread'[t].inst = j
      BY <1>1 DEF NoLeak, LeaderAlive, Starting
    <2>1. CASE j = i
      BY <2>1, <1>4, <1>6, <1>7 DEF k
    <2>2. CASE j # i
      BY <2>2, <1>1, <1>7 DEF NoLeak, LeaderAlive, Starting, i
    <2> QED
      BY <2>1, <2>2
  <1>15. FreshInv'
    <2>1. ASSUME NEW j \in Instances
          PROVE  /\ j >= nextInst' => tree'[j].leader = "none" /\ observer'[j] = "none"
                 /\ tree'[j].leader # "none" => tree'[j].key \in Keys
      <3>1. CASE j = i
        BY <3>1, <1>1, <1>7, BoundAssumption DEF Instances, k
      <3>2. CASE j # i
        BY <3>2, <1>7 DEF FreshInv
      <3> QED
        BY <3>1, <3>2
    <2> QED
      BY <1>2, <1>3, <2>1 DEF FreshInv
  <1>16. ActiveInv'
    BY <1>2, <1>3 DEF ActiveInv
  <1> QED
    BY <1>8, <1>9, <1>10, <1>13, <1>14, <1>15, <1>16

(* Start spawns the command, or records that it could not.                 *)
LEMMA SpawnInv ==
  ASSUME SupervisionInv, NEW t \in Threads, Spawn(t)
  PROVE  SupervisionInv'
  <1> DEFINE k == thread[t].key
             i == thread[t].inst
             rt == registry.runtime[k]
             failed == Fail(rt, "start-failed")
  <1>1. thread[t].pc = "spawn" /\ thread[t].pc \in StartSteps
    BY DEF Spawn, At, StartSteps
  <1>2. /\ mu = t /\ mu # NoThread /\ k \in Keys /\ i \in Instances
        /\ rt \in Runtimes /\ rt.inst = i
    BY <1>1, InStart
  <1>3. /\ tree \in [Instances -> Trees(Keys \cup {NoKey})]
        /\ registry \in Registries
        /\ rt.state = "starting" /\ tree[i].leader = "none"
    BY <1>1, <1>2 DEF SupervisionInv, TypeOK, StartInv
  <1>4. CASE \E kind \in TreeKinds :
               /\ tree' = [tree EXCEPT ![i] = NewTree(k, kind)]
               /\ Goto(t, "persist")
               /\ UNCHANGED <<mode, todo, managerVars, observer, finishErr>>
    <2>1. PICK kind \in TreeKinds :
            /\ tree' = [tree EXCEPT ![i] = NewTree(k, kind)]
            /\ Goto(t, "persist")
            /\ UNCHANGED <<mode, todo, managerVars, observer, finishErr>>
      BY <1>4
    <2>2. /\ NewTree(k, kind) \in Trees(Keys \cup {NoKey})
          /\ NewTree(k, kind).key = k /\ NewTree(k, kind).leader = "alive"
      BY <1>2, NewTreeType
    <2>3. registry = WithRuntime(k, rt)
      BY <1>2, <1>3 DEF WithRuntime, Registries
    <2> QED
      BY <1>1, <1>2, <1>3, <2>1, <2>2, <2>3, StartStepInv DEF managerVars
  <1>5. CASE /\ \E result \in Results : Save(WithRuntime(k, failed), result)
             /\ registry' = WithRuntime(k, failed)
             /\ Leave(t)
             /\ UNCHANGED <<mode, todo, active, outputs, nextInst, tree, observer, finishErr>>
    <2>1. failed \in Runtimes /\ failed.inst = i /\ ~IsActive(failed.state)
      BY <1>2, FailType DEF Reasons
    <2> HIDE DEF failed
    <2>2. PICK result \in Results : Save(WithRuntime(k, failed), result)
      BY <1>5
    <2>3. active[k] = Nil /\ observer[i] = "none"
      BY <1>2 DEF SupervisionInv, StartInv
    <2> QED
      BY <1>1, <1>3, <1>5, <2>1, <2>2, <2>3, LeaveInv DEF SupervisionInv, TypeOK
  <1> QED
    BY <1>4, <1>5 DEF Spawn

(* Start persists running and hands over, or kills what it started.        *)
LEMMA PersistInv ==
  ASSUME SupervisionInv, NEW t \in Threads, PersistRunning(t)
  PROVE  SupervisionInv'
  <1> DEFINE k == thread[t].key
             i == thread[t].inst
             running == Transition(registry.runtime[k], "running")
  <1>1. thread[t].pc = "persist" /\ thread[t].pc \in StartSteps
    BY DEF PersistRunning, At, StartSteps
  <1>2. /\ mu = t /\ mu # NoThread /\ k \in Keys /\ i \in Instances
        /\ registry.runtime[k] \in Runtimes /\ registry.runtime[k].inst = i
    BY <1>1, InStart
  <1>3. /\ tree \in [Instances -> Trees(Keys \cup {NoKey})]
        /\ registry.runtime[k].state = "starting"
        /\ tree[i].key = k /\ tree[i].leader # "none"
    BY <1>1, <1>2 DEF SupervisionInv, TypeOK, StartInv
  <1>4. running \in Runtimes /\ running.inst = i /\ running.state = "running"
    <2>1. "running" \in States
      BY DEF States, ActiveStates
    <2>2. running \in Runtimes /\ running.inst = i
      BY <1>2, <2>1, TransitionType
    <2> QED
      BY <1>2, <1>3, <2>2 DEF Transition, CanTransition, Runtimes
  <1>5. registry' = WithRuntime(k, running)
    BY DEF PersistRunning
  <1>6. CASE /\ Save(WithRuntime(k, running), "ok")
             /\ active' = [active EXCEPT ![k] = i]
             /\ outputs' = [outputs EXCEPT ![k] = i]
             /\ observer' = [observer EXCEPT ![i] = "waiting"]
             /\ Leave(t)
             /\ UNCHANGED <<mode, todo, nextInst, tree, finishErr>>
    <2>1. /\ tree' \in [Instances -> Trees(Keys \cup {NoKey})]
          /\ \A j \in Instances :
              /\ tree'[j].key = tree[j].key /\ tree'[j].owner = tree[j].owner
              /\ tree'[j].leader = tree[j].leader
      BY <1>3, <1>6
    <2> HIDE DEF running
    <2>2. \A j \in Instances :
            /\ tree'[j].key = tree[j].key /\ tree'[j].owner = tree[j].owner
            /\ tree'[j].leader # tree[j].leader =>
                 tree'[j].leader = "dead" /\ tree[j].leader = "alive"
      BY <2>1
    <2>3. /\ active' \in [Keys -> 0 .. MaxInstances]
          /\ outputs' \in [Keys -> 0 .. MaxInstances]
          /\ observer' \in [Instances -> {"none", "waiting", "exited", "done"}]
          /\ \A j \in Keys : j # k => active'[j] = active[j] /\ outputs'[j] = outputs[j]
          /\ \A j \in Instances : j # i => observer'[j] = observer[j]
          /\ active'[k] = i /\ outputs'[k] = i /\ observer'[i] = "waiting"
      <3>1. i \in 0 .. MaxInstances
        BY <1>2, BoundAssumption DEF Instances
      <3> QED
        BY <3>1, <1>2, <1>6 DEF SupervisionInv, TypeOK
    <2> QED
      BY <1>1, <1>4, <1>5, <1>6, <2>1, <2>2, <2>3, LeaveInv
  <1>7. CASE /\ Save(WithRuntime(k, running), "err")
             /\ tree' = [tree EXCEPT ![i] = Kill(@)]
             /\ Goto(t, "abort")
             /\ UNCHANGED <<mode, todo, mu, active, outputs, nextInst, observer, finishErr>>
    <2> DEFINE tr == Kill(tree[i])
    <2>0. tree[i] \in Trees(Keys \cup {NoKey})
      BY <1>2, <1>3
    <2>1. tr \in Trees(Keys \cup {NoKey}) /\ tr.key = k /\ tr.leader = "dead"
      <3>1. tr \in Trees(Keys \cup {NoKey}) /\ tr.key = tree[i].key
        BY <2>0, TreeOpsType
      <3>2. tr.leader = "dead"
        BY <1>3, <2>0, KillEndsLeader
      <3> QED
        BY <1>3, <3>1, <3>2
    <2>2. tree' = [tree EXCEPT ![i] = tr]
      BY <1>7
    <2> HIDE DEF running, tr
    <2> QED
      BY <1>1, <1>3, <1>4, <1>5, <1>7, <2>1, <2>2, StartStepInv DEF Results
  <1> QED
    BY <1>6, <1>7 DEF PersistRunning

(* Start waits for what it killed and fails the runtime.                   *)
LEMMA AbortInv ==
  ASSUME SupervisionInv, NEW t \in Threads, AbortWait(t)
  PROVE  SupervisionInv'
  <1> DEFINE k == thread[t].key
             i == thread[t].inst
             failed == Fail(registry.runtime[k], "observation-failed")
  <1>1. thread[t].pc = "abort" /\ thread[t].pc \in StartSteps
    BY DEF AbortWait, At, StartSteps
  <1>2. /\ k \in Keys /\ i \in Instances
        /\ registry.runtime[k] \in Runtimes /\ registry.runtime[k].inst = i
    BY <1>1, InStart
  <1>3. tree \in [Instances -> Trees(Keys \cup {NoKey})] /\ tree[i].leader = "dead"
    BY <1>1, <1>2 DEF SupervisionInv, TypeOK, AbortWait, Ended
  <1>4. failed \in Runtimes /\ failed.inst = i /\ ~IsActive(failed.state)
    BY <1>2, FailType DEF Reasons
  <1>5. PICK result \in Results : Save(WithRuntime(k, failed), result)
    BY DEF AbortWait
  <1>6. /\ registry' = WithRuntime(k, failed) /\ Leave(t)
        /\ UNCHANGED <<mode, todo, active, outputs, nextInst, observer, finishErr>>
    BY DEF AbortWait
  <1> HIDE DEF failed
  <1>7. /\ Close(tree[i]) \in Trees(Keys \cup {NoKey})
        /\ Close(tree[i]).key = tree[i].key /\ Close(tree[i]).owner = tree[i].owner
        /\ Close(tree[i]).leader = "dead"
    BY <1>2, <1>3, TreeOpsType
  <1>8. tree' = [tree EXCEPT ![i] = Close(tree[i])]
    BY DEF AbortWait
  <1>9. /\ tree' \in [Instances -> Trees(Keys \cup {NoKey})]
        /\ tree'[i].leader = "dead"
        /\ \A j \in Instances :
            /\ tree'[j].key = tree[j].key /\ tree'[j].owner = tree[j].owner
            /\ tree'[j].leader # tree[j].leader =>
                 tree'[j].leader = "dead" /\ tree[j].leader = "alive"
    BY <1>2, <1>3, <1>7, <1>8
  <1>10. active[k] = Nil /\ observer[i] = "none"
    BY <1>1, InStart DEF SupervisionInv, StartInv
  <1> QED
    BY <1>1, <1>4, <1>5, <1>6, <1>9, <1>10, LeaveInv DEF SupervisionInv, TypeOK

(* Stop under the lock.                                                    *)
LEMMA StopBeginInv ==
  ASSUME SupervisionInv, NEW t \in Threads, StopBegin(t)
  PROVE  SupervisionInv'
  <1> DEFINE k == thread[t].key
             rt == registry.runtime[k]
             next == Transition(rt, "stopping")
             stopping == WithRuntime(k, next)
             moved(pc) == [thread EXCEPT ![t].pc = pc, ![t].inst = rt.inst]
  <1>1. /\ mode # "down" /\ k \in Keys /\ mu = NoThread /\ thread[t] \in ThreadStates
        /\ thread[t].pc = "called" /\ thread[t].pc \notin StartSteps
    BY BusyIsUp DEF StopBegin, Enters, At, StartSteps
  <1>2. CASE Refuse(t)
    BY <1>1, <1>2, ReturnInv
  <1>3. CASE StopSucceeds(t) /\ UNCHANGED <<mode, todo, managerVars, tree, observer, finishErr>>
    BY <1>1, <1>3, StopSucceedsInv
  <1> DEFINE owned == Registered(k) /\ IsActive(rt.state) /\ active[k] = rt.inst
  <1>4. ASSUME owned
        PROVE  /\ rt \in Runtimes /\ rt.inst \in Instances /\ rt.inst < nextInst
               /\ rt.state \in {"running", "stopping"} /\ active[k] # Nil
               /\ rt.inst # Nil /\ nextInst \in Nat
    <2>1. rt \in Runtimes /\ rt.inst # Nil /\ rt.inst < nextInst
      BY <1>1, <1>4 DEF SupervisionInv, TypeOK, Registries, FreshInv, ActiveInv
    <2>2. rt.inst \in Instances
      BY <2>1, BoundAssumption DEF Runtimes, Instances, Nil
    <2>3. rt.state \in {"running", "stopping"}
      BY <1>1, <1>4, <2>1 DEF SupervisionInv, OwnerInv, Ownership
    <2> QED
      BY <1>4, <2>1, <2>2, <2>3, BoundAssumption DEF SupervisionInv, TypeOK
  <1>5. ASSUME owned, NEW pc \in {"wait", "signal"}, thread' = moved(pc)
        PROVE  \E th \in ThreadStates :
                 /\ thread' = [thread EXCEPT ![t] = th]
                 /\ th.pc = pc /\ th.key = k /\ th.inst = rt.inst
    <2> DEFINE th == [thread[t] EXCEPT !.pc = pc, !.inst = rt.inst]
    <2>1. rt.inst \in 0 .. MaxInstances
      BY <1>4, <1>5 DEF Runtimes
    <2>2. th \in ThreadStates /\ th.pc = pc /\ th.key = k /\ th.inst = rt.inst
      BY <1>1, <2>1 DEF ThreadStates, StopSteps
    <2>3. thread' = [thread EXCEPT ![t] = th]
      BY <1>5
    <2> QED
      BY <2>2, <2>3
  <1>6. CASE /\ owned /\ thread' = moved("wait")
             /\ UNCHANGED <<mode, todo, managerVars, tree, observer, finishErr>>
    <2>1. PICK th \in ThreadStates :
            /\ thread' = [thread EXCEPT ![t] = th]
            /\ th.pc = "wait" /\ th.key = k /\ th.inst = rt.inst
      BY <1>5, <1>6
    <2>2. rt.inst \in Instances /\ rt.inst < nextInst /\ todo \in SUBSET Keys
      BY <1>4, <1>6 DEF SupervisionInv, TypeOK
    <2> QED
      BY <1>1, <1>6, <2>1, <2>2, ThreadStepInv DEF StartSteps
  <1>7. ASSUME owned, rt.state # "stopping"
        PROVE  /\ next \in Runtimes /\ next.inst = rt.inst /\ next.state = "stopping"
               /\ stopping \in Registries
               /\ stopping.processes = registry.processes
               /\ stopping.runtime[k] = next
               /\ \A j \in Keys : j # k => stopping.runtime[j] = registry.runtime[j]
               /\ \A j \in Keys : /\ stopping.runtime[j].inst < nextInst
                                  /\ IsActive(stopping.runtime[j].state) =>
                                       stopping.runtime[j].inst # Nil
    <2>1. /\ rt \in Runtimes /\ rt.state = "running" /\ rt.inst < nextInst
          /\ rt.inst # Nil /\ nextInst \in Nat
      BY <1>4, <1>7
    <2>2. "stopping" \in States
      BY DEF States, ActiveStates
    <2>3. next \in Runtimes /\ next.inst = rt.inst
      BY <2>1, <2>2, TransitionType
    <2>4. next.state = "stopping"
      BY <2>1 DEF Transition, CanTransition, Runtimes
    <2> HIDE DEF next
    <2> QED
      BY <1>1, <2>1, <2>3, <2>4, ReplacedRuntime
  <1>8. ASSUME owned, rt.state # "stopping", NEW result, Save(stopping, result)
        PROVE  /\ disk' \in Registries
               /\ \A j \in Keys :
                    /\ disk'.runtime[j].inst < nextInst
                    /\ IsActive(disk'.runtime[j].state) => disk'.runtime[j].inst # Nil
    <2> HIDE DEF stopping
    <2> QED
      BY <1>4, <1>7, <1>8, SavedFile
  <1>9. CASE /\ owned /\ rt.state # "stopping" /\ Save(stopping, "err") /\ Return(t)
             /\ UNCHANGED <<mode, todo, registry, mu, active, outputs, nextInst, tree,
                            observer, finishErr>>
    <2>1. TypeOK
      BY DEF SupervisionInv
    <2>2. thread' = [thread EXCEPT ![t] = Idle] /\ Idle.pc = "idle" /\ Idle \in ThreadStates
      BY <1>9, IdleType DEF Return, Idle
    <2>3. thread' \in [Threads -> ThreadStates]
      BY <2>1, <2>2 DEF TypeOK
    <2>4. \A s \in Threads : thread'[s] # thread[s] =>
            /\ s = t /\ thread'[s].pc = "idle"
            /\ "idle" \notin StartSteps \cup StopSteps
      BY <2>1, <2>2 DEF TypeOK, StartSteps, StopSteps
    <2>5. nextInst' \in 1 .. MaxInstances + 1 /\ nextInst' >= nextInst
      BY <2>1, <1>4, <1>9 DEF TypeOK
    <2>6. /\ disk' \in Registries
          /\ \A j \in Keys :
               /\ disk'.runtime[j].inst < nextInst'
               /\ IsActive(disk'.runtime[j].state) => disk'.runtime[j].inst # Nil
      BY <1>8, <1>9
    <2>7. UNCHANGED <<mode, todo, tree, observer, registry, mu, active, outputs, finishErr>>
      BY <1>9
    <2> QED
      BY <1>1, <2>1, <2>3, <2>4, <2>5, <2>6, <2>7, QuietStepInv DEF TypeOK
  <1>10. CASE /\ owned /\ rt.state # "stopping" /\ Save(stopping, "ok")
              /\ registry' = stopping /\ thread' = moved("signal")
              /\ UNCHANGED <<mode, todo, mu, active, outputs, nextInst, tree, observer,
                             finishErr>>
    <2> USE DEF SupervisionInv
    <2>1. PICK th \in ThreadStates :
            /\ thread' = [thread EXCEPT ![t] = th]
            /\ th.pc = "signal" /\ th.key = k /\ th.inst = rt.inst
      BY <1>5, <1>10
    <2>2. /\ thread' \in [Threads -> ThreadStates] /\ thread'[t] = th
          /\ \A s \in Threads : s # t => thread'[s] = thread[s]
      BY <2>1 DEF TypeOK
    <2>3. /\ registry' \in Registries /\ registry'.processes = registry.processes
          /\ registry'.runtime[k].inst = rt.inst
          /\ registry'.runtime[k].state = "stopping"
          /\ \A j \in Keys : j # k => registry'.runtime[j] = registry.runtime[j]
          /\ \A j \in Keys : /\ registry'.runtime[j].inst < nextInst
                             /\ IsActive(registry'.runtime[j].state) =>
                                  registry'.runtime[j].inst # Nil
      BY <1>7, <1>10
    <2>4. /\ disk' \in Registries
          /\ \A j \in Keys :
               /\ disk'.runtime[j].inst < nextInst
               /\ IsActive(disk'.runtime[j].state) => disk'.runtime[j].inst # Nil
      BY <1>8, <1>10
    <2>5. UNCHANGED <<mode, todo, mu, active, outputs, nextInst, tree, observer, finishErr>>
      BY <1>10
    <2>6. /\ rt.inst \in Instances /\ rt.inst < nextInst /\ active[k] = rt.inst
          /\ active[k] # Nil /\ k \in registry.processes
      BY <1>4, <1>10 DEF Registered
    <2> HIDE DEF stopping, moved, owned, next
    <2>7. TypeOK'
      BY <2>2, <2>3, <2>4, <2>5 DEF TypeOK
    <2>8. ThreadInv'
      <3> SUFFICES ASSUME NEW s \in Threads
                   PROVE  /\ thread'[s].pc # "idle" => thread'[s].key \in Keys
                          /\ thread'[s].pc \in StartSteps \cup StopSteps =>
                               thread'[s].inst \in Instances /\ thread'[s].inst < nextInst'
                          /\ thread'[s].pc \in StartSteps <=> mu' = s
        BY DEF ThreadInv
      <3>1. CASE s = t
        BY <3>1, <1>1, <2>1, <2>2, <2>5, <2>6, ThreadsAssumption DEF StartSteps
      <3>2. CASE s # t
        BY <3>2, <2>2, <2>5 DEF ThreadInv
      <3> QED
        BY <3>1, <3>2
    <2>9. StartInv' /\ DownInv'
      BY <1>1, <2>5 DEF StartInv, DownInv
    <2>10. \A j, i : ~Starting(j, i) /\ ~Starting(j, i)'
      BY <1>1, <2>5 DEF Starting
    <2>11. Ownership'
      <3> SUFFICES ASSUME NEW j \in Keys
                   PROVE  /\ active[j] # Nil =>
                               /\ j \in registry'.processes
                               /\ registry'.runtime[j].inst = active[j]
                               /\ outputs[j] = active[j]
                               /\ registry'.runtime[j].state \in {"running", "stopping"}
                               /\ observer[active[j]] \in {"waiting", "exited"}
                          /\ IsActive(registry'.runtime[j].state) =>
                               active[j] = registry'.runtime[j].inst
        BY <2>5 DEF Ownership, Registered
      <3>1. CASE j = k
        BY <3>1, <2>3, <2>6 DEF OwnerInv, Ownership
      <3>2. CASE j # k
        BY <3>2, <2>3, <2>10 DEF OwnerInv, Ownership, Registered
      <3> QED
        BY <3>1, <3>2
    <2>12. OwnerInv' /\ NoLeak'
      BY <2>5, <2>10, <2>11 DEF OwnerInv, NoLeak
    <2>13. FreshInv' /\ ActiveInv'
      BY <2>3, <2>4, <2>5 DEF FreshInv, ActiveInv
    <2> QED
      BY <2>7, <2>8, <2>9, <2>12, <2>13
  <1> QED
    BY <1>2, <1>3, <1>6, <1>9, <1>10 DEF StopBegin

(* observeExit records the end of its runtime: it is still the current one *)
(* of its definition, so the branch that finds it replaced is dead.        *)
LEMMA RecordExitInv ==
  ASSUME SupervisionInv, NEW i \in Instances, RecordExit(i)
  PROVE  SupervisionInv'
  <1> DEFINE k == tree[i].key
             rt == registry.runtime[k]
  <1> USE DEF SupervisionInv
  <1>1. observer[i] = "exited" /\ mu = NoThread
    BY DEF RecordExit
  <1>2. k \in Keys /\ active[k] = i /\ i # Nil /\ nextInst \in Nat
    BY <1>1, BoundAssumption DEF OwnerInv, Instances, Nil, TypeOK
  <1>3. /\ Registered(k) /\ rt.inst = i /\ rt.state \in {"running", "stopping"}
        /\ tree[i].leader = "dead" /\ mode # "down"
    BY <1>1, <1>2 DEF OwnerInv, Ownership, DownInv
  <1>4. rt \in Runtimes /\ rt.inst < nextInst /\ tree[i].code \in ExitCodes
    BY <1>2 DEF TypeOK, Registries, FreshInv, Trees, ExitCodes
  <1>5. PICK waitErr \in WaitErrors, result \in Results :
          LET ended == WithRuntime(k, Finish(rt, tree[i].code, waitErr)) IN
          /\ \/ Save(ended, result)
             \/ UNCHANGED disk
          /\ registry' = ended
          /\ Release(i, result)
          /\ active' = [active EXCEPT ![k] = Nil]
    BY <1>3 DEF RecordExit
  <1> DEFINE fin == Finish(rt, tree[i].code, waitErr)
             ended == WithRuntime(k, fin)
  <1>6. fin \in Runtimes /\ fin.inst = i /\ ~IsActive(fin.state)
    <2>1. waitErr \in BOOLEAN
      BY <1>5 DEF WaitErrors
    <2> QED
      BY <1>3, <1>4, <2>1, FinishType
  <1> HIDE DEF fin
  <1>7. /\ ended \in Registries
        /\ ended.processes = registry.processes
        /\ ended.runtime[k] = fin
        /\ \A j \in Keys : j # k => ended.runtime[j] = registry.runtime[j]
        /\ \A j \in Keys : /\ ended.runtime[j].inst < nextInst
                           /\ IsActive(ended.runtime[j].state) => ended.runtime[j].inst # Nil
    BY <1>2, <1>3, <1>4, <1>6, ReplacedRuntime
  <1>8. registry' = ended /\ (Save(ended, result) \/ UNCHANGED disk)
    BY <1>5 DEF fin
  <1> HIDE DEF ended
  <1>9. /\ disk' \in Registries
        /\ \A j \in Keys : /\ disk'.runtime[j].inst < nextInst
                           /\ IsActive(disk'.runtime[j].state) => disk'.runtime[j].inst # Nil
    <2>1. CASE Save(ended, result)
      BY <2>1, <1>2, <1>7, SavedFile
    <2>2. CASE UNCHANGED disk
      BY <2>2 DEF TypeOK, FreshInv, ActiveInv
    <2> QED
      BY <1>8, <2>1, <2>2
  <1>10. UNCHANGED <<mode, todo, mu, outputs, nextInst, tree, thread>>
    BY DEF RecordExit
  <1>11. /\ active' \in [Keys -> 0 .. MaxInstances] /\ active'[k] = Nil
         /\ \A j \in Keys : j # k => active'[j] = active[j]
    BY <1>2, <1>5, BoundAssumption DEF TypeOK, Nil
  <1>12. /\ observer' \in [Instances -> {"none", "waiting", "exited", "done"}]
         /\ observer'[i] = "done"
         /\ \A j \in Instances : j # i => observer'[j] = observer[j]
         /\ finishErr' \in [Instances -> Results]
    BY <1>5 DEF TypeOK, Release
  <1>13. TypeOK'
    BY <1>7, <1>8, <1>9, <1>10, <1>11, <1>12 DEF TypeOK
  <1>14. ThreadInv' /\ StartInv' /\ DownInv'
    BY <1>1, <1>3, <1>10 DEF ThreadInv, StartInv, DownInv
  <1>15. \A j, l : ~Starting(j, l) /\ ~Starting(j, l)'
    BY <1>1, <1>10 DEF Starting
  <1>16. \A j \in Keys : j # k /\ active[j] # Nil =>
           active[j] \in Instances /\ active[j] # i
    <2>1. \A j \in Keys : active[j] # Nil => active[j] \in Instances
      BY BoundAssumption DEF TypeOK, Instances, Nil
    <2>2. \A j \in Keys : active[j] # Nil => tree[active[j]].key = j
      BY DEF OwnerInv
    <2> QED
      BY <2>1, <2>2
  <1>17. Ownership'
    <2> SUFFICES ASSUME NEW j \in Keys
                 PROVE  /\ active'[j] # Nil =>
                             /\ j \in registry'.processes
                             /\ registry'.runtime[j].inst = active'[j]
                             /\ outputs[j] = active'[j]
                             /\ registry'.runtime[j].state \in {"running", "stopping"}
                             /\ observer'[active'[j]] \in {"waiting", "exited"}
                        /\ IsActive(registry'.runtime[j].state) =>
                             active'[j] = registry'.runtime[j].inst
      BY <1>10 DEF Ownership, Registered
    <2>1. CASE j = k
      BY <2>1, <1>6, <1>7, <1>8, <1>11
    <2>2. CASE j # k
      BY <2>2, <1>7, <1>8, <1>11, <1>12, <1>15, <1>16 DEF OwnerInv, Ownership, Registered
    <2> QED
      BY <2>1, <2>2
  <1>18. OwnerInv'
    <2>1. \A j \in Keys : active'[j] # Nil =>
            /\ tree'[active'[j]].key = j
            /\ observer'[active'[j]] = "exited" => tree'[active'[j]].leader = "dead"
      BY <1>10, <1>11, <1>12, <1>16 DEF OwnerInv
    <2>2. ASSUME NEW j \in Instances, observer'[j] \in {"waiting", "exited"}
          PROVE  tree'[j].key \in Keys /\ active'[tree'[j].key] = j
      <3>1. j # i /\ observer[j] \in {"waiting", "exited"}
        BY <1>12, <2>2
      <3>2. tree[j].key \in Keys /\ active[tree[j].key] = j
        BY <3>1 DEF OwnerInv
      <3> QED
        BY <3>1, <3>2, <1>2, <1>10, <1>11
    <2> QED
      BY <1>17, <2>1, <2>2 DEF OwnerInv
  <1>19. NoLeak'
    <2> SUFFICES ASSUME NEW j \in Instances, tree[j].leader = "alive",
                        tree[j].owner = "daemon"
                 PROVE  active'[tree[j].key] = j
      BY <1>10 DEF NoLeak, LeaderAlive
    <2>1. j # i /\ active[tree[j].key] = j /\ tree[j].key \in Keys
      BY <1>3, <1>15 DEF NoLeak, LeaderAlive, FreshInv
    <2> QED
      BY <2>1, <1>2, <1>11
  <1>20. FreshInv' /\ ActiveInv'
    <2>1. \A j \in Instances : j >= nextInst' =>
            tree'[j].leader = "none" /\ observer'[j] = "none"
      BY <1>1, <1>10, <1>12 DEF FreshInv
    <2>2. \A j \in Instances : tree'[j].leader # "none" => tree'[j].key \in Keys
      BY <1>10 DEF FreshInv
    <2> QED
      BY <1>7, <1>8, <1>9, <1>10, <2>1, <2>2 DEF FreshInv, ActiveInv
  <1> QED
    BY <1>13, <1>14, <1>18, <1>19, <1>20

(* A daemon boots with nothing active.                                     *)
LEMMA BootInv ==
  ASSUME SupervisionInv, Boot
  PROVE  SupervisionInv'
  <1> USE DEF SupervisionInv
  <1> DEFINE new == Reconciled(disk)
  <1>1. disk \in Registries /\ nextInst \in Nat
    BY BoundAssumption DEF TypeOK
  <1>2. new \in Registries /\ new.runtime = [k \in Keys |-> Reconcile(disk.runtime[k])]
    BY <1>1, ReconcileType DEF Reconciled, Registries
  <1>3. ASSUME NEW k \in Keys
        PROVE  new.runtime[k].inst < nextInst /\ ~IsActive(new.runtime[k].state)
    <2>1. disk.runtime[k] \in Runtimes /\ disk.runtime[k].inst < nextInst
      BY <1>1 DEF Registries, FreshInv
    <2> QED
      BY <1>2, <2>1, ReconcileType
  <1>4. PICK result \in Results :
          /\ Save(new, result) \/ UNCHANGED disk
          /\ \/ mode' = "serving" /\ registry' = new
             \/ UNCHANGED <<mode, registry>>
    BY DEF Boot
  <1> HIDE DEF new
  <1>5. /\ mode = "down" /\ mu = NoThread
        /\ UNCHANGED <<todo, mu, active, outputs, nextInst, tree, observer, finishErr, thread>>
    BY DEF Boot, DownInv
  <1>6. /\ disk' \in Registries
        /\ \A j \in Keys : /\ disk'.runtime[j].inst < nextInst
                           /\ IsActive(disk'.runtime[j].state) => disk'.runtime[j].inst # Nil
    <2>1. CASE Save(new, result)
      BY <2>1, <1>1, <1>2, <1>3, SavedFile
    <2>2. CASE UNCHANGED disk
      BY <2>2 DEF TypeOK, FreshInv, ActiveInv
    <2> QED
      BY <1>4, <2>1, <2>2
  <1>7. /\ registry' \in Registries
        /\ \A k \in Keys : /\ registry'.runtime[k].inst < nextInst
                           /\ ~IsActive(registry'.runtime[k].state)
    <2>1. CASE registry' = new
      BY <2>1, <1>2, <1>3
    <2>2. CASE UNCHANGED registry
      BY <2>2, <1>5, NilRuntimeType DEF TypeOK, DownInv, FreshInv
    <2> QED
      BY <1>4, <2>1, <2>2
  <1>8. TypeOK'
    BY <1>4, <1>5, <1>6, <1>7 DEF TypeOK
  <1>9. ThreadInv' /\ StartInv'
    BY <1>5 DEF ThreadInv, StartInv
  <1>10. DownInv'
    BY <1>4, <1>5 DEF DownInv
  <1>11. \A j, l : ~Starting(j, l) /\ ~Starting(j, l)'
    BY <1>5 DEF Starting
  <1>12. Ownership'
    BY <1>5, <1>7 DEF Ownership, DownInv
  <1>13. OwnerInv'
    BY <1>5, <1>12 DEF OwnerInv, DownInv
  <1>14. NoLeak'
    BY <1>5, <1>11 DEF NoLeak
  <1>15. FreshInv' /\ ActiveInv'
    BY <1>5, <1>6, <1>7 DEF FreshInv, ActiveInv
  <1> QED
    BY <1>8, <1>9, <1>10, <1>13, <1>14, <1>15

(* The daemon is gone.                                                     *)
LEMMA GoneInv ==
  ASSUME SupervisionInv, Gone
  PROVE  SupervisionInv'
  <1> USE DEF SupervisionInv
  <1>1. NewRegistry \in Registries /\ NewRegistry.runtime = [k \in Keys |-> NilRuntime]
    BY NilRuntimeType DEF NewRegistry, Registries
  <1>2. Nil \in 0 .. MaxInstances /\ nextInst \in Nat /\ 1 <= nextInst
    BY BoundAssumption DEF Nil, TypeOK
  <1>3. ASSUME NEW i \in Instances
        PROVE  /\ Orphan(tree[i]) \in Trees(Keys \cup {NoKey})
               /\ Orphan(tree[i]).owner = "nobody" /\ Orphan(tree[i]).key = tree[i].key
               /\ tree[i].leader = "none" => Orphan(tree[i]).leader = "none"
    <2>1. tree[i] \in Trees(Keys \cup {NoKey})
      BY DEF TypeOK
    <2> QED
      BY <2>1, OrphanType
  <1>4. /\ mode' = "down" /\ todo' = {} /\ mu' = NoThread
        /\ registry' = NewRegistry
        /\ active' = [k \in Keys |-> Nil] /\ outputs' = [k \in Keys |-> Nil]
        /\ observer' = [i \in Instances |-> "none"]
        /\ finishErr' = [i \in Instances |-> "ok"]
        /\ thread' = [t \in Threads |-> Idle]
        /\ UNCHANGED <<disk, nextInst>>
    BY DEF Gone
  <1>5. /\ tree' \in [Instances -> Trees(Keys \cup {NoKey})]
        /\ \A i \in Instances :
             /\ tree'[i].owner = "nobody" /\ tree'[i].key = tree[i].key
             /\ tree[i].leader = "none" => tree'[i].leader = "none"
    BY <1>3 DEF Gone
  <1>6. TypeOK'
    BY <1>1, <1>2, <1>4, <1>5, IdleType DEF TypeOK, Results
  <1>7. ThreadInv' /\ StartInv' /\ DownInv'
    BY <1>1, <1>4, ThreadsAssumption DEF ThreadInv, StartInv, DownInv, Idle, StartSteps,
       StopSteps
  <1>8. OwnerInv' /\ NoLeak'
    BY <1>1, <1>4, <1>5, NilRuntimeType DEF OwnerInv, Ownership, NoLeak
  <1>9. ActiveInv'
    BY <1>1, <1>4, NilRuntimeType DEF ActiveInv
  <1>10. FreshInv'
    BY <1>1, <1>2, <1>4, <1>5, NilRuntimeType DEF FreshInv, Nil
  <1> QED
    BY <1>6, <1>7, <1>8, <1>9, <1>10

(* A step that changes nothing.                                            *)
LEMMA StutterInv ==
  ASSUME SupervisionInv, UNCHANGED vars
  PROVE  SupervisionInv'
  BY DEF vars, SupervisionInv, TypeOK, ThreadInv, StartInv, OwnerInv, Ownership, FreshInv,
         ActiveInv, DownInv, NoLeak, Starting, Registered

(* SupervisionInv is inductive.                                            *)
LEMMA NextInv ==
  ASSUME SupervisionInv, [Next]_vars
  PROVE  SupervisionInv'
  <1>1. CASE \E c \in Clients, op \in Requests, k \in Keys : Call(c, op, k)
    BY <1>1, CallInv
  <1>2. ASSUME NEW t \in Threads, LockStep(t)
        PROVE  SupervisionInv'
    BY <1>2, DefinitionInv, StartBeginInv, StopBeginInv, StatusInv DEF LockStep
  <1>3. ASSUME NEW t \in Threads, FreeStep(t)
        PROVE  SupervisionInv'
    BY <1>3, SpawnInv, PersistInv, AbortInv, SignalInv, WaitDoneInv, WaitCancelledInv
    DEF FreeStep
  <1>4. ASSUME NEW i \in Instances,
               ObserveEnd(i) \/ RecordExit(i) \/ LeaderExit(i) \/ ChildExit(i)
        PROVE  SupervisionInv'
    BY <1>4, ObserveEndInv, RecordExitInv, LeaderExitInv, ChildExitInv
  <1>5. CASE Boot
    BY <1>5, BootInv
  <1>6. CASE Terminate \/ AcceptFails \/ ServeReturns \/ ShutdownExpires
    BY <1>6, ModeInv
  <1>7. ASSUME NEW k \in Keys, ShutdownNext(k)
        PROVE  SupervisionInv'
    BY <1>7, ShutdownNextInv
  <1>8. CASE Exit \/ Crash
    BY <1>8, GoneInv DEF Exit, Crash
  <1>9. CASE UNCHANGED vars
    BY <1>9, StutterInv
  <1> QED
    BY <1>1, <1>2, <1>3, <1>4, <1>5, <1>6, <1>7, <1>8, <1>9 DEF Next

(***************************************************************************)
(* The theorems.                                                           *)
(***************************************************************************)

(* The state supervision is in at every step of every execution: whatever  *)
(* the interleaving of handlers, observers and processes, whatever fails   *)
(* and whenever the daemon crashes or restarts.                            *)
THEOREM SupervisionCorrect == Spec => []SupervisionInv
  <1>1. Init => SupervisionInv
    BY InitInv
  <1>2. SupervisionInv /\ [Next]_vars => SupervisionInv'
    BY NextInv
  <1> QED
    BY <1>1, <1>2, PTL DEF Spec

(* Every variable keeps its type: no action of the manager reaches a state *)
(* outside the state machine of state.go.                                  *)
THEOREM TypeCorrect == Spec => []TypeOK
  <1>1. SupervisionInv => TypeOK
    BY DEF SupervisionInv
  <1> QED
    BY <1>1, SupervisionCorrect, PTL

(* manager.active, the registry, the outputs and the observers agree at    *)
(* every step.                                                             *)
THEOREM OwnershipCorrect == Spec => []Ownership
  <1>1. SupervisionInv => Ownership
    BY DEF SupervisionInv, OwnerInv
  <1> QED
    BY <1>1, SupervisionCorrect, PTL

(* No failure on any path leaks a process the daemon started.              *)
THEOREM NothingLeaks == Spec => []NoLeak
  <1>1. SupervisionInv => NoLeak
    BY DEF SupervisionInv
  <1> QED
    BY <1>1, SupervisionCorrect, PTL

(* A definition never has two live leaders of one daemon: a live leader is *)
(* owned or being started, and the definition of a Start in progress is    *)
(* not owned.                                                              *)
THEOREM OneLeaderEach == Spec => []OneLeader
  <1>1. SupervisionInv => OneLeader
    <2> SUFFICES ASSUME SupervisionInv, NEW i \in Instances, NEW j \in Instances,
                        tree[i].key = tree[j].key,
                        LeaderAlive(tree[i]), tree[i].owner = "daemon",
                        LeaderAlive(tree[j]), tree[j].owner = "daemon"
                 PROVE  i = j
      BY DEF OneLeader
    <2>1. /\ active[tree[i].key] = i \/ Starting(tree[i].key, i)
          /\ active[tree[i].key] = j \/ Starting(tree[i].key, j)
      BY DEF SupervisionInv, NoLeak
    <2>2. \A k, l : Starting(k, l) => active[k] = Nil
      BY DEF SupervisionInv, StartInv, Starting
    <2>3. i # Nil /\ j # Nil
      BY BoundAssumption DEF Instances, Nil
    <2> QED
      BY <2>1, <2>2, <2>3 DEF Starting
  <1> QED
    BY <1>1, SupervisionCorrect, PTL

(* One runtime is replaced, by one it may become or by another instance.   *)
LEMMA ReplacedLegally ==
  ASSUME registry \in Registries, NEW k \in Keys, NEW rt \in Runtimes,
         registry' = WithRuntime(k, rt),
         \/ rt.inst # registry.runtime[k].inst
         \/ CanTransition(registry.runtime[k].state, rt.state),
         NEW j \in Keys, registry'.runtime[j].inst = registry.runtime[j].inst,
         registry'.runtime[j] # registry.runtime[j]
  PROVE  CanTransition(registry.runtime[j].state, registry'.runtime[j].state)
  <1>1. registry'.runtime = [registry.runtime EXCEPT ![k] = rt]
    BY WithRuntimeType
  <1>2. CASE j = k
    BY <1>1, <1>2 DEF Registries
  <1>3. CASE j # k
    BY <1>1, <1>3 DEF Registries
  <1> QED
    BY <1>2, <1>3

(* Fail moves an active runtime to failed.                                 *)
LEMMA FailLegal ==
  ASSUME NEW rt \in Runtimes, NEW reason \in Reasons, IsActive(rt.state)
  PROVE  Fail(rt, reason).state = "failed" /\ CanTransition(rt.state, "failed")
  BY DEF Fail, Transition, CanTransition, Runtimes, IsActive, ActiveStates

(* Every change of a runtime in memory is a transition state.go allows:    *)
(* only Start, Stop, observeExit and the failures of Start touch one, each *)
(* from the state the invariant says it is in.                             *)
THEOREM TransitionsLegal == Spec => LegalTransitions
  <1> DEFINE Legal(k) ==
        LET old == registry.runtime[k]
            new == registry'.runtime[k] IN
        old.inst # Nil /\ new.inst = old.inst /\ new # old =>
          CanTransition(old.state, new.state)
  <1>1. ASSUME SupervisionInv, [Next]_vars, NEW j \in Keys
        PROVE  Legal(j)
    <2> SUFFICES ASSUME registry.runtime[j].inst # Nil,
                        registry'.runtime[j].inst = registry.runtime[j].inst,
                        registry'.runtime[j] # registry.runtime[j]
                 PROVE  CanTransition(registry.runtime[j].state, registry'.runtime[j].state)
      OBVIOUS
    <2>1. registry \in Registries /\ registry' # registry
      BY <1>1 DEF SupervisionInv, TypeOK
    <2>2. ASSUME NEW t \in Threads, LockStep(t)
          PROVE  CanTransition(registry.runtime[j].state, registry'.runtime[j].state)
      <3> DEFINE k == thread[t].key
                 rt == registry.runtime[k]
      <3>1. thread[t].pc # "idle" /\ k \in Keys /\ mode # "down" /\ rt \in Runtimes
        <4>1. thread[t].pc # "idle"
          BY <2>2 DEF LockStep, DefinitionStep, AddProject, RemoveProject, AddProcess,
                      RemoveProcess, StartBegin, StopBegin, StatusWithError, Enters, At
        <4> QED
          BY <4>1, <1>1, <2>1, BusyIsUp DEF Registries
      <3>2. CASE DefinitionStep(t)
        <4>1. \/ registry'.runtime = registry.runtime
              \/ registry'.runtime = [registry.runtime EXCEPT ![k] = NilRuntime]
          BY <3>2, <2>1 DEF DefinitionStep, AddProject, RemoveProject, AddProcess,
             RemoveProcess, Commit, RolledBack, Refuse, managerVars, Registries
        <4> QED
          BY <4>1, <3>1, <2>1, NilRuntimeType DEF Registries
      <3>3. CASE StartBegin(t)
        <4>1. registry' = WithRuntime(k, NewProcessRuntime(nextInst)) /\ nextInst \in Instances
          BY <3>3, <2>1, <1>1, BoundAssumption
          DEF StartBegin, Refuse, managerVars, SupervisionInv, TypeOK, Instances
        <4>2. /\ NewProcessRuntime(nextInst) \in Runtimes
              /\ NewProcessRuntime(nextInst).inst = nextInst
          BY <4>1, NewRuntimeType
        <4>3. rt.inst # nextInst
          BY <3>1, <1>1, BoundAssumption DEF SupervisionInv, TypeOK, FreshInv, Runtimes
        <4> QED
          BY <2>1, <3>1, <4>1, <4>2, <4>3, ReplacedLegally
      <3>4. CASE StopBegin(t)
        <4>1. /\ registry' = WithRuntime(k, Transition(rt, "stopping"))
              /\ IsActive(rt.state) /\ rt.state # "stopping" /\ active[k] = rt.inst
          BY <3>4, <2>1 DEF StopBegin, Refuse, StopSucceeds, managerVars
        <4>2. rt.inst # Nil
          BY <1>1, <3>1, <4>1 DEF SupervisionInv, ActiveInv
        <4>3. rt.state = "running"
          BY <1>1, <3>1, <4>1, <4>2 DEF SupervisionInv, OwnerInv, Ownership
        <4>4. /\ Transition(rt, "stopping") \in Runtimes
              /\ Transition(rt, "stopping").state = "stopping"
              /\ CanTransition("running", "stopping")
          BY <3>1, <4>3, TransitionType DEF Transition, CanTransition, Runtimes, States,
             ActiveStates
        <4> QED
          BY <2>1, <3>1, <4>1, <4>3, <4>4, ReplacedLegally
      <3>5. CASE StatusWithError(t)
        BY <3>5, <2>1 DEF StatusWithError, managerVars
      <3> QED
        BY <2>2, <3>2, <3>3, <3>4, <3>5 DEF LockStep
    <2>3. ASSUME NEW t \in Threads, FreeStep(t)
          PROVE  CanTransition(registry.runtime[j].state, registry'.runtime[j].state)
      <3> DEFINE k == thread[t].key
                 rt == registry.runtime[k]
      <3>1. PICK new :
              /\ registry' = WithRuntime(k, new)
              /\ \/ At(t, "spawn") /\ new = Fail(rt, "start-failed")
                 \/ At(t, "persist") /\ new = Transition(rt, "running")
                 \/ At(t, "abort") /\ new = Fail(rt, "observation-failed")
        BY <2>1, <2>3 DEF FreeStep, Spawn, PersistRunning, AbortWait, Signal, WaitDone,
           WaitCancelled, managerVars
      <3>2. /\ mu = t /\ mu # NoThread /\ k \in Keys /\ rt \in Runtimes
            /\ thread[t].pc \in StartSteps
        BY <1>1, <3>1, InStart DEF At, StartSteps
      <3>3. rt.state = IF thread[t].pc = "abort" THEN "running" ELSE "starting"
        BY <1>1, <3>2 DEF SupervisionInv, StartInv
      <3>4. IsActive(rt.state)
        BY <3>3 DEF IsActive, ActiveStates
      <3>5. new \in Runtimes /\ CanTransition(rt.state, new.state)
        <4>1. CASE At(t, "persist") /\ new = Transition(rt, "running")
          BY <4>1, <3>2, <3>3, TransitionType DEF At, Transition, CanTransition, Runtimes,
             States, ActiveStates
        <4>2. CASE ~At(t, "persist")
          <5>1. PICK reason \in Reasons : new = Fail(rt, reason)
            BY <4>2, <3>1 DEF Reasons
          <5> QED
            BY <5>1, <3>2, <3>4, FailType, FailLegal
        <4> QED
          BY <3>1, <4>1, <4>2 DEF At
      <3> QED
        BY <2>1, <3>1, <3>2, <3>5, ReplacedLegally
    <2>4. ASSUME NEW i \in Instances, RecordExit(i)
          PROVE  CanTransition(registry.runtime[j].state, registry'.runtime[j].state)
      <3> DEFINE k == tree[i].key
                 rt == registry.runtime[k]
      <3>1. k \in Keys /\ active[k] = i /\ i # Nil
        BY <1>1, <2>4, BoundAssumption DEF SupervisionInv, OwnerInv, RecordExit, Instances, Nil
      <3>2. rt \in Runtimes /\ rt.state \in {"running", "stopping"}
        BY <1>1, <2>1, <3>1 DEF SupervisionInv, OwnerInv, Ownership, Registries
      <3>3. PICK waitErr \in WaitErrors :
              registry' = WithRuntime(k, Finish(rt, tree[i].code, waitErr))
        BY <2>1, <2>4 DEF RecordExit
      <3>4. tree[i].code \in ExitCodes /\ waitErr \in BOOLEAN
        BY <1>1, <3>3 DEF SupervisionInv, TypeOK, Trees, ExitCodes, WaitErrors
      <3>5. /\ Finish(rt, tree[i].code, waitErr) \in Runtimes
            /\ CanTransition(rt.state, Finish(rt, tree[i].code, waitErr).state)
        BY <3>2, <3>4, FinishType
      <3> QED
        BY <2>1, <3>1, <3>3, <3>5, ReplacedLegally
    <2>5. ~Boot
      <3>1. SUFFICES ASSUME Boot PROVE FALSE
        OBVIOUS
      <3>2. registry.runtime[j] = NilRuntime
        BY <1>1, <3>1 DEF Boot, SupervisionInv, DownInv
      <3> QED
        BY <3>2, NilRuntimeType
    <2>6. ~Gone
      <3>1. SUFFICES ASSUME Gone PROVE FALSE
        OBVIOUS
      <3>2. registry'.runtime[j] = NilRuntime
        BY <3>1 DEF Gone, NewRegistry
      <3> QED
        BY <3>2, NilRuntimeType
    <2> QED
      BY <1>1, <2>1, <2>2, <2>3, <2>4, <2>5, <2>6
      DEF Next, Call, ObserveEnd, LeaderExit, ChildExit, Terminate, AcceptFails, ServeReturns,
          ShutdownNext, ShutdownExpires, Exit, Crash, managerVars, vars
  <1>2. SupervisionInv /\ [Next]_vars => [\A k \in Keys : Legal(k)]_vars
    BY <1>1
  <1> QED
    BY <1>2, SupervisionCorrect, PTL DEF Spec, LegalTransitions
=============================================================================
