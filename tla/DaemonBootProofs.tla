-------------------------- MODULE DaemonBootProofs --------------------------
(***************************************************************************)
(* Theorems about DaemonBoot for any number of daemons and definitions: on *)
(* a pipe always, and on a socket as long as boots do not race, the control*)
(* endpoint has one owner.                                                 *)
(***************************************************************************)
EXTENDS DaemonBoot, TLAPS

(* A loaded registry is reconciled: nothing in it is active.               *)
LEMMA ReconcileType ==
  ASSUME NEW r \in Registries
  PROVE  Reconcile(r) \in Registries
  BY DEF Reconcile, Registries

(* What the operations of a manager write is a registry.                   *)
LEMMA WrittenType ==
  ASSUME NEW r \in Registries, NEW def \in Definitions
  PROVE  /\ [r EXCEPT !.defs = @ \cup {def}] \in Registries
         /\ def \notin r.active => [r EXCEPT !.defs = @ \ {def}] \in Registries
         /\ def \in r.defs => [r EXCEPT !.active = @ \cup {def}] \in Registries
         /\ [r EXCEPT !.active = @ \ {def}] \in Registries
  BY DEF Registries

(* Every step keeps the types.                                             *)
LEMMA TypeKept ==
  ASSUME TypeOK, Next
  PROVE  TypeOK'
  <1> USE DEF TypeOK
  <1>0. Empty \in Registries
    BY DEF Empty, Registries
  <1>1. PICK d \in Daemons :
          \/ Load(d) \/ BootStep(d)
          \/ \E def \in Definitions :
               Add(d, def) \/ Delete(d, def) \/ StartRun(d, def) \/ EndRun(d, def)
          \/ CloseListener(d) \/ Exit(d) \/ Crash(d)
    BY DEF Next
  <1>2. CASE Load(d)
    BY <1>2, ReconcileType DEF Load, Goto, Steps, BootSteps
  <1>3. CASE BootStep(d)
    <2>1. CASE SaveReconciled(d)
      BY <2>1 DEF SaveReconciled, Goto, Steps, BootSteps
    <2>2. CASE Inspect(d) \/ ListenPipe(d) \/ Dial(d)
      BY <2>2 DEF Inspect, ListenPipe, Dial, Goto, Steps, BootSteps
    <2>3. CASE Remove(d) \/ Bind(d) \/ Chmod(d)
      BY <2>3 DEF Remove, Bind, Chmod, Goto, Steps, BootSteps
    <2>4. CASE OpenStore(d)
      BY <2>4, <1>0 DEF OpenStore, Unlinked, Goto, Steps, BootSteps
    <2> QED
      BY <1>3, <2>1, <2>2, <2>3, <2>4 DEF BootStep
  <1>4. ASSUME NEW def \in Definitions,
               Add(d, def) \/ Delete(d, def) \/ StartRun(d, def) \/ EndRun(d, def)
        PROVE  TypeOK'
    <2>1. PICK r \in Registries : Write(d, r)
      BY <1>4, WrittenType DEF Add, Delete, StartRun, EndRun
    <2>2. UNCHANGED <<transport, endpoint, pc>>
      BY <1>4 DEF Add, Delete, StartRun, EndRun
    <2> QED
      BY <2>1, <2>2 DEF Write
  <1>5. CASE CloseListener(d) \/ Exit(d) \/ Crash(d)
    BY <1>5, <1>0 DEF CloseListener, Exit, Crash, Unlinked, Goto, Steps
  <1> QED
    BY <1>1, <1>2, <1>3, <1>4, <1>5

(* Every step keeps the endpoint in one hand.                              *)
LEMMA EndpointKept ==
  ASSUME TypeOK, Serial, EndpointInv, Next
  PROVE  EndpointInv'
  <1> USE DEF TypeOK
  <1>1. PICK d \in Daemons :
          \/ Load(d) \/ BootStep(d)
          \/ \E def \in Definitions :
               Add(d, def) \/ Delete(d, def) \/ StartRun(d, def) \/ EndRun(d, def)
          \/ CloseListener(d) \/ Exit(d) \/ Crash(d)
    BY DEF Next
  <1>2. CASE Load(d)
    BY <1>2 DEF Load, Goto, EndpointInv, Listens, Serial, BootSteps
  <1>3. CASE BootStep(d)
    <2>1. CASE SaveReconciled(d)
      BY <2>1 DEF SaveReconciled, Goto, EndpointInv, Listens, BootSteps
    <2>2. CASE Inspect(d)
      BY <2>2, NoDaemonAssumption DEF Inspect, Goto, EndpointInv, Listens, BootSteps
    <2>3. CASE ListenPipe(d)
      BY <2>3, NoDaemonAssumption DEF ListenPipe, PipeFree, Goto, EndpointInv, Listens, BootSteps
    <2>4. CASE Dial(d)
      BY <2>4, NoDaemonAssumption DEF Dial, Answered, Goto, EndpointInv, Listens, BootSteps
    <2>5. CASE Remove(d)
      BY <2>5 DEF Remove, Goto, EndpointInv, Listens, BootSteps
    <2>6. CASE Bind(d)
      BY <2>6, NoDaemonAssumption DEF Bind, Goto, EndpointInv, Listens, BootSteps
    <2>7. CASE Chmod(d)
      BY <2>7 DEF Chmod, Goto, EndpointInv, Listens, BootSteps
    <2>8. CASE OpenStore(d)
      BY <2>8, NoDaemonAssumption DEF OpenStore, Unlinked, Goto, EndpointInv, Listens, BootSteps
    <2> QED
      BY <1>3, <2>1, <2>2, <2>3, <2>4, <2>5, <2>6, <2>7, <2>8 DEF BootStep
  <1>4. CASE \E def \in Definitions :
               Add(d, def) \/ Delete(d, def) \/ StartRun(d, def) \/ EndRun(d, def)
    BY <1>4 DEF Add, Delete, StartRun, EndRun, EndpointInv, Listens
  <1>5. CASE CloseListener(d)
    BY <1>5, NoDaemonAssumption DEF CloseListener, Unlinked, Goto, EndpointInv, Listens, BootSteps
  <1>6. CASE Exit(d)
    BY <1>6 DEF Exit, Goto, EndpointInv, Listens, BootSteps
  <1>7. CASE Crash(d)
    BY <1>7, NoDaemonAssumption DEF Crash, Goto, EndpointInv, Listens, BootSteps
  <1> QED
    BY <1>1, <1>2, <1>3, <1>4, <1>5, <1>6, <1>7

(* BootInv is inductive.                                                   *)
THEOREM BootCorrect == Spec => []BootInv
  <1>1. Init => BootInv
    <2>1. Empty \in Registries
      BY DEF Empty, Registries
    <2>2. Init => TypeOK
      BY <2>1 DEF Init, TypeOK, Steps
    <2>3. Init => EndpointInv
      BY DEF Init, EndpointInv, Listens, BootSteps
    <2> QED
      BY <2>2, <2>3 DEF BootInv
  <1>2. BootInv /\ [Next]_vars => BootInv'
    <2> SUFFICES ASSUME BootInv, [Next]_vars PROVE BootInv'
      OBVIOUS
    <2>1. CASE Next
      <3>1. transport' = transport
        BY <2>1 DEF Next, Load, BootStep, SaveReconciled, Inspect, ListenPipe, Dial, Remove,
           Bind, Chmod, OpenStore, Add, Delete, StartRun, EndRun, CloseListener, Exit, Crash
      <3> QED
        BY <2>1, <3>1, TypeKept, EndpointKept DEF BootInv, Serial
    <2>2. CASE UNCHANGED vars
      BY <2>2 DEF vars, BootInv, TypeOK, Serial, EndpointInv, Listens
    <2> QED
      BY <2>1, <2>2
  <1> QED
    BY <1>1, <1>2, PTL DEF Spec

(* Two daemons never serve at the same time: on a named pipe however they  *)
(* race, on a socket as long as their boots do not (ListenLocal, runDaemon)*)
THEOREM OneDaemonServes == Spec => [](Serial => OneServing)
  <1>1. BootInv => (Serial => OneServing)
    BY DEF BootInv, EndpointInv, Listens, OneServing
  <1> QED
    BY <1>1, BootCorrect, PTL

(* Under the same condition a serving daemon is the one clients reach: its *)
(* endpoint is neither removed nor taken over while it serves.             *)
THEOREM ServingIsReachable == Spec => [](Serial => Reachable)
  <1>1. BootInv => (Serial => Reachable)
    BY DEF BootInv, EndpointInv, Listens, Reachable
  <1> QED
    BY <1>1, BootCorrect, PTL

(* If boots on a socket do not race, a boot that is refused at an endpoint *)
(* was refused by a daemon that listens there, never by a stale socket.    *)
THEOREM RefusalHasCause ==
  ASSUME RacingSockets = FALSE
  PROVE  Spec => RefusedForCause
  <1> DEFINE Cause == \A d \in Daemons :
                        pc[d] \in BootSteps /\ pc'[d] = "refused" /\ endpoint # NoDaemon =>
                          endpoint # d /\ Listens(endpoint)
  <1>1. BootInv /\ [Next]_vars => [Cause]_vars
    <2> SUFFICES ASSUME BootInv, Next, NEW d \in Daemons, pc[d] \in BootSteps,
                        pc'[d] = "refused", endpoint # NoDaemon
                 PROVE  endpoint # d /\ Listens(endpoint)
      OBVIOUS
    <2>1. TypeOK /\ EndpointInv
      BY DEF BootInv, Serial
    <2>2. PICK e \in Daemons :
            \/ Load(e) \/ BootStep(e)
            \/ \E def \in Definitions :
                 Add(e, def) \/ Delete(e, def) \/ StartRun(e, def) \/ EndRun(e, def)
            \/ CloseListener(e) \/ Exit(e) \/ Crash(e)
      BY DEF Next
    <2>3. pc[d] # "refused"
      BY DEF BootSteps
    <2>4. CASE BootStep(e)
      <3>1. CASE ListenPipe(e)
        BY <3>1, <2>1, <2>3 DEF ListenPipe, PipeFree, Goto, EndpointInv, TypeOK, Listens
      <3>2. CASE Dial(e)
        BY <3>2, <2>1, <2>3 DEF Dial, Answered, Goto, TypeOK, Listens
      <3>3. CASE Bind(e)
        BY <3>3, <2>1, <2>3 DEF Bind, Goto, EndpointInv, TypeOK
      <3>4. CASE SaveReconciled(e) \/ Inspect(e) \/ OpenStore(e)
        BY <3>4, <2>1, <2>3 DEF SaveReconciled, Inspect, OpenStore, Goto, TypeOK
      <3>5. CASE Remove(e) \/ Chmod(e)
        BY <3>5, <2>1, <2>3 DEF Remove, Chmod, Goto, TypeOK
      <3> QED
        BY <2>4, <3>1, <3>2, <3>3, <3>4, <3>5 DEF BootStep
    <2>5. CASE Load(e) \/ CloseListener(e) \/ Exit(e) \/ Crash(e)
      BY <2>5, <2>1, <2>3 DEF Load, CloseListener, Exit, Crash, Goto, TypeOK
    <2>6. CASE \E def \in Definitions :
                 Add(e, def) \/ Delete(e, def) \/ StartRun(e, def) \/ EndRun(e, def)
      BY <2>6, <2>3 DEF Add, Delete, StartRun, EndRun
    <2> QED
      BY <2>2, <2>4, <2>5, <2>6
  <1> QED
    BY <1>1, BootCorrect, PTL DEF Spec, RefusedForCause, Cause
=============================================================================
