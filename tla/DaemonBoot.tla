------------------------------ MODULE DaemonBoot ----------------------------
(***************************************************************************)
(* Several dovikd processes of one user over one registry file and one     *)
(* control endpoint.  A booting daemon loads the registry and persists its *)
(* reconciliation before it looks whether another daemon listens; on Unix  *)
(* it looks, dials, removes and binds the socket path in separate steps,   *)
(* on Windows the pipe name is taken atomically.                           *)
(*                                                                         *)
(* A registry is abstracted to the definitions it holds and those of them  *)
(* whose runtime is active; Save always succeeds here (Lifecycle has the   *)
(* failures).  A Bug_ operator is a faulty variant of a definition after   *)
(* it.                                                                     *)
(***************************************************************************)
EXTENDS FiniteSets

CONSTANTS Daemons,
          Definitions,
          NoDaemon,         \* the owner of an absent endpoint
          RacingSockets     \* whether daemons on a Unix socket may boot at
                            \* the same time; on a pipe they always may

ASSUME NoDaemonAssumption == NoDaemon \notin Daemons
ASSUME RacingAssumption == RacingSockets \in BOOLEAN

VARIABLES transport, \* the platform's: "socket" or "pipe", chosen for good
          file,      \* the content of registry.json
          endpoint,  \* the daemon whose socket is at the path, dead or alive
          pc,        \* where each daemon is
          memory     \* the registry each daemon holds

vars == <<transport, file, endpoint, pc, memory>>

Registries == {r \in [defs : SUBSET Definitions, active : SUBSET Definitions] :
                 r.active \subseteq r.defs}
Empty == [defs |-> {}, active |-> {}]

BootSteps == {"loaded", "listening", "dial", "remove", "bind", "chmod", "opening"}
Steps == {"off", "refused", "serving", "stopping"} \cup BootSteps

Init ==
  /\ transport \in {"socket", "pipe"}
  /\ file = Empty
  /\ endpoint = NoDaemon
  /\ pc = [d \in Daemons |-> "off"]
  /\ memory = [d \in Daemons |-> Empty]

Goto(d, step) == pc' = [pc EXCEPT ![d] = step]

(* The listener of a daemon is open, whoever the path belongs to.          *)
Listens(d) == pc[d] \in {"chmod", "opening", "serving"}

Reconcile(r) == [r EXCEPT !.active = {}]

(* A dovikd is launched and loads the file; Load and Save are two steps.   *)
Load(d) ==
  /\ pc[d] \in {"off", "refused"}
  /\ \/ transport = "pipe" \/ RacingSockets
     \/ \A e \in Daemons \ {d} : pc[e] \notin BootSteps
  /\ memory' = [memory EXCEPT ![d] = Reconcile(file)]
  /\ Goto(d, IF Reconcile(file) = file THEN "listening" ELSE "loaded")
  /\ UNCHANGED <<transport, file, endpoint>>

SaveReconciled(d) ==
  /\ pc[d] = "loaded"
  /\ file' = memory[d]
  /\ Goto(d, "listening")
  /\ UNCHANGED <<transport, endpoint, memory>>

(* ListenLocal: Lstat of the socket path, or the whole of ListenPipe.      *)
Inspect(d) ==
  /\ pc[d] = "listening"
  /\ transport = "socket"
  /\ Goto(d, IF endpoint = NoDaemon THEN "bind" ELSE "dial")
  /\ UNCHANGED <<transport, file, endpoint, memory>>

Bug_PipeShared == TRUE

PipeFree == endpoint = NoDaemon

ListenPipe(d) ==
  /\ pc[d] = "listening"
  /\ transport = "pipe"
  /\ IF PipeFree
     THEN endpoint' = d /\ Goto(d, "opening")
     ELSE UNCHANGED endpoint /\ Goto(d, "refused")
  /\ UNCHANGED <<transport, file, memory>>

Bug_NeverAnswered == FALSE
Bug_AnyAnswers == endpoint # NoDaemon

(* Connecting works while the listener of the socket at the path is open.  *)
Answered == endpoint # NoDaemon /\ Listens(endpoint)

(* An answered dial refuses the boot; otherwise the socket counts as stale.*)
Dial(d) ==
  /\ pc[d] = "dial"
  /\ Goto(d, IF Answered THEN "refused" ELSE "remove")
  /\ UNCHANGED <<transport, file, endpoint, memory>>

(* Whatever is at the path by now goes; nothing there is an error.         *)
Remove(d) ==
  /\ pc[d] = "remove"
  /\ Goto(d, IF endpoint = NoDaemon THEN "refused" ELSE "bind")
  /\ endpoint' = NoDaemon
  /\ UNCHANGED <<transport, file, memory>>

Bind(d) ==
  /\ pc[d] = "bind"
  /\ IF endpoint = NoDaemon
     THEN endpoint' = d /\ Goto(d, "chmod")
     ELSE UNCHANGED endpoint /\ Goto(d, "refused")
  /\ UNCHANGED <<transport, file, memory>>

(* Chmod goes by the path too.                                             *)
Chmod(d) ==
  /\ pc[d] = "chmod"
  /\ Goto(d, IF endpoint = NoDaemon THEN "refused" ELSE "opening")
  /\ UNCHANGED <<transport, file, endpoint, memory>>

(* The endpoint once a listener is closed: closing one unlinks the socket  *)
(* path, whoever is bound to it by now; a pipe goes with its own daemon.   *)
Unlinked(d) ==
  IF transport = "socket" \/ endpoint = d THEN NoDaemon ELSE endpoint

(* The identity store opens and the daemon serves, or it does not and the  *)
(* daemon exits, closing its listener.                                     *)
OpenStore(d) ==
  /\ pc[d] = "opening"
  /\ \/ Goto(d, "serving") /\ UNCHANGED <<endpoint, memory>>
     \/ /\ Goto(d, "off")
        /\ endpoint' = Unlinked(d)
        /\ memory' = [memory EXCEPT ![d] = Empty]
  /\ UNCHANGED <<transport, file>>

(* The manager changes its registry and saves all of it.                   *)
Write(d, registry) ==
  /\ memory' = [memory EXCEPT ![d] = registry]
  /\ file' = registry

(* A client reaches the daemon the endpoint leads to.                      *)
Reached(d) == pc[d] = "serving" /\ endpoint = d

Add(d, def) ==
  /\ Reached(d)
  /\ def \notin memory[d].defs
  /\ Write(d, [memory[d] EXCEPT !.defs = @ \cup {def}])
  /\ UNCHANGED <<transport, endpoint, pc>>

Delete(d, def) ==
  /\ Reached(d)
  /\ def \in memory[d].defs \ memory[d].active
  /\ Write(d, [memory[d] EXCEPT !.defs = @ \ {def}])
  /\ UNCHANGED <<transport, endpoint, pc>>

StartRun(d, def) ==
  /\ Reached(d)
  /\ def \in memory[d].defs \ memory[d].active
  /\ Write(d, [memory[d] EXCEPT !.active = @ \cup {def}])
  /\ UNCHANGED <<transport, endpoint, pc>>

(* A runtime ends, by request or not, and observeExit saves it.            *)
EndRun(d, def) ==
  /\ pc[d] \in {"serving", "stopping"}
  /\ def \in memory[d].active
  /\ Write(d, [memory[d] EXCEPT !.active = @ \ {def}])
  /\ UNCHANGED <<transport, endpoint, pc>>

(* Serve closes the listener; Shutdown runs after it.                      *)
CloseListener(d) ==
  /\ pc[d] = "serving"
  /\ Goto(d, "stopping")
  /\ endpoint' = Unlinked(d)
  /\ UNCHANGED <<transport, file, memory>>

(* Shutdown is over, and with it its patience: a runtime it had to kill    *)
(* may not have been recorded.                                             *)
Exit(d) ==
  /\ pc[d] = "stopping"
  /\ Goto(d, "off")
  /\ memory' = [memory EXCEPT ![d] = Empty]
  /\ UNCHANGED <<transport, file, endpoint>>

(* A killed daemon leaves its socket behind; a pipe goes with it.          *)
Crash(d) ==
  /\ pc[d] \notin {"off", "refused"}
  /\ Goto(d, "off")
  /\ memory' = [memory EXCEPT ![d] = Empty]
  /\ endpoint' = IF transport = "pipe" /\ endpoint = d THEN NoDaemon ELSE endpoint
  /\ UNCHANGED <<transport, file>>

BootStep(d) ==
  \/ SaveReconciled(d) \/ Inspect(d) \/ ListenPipe(d) \/ Dial(d) \/ Remove(d)
  \/ Bind(d) \/ Chmod(d) \/ OpenStore(d)

Next ==
  \E d \in Daemons :
    \/ Load(d) \/ BootStep(d)
    \/ \E def \in Definitions :
         Add(d, def) \/ Delete(d, def) \/ StartRun(d, def) \/ EndRun(d, def)
    \/ CloseListener(d) \/ Exit(d) \/ Crash(d)

Spec == Init /\ [][Next]_vars

(***************************************************************************)
(* Properties.                                                             *)
(***************************************************************************)

(* Every variable keeps its type.                                          *)
TypeOK ==
  /\ transport \in {"socket", "pipe"}
  /\ file \in Registries
  /\ endpoint \in Daemons \cup {NoDaemon}
  /\ pc \in [Daemons -> Steps]
  /\ memory \in [Daemons -> Registries]

(* "One daemon owns each registered process": two daemons never serve at   *)
(* the same time.                                                          *)
OneServing == \A d, e \in Daemons : pc[d] = "serving" /\ pc[e] = "serving" => d = e

(* A serving daemon is the one clients reach.                              *)
Reachable == \A d \in Daemons : pc[d] = "serving" => endpoint = d

(* Boots do not race for a socket path.                                    *)
Serial == transport = "pipe" \/ ~RacingSockets

(* The inductive strengthening of the two invariants above.  A listening   *)
(* daemon owns the endpoint; a pipe's endpoint goes with its daemon; on a  *)
(* socket at most one daemon boots, and by the time it removes or binds the*)
(* path nobody listens there.                                              *)
EndpointInv ==
  /\ \A d \in Daemons : Listens(d) => endpoint = d
  /\ transport = "pipe" =>
       /\ endpoint # NoDaemon => Listens(endpoint)
       /\ \A d \in Daemons : pc[d] \notin {"dial", "remove", "bind", "chmod"}
  /\ transport = "socket" =>
       /\ \A d, e \in Daemons : pc[d] \in BootSteps /\ pc[e] \in BootSteps => d = e
       /\ \A d \in Daemons : /\ pc[d] = "bind" => endpoint = NoDaemon
                             /\ pc[d] = "remove" => \A e \in Daemons : ~Listens(e)

BootInv == TypeOK /\ (Serial => EndpointInv)

(* "The daemon SHALL be the sole writer of a registry": the file says what *)
(* the serving daemon says.                                                *)
ServedIsStored == \A d \in Daemons : pc[d] = "serving" => file = memory[d]

(* A stale socket never keeps a daemon from coming up: whoever is at the   *)
(* endpoint when a boot is refused there is a daemon that listens.         *)
RefusedForCause ==
  [][\A d \in Daemons :
       pc[d] \in BootSteps /\ pc'[d] = "refused" /\ endpoint # NoDaemon =>
         endpoint # d /\ Listens(endpoint)]_vars
=============================================================================
