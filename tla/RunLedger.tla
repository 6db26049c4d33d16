------------------------------ MODULE RunLedger -----------------------------
(***************************************************************************)
(* What supervision promises a client, without locks, files, goroutines or *)
(* processes: a ledger with one entry per process definition.  A run is    *)
(* begun only while none is active and always under a new instance ID, it  *)
(* moves along the lifecycle's transitions, a definition is removed only   *)
(* while inactive, and losing the daemon fails what was active.            *)
(***************************************************************************)
EXTENDS ProcessState

CONSTANT Keys

VARIABLES defined,  \* the registered process definitions
          run,      \* the current or most recent runtime of each
          last      \* the last instance ID handed out

ledger == <<defined, run, last>>

LInit ==
  /\ defined \in SUBSET Keys
  /\ run = [k \in Keys |-> NilRuntime]
  /\ last = 0

Register(k) ==
  /\ k \notin defined
  /\ defined' = defined \cup {k}
  /\ UNCHANGED <<run, last>>

Deregister(k) ==
  /\ k \in defined
  /\ ~IsActive(run[k].state)
  /\ defined' = defined \ {k}
  /\ run' = [run EXCEPT ![k] = NilRuntime]
  /\ UNCHANGED last

(* An instance ID may be drawn for a run that is then not begun.           *)
Draw == last' = last + 1 /\ UNCHANGED <<defined, run>>

Begin(k) ==
  /\ k \in defined
  /\ ~IsActive(run[k].state)
  /\ last' = last + 1
  /\ run' = [run EXCEPT ![k] = NewProcessRuntime(last + 1)]
  /\ UNCHANGED defined

(* One transition of the run, with the reason and exit code that go with a *)
(* terminal state.                                                         *)
Advance(k) ==
  /\ run[k].inst # Nil
  /\ \E state \in States, reason \in Reasons, exit \in ExitCodes :
       /\ CanTransition(run[k].state, state)
       /\ IsActive(state) => reason = "" /\ exit = "none"
       /\ run' = [run EXCEPT ![k] = [inst |-> run[k].inst, state |-> state,
                                     reason |-> reason, exit |-> exit]]
  /\ UNCHANGED <<defined, last>>

Lost(rt) == [inst |-> rt.inst, state |-> "failed", reason |-> "daemon-restart",
             exit |-> "none"]

(* The daemon is lost.  Active runs fail; so may one whose end the daemon  *)
(* saw and could not persist.                                              *)
LoseDaemon ==
  /\ \E saved \in SUBSET {k \in Keys : ~IsActive(run[k].state)} :
       /\ \A k \in Keys : run[k].inst = Nil => k \in saved
       /\ run' = [k \in Keys |-> IF k \in saved THEN run[k] ELSE Lost(run[k])]
  /\ UNCHANGED <<defined, last>>

LNext ==
  \/ \E k \in Keys : Register(k) \/ Deregister(k) \/ Begin(k) \/ Advance(k)
  \/ Draw \/ LoseDaemon

LSpec == LInit /\ [][LNext]_ledger
=============================================================================
