---------------------------- MODULE ProcessState ----------------------------
(***************************************************************************)
(* The life of one runtime (one start attempt) of a process definition:    *)
(* its states, the transitions between them and the record the registry    *)
(* keeps of it.  Everything here is pure; Lifecycle drives it.             *)
(* A Bug_ operator is a faulty variant of the definition that follows it,  *)
(* used to see that the properties notice.                                 *)
(*                                                                         *)
(* Abstractions: an instance ID is a number (Nil stands for a nil          *)
(* Runtime); PID, StartedAt and FinishedAt are left out (FinishedAt is     *)
(* assigned exactly where the termination reason is); an exit code is one  *)
(* of "zero", "nonzero" and "none" (not available, ExitCode() = -1).       *)
(***************************************************************************)
EXTENDS Naturals

Nil == 0

ActiveStates == {"starting", "running", "stopping"}
TerminalStates == {"stopped", "exited", "failed"}
States == ActiveStates \cup TerminalStates
Reasons == {"", "start-failed", "natural-exit", "requested-stop",
            "observation-failed", "daemon-restart"}
ExitCodes == {"none", "zero", "nonzero"}

IsActive(state) == state \in ActiveStates

CanTransition(from, to) ==
  \/ from = "starting" /\ to \in {"running", "stopping", "failed"}
  \/ from = "running"  /\ to \in {"stopping", "exited", "failed"}
  \/ from = "stopping" /\ to \in {"stopped", "failed"}

(* A definition that was never started has the nil runtime, here a record  *)
(* with instance Nil and the terminal state a status of it would show.     *)
NilRuntime == [inst |-> Nil, state |-> "stopped", reason |-> "", exit |-> "none"]

Bug_UnknownState(i) ==
  [inst |-> i, state |-> "started", reason |-> "", exit |-> "none"]

NewProcessRuntime(i) ==
  [inst |-> i, state |-> "starting", reason |-> "", exit |-> "none"]

(* A forbidden transition returns an error and leaves the runtime alone.   *)
Transition(rt, next) ==
  IF CanTransition(rt.state, next) THEN [rt EXCEPT !.state = next] ELSE rt

Bug_ReasonOnly(rt, reason) == [rt EXCEPT !.reason = reason]

(* failStart, failRunningProcess and the reconciliation of a restarted     *)
(* daemon: a reason is recorded and the runtime fails.                     *)
Fail(rt, reason) == Transition([rt EXCEPT !.reason = reason], "failed")

Bug_OutcomeByCode(rt, code, waitErr) ==
  [state |-> IF code = "zero" THEN "exited" ELSE "failed", reason |-> "natural-exit"]

(* observeExit: the terminal state and reason of a runtime whose process   *)
(* ended with the given exit code, `waitErr` when Wait itself failed.      *)
Outcome(rt, code, waitErr) ==
  CASE waitErr               -> [state |-> "failed",  reason |-> "observation-failed"]
    [] ~waitErr /\ rt.state = "stopping"
                             -> [state |-> "stopped", reason |-> "requested-stop"]
    [] ~waitErr /\ rt.state # "stopping" /\ code = "zero"
                             -> [state |-> "exited",  reason |-> "natural-exit"]
    [] OTHER                 -> [state |-> "failed",  reason |-> "natural-exit"]

Finish(rt, code, waitErr) ==
  LET outcome == Outcome(rt, code, waitErr)
  IN  Transition([rt EXCEPT !.exit = code, !.reason = outcome.reason],
                 outcome.state)

Bug_ReconcileAll(rt) == Fail(rt, "daemon-restart")

(* ReconcileAfterDaemonRestart, for one runtime.                           *)
Reconcile(rt) == IF IsActive(rt.state) THEN Fail(rt, "daemon-restart") ELSE rt
=============================================================================
