--------------------------- MODULE LifecycleLedger --------------------------
(***************************************************************************)
(* Lifecycle implements RunLedger: the ledger is the registry of the live  *)
(* daemon, and while there is none the registry the next one will boot     *)
(* with.                                                                   *)
(***************************************************************************)
EXTENDS Lifecycle

View == IF mode = "down" THEN Reconciled(disk) ELSE registry

Ledger == INSTANCE RunLedger WITH defined <- View.processes,
                                  run <- View.runtime,
                                  last <- nextInst - 1

(* Whatever clients, processes, failing saves and crashes do, the daemon's *)
(* answers follow the ledger: at most one active run per definition, fresh *)
(* instances, legal transitions, no removal of an active definition, and   *)
(* nothing lost or resurrected by a crash.                                 *)
ImplementsLedger == Ledger!LSpec
=============================================================================
