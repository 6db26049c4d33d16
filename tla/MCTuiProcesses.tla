------------------------------ MODULE MCTuiProcesses ---------------------------
(* The lists the daemon has in turn in the instances of TuiProcesses.          *)
EXTENDS TuiProcesses
CONSTANTS k1, k2
(* A selected process that is removed, and then the other one.                 *)
MCRegistries == <<<<k1, k2>>, <<k2>>, <<>>>>
(* One process that stays.                                                     *)
MCOneProcess == <<<<k1>>>>
=============================================================================
