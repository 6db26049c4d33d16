----------------------------- MODULE ProcessTree ----------------------------
(***************************************************************************)
(* The operating-system side of one runtime: the process the daemon        *)
(* started (the leader), one descendant standing for all of them, and what *)
(* the platform owner does to them.  Unix puts the tree in a process group *)
(* and signals the group; Windows puts it in a kill-on-close job object.   *)
(*                                                                         *)
(* A descendant is "piped" (it holds the inherited stdout or stderr),      *)
(* "detached" (it redirected both), "escaped" (it holds a pipe and left    *)
(* the process group with setsid, which no job object allows) or "none".   *)
(* A deaf tree ignores SIGTERM.  SIGKILL and job termination take effect   *)
(* at once; the gap between reaping the leader and closing the owner is    *)
(* one step.                                                               *)
(***************************************************************************)
CONSTANTS Platform,    \* "unix" or "windows"
          TreeKinds    \* the [child, deaf] shapes a started command may take

ChildKinds == {"none", "piped", "detached", "escaped"}
Hearings == {"hears", "deaf"}

ASSUME PlatformAssumption == Platform \in {"unix", "windows"}
ASSUME TreeKindsAssumption ==
  /\ TreeKinds \subseteq [child : ChildKinds, hearing : Hearings]
  /\ Platform = "windows" => \A kind \in TreeKinds : kind.child # "escaped"

Trees(Keys) ==
  [key : Keys, leader : {"none", "alive", "dead"}, child : ChildKinds,
   hearing : Hearings, term : {"no", "yes"}, code : {"none", "zero", "nonzero"},
   owner : {"daemon", "nobody"}]

NoTree(k) ==
  [key |-> k, leader |-> "none", child |-> "none", hearing |-> "hears",
   term |-> "no", code |-> "none", owner |-> "nobody"]

(* startOwnedProcess                                                       *)
NewTree(k, kind) ==
  [key |-> k, leader |-> "alive", child |-> kind.child, hearing |-> kind.hearing,
   term |-> "no", code |-> "none", owner |-> "daemon"]

(* SIGKILL to the group leaves an escaped descendant alive; terminating a  *)
(* job object ends everything in it with exit code 1.                      *)
Kill(tr) ==
  [tr EXCEPT
     !.child  = IF tr.child = "escaped" THEN "escaped" ELSE "none",
     !.leader = IF tr.leader = "alive" THEN "dead" ELSE tr.leader,
     !.code   = IF tr.leader = "alive" /\ Platform = "windows"
                THEN "nonzero" ELSE tr.code]

(* SIGTERM to the group, which its members may honour or ignore.           *)
RequestStop(tr) ==
  IF Platform = "windows" THEN Kill(tr) ELSE [tr EXCEPT !.term = "yes"]

Bug_CloseKeepsTree(tr) == tr

(* Closing the owner forgets the group on Unix and ends the job on Windows.*)
Close(tr) == IF Platform = "windows" THEN Kill(tr) ELSE tr

(* A process killed by a signal has no exit code; on Windows all have one. *)
NaturalCodes ==
  IF Platform = "windows" THEN {"zero", "nonzero"} ELSE {"none", "zero", "nonzero"}

Bug_EndedByPipes(tr) == tr.leader # "none" /\ tr.child \notin {"piped", "escaped"}

(* What exec.Cmd.Wait waits for: the leader and every holder of its pipes. *)
Ended(tr) == tr.leader = "dead" /\ tr.child \notin {"piped", "escaped"}

LeaderAlive(tr) == tr.leader = "alive"

TreeAlive(tr) == tr.leader = "alive" \/ tr.child # "none"

(* The daemon is gone: its job handles close, its groups run on unowned.   *)
Orphan(tr) == [Close(tr) EXCEPT !.owner = "nobody"]
=============================================================================
