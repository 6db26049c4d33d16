------------------------------ MODULE LogFollow -----------------------------
(***************************************************************************)
(* `dovik process logs --follow`: a client that polls the output of one    *)
(* process definition while its runtime writes, ends and is started again. *)
(* Logs answers from the buffer of the current or most recent run; every   *)
(* run has a new buffer, whose sequence numbers start at 1 again.          *)
(*                                                                         *)
(* A poll is one step.  The handler picks the buffer under the manager's   *)
(* lock and reads it after releasing it, but a run is only replaced after  *)
(* its pipes are closed, so a poll of the replaced buffer is a poll made   *)
(* just before the replacement.                                            *)
(***************************************************************************)
EXTENDS OutputBuffer

CONSTANTS MaxRuns,    \* bound on the runs of the process
          tailLimit   \* --tail

ASSUME FollowAssumption == MaxRuns \in Nat \ {0} /\ tailLimit \in Nat \ {0}

VARIABLES run,     \* the run whose buffer Logs reads; 0 before the first
          after,   \* the client's position: the last sequence it printed
          first,   \* no poll was answered yet
          notice,  \* it printed "[output truncated]"
          shown,   \* history: the <<run, sequence>> it printed, in order
          begun,   \* history: where the output stood at the first poll
          polled   \* history: where it stood at the last poll, if that poll
                   \* returned less than it could (the client has caught up)

followVars == <<run, after, first, notice, shown, begun, polled>>

Nowhere == <<0, 0>>
Here == <<run, nextSequence>>

Init ==
  /\ BufferInit
  /\ run = 0
  /\ after = 0
  /\ first = TRUE
  /\ notice = FALSE
  /\ shown = <<>>
  /\ begun = Nowhere
  /\ polled = Nowhere

(* The runtime writes.                                                     *)
Write ==
  /\ run > 0
  /\ BufferNext
  /\ UNCHANGED followVars

(* Start installs the buffer of a new run once the last one has ended.     *)
StartRun ==
  /\ run < MaxRuns
  /\ step = "unlocked"
  /\ run' = run + 1
  /\ NewBuffer
  /\ UNCHANGED <<after, first, notice, shown, begun, polled>>

Bug_StandsStill(reached) == after

(* `after` never goes back.                                                *)
Advance(reached) == IF reached > after THEN reached ELSE after

(* One turn of runProcessLogs: every returned event is printed, the largest*)
(* sequence becomes the new position.  The truncation is only mentioned by *)
(* the first turn.                                                         *)
Poll ==
  LET answer == IF run = 0 THEN <<>> ELSE TailEvents(after, tailLimit)
      reached == IF answer = <<>> THEN 0 ELSE answer[Len(answer)].sequence IN
  /\ step = "unlocked"
  /\ shown' = shown \o [j \in 1 .. Len(answer) |-> <<run, answer[j].sequence>>]
  /\ after' = Advance(reached)
  /\ notice' = (notice \/ (first /\ truncated))
  /\ first' = FALSE
  /\ begun' = IF first THEN Here ELSE begun
  /\ polled' = IF Len(answer) < tailLimit THEN Here ELSE Nowhere
  /\ UNCHANGED <<bufferVars, run>>

Next == Write \/ StartRun \/ Poll

Spec == Init /\ [][Next]_<<bufferVars, followVars>>

(***************************************************************************)
(* Properties.                                                             *)
(***************************************************************************)

(* Every variable keeps its type.                                          *)
TypeOK ==
  /\ BufferTypeOK
  /\ run \in 0 .. MaxRuns
  /\ after \in Nat
  /\ first \in BOOLEAN /\ notice \in BOOLEAN
  /\ shown \in Seq((1 .. MaxRuns) \X Nat)
  /\ begun \in Nat \X Nat /\ polled \in Nat \X Nat

(* Nothing is printed twice or out of order, across runs too; and within a *)
(* run, what lies between two printed events and was not printed had been  *)
(* discarded by the buffer: polling itself skips nothing (runProcessLogs). *)
PrintsInOrder ==
  /\ \A i, j \in 1 .. Len(shown) :
       i < j => \/ shown[i][1] < shown[j][1]
                \/ shown[i][1] = shown[j][1] /\ shown[i][2] < shown[j][2]
  /\ \A i \in 1 .. Len(shown) - 1 :
       shown[i][1] = run /\ shown[i + 1][1] = run =>
         \A seq \in shown[i][2] + 1 .. shown[i + 1][2] - 1 :
           seq < nextSequence - Len(events)

(* The inductive strengthening of PrintsInOrder: the position is that of   *)
(* the last event printed, if that was one of the current run.             *)
PositionInv ==
  /\ after = 0 => shown = <<>>
  /\ \A i \in 1 .. Len(shown) : shown[i][1] <= run
  /\ shown # <<>> /\ shown[Len(shown)][1] = run => shown[Len(shown)][2] = after

FollowInv == TypeOK /\ BufferInv /\ PrintsInOrder /\ PositionInv

(* "Follow later output until interrupted": once a poll returned less than *)
(* it could, all output captured since the first poll and still retained   *)
(* then has been printed.                                                  *)
FollowShowsLater ==
  polled[1] = run =>
    \A j \in 1 .. Len(events) :
      LET seq == events[j].sequence IN
      seq < polled[2] /\ (begun[1] = run => seq >= begun[2]) =>
        \E i \in 1 .. Len(shown) : shown[i] = <<run, seq>>
=============================================================================
