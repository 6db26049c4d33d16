---------------------------- MODULE OutputBuffer ----------------------------
(***************************************************************************)
(* The bounded output buffer of one runtime.  Two goroutines copy stdout   *)
(* and stderr into it, each write through Capture; readers take Tail.      *)
(*                                                                         *)
(* Capture holds the write lock over its loop; each pass of the loop and   *)
(* each event that enforceLimits drops is a step, and `step` says where the*)
(* writer is.  A reader gets its lock only when step is "unlocked".        *)
(*                                                                         *)
(* Bytes are abstracted to positions: an event holds the bytes from `from` *)
(* up to but excluding `to` of everything the runtime ever wrote, so its   *)
(* Data is determined and len(Data) = to - from.  Capture times are left   *)
(* out.  A Bug_ operator is a faulty variant of a definition after it.     *)
(***************************************************************************)
EXTENDS Naturals, Sequences

CONSTANTS maxBytes, maxEvents,  \* the limits of NewOutputBuffer
          MaxWrite,             \* bound on the size of one write
          MaxTotal              \* bound on all that is written

ASSUME LimitsAssumption == maxBytes \in Nat \ {0} /\ maxEvents \in Nat \ {0}
ASSUME WritesAssumption == MaxWrite \in Nat /\ MaxTotal \in Nat

Streams == {"stdout", "stderr"}
OutputEvents == [sequence : Nat, stream : Streams, from : Nat, to : Nat]

VARIABLES events, bytes, nextSequence, truncated,
          step,     \* of the writer: "unlocked", "append" or "enforce"
          pending,  \* the write it captures: its stream and bytes to go
          total     \* bytes captured so far

bufferVars == <<events, bytes, nextSequence, truncated, step, pending, total>>

(* NewOutputBuffer                                                         *)
BufferInit ==
  /\ events = <<>>
  /\ bytes = 0
  /\ nextSequence = 1
  /\ truncated = FALSE
  /\ step = "unlocked"
  /\ pending = [stream |-> "stdout", left |-> 0]
  /\ total = 0

(* NewOutputBuffer again, for the next run of the same definition.         *)
NewBuffer ==
  /\ events' = <<>>
  /\ bytes' = 0
  /\ nextSequence' = 1
  /\ truncated' = FALSE
  /\ step' = "unlocked"
  /\ pending' = [stream |-> "stdout", left |-> 0]
  /\ total' = 0

(* Capture takes the lock.  An empty write returns before it does.         *)
Capture(stream, n) ==
  /\ step = "unlocked"
  /\ n > 0
  /\ total + n <= MaxTotal
  /\ pending' = [stream |-> stream, left |-> n]
  /\ step' = "append"
  /\ UNCHANGED <<events, bytes, nextSequence, truncated, total>>

(* One pass of its loop: a chunk of at most maxBytes becomes an event.     *)
ChunkLength == IF pending.left < maxBytes THEN pending.left ELSE maxBytes

AppendChunk ==
  /\ step = "append"
  /\ events' = Append(events, [sequence |-> nextSequence,
                               stream |-> pending.stream,
                               from |-> total, to |-> total + ChunkLength])
  /\ nextSequence' = nextSequence + 1
  /\ bytes' = bytes + ChunkLength
  /\ total' = total + ChunkLength
  /\ pending' = [pending EXCEPT !.left = @ - ChunkLength]
  /\ step' = "enforce"
  /\ UNCHANGED truncated

Bug_EventsOnly == Len(events) > maxEvents
(* One pass of enforceLimits.                                              *)
OverLimit == Len(events) > maxEvents \/ bytes > maxBytes

Bug_DropUncounted ==
  /\ step = "enforce"
  /\ OverLimit
  /\ events' = Tail(events)
  /\ bytes' = bytes - 1
  /\ truncated' = TRUE
  /\ UNCHANGED <<nextSequence, step, pending, total>>

DropOldest ==
  /\ step = "enforce"
  /\ OverLimit
  /\ bytes' = bytes - (Head(events).to - Head(events).from)
  /\ events' = Tail(events)
  /\ truncated' = TRUE
  /\ UNCHANGED <<nextSequence, step, pending, total>>

(* enforceLimits is through: the next chunk, or the lock is released.      *)
Enforced ==
  /\ step = "enforce"
  /\ ~OverLimit
  /\ step' = IF pending.left > 0 THEN "append" ELSE "unlocked"
  /\ UNCHANGED <<events, bytes, nextSequence, truncated, pending, total>>

BufferNext ==
  \/ \E stream \in Streams, n \in 1 .. MaxWrite : Capture(stream, n)
  \/ AppendChunk
  \/ DropOldest
  \/ Enforced

BufferSpec == BufferInit /\ [][BufferNext]_bufferVars

Bug_TailIncludesAfter(after, limit) ==
  CHOOSE start \in 0 .. Len(events) :
    /\ \A j \in 1 .. start : events[j].sequence < after
    /\ start < Len(events) => events[start + 1].sequence >= after

(* OutputBuffer.Tail: after 0 the newest `limit` events, otherwise the     *)
(* oldest `limit` after that sequence number.                              *)
TailStart(after, limit) ==
  IF after = 0
  THEN IF Len(events) > limit THEN Len(events) - limit ELSE 0
  ELSE CHOOSE start \in 0 .. Len(events) :
         /\ \A j \in 1 .. start : events[j].sequence <= after
         /\ start < Len(events) => events[start + 1].sequence > after

TailEvents(after, limit) ==
  LET start == TailStart(after, limit)
      end == IF start + limit < Len(events) THEN start + limit ELSE Len(events)
  IN  SubSeq(events, start + 1, end)

(***************************************************************************)
(* Properties.                                                             *)
(***************************************************************************)

(* Every variable keeps its type.                                          *)
BufferTypeOK ==
  /\ events \in Seq(OutputEvents)
  /\ bytes \in Nat
  /\ nextSequence \in Nat \ {0}
  /\ truncated \in BOOLEAN
  /\ step \in {"unlocked", "append", "enforce"}
  /\ pending \in [stream : Streams, left : Nat]
  /\ total \in Nat

(* The limits hold whenever a reader can look.                             *)
WithinLimits ==
  step = "unlocked" => Len(events) <= maxEvents /\ bytes <= maxBytes

(* The retained events are the newest ones, complete and without a gap:    *)
(* their sequence numbers are consecutive and end just below nextSequence, *)
(* their bytes are contiguous and end with the last byte written, and      *)
(* `bytes` is exactly what they hold.  Discarding never empties the buffer,*)
(* so enforceLimits never indexes an empty slice, and truncation is        *)
(* reported exactly when something was discarded.                          *)
RetainsNewest ==
  /\ \A j \in 1 .. Len(events) :
       /\ events[j].sequence + Len(events) = nextSequence + j - 1
       /\ events[j].from < events[j].to
       /\ events[j].to = IF j = Len(events) THEN total ELSE events[j + 1].from
  /\ bytes = IF events = <<>> THEN 0 ELSE total - events[1].from
  /\ total > 0 => events # <<>>
  /\ truncated <=> nextSequence - 1 > Len(events)

(* The inductive strengthening of the two invariants above: no event is    *)
(* larger than the buffer may be, the writer only goes for another chunk   *)
(* while it has one, and it leaves enforceLimits with the limits kept.     *)
CaptureInv ==
  /\ Len(events) < nextSequence
  /\ \A j \in 1 .. Len(events) :
       events[j].to <= total /\ events[j].to <= events[j].from + maxBytes
  /\ step = "append" => pending.left > 0
  /\ step # "enforce" => ~OverLimit

BufferInv == BufferTypeOK /\ RetainsNewest /\ CaptureInv

(* What a poll returns, by sequence number: up to `limit` consecutive      *)
(* events, from the one after `after` or, if that is gone, the oldest one  *)
(* retained; for after = 0 the newest `limit`.                             *)
TailIsNext ==
  step = "unlocked" =>
    \A after \in 0 .. nextSequence, limit \in 1 .. maxEvents + 1 :
      LET oldest == nextSequence - Len(events)
          wanted == CASE after > 0            -> after + 1
                      [] after = 0 /\ nextSequence > limit -> nextSequence - limit
                      [] OTHER                -> 1
          first == IF wanted > oldest THEN wanted ELSE oldest
          polled == TailEvents(after, limit) IN
      /\ Len(polled) = IF first + limit <= nextSequence THEN limit
                       ELSE IF first < nextSequence THEN nextSequence - first
                       ELSE 0
      /\ \A j \in 1 .. Len(polled) : polled[j].sequence = first + j - 1
=============================================================================
