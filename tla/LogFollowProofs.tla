--------------------------- MODULE LogFollowProofs --------------------------
(***************************************************************************)
(* Theorems about OutputBuffer and LogFollow for every limit of the buffer,*)
(* every size of a write, every --tail and any number of runs.             *)
(***************************************************************************)
EXTENDS LogFollow, SequenceTheorems, TLAPS

(***************************************************************************)
(* The buffer.  BufferInv is inductive for whatever drives the buffer.     *)
(***************************************************************************)

(* A buffer that was just made satisfies the invariant.                    *)
LEMMA EmptyBufferInv ==
  ASSUME events = <<>>, bytes = 0, nextSequence = 1, truncated = FALSE,
         step = "unlocked", pending = [stream |-> "stdout", left |-> 0], total = 0
  PROVE  BufferInv
  <1>0. truncated \in BOOLEAN
    BY Zenon
  <1>1. BufferTypeOK
    BY <1>0, EmptySeq DEF BufferTypeOK, Streams
  <1>2. RetainsNewest /\ CaptureInv
    BY LimitsAssumption, EmptySeq DEF RetainsNewest, CaptureInv, OverLimit
  <1> QED
    BY <1>1, <1>2 DEF BufferInv

(* Taking the lock changes nothing a reader sees.                          *)
LEMMA CaptureKeeps ==
  ASSUME BufferInv, NEW stream \in Streams, NEW n \in Nat, Capture(stream, n)
  PROVE  BufferInv'
  BY DEF BufferInv, BufferTypeOK, RetainsNewest, CaptureInv, Capture, OverLimit

(* A chunk goes to the end, with the next sequence number and the bytes    *)
(* that follow the last ones.                                              *)
LEMMA AppendChunkKeeps ==
  ASSUME BufferInv, AppendChunk
  PROVE  BufferInv'
  <1> DEFINE event == [sequence |-> nextSequence, stream |-> pending.stream,
                       from |-> total, to |-> total + ChunkLength]
             n == Len(events)
  <1>1. /\ ChunkLength \in Nat \ {0} /\ ChunkLength <= maxBytes
        /\ ChunkLength <= pending.left
    BY LimitsAssumption DEF BufferInv, BufferTypeOK, CaptureInv, AppendChunk, ChunkLength
  <1>2. event \in OutputEvents
    BY <1>1 DEF BufferInv, BufferTypeOK, OutputEvents
  <1>3. /\ n \in Nat
        /\ events' \in Seq(OutputEvents) /\ events' # <<>>
        /\ Len(events') = n + 1
        /\ events'[n + 1] = event
        /\ \A j \in 1 .. n : events'[j] = events[j] /\ events[j] \in OutputEvents
    BY <1>2, AppendProperties, LenProperties, ElementOfSeq
       DEF BufferInv, BufferTypeOK, AppendChunk
  <1>4. BufferTypeOK'
    <2>1. truncated' \in BOOLEAN
      BY Zenon DEF BufferInv, BufferTypeOK, AppendChunk
    <2>2. pending' \in [stream : Streams, left : Nat]
      <3>1. pending.left \in Nat /\ pending.left - ChunkLength \in Nat
        BY <1>1 DEF BufferInv, BufferTypeOK
      <3> QED
        BY <3>1 DEF BufferInv, BufferTypeOK, AppendChunk
    <2> QED
      BY <1>1, <1>3, <2>1, <2>2 DEF BufferInv, BufferTypeOK, AppendChunk
  <1>5. event.sequence = nextSequence /\ event.from = total /\ event.to = total + ChunkLength
    OBVIOUS
  <1>6. /\ nextSequence \in Nat /\ total \in Nat /\ bytes \in Nat
        /\ nextSequence' = nextSequence + 1 /\ total' = total + ChunkLength
        /\ bytes' = bytes + ChunkLength /\ truncated' = truncated /\ step' = "enforce"
    BY DEF BufferInv, BufferTypeOK, AppendChunk
  <1> HIDE DEF event, n
  <1>7. RetainsNewest'
    <2>1. \A j \in 1 .. n + 1 :
            /\ events'[j].sequence + (n + 1) = nextSequence' + j - 1
            /\ events'[j].from < events'[j].to
            /\ events'[j].to = IF j = n + 1 THEN total' ELSE events'[j + 1].from
      <3> TAKE j \in 1 .. n + 1
      <3>1. CASE j = n + 1
        BY <3>1, <1>1, <1>3, <1>5, <1>6
      <3>2. CASE j # n + 1
        <4>1. /\ j \in 1 .. n /\ events'[j] = events[j]
              /\ events[j].sequence + n = nextSequence + j - 1
              /\ events[j].from < events[j].to
              /\ events[j].to = IF j = n THEN total ELSE events[j + 1].from
          BY <3>2, <1>3 DEF BufferInv, RetainsNewest, n
        <4>2. events'[j + 1].from = IF j = n THEN total ELSE events[j + 1].from
          BY <4>1, <1>3, <1>5
        <4>3. events[j].sequence \in Nat
          BY <4>1, <1>3 DEF OutputEvents
        <4>4. j \in Nat /\ n \in Nat /\ nextSequence \in Nat
          BY <1>3, <1>6
        <4>5. events'[j].sequence + (n + 1) = nextSequence' + j - 1
          BY <4>1, <4>3, <4>4, <1>6
        <4> QED
          BY <3>2, <4>1, <4>2, <4>5
      <3> QED
        BY <3>1, <3>2
    <2>2. bytes' = total' - events'[1].from
      <3>1. CASE events = <<>>
        BY <3>1, <1>1, <1>3, <1>5, <1>6, EmptySeq DEF BufferInv, RetainsNewest, n
      <3>2. CASE events # <<>>
        <4>1. 1 \in 1 .. n
          BY <3>2, <1>3, EmptySeq DEF n, BufferInv, BufferTypeOK
        <4>2. events'[1] = events[1] /\ events[1].from \in Nat
          BY <4>1, <1>3 DEF OutputEvents
        <4> QED
          BY <3>2, <4>2, <1>1, <1>6 DEF BufferInv, RetainsNewest
      <3> QED
        BY <3>1, <3>2
    <2>3. truncated' <=> nextSequence' - 1 > n + 1
      BY <1>3, <1>6 DEF BufferInv, RetainsNewest, n
    <2> QED
      BY <2>1, <2>2, <2>3, <1>3 DEF RetainsNewest
  <1>8. CaptureInv'
    <2>1. \A j \in 1 .. n + 1 : /\ events'[j].to <= events'[j].from + maxBytes
                                /\ events'[j].to <= total'
      <3> TAKE j \in 1 .. n + 1
      <3>1. CASE j = n + 1
        BY <3>1, <1>1, <1>3, <1>5, <1>6, LimitsAssumption
      <3>2. CASE j # n + 1
        <4>1. j \in 1 .. n /\ events'[j] = events[j] /\ events[j] \in OutputEvents
          BY <3>2, <1>3
        <4>2. events[j].to <= total /\ events[j].to <= events[j].from + maxBytes
          BY <4>1 DEF BufferInv, CaptureInv, n
        <4> QED
          BY <4>1, <4>2, <1>1, <1>6 DEF OutputEvents
      <3> QED
        BY <3>1, <3>2
    <2> QED
      BY <2>1, <1>3, <1>6 DEF BufferInv, CaptureInv, n
  <1> QED
    BY <1>4, <1>7, <1>8 DEF BufferInv

(* While a limit is exceeded there is an event to drop and one to keep.    *)
LEMMA OverLimitKeepsOne ==
  ASSUME BufferInv, OverLimit
  PROVE  events # <<>> /\ Len(events) > 1
  <1>0. Len(events) \in Nat
    BY LenProperties DEF BufferInv, BufferTypeOK
  <1>1. events = <<>> => Len(events) = 0
    BY EmptySeq
  <1>2. events # <<>>
    BY <1>0, <1>1, LimitsAssumption DEF BufferInv, RetainsNewest, OverLimit
  <1>3. Len(events) # 1
    <2> SUFFICES ASSUME Len(events) = 1 PROVE FALSE
      OBVIOUS
    <2>1. events[1] \in OutputEvents
      BY ElementOfSeq DEF BufferInv, BufferTypeOK
    <2>2. bytes = events[1].to - events[1].from /\ events[1].to <= events[1].from + maxBytes
      BY <1>2 DEF BufferInv, RetainsNewest, CaptureInv
    <2> QED
      BY <2>1, <2>2, LimitsAssumption DEF OverLimit, OutputEvents
  <1>4. Len(events) # 0
    BY <1>2, EmptySeq DEF BufferInv, BufferTypeOK
  <1>5. \A n \in Nat : n # 0 /\ n # 1 => n > 1
    OBVIOUS
  <1>6. Len(events) > 1
    BY <1>0, <1>3, <1>4, <1>5
  <1> QED
    BY <1>2, <1>6

(* Dropping the oldest event leaves the newest, complete and counted.      *)
LEMMA DropOldestKeeps ==
  ASSUME BufferInv, DropOldest
  PROVE  BufferInv'
  <1> DEFINE n == Len(events)
  <1>1. events # <<>> /\ n \in Nat /\ n > 1
    BY OverLimitKeepsOne, LenProperties DEF DropOldest, BufferInv, BufferTypeOK
  <1>2. /\ events' \in Seq(OutputEvents)
        /\ Len(events') = n - 1
        /\ \A j \in 1 .. n - 1 : events'[j] = events[j + 1]
        /\ Head(events) = events[1]
    BY <1>1, HeadTailProperties DEF BufferInv, BufferTypeOK, DropOldest
  <1>3. \A j \in 1 .. n : /\ events[j] \in OutputEvents /\ events[j].from \in Nat
                          /\ events[j].to \in Nat /\ events[j].sequence \in Nat
    <2>1. \A j \in 1 .. n : events[j] \in OutputEvents
      BY ElementOfSeq DEF BufferInv, BufferTypeOK
    <2> QED
      BY <2>1 DEF OutputEvents
  <1>4. /\ nextSequence \in Nat /\ total \in Nat /\ bytes \in Nat
        /\ UNCHANGED <<nextSequence, total, step, pending>> /\ step = "enforce"
        /\ truncated' = TRUE
        /\ bytes' = bytes - (events[1].to - events[1].from)
    BY <1>2 DEF BufferInv, BufferTypeOK, DropOldest
  <1>5. \A j \in 1 .. n : /\ events[j].sequence + n = nextSequence + j - 1
                          /\ events[j].from < events[j].to
                          /\ events[j].to = IF j = n THEN total ELSE events[j + 1].from
                          /\ events[j].to <= events[j].from + maxBytes
                          /\ events[j].to <= total
    BY DEF BufferInv, RetainsNewest, CaptureInv
  <1> HIDE DEF n
  <1>6. bytes = total - events[1].from /\ n < nextSequence
    BY <1>1 DEF BufferInv, RetainsNewest, CaptureInv, n
  <1>7. events' # <<>>
    BY <1>1, <1>2, EmptySeq
  <1>8. bytes' = total' - events'[1].from /\ bytes' \in Nat
    <2>0. 1 \in 1 .. n /\ 2 \in 1 .. n /\ 1 \in 1 .. n - 1 /\ 1 # n
      BY <1>1
    <2>1. /\ events'[1] = events[2] /\ events[1].to = events[2].from
          /\ events[2].from \in Nat /\ events[1].from \in Nat /\ events[1].to \in Nat
      BY <2>0, <1>2, <1>3, <1>5
    <2>2. bytes' = total - events[2].from
      BY <2>1, <1>4, <1>6
    <2>3. events[2].from <= total
      BY <2>0, <2>1, <1>5
    <2> QED
      BY <2>1, <2>2, <2>3, <1>4
  <1>9. BufferTypeOK'
    BY <1>2, <1>4, <1>8 DEF BufferInv, BufferTypeOK
  <1>10. RetainsNewest'
    <2>1. \A j \in 1 .. n - 1 :
            /\ events'[j].sequence + (n - 1) = nextSequence' + j - 1
            /\ events'[j].from < events'[j].to
            /\ events'[j].to = IF j = n - 1 THEN total' ELSE events'[j + 1].from
      <3> TAKE j \in 1 .. n - 1
      <3>1. j + 1 \in 1 .. n /\ events'[j] = events[j + 1]
        BY <1>1, <1>2
      <3>2. j # n - 1 => events'[j + 1] = events[j + 2]
        BY <1>1, <1>2
      <3>3. /\ events[j + 1].sequence + n = nextSequence + (j + 1) - 1
            /\ events[j + 1].from < events[j + 1].to
            /\ events[j + 1].to = IF j + 1 = n THEN total ELSE events[(j + 1) + 1].from
            /\ events[j + 1].sequence \in Nat
        BY <3>1, <1>3, <1>5
      <3>4. (j + 1) + 1 = j + 2 /\ (j + 1 = n <=> j = n - 1)
        BY <1>1
      <3>5. events'[j].sequence + (n - 1) = nextSequence' + j - 1
        BY <3>1, <3>3, <1>1, <1>4
      <3>6. events'[j].to = IF j = n - 1 THEN total' ELSE events'[j + 1].from
        BY <3>1, <3>2, <3>3, <3>4, <1>4
      <3> QED
        BY <3>1, <3>3, <3>5, <3>6
    <2>2. truncated' <=> nextSequence' - 1 > n - 1
      BY <1>1, <1>4, <1>6
    <2> QED
      BY <2>1, <2>2, <1>2, <1>7, <1>8 DEF RetainsNewest
  <1>11. CaptureInv'
    <2>1. \A j \in 1 .. n - 1 :
            events'[j].to <= total' /\ events'[j].to <= events'[j].from + maxBytes
      <3> TAKE j \in 1 .. n - 1
      <3>1. j + 1 \in 1 .. n /\ events'[j] = events[j + 1]
        BY <1>1, <1>2
      <3> QED
        BY <3>1, <1>4, <1>5
    <2> QED
      BY <2>1, <1>1, <1>2, <1>4, <1>6 DEF CaptureInv
  <1> QED
    BY <1>9, <1>10, <1>11 DEF BufferInv
(* Leaving enforceLimits, with the lock or without.                        *)
LEMMA EnforcedKeeps ==
  ASSUME BufferInv, Enforced
  PROVE  BufferInv'
  <1>1. UNCHANGED <<events, bytes, nextSequence, truncated, pending, total>>
    BY DEF Enforced
  <1>2. step' \in {"append", "unlocked"} /\ (step' = "append" => pending.left > 0) /\ ~OverLimit
    BY DEF Enforced
  <1>3. ~OverLimit'
    BY <1>1, <1>2 DEF OverLimit
  <1>4. truncated' \in BOOLEAN
    BY <1>1, Zenon DEF BufferInv, BufferTypeOK
  <1> QED
    BY <1>1, <1>2, <1>3, <1>4 DEF BufferInv, BufferTypeOK, RetainsNewest, CaptureInv

(* Every step of the buffer keeps its invariant.                           *)
LEMMA BufferNextInv ==
  ASSUME BufferInv, BufferNext
  PROVE  BufferInv'
  <1>1. CASE \E stream \in Streams, n \in 1 .. MaxWrite : Capture(stream, n)
    <2>1. PICK stream \in Streams, n \in 1 .. MaxWrite : Capture(stream, n)
      BY <1>1
    <2>2. n \in Nat
      BY WritesAssumption
    <2> QED
      BY <2>1, <2>2, CaptureKeeps
  <1> QED
    BY <1>1, AppendChunkKeeps, DropOldestKeeps, EnforcedKeeps DEF BufferNext

(* Between steps nothing changes.                                          *)
LEMMA BufferStutter ==
  ASSUME BufferInv, UNCHANGED bufferVars
  PROVE  BufferInv'
  <1>1. UNCHANGED <<events, bytes, nextSequence, truncated, step, pending, total>>
    BY DEF bufferVars
  <1>2. truncated' \in BOOLEAN
    BY <1>1, Zenon DEF BufferInv, BufferTypeOK
  <1> QED
    BY <1>1, <1>2 DEF BufferInv, BufferTypeOK, RetainsNewest, CaptureInv, OverLimit

(***************************************************************************)
(* What Tail returns.                                                      *)
(***************************************************************************)
Oldest == nextSequence - Len(events)

(* The retained events are numbered without a gap from Oldest on.          *)
LEMMA SequenceNumbers ==
  ASSUME BufferInv
  PROVE  /\ Len(events) \in Nat
         /\ Oldest \in Nat \ {0}
         /\ nextSequence = Oldest + Len(events)
         /\ \A j \in 1 .. Len(events) : events[j] \in OutputEvents
                                       /\ events[j].sequence = Oldest + j - 1
  <1>1. Len(events) \in Nat
    BY LenProperties DEF BufferInv, BufferTypeOK
  <1>2. nextSequence \in Nat /\ Len(events) < nextSequence
    BY DEF BufferInv, BufferTypeOK, CaptureInv
  <1>3. \A n, m \in Nat : n < m => m - n \in Nat \ {0} /\ m = (m - n) + n
    OBVIOUS
  <1>4. Oldest \in Nat \ {0} /\ nextSequence = Oldest + Len(events)
    BY <1>1, <1>2, <1>3 DEF Oldest
  <1>5. \A j \in 1 .. Len(events) : events[j] \in OutputEvents
    BY ElementOfSeq DEF BufferInv, BufferTypeOK
  <1>6. ASSUME NEW j \in 1 .. Len(events)
        PROVE  events[j].sequence = Oldest + j - 1
    <2>1. events[j].sequence \in Nat /\ j \in Nat
      BY <1>1, <1>5 DEF OutputEvents
    <2>2. events[j].sequence + Len(events) = nextSequence + j - 1
      BY DEF BufferInv, RetainsNewest
    <2>3. \A q, n, o, i \in Nat : q + n = (o + n) + i - 1 => q = o + i - 1
      OBVIOUS
    <2> QED
      BY <1>1, <1>4, <2>1, <2>2, <2>3
  <1> QED
    BY <1>1, <1>4, <1>5, <1>6

(* The start of a poll: past what the client has, or the oldest event; for *)
(* a first poll the newest `limit`.                                        *)
LEMMA TailStartIs ==
  ASSUME BufferInv, NEW a \in Nat, NEW limit \in Nat \ {0}
  PROVE  /\ TailStart(a, limit) \in 0 .. Len(events)
         /\ a = 0 => TailStart(a, limit) =
                       IF Len(events) > limit THEN Len(events) - limit ELSE 0
         /\ a > 0 => TailStart(a, limit) =
                       IF a < Oldest THEN 0
                       ELSE IF a < nextSequence THEN a - Oldest + 1 ELSE Len(events)
  <1> DEFINE n == Len(events)
             Splits(st) == /\ \A j \in 1 .. st : events[j].sequence <= a
                           /\ st < n => events[st + 1].sequence > a
  <1>1. /\ n \in Nat /\ Oldest \in Nat \ {0} /\ nextSequence = Oldest + n
        /\ \A j \in 1 .. n : events[j].sequence = Oldest + j - 1
    BY SequenceNumbers
  <1>2. CASE a = 0
    <2>1. TailStart(a, limit) = IF n > limit THEN n - limit ELSE 0
      BY <1>2 DEF TailStart
    <2> HIDE DEF n
    <2>2. TailStart(a, limit) \in 0 .. n
      BY <2>1, <1>1
    <2> QED
      BY <1>2, <2>1, <2>2 DEF n
  <1>3. CASE a > 0
    <2>1. TailStart(a, limit) = CHOOSE st \in 0 .. n : Splits(st)
      BY <1>3 DEF TailStart
    <2> DEFINE w == IF a < Oldest THEN 0 ELSE IF a < nextSequence THEN a - Oldest + 1 ELSE n
    <2> HIDE DEF n
    <2>2. w \in 0 .. n
      BY <1>1
    <2>3. \A j \in 1 .. w : events[j].sequence <= a
      BY <1>1, <2>2
    <2>4. w < n => events[w + 1].sequence > a
      BY <1>1, <2>2
    <2>5. \A st \in 0 .. n : Splits(st) => st = w
      <3> SUFFICES ASSUME NEW st \in 0 .. n, Splits(st) PROVE st = w
        OBVIOUS
      <3>1. st > 0 => Oldest + st - 1 <= a
        <4> SUFFICES ASSUME st > 0 PROVE Oldest + st - 1 <= a
          OBVIOUS
        <4>1. st \in 1 .. st /\ st \in 1 .. n
          BY <1>1
        <4> QED
          BY <4>1, <1>1
      <3>2. st < n => Oldest + st > a
        <4> SUFFICES ASSUME st < n PROVE Oldest + st > a
          OBVIOUS
        <4>1. st + 1 \in 1 .. n /\ Oldest + (st + 1) - 1 = Oldest + st
          BY <1>1
        <4>2. events[st + 1].sequence = Oldest + (st + 1) - 1
          BY <4>1, <1>1
        <4> QED
          BY <4>1, <4>2
      <3> HIDE DEF Splits
      <3> QED
        BY <3>1, <3>2, <1>1
    <2>6. Splits(w)
      BY <2>3, <2>4
    <2> HIDE DEF Splits, w
    <2>7. TailStart(a, limit) = w
      BY <2>1, <2>2, <2>5, <2>6
    <2> QED
      BY <1>1, <1>3, <2>2, <2>7 DEF w, n
  <1> QED
    BY <1>2, <1>3

(* A poll returns the events from its start on, at most `limit`.           *)
LEMMA TailEventsAre ==
  ASSUME BufferInv, NEW a \in Nat, NEW limit \in Nat \ {0}
  PROVE  LET st == TailStart(a, limit)
             answer == TailEvents(a, limit) IN
         /\ answer \in Seq(OutputEvents)
         /\ Len(answer) = IF st + limit < Len(events) THEN limit ELSE Len(events) - st
         /\ \A j \in 1 .. Len(answer) : answer[j].sequence = Oldest + st + j - 1
  <1> DEFINE n == Len(events)
             st == TailStart(a, limit)
             end == IF st + limit < n THEN st + limit ELSE n
             answer == TailEvents(a, limit)
  <1>1. /\ n \in Nat /\ Oldest \in Nat \ {0}
        /\ \A j \in 1 .. n : events[j] \in OutputEvents /\ events[j].sequence = Oldest + j - 1
    BY SequenceNumbers
  <1>2. st \in 0 .. n
    BY TailStartIs
  <1>3. answer = SubSeq(events, st + 1, end)
    BY DEF TailEvents
  <1> HIDE DEF n, st, answer
  <1>4. end \in st .. n /\ st \in Nat /\ st + 1 \in Int /\ end \in Int
    BY <1>1, <1>2
  <1>5. \A i \in st + 1 .. end : events[i] \in OutputEvents
    BY <1>1, <1>4
  <1> HIDE DEF end
  <1>6. end - (st + 1) + 1 = end - st /\ (st + 1 <= end <=> end - st # 0)
    <2>1. end \in Int /\ st \in Int /\ st <= end
      BY <1>4
    <2> QED
      BY <2>1
  <1>7. /\ answer \in Seq(OutputEvents)
        /\ Len(answer) = IF st + 1 <= end THEN end - (st + 1) + 1 ELSE 0
        /\ \A i \in 1 .. end - (st + 1) + 1 : answer[i] = events[(st + 1) + i - 1]
    BY <1>3, <1>4, <1>5, SubSeqProperties
  <1>8. Len(answer) = end - st
    BY <1>6, <1>7
  <1>9. ASSUME NEW j \in 1 .. end - st
        PROVE  answer[j].sequence = Oldest + st + j - 1
    <2>1. answer[j] = events[st + j]
      <3>1. (st + 1) + j - 1 = st + j
        BY <1>4
      <3> QED
        BY <1>6, <1>7, <3>1
    <2>2. st + j \in 1 .. n
      BY <1>4, <1>1
    <2>3. Oldest + (st + j) - 1 = Oldest + st + j - 1
      BY <1>1, <1>4
    <2> QED
      BY <2>1, <2>2, <2>3, <1>1
  <1>10. end - st = IF st + limit < n THEN limit ELSE n - st
    BY <1>1, <1>4 DEF end
  <1>11. Len(answer) = IF st + limit < n THEN limit ELSE n - st
    BY <1>8, <1>10
  <1>12. \A j \in 1 .. Len(answer) : answer[j].sequence = Oldest + st + j - 1
    BY <1>8, <1>9
  <1> QED
    BY <1>7, <1>11, <1>12, Zenon DEF n, st, answer

(* Stated for the reader: the poll of a consistent buffer is the next one. *)
LEMMA PollIsNext ==
  ASSUME BufferInv
  PROVE  TailIsNext
  <1> SUFFICES ASSUME NEW a \in 0 .. nextSequence, NEW limit \in 1 .. maxEvents + 1
      PROVE  LET oldest == nextSequence - Len(events)
                 wanted == CASE a > 0                          -> a + 1
                             [] a = 0 /\ nextSequence > limit -> nextSequence - limit
                             [] OTHER                          -> 1
                 from == IF wanted > oldest THEN wanted ELSE oldest
                 answer == TailEvents(a, limit) IN
             /\ Len(answer) = IF from + limit <= nextSequence THEN limit
                              ELSE IF from < nextSequence THEN nextSequence - from
                              ELSE 0
             /\ \A j \in 1 .. Len(answer) : answer[j].sequence = from + j - 1
    BY DEF TailIsNext
  <1> DEFINE n == Len(events)
             st == TailStart(a, limit)
             wanted == CASE a > 0                          -> a + 1
                         [] a = 0 /\ nextSequence > limit -> nextSequence - limit
                         [] OTHER                          -> 1
             from == IF wanted > Oldest THEN wanted ELSE Oldest
             answer == TailEvents(a, limit)
  <1>1. n \in Nat /\ Oldest \in Nat \ {0} /\ nextSequence = Oldest + n
    BY SequenceNumbers
  <1>2. a \in Nat /\ limit \in Nat \ {0}
    BY <1>1, LimitsAssumption
  <1>3. /\ st \in 0 .. n
        /\ a = 0 => st = IF n > limit THEN n - limit ELSE 0
        /\ a > 0 => st = IF a < Oldest THEN 0
                        ELSE IF a < nextSequence THEN a - Oldest + 1 ELSE n
    BY <1>2, TailStartIs
  <1>4. /\ Len(answer) = IF st + limit < n THEN limit ELSE n - st
        /\ \A j \in 1 .. Len(answer) : answer[j].sequence = Oldest + st + j - 1
    BY <1>2, TailEventsAre
  <1>5. wanted = IF a > 0 THEN a + 1
                 ELSE IF nextSequence > limit THEN nextSequence - limit ELSE 1
    <2>1. a > 0 <=> a # 0
      BY <1>2
    <2> QED
      BY <2>1, Zenon
  <1> HIDE DEF wanted, n, st, answer
  <1>6. from \in Nat /\ (st < n => from = Oldest + st) /\ (st = n => from >= nextSequence)
    <2>1. CASE a = 0
      BY <2>1, <1>1, <1>2, <1>3, <1>5
    <2>2. CASE a > 0
      BY <2>2, <1>1, <1>2, <1>3, <1>5
    <2> QED
      BY <2>1, <2>2, <1>2
  <1> HIDE DEF from
  <1>7. Len(answer) = IF from + limit <= nextSequence THEN limit
                      ELSE IF from < nextSequence THEN nextSequence - from ELSE 0
    <2>1. CASE st < n
      BY <2>1, <1>1, <1>2, <1>3, <1>4, <1>6
    <2>2. CASE st = n
      BY <2>2, <1>1, <1>2, <1>3, <1>4, <1>6
    <2> QED
      BY <2>1, <2>2, <1>1, <1>3
  <1>8. ASSUME NEW j \in 1 .. Len(answer) PROVE answer[j].sequence = from + j - 1
    <2>1. st < n
      BY <1>1, <1>2, <1>3, <1>4
    <2> QED
      BY <2>1, <1>4, <1>6
  <1> QED
    BY <1>7, <1>8 DEF from, wanted, answer, Oldest

(***************************************************************************)
(* The follower.                                                           *)
(***************************************************************************)

(* Writing, restarting and polling keep the buffer's invariant.            *)
LEMMA FollowBufferInv ==
  ASSUME BufferInv, [Next]_<<bufferVars, followVars>>
  PROVE  BufferInv'
  <1>1. CASE Write
    BY <1>1, BufferNextInv DEF Write
  <1>2. CASE StartRun
    <2>1. /\ events' = <<>> /\ bytes' = 0 /\ nextSequence' = 1 /\ truncated' = FALSE
          /\ step' = "unlocked" /\ pending' = [stream |-> "stdout", left |-> 0]
          /\ total' = 0
      BY <1>2, Zenon DEF StartRun, NewBuffer
    <2>2. truncated' \in BOOLEAN
      BY <2>1, Zenon
    <2>3. BufferTypeOK'
      BY <2>1, <2>2, EmptySeq DEF BufferTypeOK, Streams
    <2>4. RetainsNewest' /\ CaptureInv'
      BY <2>1, LimitsAssumption, EmptySeq DEF RetainsNewest, CaptureInv, OverLimit
    <2> QED
      BY <2>3, <2>4 DEF BufferInv
  <1>3. CASE UNCHANGED bufferVars
    BY <1>3, BufferStutter
  <1> QED
    BY <1>1, <1>2, <1>3 DEF Next, Poll

(* What a poll answers, as far as the client's position is concerned.      *)
LEMMA AnswerProperties ==
  ASSUME TypeOK, BufferInv, NEW answer,
         answer = IF run = 0 THEN <<>> ELSE TailEvents(after, tailLimit)
  PROVE  /\ answer \in Seq(OutputEvents)
         /\ Len(answer) \in Nat
         /\ answer # <<>> <=> Len(answer) > 0
         /\ Len(answer) > 0 =>
              \E from \in Nat :
                /\ from > after
                /\ after > 0 => from = after + 1 \/ from = Oldest
                /\ from >= Oldest
                /\ \A j \in 1 .. Len(answer) : answer[j].sequence = from + j - 1
  <1>1. after \in Nat /\ tailLimit \in Nat \ {0}
    BY FollowAssumption DEF TypeOK
  <1>2. answer \in Seq(OutputEvents)
    BY <1>1, TailEventsAre, EmptySeq
  <1>3. Len(answer) \in Nat /\ (answer # <<>> <=> Len(answer) > 0)
    <2>1. Len(answer) \in Nat
      BY <1>2, LenProperties
    <2>2. answer # <<>> => Len(answer) \in Nat \ {0}
      BY <1>2, EmptySeq
    <2>3. answer = <<>> => Len(answer) = 0
      BY EmptySeq
    <2>4. \A n \in Nat : n > 0 <=> n # 0
      OBVIOUS
    <2> QED
      BY <2>1, <2>2, <2>3, <2>4
  <1>4. ASSUME Len(answer) > 0
        PROVE  \E from \in Nat :
                /\ from > after
                /\ after > 0 => from = after + 1 \/ from = Oldest
                /\ from >= Oldest
                /\ \A j \in 1 .. Len(answer) : answer[j].sequence = from + j - 1
    <2> DEFINE n == Len(events)
               st == TailStart(after, tailLimit)
               m == Len(answer)
    <2>1. n \in Nat /\ Oldest \in Nat \ {0} /\ nextSequence = Oldest + n
      BY SequenceNumbers
    <2>2. /\ st \in 0 .. n
          /\ after > 0 => st = IF after < Oldest THEN 0
                        ELSE IF after < nextSequence THEN after - Oldest + 1 ELSE n
      BY <1>1, TailStartIs
    <2>3. answer = TailEvents(after, tailLimit)
      BY <1>3, <1>4
    <2>4. /\ m = IF st + tailLimit < n THEN tailLimit ELSE n - st
          /\ \A j \in 1 .. m : answer[j].sequence = Oldest + st + j - 1
      <3>1. /\ Len(TailEvents(after, tailLimit)) = IF st + tailLimit < n THEN tailLimit ELSE n - st
            /\ \A j \in 1 .. Len(TailEvents(after, tailLimit)) :
                 TailEvents(after, tailLimit)[j].sequence = Oldest + st + j - 1
        BY <1>1, TailEventsAre
      <3> QED
        BY <2>3, <3>1, Zenon
    <2>5. m \in Nat /\ m > 0
      BY <1>3, <1>4
    <2> HIDE DEF n, st, m
    <2>6. st < n
      BY <2>1, <2>2, <2>4, <2>5, <1>1
    <2>7. /\ Oldest + st \in Nat /\ Oldest + st > after /\ Oldest + st >= Oldest
          /\ after > 0 => Oldest + st = after + 1 \/ Oldest + st = Oldest
      <3>1. CASE after = 0
        BY <3>1, <2>1, <2>2
      <3>2. CASE after > 0
        BY <3>2, <2>1, <2>2, <2>6, <1>1
      <3> QED
        BY <3>1, <3>2, <1>1
    <2>8. \A j \in 1 .. m : answer[j].sequence = (Oldest + st) + j - 1
      BY <2>4
    <2> QED
      BY <2>7, <2>8 DEF m
  <1> QED
    BY <1>2, <1>3, <1>4

(* A poll appends its answer, in order and without skipping what is still  *)
(* retained.                                                               *)
LEMMA PollKeeps ==
  ASSUME FollowInv, Poll
  PROVE  (TypeOK /\ PrintsInOrder /\ PositionInv)'
  <1> DEFINE answer == IF run = 0 THEN <<>> ELSE TailEvents(after, tailLimit)
             reached == IF answer = <<>> THEN 0 ELSE answer[Len(answer)].sequence
             printed == [j \in 1 .. Len(answer) |-> <<run, answer[j].sequence>>]
             n == Len(shown)
             m == Len(answer)
             Pairs == (1 .. MaxRuns) \X Nat
  <1>1. TypeOK /\ BufferInv /\ PrintsInOrder /\ PositionInv
    BY DEF FollowInv
  <1>2. /\ answer \in Seq(OutputEvents) /\ m \in Nat /\ (answer # <<>> <=> m > 0)
        /\ m > 0 => \E from \in Nat :
                      /\ from > after
                      /\ after > 0 => from = after + 1 \/ from = Oldest
                      /\ from >= Oldest
                      /\ \A j \in 1 .. m : answer[j].sequence = from + j - 1
    BY <1>1, AnswerProperties
  <1>3. /\ shown' = shown \o printed
        /\ after' = Advance(reached)
        /\ UNCHANGED <<events, bytes, nextSequence, truncated, step, pending, total, run>>
    BY DEF Poll, bufferVars
  <1>4. m > 0 => run \in 1 .. MaxRuns
    <2>1. run = 0 => answer = <<>>
      OBVIOUS
    <2>2. run \in 0 .. MaxRuns
      BY <1>1 DEF TypeOK
    <2> QED
      BY <1>2, <2>1, <2>2, FollowAssumption
  <1>5. \A j \in 1 .. m : answer[j] \in OutputEvents /\ answer[j].sequence \in Nat
    <2>1. \A j \in 1 .. m : answer[j] \in OutputEvents
      BY <1>2, ElementOfSeq
    <2> QED
      BY <2>1 DEF OutputEvents
  <1> HIDE DEF answer, m
  <1>6. printed \in Seq(Pairs) /\ Len(printed) = m /\ \A j \in 1 .. m : printed[j] = <<run, answer[j].sequence>>
    <2>1. m \in Nat /\ \A j \in 1 .. m : <<run, answer[j].sequence>> \in Pairs
      BY <1>2, <1>4, <1>5
    <2>2. printed = [j \in 1 .. m |-> <<run, answer[j].sequence>>]
      BY DEF m
    <2> QED
      BY <2>1, <2>2
  <1> HIDE DEF printed
  <1>7. shown \in Seq(Pairs) /\ n \in Nat
    BY <1>1, LenProperties DEF TypeOK
  <1>8. /\ shown' \in Seq(Pairs) /\ Len(shown') = n + m
        /\ \A i \in 1 .. n : shown'[i] = shown[i]
        /\ \A j \in 1 .. m : shown'[n + j] = <<run, answer[j].sequence>>
    <2>1. /\ shown \o printed \in Seq(Pairs)
          /\ Len(shown \o printed) = n + m
          /\ \A i \in 1 .. n + m : (shown \o printed)[i] =
               IF i <= n THEN shown[i] ELSE printed[i - n]
      BY <1>6, <1>7, ConcatProperties
    <2> HIDE DEF n, Pairs
    <2>2. ASSUME NEW i \in 1 .. n PROVE shown'[i] = shown[i]
      BY <2>1, <1>2, <1>3, <1>7
    <2>3. ASSUME NEW j \in 1 .. m PROVE shown'[n + j] = <<run, answer[j].sequence>>
      <3>1. n + j \in 1 .. n + m /\ ~(n + j <= n) /\ (n + j) - n = j
        BY <1>2, <1>7
      <3> QED
        BY <2>1, <3>1, <1>3, <1>6
    <2> QED
      BY <2>1, <2>2, <2>3, <1>3
  <1>9. reached = (IF m = 0 THEN 0 ELSE answer[m].sequence) /\ reached \in Nat
    <2>1. answer = <<>> <=> m = 0
      BY <1>2
    <2>2. reached = IF m = 0 THEN 0 ELSE answer[m].sequence
      BY <2>1 DEF m
    <2>3. m # 0 => m \in 1 .. m
      BY <1>2
    <2> QED
      BY <2>2, <2>3, <1>5
  <1> HIDE DEF reached, n
  <1>10. after \in Nat /\ after' \in Nat
    BY <1>1, <1>3, <1>9 DEF TypeOK, Advance
  <1>11. TypeOK'
    <2>1. BufferTypeOK'
      BY <1>1, FollowBufferInv DEF Next, BufferInv
    <2>2. first' \in BOOLEAN /\ notice' \in BOOLEAN
      BY <1>1, Zenon DEF TypeOK, Poll
    <2>3. Here \in Nat \X Nat /\ Nowhere \in Nat \X Nat
      <3>1. run \in Nat /\ nextSequence \in Nat
        BY <1>1, FollowAssumption DEF TypeOK, BufferTypeOK
      <3> QED
        BY <3>1 DEF Here, Nowhere
    <2>4. begun' \in Nat \X Nat /\ polled' \in Nat \X Nat
      <3>1. begun' \in {Here, begun}
        BY DEF Poll
      <3>2. polled' \in {Here, Nowhere}
        BY DEF Poll
      <3> QED
        BY <1>1, <2>3, <3>1, <3>2 DEF TypeOK
    <2> QED
      BY <1>1, <1>3, <1>8, <1>10, <2>1, <2>2, <2>4 DEF TypeOK
  <1>12. CASE m = 0
    <2>1. shown' = shown
      <3>1. Len(shown') = Len(shown)
        BY <1>12, <1>7, <1>8 DEF n
      <3>2. \A i \in 1 .. Len(shown') : shown'[i] = shown[i]
        BY <3>1, <1>8 DEF n
      <3> QED
        BY <3>1, <3>2, <1>7, <1>8, SeqEqual
    <2>2. after' = after
      BY <1>12, <1>3, <1>9, <1>10 DEF Advance
    <2>3. UNCHANGED <<events, nextSequence, run>>
      BY <1>3
    <2> QED
      BY <2>1, <2>2, <2>3, <1>1, <1>11 DEF PrintsInOrder, PositionInv
  <1>13. CASE m > 0
    <2>1. PICK from \in Nat :
                /\ from > after
                /\ after > 0 => from = after + 1 \/ from = Oldest
                /\ from >= Oldest
                /\ \A j \in 1 .. m : answer[j].sequence = from + j - 1
      BY <1>2, <1>13
    <2>2. after' = from + m - 1
      <3>1. m \in 1 .. m /\ m # 0
        BY <1>2, <1>13
      <3>2. reached = from + m - 1
        BY <3>1, <2>1, <1>9
      <3>3. from + m - 1 > after
        BY <3>1, <2>1, <1>2, <1>10
      <3> QED
        BY <3>2, <3>3, <1>3 DEF Advance
    <2>3. \A j \in 1 .. m : shown'[n + j] = <<run, from + j - 1>>
      BY <2>1, <1>8
    <2>4. \A i \in 1 .. n : /\ shown[i] \in Pairs
                             /\ shown[i][1] \in Nat /\ shown[i][2] \in Nat
                             /\ shown[i][1] <= run
      <3>1. \A i \in 1 .. n : shown[i] \in Pairs
        BY <1>7, ElementOfSeq DEF n
      <3>2. \A x \in Pairs : x[1] \in Nat /\ x[2] \in Nat
        BY FollowAssumption
      <3> HIDE DEF Pairs
      <3> QED
        BY <3>1, <3>2, <1>1 DEF PositionInv, n
    <2>5. run \in Nat /\ Oldest \in Nat
      BY <1>4, <1>13, <1>1, FollowAssumption, SequenceNumbers
    <2>6. n > 0 /\ shown[n][1] = run => shown[n][2] = after /\ after > 0
      <3>1. shown = <<>> <=> n = 0
        BY <1>7, EmptySeq DEF n
      <3> QED
        BY <3>1, <1>1, <1>7, <1>10 DEF PositionInv, n
    <2>7. \A i \in 1 .. n : shown[i][1] = run => shown[i][2] <= after
      <3> SUFFICES ASSUME NEW i \in 1 .. n, shown[i][1] = run
                   PROVE  shown[i][2] <= after
        OBVIOUS
      <3>1. CASE i = n
        BY <3>1, <2>4, <2>6, <1>7, <1>10
      <3>2. CASE i # n
        <4>1. i < n /\ n \in 1 .. n
          BY <3>2, <1>7
        <4>2. \/ shown[i][1] < shown[n][1]
              \/ shown[i][1] = shown[n][1] /\ shown[i][2] < shown[n][2]
          BY <4>1, <1>1 DEF PrintsInOrder, n
        <4>3. shown[n][1] <= run /\ shown[n][1] \in Nat /\ shown[n][2] \in Nat
          BY <4>1, <2>4
        <4> QED
          BY <4>1, <4>2, <4>3, <2>4, <2>5, <2>6, <1>7
      <3> QED
        BY <3>1, <3>2
    <2> HIDE DEF Pairs
    <2>8. ASSUME NEW i \in 1 .. n + m, NEW j \in 1 .. n + m, i < j
          PROVE  \/ shown'[i][1] < shown'[j][1]
                 \/ shown'[i][1] = shown'[j][1] /\ shown'[i][2] < shown'[j][2]
      <3>1. CASE j <= n
        <4>1. i \in 1 .. n /\ j \in 1 .. n
          BY <3>1, <1>2, <1>7, <2>8
        <4>2. shown'[i] = shown[i] /\ shown'[j] = shown[j]
          BY <4>1, <1>8
        <4> QED
          BY <4>1, <4>2, <2>8, <1>1 DEF PrintsInOrder, n
      <3>2. CASE i <= n /\ j > n
        <4>1. i \in 1 .. n /\ j - n \in 1 .. m /\ n + (j - n) = j
          BY <3>2, <1>2, <1>7
        <4>2. shown'[i] = shown[i] /\ shown'[j] = <<run, from + (j - n) - 1>>
          BY <4>1, <1>8, <2>3
        <4>3. from + (j - n) - 1 > after
          BY <4>1, <1>2, <1>7, <1>10, <2>1
        <4>4. shown'[j][1] = run /\ shown'[j][2] = from + (j - n) - 1
          BY <4>2
        <4> QED
          BY <4>1, <4>2, <4>3, <4>4, <2>1, <2>4, <2>5, <2>7, <1>7, <1>10
      <3>3. CASE i > n
        <4>1. i - n \in 1 .. m /\ n + (i - n) = i /\ j - n \in 1 .. m /\ n + (j - n) = j
          BY <3>3, <2>8, <1>2, <1>7
        <4>2. shown'[i] = <<run, from + (i - n) - 1>> /\ shown'[j] = <<run, from + (j - n) - 1>>
          BY <4>1, <2>3
        <4>3. from + (i - n) - 1 < from + (j - n) - 1
          BY <2>8, <1>2, <1>7, <2>1
        <4> QED
          BY <4>2, <4>3
      <3> QED
        BY <3>1, <3>2, <3>3, <1>2, <1>7
    <2>9. ASSUME NEW i \in 1 .. (n + m) - 1, shown'[i][1] = run, shown'[i + 1][1] = run,
                 NEW seq \in shown'[i][2] + 1 .. shown'[i + 1][2] - 1
          PROVE  seq < Oldest
      <3>1. CASE i < n
        <4>1. i \in 1 .. n /\ i + 1 \in 1 .. n /\ i \in 1 .. n - 1
          BY <3>1, <1>2, <1>7
        <4>2. shown'[i] = shown[i] /\ shown'[i + 1] = shown[i + 1]
          BY <4>1, <1>8
        <4> QED
          BY <4>1, <4>2, <2>9, <1>1 DEF PrintsInOrder, Oldest, n
      <3>2. CASE i = n
        <4>1. n \in 1 .. n /\ n > 0 /\ 1 \in 1 .. m
          BY <3>2, <1>2, <1>7, <1>13
        <4>2. shown'[n] = shown[n] /\ shown'[n + 1] = <<run, from + 1 - 1>>
          BY <4>1, <1>8, <2>3
        <4>3. shown[n][2] = after /\ after > 0
          BY <3>2, <4>1, <4>2, <2>6, <2>9
        <4>4. shown'[n + 1][2] = from
          BY <4>2, <2>1
        <4> QED
          BY <3>2, <4>2, <4>3, <4>4, <2>1, <2>5, <1>10
      <3>3. CASE i > n
        <4>1. i - n \in 1 .. m /\ n + (i - n) = i /\ (i - n) + 1 \in 1 .. m
              /\ n + ((i - n) + 1) = i + 1
          BY <3>3, <1>2, <1>7
        <4>2. shown'[i] = <<run, from + (i - n) - 1>> /\ shown'[i + 1] = <<run, from + ((i - n) + 1) - 1>>
          BY <4>1, <2>3
        <4>3. shown'[i + 1][2] - 1 < shown'[i][2] + 1 /\ shown'[i][2] \in Nat
          BY <4>1, <4>2, <2>1, <1>7
        <4> QED
          BY <4>2, <4>3, <2>1, <2>9, <1>7
      <3> QED
        BY <3>1, <3>2, <3>3, <1>2, <1>7
    <2>10. PrintsInOrder'
      <3>1. nextSequence' - Len(events') = Oldest /\ run' = run
        BY <1>3 DEF Oldest
      <3> QED
        BY <1>8, <2>8, <2>9, <3>1 DEF PrintsInOrder
    <2>11. PositionInv'
      <3>1. after' # 0
        BY <2>1, <2>2, <1>2, <1>10, <1>13
      <3>2. \A i \in 1 .. n + m : shown'[i][1] <= run
        <4> TAKE i \in 1 .. n + m
        <4>1. CASE i <= n
          <5>1. i \in 1 .. n
            BY <4>1, <1>2, <1>7
          <5> QED
            BY <5>1, <1>8, <2>4
        <4>2. CASE i > n
          <5>1. i - n \in 1 .. m /\ n + (i - n) = i
            BY <4>2, <1>2, <1>7
          <5>2. shown'[i] = <<run, from + (i - n) - 1>>
            BY <5>1, <2>3
          <5> QED
            BY <5>2, <2>5
        <4> QED
          BY <4>1, <4>2, <1>2, <1>7
      <3>3. shown'[n + m][2] = after'
        <4>1. m \in 1 .. m
          BY <1>2, <1>13
        <4>2. shown'[n + m] = <<run, from + m - 1>>
          BY <4>1, <2>3
        <4> QED
          BY <4>2, <2>2
      <3> QED
        BY <3>1, <3>2, <3>3, <1>3, <1>8 DEF PositionInv
    <2> QED
      BY <2>10, <2>11, <1>11
  <1> QED
    BY <1>12, <1>13, <1>2

(* The oldest event retained only becomes younger.                         *)
LEMMA OldestGrows ==
  ASSUME BufferInv, BufferNext
  PROVE  Oldest' >= Oldest
  <1>1. Len(events) \in Nat /\ nextSequence \in Nat
    BY SequenceNumbers DEF BufferInv, BufferTypeOK
  <1>2. CASE AppendChunk
    <2>1. Len(events') = Len(events) + 1
      BY <1>2 DEF AppendChunk, BufferInv, BufferTypeOK
    <2>2. nextSequence' = nextSequence + 1
      BY <1>2 DEF AppendChunk
    <2> DEFINE n == Len(events)
    <2>3. n \in Nat
      BY <1>1
    <2> HIDE DEF n
    <2>4. (nextSequence + 1) - (n + 1) >= nextSequence - n
      BY <1>1, <2>3
    <2> QED
      BY <2>1, <2>2, <2>4 DEF Oldest, n
  <1>3. CASE DropOldest
    <2>1. events # <<>>
      BY <1>3, OverLimitKeepsOne DEF DropOldest
    <2>2. Len(events') = Len(events) - 1
      BY <1>3, <2>1, HeadTailProperties DEF DropOldest, BufferInv, BufferTypeOK
    <2>3. nextSequence' = nextSequence
      BY <1>3 DEF DropOldest
    <2> DEFINE n == Len(events)
    <2>4. n \in Nat
      BY <1>1
    <2> HIDE DEF n
    <2>5. nextSequence - (n - 1) >= nextSequence - n
      BY <1>1, <2>4
    <2> QED
      BY <2>2, <2>3, <2>5 DEF Oldest, n
  <1>4. CASE UNCHANGED <<events, nextSequence>>
    <2>1. \A n, m \in Nat : m - n >= m - n
      OBVIOUS
    <2> QED
      BY <1>1, <1>4, <2>1 DEF Oldest
  <1> QED
    BY <1>2, <1>3, <1>4 DEF BufferNext, Capture, Enforced

(* Writing prints nothing and brings nothing back that was discarded.      *)
LEMMA WriteKeeps ==
  ASSUME FollowInv, Write
  PROVE  (TypeOK /\ PrintsInOrder /\ PositionInv)'
  <1>1. TypeOK /\ BufferInv /\ PrintsInOrder /\ PositionInv
    BY DEF FollowInv
  <1>2. UNCHANGED <<run, after, first, notice, shown, begun, polled>>
    BY DEF Write, followVars
  <1>3. BufferInv'
    BY <1>1, BufferNextInv DEF Write
  <1>4. Oldest' >= Oldest /\ Oldest' \in Nat /\ Oldest \in Nat
    <2>1. Oldest \in Nat
      BY <1>1, SequenceNumbers
    <2>2. Oldest' \in Nat
      <3>1. Len(events') \in Nat
        BY <1>3, LenProperties DEF BufferInv, BufferTypeOK
      <3>2. nextSequence' \in Nat /\ Len(events') < nextSequence'
        BY <1>3 DEF BufferInv, BufferTypeOK, CaptureInv
      <3>3. \A n, m \in Nat : n < m => m - n \in Nat
        OBVIOUS
      <3> QED
        BY <3>1, <3>2, <3>3 DEF Oldest
    <2> QED
      BY <1>1, <2>1, <2>2, OldestGrows DEF Write
  <1>5. TypeOK'
    <2>1. first' \in BOOLEAN /\ notice' \in BOOLEAN
      BY <1>1, <1>2, Zenon DEF TypeOK
    <2> QED
      BY <1>1, <1>2, <1>3, <2>1 DEF TypeOK, BufferInv
  <1>6. PrintsInOrder'
    <2>1. ASSUME NEW i \in 1 .. Len(shown) - 1, shown[i][1] = run, shown[i + 1][1] = run,
                 NEW seq \in shown[i][2] + 1 .. shown[i + 1][2] - 1
          PROVE  seq < Oldest'
      <3>1. seq < Oldest
        BY <2>1, <1>1 DEF PrintsInOrder, Oldest
      <3>2. seq \in Int
        <4>1. \A x, y : x .. y \subseteq Int
          OBVIOUS
        <4> QED
          BY <4>1
      <3> QED
        BY <3>1, <3>2, <1>4
    <2> QED
      BY <2>1, <1>1, <1>2 DEF PrintsInOrder, Oldest
  <1>7. PositionInv'
    BY <1>1, <1>2 DEF PositionInv
  <1> QED
    BY <1>5, <1>6, <1>7

(* A new run has printed nothing yet.                                      *)
LEMMA StartRunKeeps ==
  ASSUME FollowInv, StartRun
  PROVE  (TypeOK /\ PrintsInOrder /\ PositionInv)'
  <1>1. TypeOK /\ BufferInv /\ PrintsInOrder /\ PositionInv
    BY DEF FollowInv
  <1>2. UNCHANGED <<after, first, notice, shown, begun, polled>> /\ run' = run + 1
    BY DEF StartRun
  <1>3. BufferInv'
    BY <1>1, FollowBufferInv DEF Next
  <1>4. run \in Nat /\ run' \in 0 .. MaxRuns
    BY <1>1, <1>2, FollowAssumption DEF TypeOK, StartRun
  <1>5. TypeOK'
    <2>1. first' \in BOOLEAN /\ notice' \in BOOLEAN
      BY <1>1, <1>2, Zenon DEF TypeOK
    <2> QED
      BY <1>1, <1>2, <1>3, <1>4, <2>1 DEF TypeOK, BufferInv
  <1>6. Len(shown) \in Nat /\ \A i \in 1 .. Len(shown) : shown[i][1] \in Nat
    <2>1. Len(shown) \in Nat
      BY <1>1, LenProperties DEF TypeOK
    <2>2. \A i \in 1 .. Len(shown) : shown[i] \in (1 .. MaxRuns) \X Nat
      BY <1>1, ElementOfSeq DEF TypeOK
    <2>3. \A x \in (1 .. MaxRuns) \X Nat : x[1] \in Nat
      BY FollowAssumption
    <2> QED
      BY <2>1, <2>2, <2>3
  <1>7. \A i \in 1 .. Len(shown) : shown[i][1] <= run /\ shown[i][1] # run + 1 /\ shown[i][1] <= run + 1
    BY <1>1, <1>4, <1>6 DEF PositionInv
  <1>8. PrintsInOrder'
    <2>1. \A i \in 1 .. Len(shown) - 1 : i \in 1 .. Len(shown)
      BY <1>6
    <2> QED
      BY <2>1, <1>1, <1>2, <1>7 DEF PrintsInOrder
  <1>9. PositionInv'
    <2>1. shown # <<>> => Len(shown) \in 1 .. Len(shown)
      <3>1. shown # <<>> => Len(shown) \in Nat \ {0}
        BY <1>1, EmptySeq DEF TypeOK
      <3>2. \A n \in Nat \ {0} : n \in 1 .. n
        OBVIOUS
      <3> QED
        BY <3>1, <3>2
    <2> QED
      BY <2>1, <1>1, <1>2, <1>7 DEF PositionInv
  <1> QED
    BY <1>5, <1>8, <1>9

(* FollowInv is inductive: whatever the process writes, however often it is*)
(* restarted and whenever the client polls, the buffer retains the newest  *)
(* output in order and the client stands where it printed last.            *)
THEOREM FollowCorrect == Spec => []FollowInv
  <1>1. Init => FollowInv
    <2> SUFFICES ASSUME Init PROVE FollowInv
      OBVIOUS
    <2>1. BufferInv
      BY EmptyBufferInv DEF Init, BufferInit
    <2>2. first \in BOOLEAN /\ notice \in BOOLEAN
      BY Zenon DEF Init
    <2>3. /\ run = 0 /\ after = 0 /\ shown = <<>> /\ begun = <<0, 0>> /\ polled = <<0, 0>>
      BY DEF Init, Nowhere
    <2>4. Len(shown) = 0 /\ shown \in Seq((1 .. MaxRuns) \X Nat)
      BY <2>3, EmptySeq
    <2>5. TypeOK
      BY <2>1, <2>2, <2>3, <2>4, FollowAssumption DEF TypeOK, BufferInv
    <2>6. PrintsInOrder /\ PositionInv
      BY <2>3, <2>4 DEF PrintsInOrder, PositionInv
    <2> QED
      BY <2>1, <2>5, <2>6 DEF FollowInv
  <1>2. FollowInv /\ [Next]_<<bufferVars, followVars>> => FollowInv'
    <2> SUFFICES ASSUME FollowInv, [Next]_<<bufferVars, followVars>> PROVE FollowInv'
      OBVIOUS
    <2>1. BufferInv'
      BY FollowBufferInv DEF FollowInv
    <2>2. CASE UNCHANGED <<bufferVars, followVars>>
      <3>1. UNCHANGED <<run, after, first, notice, shown, begun, polled, events, nextSequence>>
        BY <2>2 DEF bufferVars, followVars
      <3>2. first' \in BOOLEAN /\ notice' \in BOOLEAN
        BY <3>1, Zenon DEF FollowInv, TypeOK
      <3> QED
        BY <2>1, <3>1, <3>2 DEF FollowInv, TypeOK, BufferInv, PrintsInOrder, PositionInv
    <2> QED
      BY <2>1, <2>2, WriteKeeps, StartRunKeeps, PollKeeps DEF Next, FollowInv
  <1> QED
    BY <1>1, <1>2, PTL DEF Spec

(* The buffer never shows a reader more than its limits (enforceLimits).   *)
THEOREM LimitsKept == Spec => []WithinLimits
  <1>1. FollowInv => WithinLimits
    <2> SUFFICES ASSUME FollowInv, step = "unlocked" PROVE Len(events) <= maxEvents /\ bytes <= maxBytes
      BY DEF WithinLimits
    <2>1. ~OverLimit /\ bytes \in Nat
      BY DEF FollowInv, BufferInv, CaptureInv, BufferTypeOK
    <2>2. Len(events) \in Nat
      BY SequenceNumbers DEF FollowInv
    <2>3. \A n, m \in Nat : ~(n > m) => n <= m
      OBVIOUS
    <2> QED
      BY <2>1, <2>2, <2>3, LimitsAssumption DEF OverLimit
  <1> QED
    BY <1>1, FollowCorrect, PTL

(* The buffer retains the newest output, complete and without a gap, and   *)
(* says when something was discarded (Capture, enforceLimits).             *)
THEOREM NewestRetained == Spec => []RetainsNewest
  <1>1. FollowInv => RetainsNewest
    BY DEF FollowInv, BufferInv
  <1> QED
    BY <1>1, FollowCorrect, PTL

(* OutputBuffer.Tail returns the next events after a position, or the      *)
(* oldest retained, or the newest for a first poll, without a gap.         *)
THEOREM TailCorrect == Spec => []TailIsNext
  <1>1. FollowInv => TailIsNext
    BY PollIsNext DEF FollowInv
  <1> QED
    BY <1>1, FollowCorrect, PTL

(* A follower prints nothing twice or out of order, across runs too, and   *)
(* skips only what the buffer had discarded (runProcessLogs).              *)
THEOREM FollowerInOrder == Spec => []PrintsInOrder
  <1>1. FollowInv => PrintsInOrder
    BY DEF FollowInv
  <1> QED
    BY <1>1, FollowCorrect, PTL
=============================================================================
