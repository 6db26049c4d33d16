----------------------------- MODULE StreamProofs ----------------------------
(***************************************************************************)
(* Theorems about ExecutionStream for any number of calls, any token, any  *)
(* size of frames and any output: whose frames a client gets, and what     *)
(* they make of the output.                                                *)
(*                                                                         *)
(* First StreamInv, which settles whose turn it is on the shared pipe.     *)
(* Then the filter: Redaction is well defined, and a pass of the filter    *)
(* sends what no later byte can change.  Then OnceInv, by which the exit   *)
(* is the last thing sent for a call, RefusalInv, by which who is refused  *)
(* has no gh, and FlowInv, which accounts for every byte between gh and    *)
(* the client.                                                             *)
(***************************************************************************)
EXTENDS ExecutionStream, SequenceTheorems, WellFoundedInduction, TLAPS

(* The order of the naturals as a relation.                                *)
LEMMA SmallerPairs ==
  ASSUME NEW m \in Nat, NEW n \in Nat, m < n
  PROVE  <<m, n>> \in OpToRel(<, Nat)
  <1>1. <<m, n>> \in {ss \in Nat \X Nat : ss[1] < ss[2]}
    OBVIOUS
  <1> QED
    BY <1>1, Zenon DEF OpToRel

(* A set of naturals that is not empty has a least element, by which the   *)
(* proofs below do induction.                                              *)
LEMMA SmallestIndex ==
  ASSUME NEW T \in SUBSET Nat, T # {}
  PROVE  \E n \in T : \A m \in T : n <= m
  <1>1. \E n \in T : \A m \in T : ~(<<m, n>> \in OpToRel(<, Nat))
    BY WFMin, NatLessThanWellFounded, Zenon
  <1>2. \A m, n \in T : m < n => <<m, n>> \in OpToRel(<, Nat)
    BY SmallerPairs, Zenon
  <1>3. \E n \in T : \A m \in T : ~(m < n)
    BY <1>1, <1>2, Zenon
  <1> QED
    BY <1>3

(* Facts of arithmetic the solver does not find inside a larger step.      *)
LEMMA Division ==
  ASSUME NEW a \in Nat, NEW b \in Nat \ {0}
  PROVE  a \div b \in Nat
  OBVIOUS

LEMMA Multiplication ==
  ASSUME NEW a \in Nat, NEW b \in Nat
  PROVE  a * b \in Nat
  OBVIOUS

(* The number of frames of some bytes.                                     *)
LEMMA Lengths ==
  ASSUME NEW bytes \in Output
  PROVE  /\ Len(bytes) \in Nat
         /\ (Len(bytes) + FrameSize - 1) \div FrameSize \in Nat
  <1>1. Len(bytes) \in Nat
    BY LenProperties DEF Output
  <1>2. Len(bytes) + FrameSize - 1 \in Nat /\ FrameSize \in Nat \ {0}
    BY <1>1, StreamAssumption
  <1> QED
    BY <1>1, <1>2, Division

(* frameWriter.Write makes data frames for its own call and stream.        *)
LEMMA FramesType ==
  ASSUME NEW c \in Calls, NEW s \in Streams, NEW bytes \in Output
  PROVE  /\ Frames(c, s, bytes) \in Seq(FrameType)
         /\ \A i \in 1 .. Len(Frames(c, s, bytes)) :
              /\ Frames(c, s, bytes)[i].kind = "data"
              /\ Frames(c, s, bytes)[i].of = c
              /\ ~Frames(c, s, bytes)[i].error
  <1> DEFINE n == (Len(bytes) + FrameSize - 1) \div FrameSize
             piece(i) == SubSeq(bytes, (i - 1) * FrameSize + 1,
                                Smaller(i * FrameSize, Len(bytes)))
             frame(i) == Data(c, s, piece(i))
  <1>1. n \in Nat /\ Len(bytes) \in Nat
    BY Lengths
  <1>2. ASSUME NEW i \in 1 .. n
        PROVE  piece(i) \in Output
    <2>1. i \in Nat /\ i - 1 \in Nat /\ FrameSize \in Nat
      BY <1>1, StreamAssumption
    <2>2. (i - 1) * FrameSize \in Nat /\ i * FrameSize \in Nat
      BY <2>1, Multiplication
    <2> DEFINE low == (i - 1) * FrameSize + 1
               high == Smaller(i * FrameSize, Len(bytes))
    <2>3. low \in Int /\ high \in Int /\ low >= 1 /\ high <= Len(bytes)
      BY <2>2, <1>1 DEF Smaller
    <2> HIDE DEF low, high
    <2>4. \A j \in low .. high : bytes[j] \in Alphabet \cup {Redacted}
      BY <2>3, <1>1, ElementOfSeq DEF Output
    <2>5. SubSeq(bytes, low, high) \in Seq(Alphabet \cup {Redacted})
      BY <2>3, <2>4, SubSeqProperties
    <2> QED
      BY <2>5 DEF low, high, Output
  <1> HIDE DEF piece
  <1>3. \A i \in 1 .. n : frame(i) \in FrameType /\ frame(i).kind = "data"
                          /\ frame(i).of = c /\ frame(i).error = FALSE
    BY <1>2 DEF Data, FrameType
  <1>4. Frames(c, s, bytes) = [i \in 1 .. n |-> frame(i)]
    BY DEF Frames, piece
  <1> HIDE DEF n, frame
  <1>5. [i \in 1 .. n |-> frame(i)] \in Seq(FrameType)
    BY <1>1, <1>3, SMT
  <1>6. Len([i \in 1 .. n |-> frame(i)]) = n
    BY <1>1, <1>5, LenProperties
  <1> QED
    BY <1>3, <1>4, <1>5, <1>6

(* Frames of output for one call, and one sequence of them after another.  *)
DataFor(c, frames) ==
  /\ frames \in Seq(FrameType)
  /\ \A i \in 1 .. Len(frames) :
       frames[i].kind = "data" /\ frames[i].of = c /\ ~frames[i].error

LEMMA DataForConcat ==
  ASSUME NEW c, NEW f, NEW g, DataFor(c, f), DataFor(c, g)
  PROVE  DataFor(c, f \o g)
  <1>1. /\ f \o g \in Seq(FrameType) /\ Len(f) \in Nat /\ Len(g) \in Nat
        /\ Len(f \o g) = Len(f) + Len(g)
        /\ \A i \in 1 .. Len(f) + Len(g) :
             (f \o g)[i] = IF i <= Len(f) THEN f[i] ELSE g[i - Len(f)]
    BY ConcatProperties, LenProperties DEF DataFor
  <1>2. \A i \in 1 .. Len(f) + Len(g) : i \in 1 .. Len(f) \/ i - Len(f) \in 1 .. Len(g)
    BY <1>1
  <1>3. ASSUME NEW i \in 1 .. Len(f) + Len(g)
        PROVE  (f \o g)[i].kind = "data" /\ (f \o g)[i].of = c /\ ~(f \o g)[i].error
    <2>1. CASE i \in 1 .. Len(f)
      <3>1. (f \o g)[i] = f[i]
        BY <1>1, <1>3, <2>1
      <3> QED
        BY <2>1, <3>1 DEF DataFor
    <2>2. CASE ~(i \in 1 .. Len(f))
      <3>1. (f \o g)[i] = g[i - Len(f)] /\ i - Len(f) \in 1 .. Len(g)
        BY <1>1, <1>2, <1>3, <2>2
      <3> QED
        BY <3>1 DEF DataFor
    <2> QED
      BY <2>1, <2>2
  <1> QED
    BY <1>1, <1>3 DEF DataFor

(* IndexOf answers with a position in the bytes, or 0.                     *)
LEMMA IndexOfType ==
  ASSUME NEW pending \in Seq(Alphabet)
  PROVE  IndexOf(pending) \in 0 .. Len(pending) - Len(Secret) + 1
         \/ IndexOf(pending) = 0
  <1> DEFINE found == {i \in 1 .. Len(pending) - Len(Secret) + 1 :
                         SubSeq(pending, i, i + Len(Secret) - 1) = Secret}
  <1>1. CASE found = {}
    BY <1>1 DEF IndexOf
  <1>2. CASE found # {}
    <2>1. found \subseteq Nat
      OBVIOUS
    <2>2. \E i \in found : \A j \in found : i <= j
      BY <1>2, <2>1, SmallestIndex
    <2>3. (CHOOSE i \in found : \A j \in found : i <= j) \in found
      BY <2>2
    <2>4. IndexOf(pending) = CHOOSE i \in found : \A j \in found : i <= j
      BY <1>2 DEF IndexOf
    <2> QED
      BY <2>3, <2>4, LenProperties, StreamAssumption
  <1> QED
    BY <1>1, <1>2

(* Initially.                                                              *)
LEMMA TypeInit == Init => TypeOK
  <1>1. ASSUME Init
        PROVE  TypeOK
    <2>1. Nothing \in [Streams -> Output] /\ Nothing \in [Streams -> Seq(Alphabet)]
      BY DEF Nothing, Output
    <2>2. client \in [Calls -> ClientType]
      BY <1>1, <2>1 DEF Init, ClientType
    <2>3. gh \in [Calls -> GhType]
      BY <1>1, <2>1 DEF Init, GhType
    <2>4. inbox \in [Calls -> Seq(FrameType)] /\ toHost \in Seq(Calls) /\ toBridge \in Seq(FrameType)
      BY <1>1 DEF Init
    <2>5. written \in [Calls -> [Streams -> Seq(Alphabet)]]
      BY <1>1, <2>1 DEF Init
    <2> QED
      BY <1>1, <2>2, <2>3, <2>4, <2>5, StreamAssumption DEF Init, TypeOK
  <1> QED
    BY <1>1

(* What a frame does to a client.                                          *)
LEMMA HeardClient ==
  ASSUME NEW x \in ClientType, NEW frame \in FrameType, NEW y, y = Heard(x, frame)
  PROVE  /\ y \in ClientType
         /\ y.path = x.path /\ y.request = x.request
         /\ y.pc \in {x.pc, "done"}
         /\ y.heard = x.heard \cup {frame.of}
         /\ \/ y.result \in {x.result, "answered", "exit"}
            \/ x.request = "execute" /\ frame.kind = "answer"
  <1> DEFINE h == [x EXCEPT !.heard = @ \cup {frame.of}]
  <1>1. /\ h \in ClientType /\ h.path = x.path /\ h.request = x.request /\ h.pc = x.pc
        /\ h.heard = x.heard \cup {frame.of} /\ h.result = x.result
    BY DEF ClientType, FrameType
  <1> HIDE DEF h
  <1>2. ASSUME NEW result \in {"answered", "exit", "invalid"},
               y = [h EXCEPT !.pc = "done", !.result = result]
        PROVE  /\ y \in ClientType
               /\ y.path = x.path /\ y.request = x.request /\ y.pc = "done"
               /\ y.heard = x.heard \cup {frame.of}
               /\ y.result = result
    <2> DEFINE z == [h EXCEPT !.pc = "done"]
    <2>1. /\ z \in ClientType /\ z.path = x.path /\ z.request = x.request /\ z.pc = "done"
          /\ z.heard = x.heard \cup {frame.of}
      BY <1>1 DEF ClientType
    <2>2. y = [z EXCEPT !.result = result]
      BY <1>2 DEF z
    <2> HIDE DEF z
    <2>3. /\ y \in ClientType /\ y.path = x.path /\ y.request = x.request /\ y.pc = "done"
          /\ y.heard = x.heard \cup {frame.of} /\ y.result = result
      BY <2>1, <2>2 DEF ClientType
    <2> QED
      BY <2>3
  <1>3. ASSUME y = [h EXCEPT !.shown[frame.stream] = @ \o frame.data]
        PROVE  /\ y \in ClientType
               /\ y.path = x.path /\ y.request = x.request /\ y.pc = x.pc
               /\ y.heard = x.heard \cup {frame.of}
               /\ y.result = x.result
    <2> DEFINE shown == [h.shown EXCEPT ![frame.stream] = @ \o frame.data]
    <2>1. h.shown \in [Streams -> Output] /\ frame.data \in Output
      BY <1>1 DEF ClientType, FrameType
    <2>2. \A s \in Streams : h.shown[s] \o frame.data \in Output
      BY <2>1, ConcatProperties DEF Output
    <2>3. shown \in [Streams -> Output]
      BY <2>1, <2>2
    <2>5. y = [h EXCEPT !.shown = shown]
      BY <1>3
    <2> HIDE DEF shown
    <2>4. /\ y \in ClientType /\ y.path = x.path /\ y.request = x.request /\ y.pc = x.pc
          /\ y.heard = x.heard \cup {frame.of} /\ y.result = x.result
      BY <1>1, <2>3, <2>5 DEF ClientType
    <2> QED
      BY <2>4
  <1>4. x.request \in {"execute", "query"} /\ frame.kind \in {"data", "exit", "answer"}
    BY DEF ClientType, FrameType
  <1>5. CASE x.request = "query"
    <2>1. y = [h EXCEPT !.pc = "done", !.result = "answered"]
      BY <1>5 DEF Heard, h
    <2> QED
      BY <1>2, <2>1
  <1>6. CASE x.request = "execute"
    <2>1. CASE frame.kind = "exit"
      <3>1. y = [h EXCEPT !.pc = "done", !.result = "exit"]
        BY <1>6, <2>1 DEF Heard, h
      <3> QED
        BY <1>2, <3>1
    <2>2. CASE frame.kind = "data"
      <3>1. y = [h EXCEPT !.shown[frame.stream] = @ \o frame.data]
        BY <1>6, <2>2 DEF Heard, h
      <3> QED
        BY <1>3, <3>1
    <2>3. CASE frame.kind = "answer"
      <3>1. y = [h EXCEPT !.pc = "done", !.result = "invalid"]
        BY <1>6, <2>3 DEF Heard, h
      <3> QED
        BY <1>2, <3>1, <1>6, <2>3
    <2> QED
      BY <1>4, <2>1, <2>2, <2>3
  <1> QED
    BY <1>4, <1>5, <1>6

(* A step of one client: it keeps its way and its request once it has them,*)
(* and hears only what was in its inbox.                                   *)
ClientStep(c) ==
  /\ client' \in [Calls -> ClientType]
  /\ inbox' \in [Calls -> Seq(FrameType)]
  /\ client'[c].pc # "idle"
  /\ client[c].pc # "idle" =>
       client'[c].path = client[c].path /\ client'[c].request = client[c].request
  /\ \A d \in Calls \ {c} : client'[d] = client[d] /\ inbox'[d] = inbox[d]
  /\ \/ inbox'[c] \in {inbox[c], <<>>}
     \/ inbox[c] # <<>> /\ inbox'[c] = Tail(inbox[c])
  /\ client'[c].heard \subseteq client[c].heard
                                 \cup {inbox[c][i].of : i \in 1 .. Len(inbox[c])}
  /\ \/ client'[c].result # "invalid"
     \/ client'[c].result = client[c].result
     \/ /\ client[c].request = "execute"
        /\ \E i \in 1 .. Len(inbox[c]) : inbox[c][i].kind = "answer"

(* Every action of a client is such a step.                                *)
LEMMA ClientSteps ==
  ASSUME TypeOK, NEW c \in Calls,
         \/ \E path \in Paths, request \in Requests : Dial(c, path, request)
         \/ Send(c) \/ Read(c) \/ ReadEnd(c) \/ Leave(c)
  PROVE  ClientStep(c)
  <1>1. client \in [Calls -> ClientType] /\ inbox \in [Calls -> Seq(FrameType)]
    BY DEF TypeOK
  <1> DEFINE x == client[c]
  <1>2. x \in ClientType
    BY <1>1
  <1>3. ASSUME NEW y \in ClientType, client' = [client EXCEPT ![c] = y],
               y.pc # "idle",
               x.pc # "idle" => y.path = x.path /\ y.request = x.request,
               y.heard = x.heard, y.result \in {x.result, "closed"},
               \/ inbox' = inbox
               \/ inbox' = [inbox EXCEPT ![c] = <<>>]
        PROVE  ClientStep(c)
    <2>1. client' \in [Calls -> ClientType] /\ inbox' \in [Calls -> Seq(FrameType)]
      BY <1>1, <1>3, EmptySeq
    <2>2. client'[c] = y /\ \A d \in Calls \ {c} : client'[d] = client[d]
      BY <1>1, <1>3
    <2>3. inbox'[c] \in {inbox[c], <<>>} /\ \A d \in Calls \ {c} : inbox'[d] = inbox[d]
      BY <1>1, <1>3
    <2> QED
      BY <1>3, <2>1, <2>2, <2>3 DEF ClientStep
  <1>4. ASSUME NEW path \in Paths, NEW request \in Requests, Dial(c, path, request)
        PROVE  ClientStep(c)
    <2> DEFINE a == [x EXCEPT !.pc = "dialled"]
               b == [a EXCEPT !.path = path]
               y == [b EXCEPT !.request = request]
    <2>1. a \in ClientType /\ a.pc = "dialled" /\ a.heard = x.heard /\ a.result = x.result
      BY <1>2 DEF ClientType
    <2> HIDE DEF a
    <2>2. b \in ClientType /\ b.pc = "dialled" /\ b.heard = x.heard /\ b.result = x.result
      BY <2>1, StreamAssumption DEF ClientType
    <2> HIDE DEF b
    <2>3. y \in ClientType /\ y.pc = "dialled" /\ y.heard = x.heard /\ y.result = x.result
      BY <2>2, StreamAssumption DEF ClientType
    <2>4. client' = [client EXCEPT ![c] = y] /\ inbox' = inbox /\ x.pc = "idle"
      BY <1>1, <1>4 DEF Dial, a, b
    <2> HIDE DEF y
    <2> QED
      BY <1>3, <2>3, <2>4
  <1>5. CASE Send(c)
    <2> DEFINE y == [x EXCEPT !.pc = "sent"]
    <2>1. y \in ClientType /\ y.pc = "sent" /\ y.path = x.path /\ y.request = x.request
          /\ y.heard = x.heard /\ y.result = x.result
      BY <1>2 DEF ClientType
    <2>2. client' = [client EXCEPT ![c] = y] /\ inbox' = inbox
      BY <1>1, <1>5 DEF Send
    <2> HIDE DEF y
    <2> QED
      BY <1>3, <2>1, <2>2
  <1>6. CASE Read(c)
    <2> DEFINE frame == Head(inbox[c])
               y == Heard(x, frame)
    <2>1. /\ x.pc = "sent" /\ inbox[c] # <<>>
          /\ inbox' = [inbox EXCEPT ![c] = Tail(inbox[c])]
          /\ client' = [client EXCEPT ![c] = y]
      BY <1>6 DEF Read
    <2>2. inbox[c] \in Seq(FrameType) /\ frame = inbox[c][1] /\ frame \in FrameType
          /\ 1 \in 1 .. Len(inbox[c]) /\ Tail(inbox[c]) \in Seq(FrameType)
      BY <1>1, <2>1, HeadTailProperties, EmptySeq
    <2> HIDE DEF frame
    <2>3. /\ y \in ClientType
          /\ y.path = x.path /\ y.request = x.request
          /\ y.pc \in {x.pc, "done"}
          /\ y.heard = x.heard \cup {frame.of}
          /\ \/ y.result \in {x.result, "answered", "exit"}
             \/ x.request = "execute" /\ frame.kind = "answer"
      BY <1>2, <2>2, HeardClient
    <2> HIDE DEF y
    <2> QED
      BY <1>1, <2>1, <2>2, <2>3 DEF ClientStep
  <1>7. CASE ReadEnd(c)
    <2> DEFINE a == [x EXCEPT !.pc = "done"]
               y == [a EXCEPT !.result = "closed"]
    <2>1. a \in ClientType /\ a.pc = "done" /\ a.path = x.path /\ a.request = x.request
          /\ a.heard = x.heard
      BY <1>2 DEF ClientType
    <2> HIDE DEF a
    <2>2. y \in ClientType /\ y.pc = "done" /\ y.path = x.path /\ y.request = x.request
          /\ y.heard = x.heard /\ y.result = "closed"
      BY <2>1 DEF ClientType
    <2>3. client' = [client EXCEPT ![c] = y] /\ inbox' = inbox
      BY <1>1, <1>7 DEF ReadEnd, a
    <2> HIDE DEF y
    <2> QED
      BY <1>3, <2>2, <2>3
  <1>8. CASE Leave(c)
    <2> DEFINE pc == IF x.pc = "sent" THEN "left" ELSE "gone"
               a == [x EXCEPT !.pc = pc]
               y == [a EXCEPT !.shown = Nothing]
    <2>1. a \in ClientType /\ a.pc = pc /\ a.path = x.path /\ a.request = x.request
          /\ a.heard = x.heard /\ a.result = x.result
      BY <1>2 DEF ClientType
    <2>2. Nothing \in [Streams -> Output]
      BY DEF Nothing, Output
    <2> HIDE DEF a
    <2>3. y \in ClientType /\ y.pc = pc /\ y.path = x.path /\ y.request = x.request
          /\ y.heard = x.heard /\ y.result = x.result
      BY <2>1, <2>2 DEF ClientType
    <2>4. client' = [client EXCEPT ![c] = y] /\ inbox' = [inbox EXCEPT ![c] = <<>>]
      BY <1>1, <1>8 DEF Leave, a
    <2> HIDE DEF y
    <2> QED
      BY <1>3, <2>3, <2>4
  <1> QED
    BY <1>4, <1>5, <1>6, <1>7, <1>8

(* No step of a client disturbs the invariant: it has its way and request  *)
(* before anything is made for it.                                         *)
LEMMA ClientKeeps ==
  ASSUME StreamInv, NEW c \in Calls, ClientStep(c),
         UNCHANGED <<closed, bridgeVars, toBridge, serving, gh>>
  PROVE  InboxInv' /\ TurnInv' /\ BridgeInv' /\ GhInv' /\ HeardOwn'
  <1> USE DEF StreamInv, bridgeVars
  <1>1. /\ client \in [Calls -> ClientType] /\ inbox \in [Calls -> Seq(FrameType)]
        /\ holder \in Calls \cup {NoCall} /\ serving \in Calls \cup {NoCall}
    BY DEF TypeOK
  <1>2. \A d \in Calls : client'[d].pc = "idle" => client[d].pc = "idle" /\ d # c
    BY DEF ClientStep
  <1>3. \A d \in Calls : client[d].pc # "idle" =>
          client'[d].path = client[d].path /\ client'[d].request = client[d].request
    BY DEF ClientStep
  <1>4. InboxInv'
    <2>1. ASSUME NEW d \in Calls
          PROVE  client'[d].pc = "idle" => inbox'[d] = <<>>
      BY <1>2 DEF ClientStep, InboxInv
    <2>2. ASSUME NEW d \in Calls, NEW i \in 1 .. Len(inbox'[d])
          PROVE  Suits(d, inbox[d][i])'
      <3>1. PICK j \in 1 .. Len(inbox[d]) : inbox'[d][i] = inbox[d][j]
        <4>1. inbox[d] \in Seq(FrameType)
          BY <1>1
        <4>2. CASE inbox'[d] = inbox[d]
          BY <4>2, <2>2
        <4>3. CASE inbox'[d] = <<>>
          BY <4>3, <2>2
        <4>4. CASE inbox[d] # <<>> /\ inbox'[d] = Tail(inbox[d])
          <5>1. /\ Len(inbox[d]) \in Nat /\ Len(inbox'[d]) = Len(inbox[d]) - 1
                /\ \A k \in 1 .. Len(inbox'[d]) : inbox'[d][k] = inbox[d][k + 1]
            BY <4>1, <4>4, HeadTailProperties, LenProperties
          <5>2. i + 1 \in 1 .. Len(inbox[d]) /\ inbox'[d][i] = inbox[d][i + 1]
            BY <2>2, <5>1
          <5> QED
            BY <5>2
        <4> QED
          BY <4>2, <4>3, <4>4 DEF ClientStep
      <3>2. Suits(d, inbox[d][j])
        BY DEF InboxInv
      <3>3. inbox[d] # <<>>
        BY <1>1, EmptySeq
      <3>4. client[d].pc # "idle"
        BY <3>3 DEF InboxInv
      <3> QED
        BY <1>3, <3>1, <3>2, <3>4 DEF Suits
    <2> QED
      BY <2>1, <2>2 DEF InboxInv
  <1>5. TurnInv'
    BY <1>1, <1>2, <1>3 DEF TurnInv
  <1>6. BridgeInv'
    <2>1. ASSUME NEW i \in 1 .. Len(toBridge)
          PROVE  holder \in Calls /\ client[holder].pc # "idle"
      <3>1. toBridge # <<>>
        BY EmptySeq DEF TypeOK
      <3> QED
        BY <1>1, <3>1 DEF TurnInv
    <2> QED
      BY <1>3, <2>1 DEF BridgeInv, Suits, EndsAnswer
  <1>7. GhInv'
    BY <1>2, <1>3 DEF GhInv
  <1>8. HeardOwn'
    <2>1. ASSUME NEW d \in Calls
          PROVE  client'[d].heard \subseteq {d}
      <3>1. CASE d # c
        BY <3>1 DEF HeardOwn, ClientStep
      <3>2. CASE d = c
        <4>1. \A i \in 1 .. Len(inbox[c]) : inbox[c][i].of = c
          BY DEF InboxInv, Suits
        <4>2. client[c].heard \subseteq {c}
          BY DEF HeardOwn
        <4> QED
          BY <3>2, <4>1, <4>2 DEF ClientStep
      <3> QED
        BY <3>1, <3>2
    <2> QED
      BY <2>1 DEF HeardOwn
  <1> QED
    BY <1>4, <1>5, <1>6, <1>7, <1>8

(***************************************************************************)
(* What the host sends.                                                    *)
(***************************************************************************)

(* The frames are for this call and only the last may end its answer.      *)
Proper(c, frames) ==
  /\ frames \in Seq(FrameType)
  /\ \A i \in 1 .. Len(frames) : Suits(c, frames[i])
  /\ \A i \in 1 .. Len(frames) : EndsAnswer(c, frames[i]) => i = Len(frames)

(* Sending for the call whose turn it is, or on its own socket, keeps every*)
(* frame where it belongs.                                                 *)
LEMMA EncodeKeeps ==
  ASSUME StreamInv, NEW c \in Calls, NEW frames, Proper(c, frames), Encode(c, frames),
         UNCHANGED <<client, up, holder, passed>>,
         client[c].pc # "idle",
         client[c].path = "socket" => serving' = serving,
         client[c].path = "bridge" =>
           /\ up => holder = c /\ \A i \in 1 .. Len(toBridge) : ~EndsAnswer(c, toBridge[i])
           /\ serving' = NoCall \/ \A i \in 1 .. Len(frames) : ~EndsAnswer(c, frames[i])
  PROVE  /\ inbox' \in [Calls -> Seq(FrameType)] /\ toBridge' \in Seq(FrameType)
         /\ InboxInv' /\ BridgeInv'
         /\ toBridge' # toBridge => client[c].path = "bridge" /\ up
  <1> USE DEF StreamInv
  <1>1. /\ client \in [Calls -> ClientType] /\ inbox \in [Calls -> Seq(FrameType)]
        /\ toBridge \in Seq(FrameType) /\ frames \in Seq(FrameType)
        /\ inbox[c] \in Seq(FrameType) /\ client[c].path \in {"bridge", "socket"}
    BY DEF TypeOK, ClientType, Proper
  <1>2. CASE inbox' = inbox /\ toBridge' = toBridge
    <2>1. InboxInv'
      BY <1>2 DEF InboxInv, Suits
    <2>2. CASE client[c].path = "socket"
      BY <1>1, <1>2, <2>1, <2>2 DEF BridgeInv, Suits, EndsAnswer
    <2>3. CASE client[c].path = "bridge" /\ up
      BY <1>1, <1>2, <2>1, <2>3 DEF BridgeInv, Suits, EndsAnswer
    <2>4. CASE ~up
      <3>1. toBridge = <<>>
        BY <2>4 DEF TurnInv
      <3>2. BridgeInv'
        BY <1>2, <3>1, EmptySeq DEF BridgeInv
      <3> QED
        BY <1>1, <1>2, <2>1, <3>2
    <2> QED
      BY <1>1, <2>2, <2>3, <2>4
  <1>3. CASE client[c].path = "bridge" /\ up /\ inbox' = inbox /\ toBridge' = toBridge \o frames
    <2>1. InboxInv'
      BY <1>3 DEF InboxInv, Suits
    <2>2. /\ toBridge' \in Seq(FrameType)
          /\ Len(toBridge') = Len(toBridge) + Len(frames)
          /\ Len(toBridge) \in Nat /\ Len(frames) \in Nat
          /\ \A i \in 1 .. Len(toBridge) + Len(frames) : toBridge'[i] =
               IF i <= Len(toBridge) THEN toBridge[i] ELSE frames[i - Len(toBridge)]
      BY <1>1, <1>3, ConcatProperties, LenProperties
    <2>3. ASSUME NEW i \in 1 .. Len(toBridge')
          PROVE  /\ Suits(holder, toBridge[i])'
                 /\ EndsAnswer(holder, toBridge[i])' => i = Len(toBridge') /\ serving' = NoCall
      <3>1. CASE i <= Len(toBridge)
        <4>1. i \in 1 .. Len(toBridge) /\ toBridge'[i] = toBridge[i]
          BY <2>2, <2>3, <3>1
        <4>2. Suits(holder, toBridge[i]) /\ ~EndsAnswer(holder, toBridge[i])
          BY <1>3, <4>1 DEF BridgeInv
        <4> QED
          BY <4>1, <4>2 DEF Suits, EndsAnswer
      <3>2. CASE ~(i <= Len(toBridge))
        <4> DEFINE j == i - Len(toBridge)
        <4>1. j \in 1 .. Len(frames) /\ toBridge'[i] = frames[j]
              /\ (j = Len(frames) => i = Len(toBridge'))
          BY <2>2, <2>3, <3>2
        <4> HIDE DEF j
        <4>2. Suits(c, frames[j])
              /\ (EndsAnswer(c, frames[j]) => j = Len(frames) /\ serving' = NoCall)
          BY <1>3, <4>1 DEF Proper
        <4> QED
          BY <1>3, <4>1, <4>2 DEF Suits, EndsAnswer
      <3> QED
        BY <3>1, <3>2
    <2> QED
      BY <1>1, <1>3, <2>1, <2>2, <2>3 DEF BridgeInv
  <1>4. CASE /\ client[c].path = "socket" /\ toBridge' = toBridge
             /\ inbox' = [inbox EXCEPT ![c] = @ \o frames]
    <2>1. /\ inbox[c] \o frames \in Seq(FrameType)
          /\ Len(inbox[c] \o frames) = Len(inbox[c]) + Len(frames)
          /\ Len(inbox[c]) \in Nat /\ Len(frames) \in Nat
          /\ \A i \in 1 .. Len(inbox[c]) + Len(frames) : (inbox[c] \o frames)[i] =
               IF i <= Len(inbox[c]) THEN inbox[c][i] ELSE frames[i - Len(inbox[c])]
      BY <1>1, ConcatProperties, LenProperties
    <2>2. inbox'[c] = inbox[c] \o frames /\ \A d \in Calls \ {c} : inbox'[d] = inbox[d]
      BY <1>1, <1>4
    <2>3. ASSUME NEW i \in 1 .. Len(inbox'[c])
          PROVE  Suits(c, inbox'[c][i])
      <3>1. \/ i \in 1 .. Len(inbox[c]) /\ inbox'[c][i] = inbox[c][i]
            \/ /\ i - Len(inbox[c]) \in 1 .. Len(frames)
               /\ inbox'[c][i] = frames[i - Len(inbox[c])]
        BY <2>1, <2>2, <2>3
      <3> QED
        BY <3>1 DEF InboxInv, Proper
    <2>4. InboxInv'
      <3>1. ASSUME NEW d \in Calls
            PROVE  /\ client'[d].pc = "idle" => inbox'[d] = <<>>
                   /\ \A i \in 1 .. Len(inbox'[d]) : Suits(d, inbox[d][i])'
        <4>1. CASE d = c
          BY <2>3, <4>1 DEF Suits
        <4>2. CASE d # c
          BY <2>2, <4>2 DEF InboxInv, Suits
        <4> QED
          BY <4>1, <4>2
      <3> QED
        BY <3>1 DEF InboxInv
    <2>5. BridgeInv'
      BY <1>4 DEF BridgeInv, Suits, EndsAnswer
    <2>6. inbox' \in [Calls -> Seq(FrameType)]
      BY <1>1, <1>4, <2>1
    <2> QED
      BY <1>1, <1>4, <2>4, <2>5, <2>6
  <1> QED
    BY <1>1, <1>2, <1>3, <1>4 DEF Encode, Reached

(* One frame that ends the answer.                                         *)
LEMMA ProperAnswer ==
  ASSUME TypeOK, NEW c \in Calls, NEW error \in BOOLEAN
  PROVE  /\ (client[c].request = "execute" => error) => Proper(c, <<Answer(c, error)>>)
         /\ client[c].request = "execute" => Proper(c, <<ExitFrame(c)>>)
  <1>1. <<>> \in Output
    BY DEF Output
  <1>2. /\ Answer(c, error) \in FrameType /\ Answer(c, error).of = c
        /\ Answer(c, error).kind = "answer" /\ Answer(c, error).error = error
    BY <1>1 DEF Answer, FrameType
  <1>3. ExitFrame(c) \in FrameType /\ ExitFrame(c).of = c /\ ExitFrame(c).kind = "exit"
    BY <1>1 DEF ExitFrame, FrameType
  <1>4. client[c].request \in {"execute", "query"}
    BY DEF TypeOK, ClientType
  <1> HIDE DEF Answer, ExitFrame
  <1> QED
    BY <1>2, <1>3, <1>4 DEF Proper, Suits

(* Frames of output end nothing.                                           *)
LEMMA ProperData ==
  ASSUME TypeOK, NEW c \in Calls, client[c].request = "execute",
         NEW frames \in Seq(FrameType),
         \A i \in 1 .. Len(frames) :
           frames[i].kind = "data" /\ frames[i].of = c /\ ~frames[i].error
  PROVE  /\ Proper(c, frames)
         /\ \A i \in 1 .. Len(frames) : ~EndsAnswer(c, frames[i])
         /\ Proper(c, frames \o <<ExitFrame(c)>>)
  <1>1. \A i \in 1 .. Len(frames) : Suits(c, frames[i]) /\ ~EndsAnswer(c, frames[i])
    BY DEF Suits, EndsAnswer
  <1>2. <<>> \in Output
    BY DEF Output
  <1>3. ExitFrame(c) \in FrameType /\ Suits(c, ExitFrame(c))
    BY <1>2 DEF ExitFrame, FrameType, Suits
  <1> DEFINE e == ExitFrame(c)
  <1> HIDE DEF e
  <1>4. /\ frames \o <<e>> \in Seq(FrameType) /\ Len(frames) \in Nat
        /\ Len(frames \o <<e>>) = Len(frames) + 1
        /\ \A i \in 1 .. Len(frames) + 1 :
             (frames \o <<e>>)[i] = IF i <= Len(frames) THEN frames[i] ELSE e
    BY <1>3, ConcatProperties, LenProperties DEF e
  <1>5. \A i \in 1 .. Len(frames) + 1 :
          i \in 1 .. Len(frames) \/ (i = Len(frames) + 1 /\ ~(i <= Len(frames)))
    BY <1>4
  <1>6. Proper(c, frames \o <<e>>)
    BY <1>1, <1>3, <1>4, <1>5 DEF Proper, e
  <1> QED
    BY <1>1, <1>6 DEF Proper, e

(***************************************************************************)
(* The bridge.                                                             *)
(***************************************************************************)

(* A client's goroutine takes the bridge when nobody has it.               *)
LEMMA LockKeeps ==
  ASSUME StreamInv, NEW c \in Calls, Lock(c)
  PROVE  StreamInv'
  <1> USE DEF StreamInv, Lock, history
  <1>1. TypeOK'
    BY DEF TypeOK
  <1>2. toHost = <<>> /\ toBridge = <<>> /\ serving = NoCall
    BY DEF TurnInv
  <1>3. TurnInv'
    BY <1>2 DEF TurnInv
  <1>4. BridgeInv'
    BY <1>2, EmptySeq DEF BridgeInv
  <1>5. InboxInv' /\ GhInv' /\ HeardOwn'
    BY DEF InboxInv, GhInv, HeardOwn, Suits
  <1> QED
    BY <1>1, <1>3, <1>4, <1>5

(* It passes its request on to the host, or gives up.                      *)
LEMMA PassKeeps ==
  ASSUME StreamInv, NEW c \in Calls, Pass(c)
  PROVE  StreamInv'
  <1> USE DEF StreamInv, Pass, history
  <1>2. c # NoCall
    BY DEF Calls, NoCall
  <1>1. toHost = <<>> /\ toBridge = <<>> /\ serving = NoCall
    BY <1>2 DEF TurnInv
  <1>3. TypeOK'
    <2>1. toHost' \in Seq(Calls)
      <3>1. toHost' \in {toHost, Append(toHost, c)} /\ toHost \in Seq(Calls)
        BY DEF TypeOK
      <3>2. Append(toHost, c) \in Seq(Calls)
        BY <3>1, AppendProperties
      <3> QED
        BY <3>1, <3>2
    <2>2. closed' \subseteq Calls /\ holder' \in Calls \cup {NoCall} /\ passed' \in BOOLEAN
      BY DEF TypeOK, Release
    <2> QED
      BY <2>1, <2>2 DEF TypeOK
  <1>4. TurnInv'
    BY <1>1, <1>2 DEF TurnInv, Release
  <1>5. BridgeInv'
    BY <1>1, EmptySeq DEF BridgeInv
  <1>6. InboxInv' /\ GhInv' /\ HeardOwn'
    BY DEF InboxInv, GhInv, HeardOwn, Suits
  <1> QED
    BY <1>3, <1>4, <1>5, <1>6

(* The bridge dies, and what was on its pipes with it.                     *)
LEMMA CollapseKeeps ==
  ASSUME StreamInv, Collapse
  PROVE  StreamInv'
  <1> USE DEF StreamInv, Collapse, history
  <1>1. TypeOK'
    <2>1. closed' \subseteq Calls
      BY DEF TypeOK
    <2>2. toHost' \in Seq(Calls) /\ toBridge' \in Seq(FrameType)
      BY EmptySeq
    <2> QED
      BY <2>1, <2>2 DEF TypeOK
  <1>2. TurnInv'
    BY DEF TurnInv
  <1>3. BridgeInv'
    BY EmptySeq DEF BridgeInv
  <1>4. InboxInv' /\ GhInv' /\ HeardOwn'
    BY DEF InboxInv, GhInv, HeardOwn, Suits
  <1> QED
    BY <1>1, <1>2, <1>3, <1>4

(* It relays a frame to its client, and gives the turn away with the last. *)
LEMMA RelayKeeps ==
  ASSUME StreamInv, NEW c \in Calls, Relay(c)
  PROVE  StreamInv'
  <1> USE DEF StreamInv, history
  <1> DEFINE frame == Head(toBridge)
  <1>0. /\ holder = c /\ passed /\ toBridge # <<>> /\ toBridge' = Tail(toBridge)
        /\ inbox' = IF Waiting(c) THEN [inbox EXCEPT ![c] = Append(@, frame)] ELSE inbox
        /\ IF EndsAnswer(c, frame) THEN Release(c) ELSE UNCHANGED <<holder, closed>>
        /\ UNCHANGED <<client, up, passed, toHost, serving, gh, budget, written>>
    BY DEF Relay
  <1>1. /\ toBridge \in Seq(FrameType) /\ toBridge' \in Seq(FrameType)
        /\ frame \in FrameType /\ frame = toBridge[1]
        /\ Len(toBridge) \in Nat /\ 1 \in 1 .. Len(toBridge)
        /\ Len(toBridge') = Len(toBridge) - 1
        /\ \A i \in 1 .. Len(toBridge') : toBridge'[i] = toBridge[i + 1]
    BY <1>0, HeadTailProperties, LenProperties, EmptySeq DEF TypeOK
  <1>2. Suits(c, frame) /\ (EndsAnswer(c, frame) => Len(toBridge) = 1 /\ serving = NoCall)
    BY <1>0, <1>1 DEF BridgeInv
  <1> HIDE DEF frame
  <1>3. inbox' \in [Calls -> Seq(FrameType)]
    BY <1>0, <1>1 DEF TypeOK
  <1>4. TypeOK'
    BY <1>0, <1>1, <1>3 DEF TypeOK, Release
  <1>5. toHost = <<>> /\ client[c].pc # "idle" /\ c # NoCall
    BY <1>0 DEF TurnInv, Calls, NoCall
  <1>6. EndsAnswer(c, frame) => toBridge' = <<>>
    BY <1>1, <1>2, EmptySeq
  <1>7. TurnInv'
    BY <1>0, <1>2, <1>5, <1>6 DEF TurnInv, Release
  <1>8. BridgeInv'
    <2>1. CASE EndsAnswer(c, frame)
      BY <1>6, <2>1, EmptySeq DEF BridgeInv
    <2>2. CASE ~EndsAnswer(c, frame)
      <3>1. ASSUME NEW i \in 1 .. Len(toBridge')
            PROVE  /\ Suits(holder, toBridge[i])'
                   /\ EndsAnswer(holder, toBridge[i])' => i = Len(toBridge') /\ serving' = NoCall
        <4>1. i + 1 \in 1 .. Len(toBridge) /\ toBridge'[i] = toBridge[i + 1]
              /\ (i + 1 = Len(toBridge) => i = Len(toBridge'))
          BY <1>1
        <4>2. Suits(holder, toBridge[i + 1])
              /\ (EndsAnswer(holder, toBridge[i + 1]) => i + 1 = Len(toBridge) /\ serving = NoCall)
          BY <4>1 DEF BridgeInv
        <4> QED
          BY <1>0, <2>2, <4>1, <4>2 DEF Suits, EndsAnswer
      <3> QED
        BY <3>1 DEF BridgeInv
    <2> QED
      BY <2>1, <2>2
  <1>9. InboxInv'
    <2>1. ASSUME NEW d \in Calls
          PROVE  /\ client'[d].pc = "idle" => inbox'[d] = <<>>
                 /\ \A i \in 1 .. Len(inbox'[d]) : Suits(d, inbox[d][i])'
      <3>1. CASE inbox'[d] = inbox[d]
        <4>1. client[d].pc = "idle" => inbox[d] = <<>>
          BY DEF InboxInv
        <4>2. \A i \in 1 .. Len(inbox[d]) : Suits(d, inbox[d][i])
          BY DEF InboxInv
        <4> QED
          BY <1>0, <3>1, <4>1, <4>2 DEF Suits
      <3>2. CASE d = c /\ inbox'[d] = Append(inbox[d], frame)
        <4>1. /\ inbox[d] \in Seq(FrameType) /\ Len(inbox[d]) \in Nat
              /\ Len(inbox'[d]) = Len(inbox[d]) + 1
              /\ \A i \in 1 .. Len(inbox[d]) : inbox'[d][i] = inbox[d][i]
              /\ inbox'[d][Len(inbox[d]) + 1] = frame
          BY <1>1, <3>2, AppendProperties, LenProperties DEF TypeOK
        <4>2. ASSUME NEW i \in 1 .. Len(inbox'[d])
              PROVE  Suits(d, inbox'[d][i])
          <5>1. i \in 1 .. Len(inbox[d]) \/ i = Len(inbox[d]) + 1
            BY <4>1, <4>2
          <5> QED
            BY <1>2, <3>2, <4>1, <5>1 DEF InboxInv
        <4> QED
          BY <1>0, <1>5, <3>2, <4>2 DEF Suits
      <3> QED
        BY <1>0, <3>1, <3>2 DEF TypeOK
    <2> QED
      BY <2>1 DEF InboxInv
  <1>10. GhInv' /\ HeardOwn'
    BY <1>0 DEF GhInv, HeardOwn
  <1> QED
    BY <1>4, <1>7, <1>8, <1>9, <1>10

(***************************************************************************)
(* The host.                                                               *)
(***************************************************************************)

(* HandleAgent sends an answer and returns, or leaves gh to run.           *)
LEMMA HandleCases ==
  ASSUME TypeOK, NEW c \in Calls, HandleAgent(c)
  PROVE  \/ /\ \E frames : Proper(c, frames) /\ Encode(c, frames)
            /\ Served(c) /\ UNCHANGED gh
         \/ /\ client[c].request = "execute"
            /\ gh' = [gh EXCEPT ![c].pc = "run"]
            /\ serving' = IF client[c].path = "bridge" THEN c ELSE serving
            /\ UNCHANGED <<closed, inbox, toBridge>>
  BY ProperAnswer DEF HandleAgent

(* gh starts or ends: one field of one execution.                          *)
LEMMA RunGh ==
  ASSUME gh \in [Calls -> GhType], NEW c \in Calls,
         NEW pc \in {"run", "ended"}, gh' = [gh EXCEPT ![c].pc = pc]
  PROVE  /\ gh' \in [Calls -> GhType]
         /\ gh'[c].pc = pc
         /\ \A d \in Calls \ {c} : gh'[d] = gh[d]
  BY DEF GhType

(* The host serves a socket of its own.                                    *)
LEMMA TakeConnectionKeeps ==
  ASSUME StreamInv, NEW c \in Calls, TakeConnection(c)
  PROVE  StreamInv'
  <1> USE DEF StreamInv, bridgeVars, history
  <1>0. /\ client[c].path = "socket" /\ client[c].pc \in {"sent", "left"}
        /\ HandleAgent(c) /\ UNCHANGED <<client, up, holder, passed, toHost, budget, written>>
    BY DEF TakeConnection
  <1>1. CASE /\ \E frames : Proper(c, frames) /\ Encode(c, frames)
             /\ Served(c) /\ UNCHANGED gh
    <2>1. serving' = serving /\ closed' = closed \cup {c}
      BY <1>0, <1>1 DEF Served
    <2>2. PICK frames : Proper(c, frames) /\ Encode(c, frames)
      BY <1>1
    <2>3. /\ inbox' \in [Calls -> Seq(FrameType)] /\ toBridge' \in Seq(FrameType)
          /\ InboxInv' /\ BridgeInv'
          /\ toBridge' # toBridge => client[c].path = "bridge" /\ up
      BY <1>0, <2>1, <2>2, EncodeKeeps
    <2>4. toBridge' = toBridge
      BY <1>0, <2>3
    <2>5. TypeOK'
      BY <1>0, <1>1, <2>1, <2>3 DEF TypeOK
    <2>6. TurnInv' /\ GhInv' /\ HeardOwn'
      BY <1>0, <1>1, <2>1, <2>4 DEF TurnInv, GhInv, HeardOwn
    <2> QED
      BY <2>3, <2>5, <2>6
  <1>2. CASE /\ client[c].request = "execute"
             /\ gh' = [gh EXCEPT ![c].pc = "run"]
             /\ serving' = IF client[c].path = "bridge" THEN c ELSE serving
             /\ UNCHANGED <<closed, inbox, toBridge>>
    <2>1. serving' = serving
      BY <1>0, <1>2
    <2>2. gh' \in [Calls -> GhType] /\ \A d \in Calls \ {c} : gh'[d] = gh[d]
      BY <1>2, RunGh DEF TypeOK
    <2>3. TypeOK'
      BY <1>0, <1>2, <2>1, <2>2 DEF TypeOK
    <2>4. GhInv'
      BY <1>0, <1>2, <2>1, <2>2 DEF GhInv
    <2>5. InboxInv' /\ TurnInv' /\ BridgeInv' /\ HeardOwn'
      BY <1>0, <1>2, <2>1 DEF InboxInv, TurnInv, BridgeInv, HeardOwn, Suits, EndsAnswer
    <2> QED
      BY <2>3, <2>4, <2>5
  <1> QED
    BY <1>0, <1>1, <1>2, HandleCases

(* It closes one without an answer.                                        *)
LEMMA DropKeeps ==
  ASSUME StreamInv, NEW c \in Calls, Drop(c)
  PROVE  StreamInv'
  <1> USE DEF StreamInv, Drop, bridgeVars, history
  <1>1. TypeOK'
    BY DEF TypeOK
  <1>2. InboxInv' /\ TurnInv' /\ BridgeInv' /\ GhInv' /\ HeardOwn'
    BY DEF InboxInv, TurnInv, BridgeInv, GhInv, HeardOwn, Suits, EndsAnswer
  <1> QED
    BY <1>1, <1>2

(* The host serves the request at the head of the pipe.                    *)
LEMMA TakeRequestKeeps ==
  ASSUME StreamInv, TakeRequest
  PROVE  StreamInv'
  <1> USE DEF StreamInv, history
  <1> DEFINE c == holder
  <1>0. /\ up /\ serving = NoCall /\ toHost # <<>>
        /\ \E n \in 1 .. Len(toHost) : toHost' = SubSeq(toHost, n + 1, Len(toHost))
        /\ HandleAgent(Head(toHost))
        /\ UNCHANGED <<client, up, holder, passed, budget, written>>
    BY DEF TakeRequest
  <1>1. toHost = <<c>> /\ toBridge = <<>>
    BY <1>0 DEF TurnInv
  <1>2. Head(toHost) = c /\ Len(toHost) = 1
    BY <1>1
  <1>3. toHost' = <<>>
    <2>1. toHost' = SubSeq(toHost, 2, 1)
      BY <1>0, <1>2
    <2> QED
      BY <2>1, SubSeqEmpty
  <1>4. holder # NoCall /\ passed
    BY <1>0 DEF TurnInv
  <1>5. c \in Calls /\ client[c].path = "bridge" /\ client[c].pc # "idle" /\ HandleAgent(c)
    BY <1>0, <1>2, <1>4 DEF TurnInv, TypeOK
  <1>6. \A d \in Calls : gh[d].pc \in {"run", "ended"} => client[d].path # "bridge"
    BY <1>0 DEF GhInv, Calls, NoCall
  <1>7. CASE /\ \E frames : Proper(c, frames) /\ Encode(c, frames)
             /\ Served(c) /\ UNCHANGED gh
    <2>1. serving' = NoCall /\ closed' = closed
      BY <1>5, <1>7 DEF Served
    <2>2. PICK frames : Proper(c, frames) /\ Encode(c, frames)
      BY <1>7
    <2>3. \A i \in 1 .. Len(toBridge) : ~EndsAnswer(c, toBridge[i])
      BY <1>1, EmptySeq
    <2>4. /\ inbox' \in [Calls -> Seq(FrameType)] /\ toBridge' \in Seq(FrameType)
          /\ InboxInv' /\ BridgeInv'
      BY <1>0, <1>5, <2>1, <2>2, <2>3, EncodeKeeps
    <2>5. TypeOK'
      BY <1>0, <1>3, <1>7, <2>1, <2>4, EmptySeq DEF TypeOK
    <2>6. TurnInv' /\ GhInv' /\ HeardOwn'
      BY <1>0, <1>3, <1>4, <1>5, <1>7, <2>1 DEF TurnInv, GhInv, HeardOwn
    <2> QED
      BY <2>4, <2>5, <2>6
  <1>8. CASE /\ client[c].request = "execute"
             /\ gh' = [gh EXCEPT ![c].pc = "run"]
             /\ serving' = IF client[c].path = "bridge" THEN c ELSE serving
             /\ UNCHANGED <<closed, inbox, toBridge>>
    <2>1. serving' = c
      BY <1>5, <1>8
    <2>2. gh' \in [Calls -> GhType] /\ \A d \in Calls \ {c} : gh'[d] = gh[d]
      BY <1>5, <1>8, RunGh DEF TypeOK
    <2>3. TypeOK'
      BY <1>0, <1>3, <1>5, <1>8, <2>1, <2>2, EmptySeq DEF TypeOK
    <2>4. GhInv'
      BY <1>0, <1>5, <1>6, <1>8, <2>1, <2>2 DEF GhInv
    <2>5. TurnInv'
      BY <1>0, <1>1, <1>3, <1>4, <1>5, <1>8, <2>1 DEF TurnInv
    <2>6. BridgeInv'
      BY <1>1, <1>8, EmptySeq DEF BridgeInv
    <2>7. InboxInv' /\ HeardOwn'
      BY <1>0, <1>8 DEF InboxInv, HeardOwn, Suits
    <2> QED
      BY <2>3, <2>4, <2>5, <2>6, <2>7
  <1> QED
    BY <1>5, <1>7, <1>8, HandleCases

(***************************************************************************)
(* The redaction of a sequence is well defined.  Induction is by the least *)
(* counterexample, since the length of what is left to redact decreases.   *)
(***************************************************************************)

(* The first symbol of a redaction, what is left after it, and one         *)
(* unfolding of the recursive definition of Redaction.                     *)
Symbol(b) == IF IsPrefix(Secret, b) THEN Redacted ELSE Head(b)
Rest(b) == IF IsPrefix(Secret, b) THEN SubSeq(b, Len(Secret) + 1, Len(b)) ELSE Tail(b)
RedactOnce(f, b) == IF b = <<>> THEN <<>> ELSE <<Symbol(b)>> \o f[Rest(b)]

(* The sequences of at most n bytes, and what solves the definition for    *)
(* these.                                                                  *)
Short(n) == {b \in Seq(Alphabet) : Len(b) <= n}
Solves(f, n) == f = [b \in Short(n) |-> RedactOnce(f, b)]

(* The token has at least one byte.                                        *)
LEMMA SecretLength ==
  Secret \in Seq(Alphabet) /\ Len(Secret) \in Nat /\ Len(Secret) >= 1
  BY StreamAssumption, EmptySeq, LenProperties

(* What is left to redact is shorter.                                      *)
LEMMA RestShorter ==
  ASSUME NEW b \in Seq(Alphabet), b # <<>>
  PROVE  /\ Rest(b) \in Seq(Alphabet)
         /\ Len(Rest(b)) \in Nat /\ Len(b) \in Nat
         /\ Len(Rest(b)) < Len(b)
         /\ Symbol(b) \in Alphabet \cup {Redacted}
  <1>1. Len(b) \in Nat /\ Len(b) >= 1
    BY LenProperties, EmptySeq
  <1>2. CASE IsPrefix(Secret, b)
    <2>1. Len(Secret) <= Len(b)
      BY <1>2 DEF IsPrefix
    <2>2. \A i \in Len(Secret) + 1 .. Len(b) : b[i] \in Alphabet
      BY <1>1, SecretLength, ElementOfSeq
    <2>3. /\ SubSeq(b, Len(Secret) + 1, Len(b)) \in Seq(Alphabet)
          /\ Len(SubSeq(b, Len(Secret) + 1, Len(b))) < Len(b)
          /\ Len(SubSeq(b, Len(Secret) + 1, Len(b))) \in Nat
      BY <1>1, <2>1, <2>2, SecretLength, SubSeqProperties
    <2> QED
      BY <1>1, <1>2, <2>3 DEF Rest, Symbol
  <1>3. CASE ~IsPrefix(Secret, b)
    <2>1. /\ Tail(b) \in Seq(Alphabet) /\ Len(Tail(b)) = Len(b) - 1 /\ Head(b) \in Alphabet
      BY HeadTailProperties
    <2> QED
      BY <1>1, <1>3, <2>1 DEF Rest, Symbol
  <1> QED
    BY <1>2, <1>3

(* There is one, and only one, for the sequences of at most n bytes.       *)
LEMMA SolutionExists ==
  ASSUME NEW n \in Nat
  PROVE  \E f : Solves(f, n)
  <1> DEFINE T == {k \in Nat : ~\E f : Solves(f, k)}
  <1>1. SUFFICES ASSUME T # {} PROVE FALSE
    OBVIOUS
  <1>2. PICK m \in T : \A k \in T : m <= k
    BY <1>1, SmallestIndex
  <1>3. m \in Nat /\ ~\E f : Solves(f, m)
    OBVIOUS
  <1>4. CASE m = 0
    <2> DEFINE f == [b \in Short(0) |-> <<>>]
    <2>1. \A b \in Short(0) : b = <<>>
      BY EmptySeq, LenProperties DEF Short
    <2>2. Solves(f, 0)
      BY <2>1 DEF Solves, RedactOnce
    <2> QED
      BY <1>3, <1>4, <2>2
  <1>5. CASE m # 0
    <2>1. m - 1 \in Nat /\ ~(m <= m - 1)
      BY <1>3, <1>5
    <2>2. m - 1 \notin T
      BY <1>2, <2>1
    <2>3. PICK f : Solves(f, m - 1)
      BY <2>1, <2>2
    <2> DEFINE g == [b \in Short(m) |-> RedactOnce(f, b)]
    <2>4. ASSUME NEW b \in Short(m), b # <<>>
          PROVE  Rest(b) \in Short(m - 1) /\ Rest(b) \in Short(m)
      BY <1>3, <2>4, RestShorter DEF Short
    <2>5. \A b \in Short(m - 1) : f[b] = RedactOnce(f, b)
      BY <2>3 DEF Solves
    <2>6. ASSUME NEW b \in Short(m)
          PROVE  RedactOnce(f, b) = RedactOnce(g, b)
      <3>1. CASE b = <<>>
        BY <3>1 DEF RedactOnce
      <3>2. CASE b # <<>>
        <4>1. g[Rest(b)] = RedactOnce(f, Rest(b))
          BY <2>4, <3>2
        <4>2. f[Rest(b)] = RedactOnce(f, Rest(b))
          BY <2>4, <2>5, <3>2
        <4>3. g[Rest(b)] = f[Rest(b)]
          BY <4>1, <4>2
        <4> HIDE DEF g
        <4> QED
          BY <4>3 DEF RedactOnce
      <3> QED
        BY <3>1, <3>2
    <2>7. g = [b \in Short(m) |-> RedactOnce(g, b)]
      <3> DEFINE h == g
      <3>1. \A b \in Short(m) : RedactOnce(f, b) = RedactOnce(h, b)
        BY <2>6
      <3> HIDE DEF h
      <3>2. [b \in Short(m) |-> RedactOnce(f, b)] = [b \in Short(m) |-> RedactOnce(h, b)]
        BY <3>1
      <3> QED
        BY <3>2 DEF h
    <2> HIDE DEF g
    <2>8. Solves(g, m)
      BY <2>7 DEF Solves
    <2> QED
      BY <1>3, <2>8
  <1> QED
    BY <1>4, <1>5

(* Solutions for two lengths agree where both are defined.                 *)
LEMMA SolutionsAgree ==
  ASSUME NEW n \in Nat, NEW k \in Nat, NEW f, NEW g, Solves(f, n), Solves(g, k),
         NEW a \in Short(n), a \in Short(k)
  PROVE  f[a] = g[a]
  <1> DEFINE Bad == {b \in Short(n) : b \in Short(k) /\ f[b] # g[b]}
             T == {Len(b) : b \in Bad}
  <1>1. SUFFICES ASSUME Bad # {} PROVE FALSE
    OBVIOUS
  <1>2. T \in SUBSET Nat /\ T # {}
    BY <1>1, LenProperties DEF Short
  <1>3. PICK l \in T : \A m \in T : l <= m
    BY <1>2, SmallestIndex
  <1>4. PICK b \in Bad : l = Len(b)
    OBVIOUS
  <1>5. f[b] = RedactOnce(f, b) /\ g[b] = RedactOnce(g, b) /\ f[b] # g[b]
    BY DEF Solves
  <1>6. b # <<>>
    BY <1>5 DEF RedactOnce
  <1>7. /\ Rest(b) \in Short(n) /\ Rest(b) \in Short(k)
        /\ Len(Rest(b)) \in Nat /\ Len(b) \in Nat /\ Len(Rest(b)) < Len(b)
    BY <1>6, RestShorter DEF Short
  <1>8. Rest(b) \notin Bad
    <2>1. ASSUME Rest(b) \in Bad PROVE FALSE
      <3>1. Len(Rest(b)) \in T
        BY <2>1
      <3> QED
        BY <1>3, <1>4, <1>7, <3>1
    <2> QED
      BY <2>1
  <1>9. f[Rest(b)] = g[Rest(b)]
    BY <1>7, <1>8
  <1> QED
    BY <1>5, <1>9 DEF RedactOnce

(* Hence the recursive definition of Redaction defines it.                 *)
LEMMA RedactionDef ==
  \A b \in Seq(Alphabet) : Redaction[b] = RedactOnce(Redaction, b)
  <1> DEFINE sol(n) == CHOOSE f : Solves(f, n)
             F == [b \in Seq(Alphabet) |-> sol(Len(b))[b]]
  <1>1. \A n \in Nat : Solves(sol(n), n)
    BY SolutionExists
  <1>2. ASSUME NEW b \in Seq(Alphabet)
        PROVE  Len(b) \in Nat /\ b \in Short(Len(b))
    BY LenProperties DEF Short
  <1>3. ASSUME NEW b \in Seq(Alphabet)
        PROVE  sol(Len(b))[b] = RedactOnce(sol(Len(b)), b)
    <2> DEFINE f == sol(Len(b))
    <2>1. Solves(f, Len(b)) /\ b \in Short(Len(b))
      BY <1>1, <1>2
    <2> HIDE DEF f
    <2>2. f[b] = RedactOnce(f, b)
      BY <2>1 DEF Solves
    <2> QED
      BY <2>2 DEF f
  <1> HIDE DEF sol
  <1>4. ASSUME NEW b \in Seq(Alphabet)
        PROVE  F[b] = RedactOnce(F, b)
    <2>1. F[b] = RedactOnce(sol(Len(b)), b)
      BY <1>3
    <2>2. CASE b = <<>>
      BY <2>1, <2>2 DEF RedactOnce
    <2>3. CASE b # <<>>
      <3>1. /\ Rest(b) \in Seq(Alphabet) /\ Len(Rest(b)) \in Nat /\ Len(b) \in Nat
            /\ Len(Rest(b)) < Len(b)
        BY <2>3, RestShorter
      <3>2. Rest(b) \in Short(Len(b)) /\ Rest(b) \in Short(Len(Rest(b)))
        BY <3>1 DEF Short
      <3>3. sol(Len(b))[Rest(b)] = sol(Len(Rest(b)))[Rest(b)]
        BY <1>1, <3>1, <3>2, SolutionsAgree
      <3>4. F[Rest(b)] = sol(Len(b))[Rest(b)]
        BY <3>1, <3>3
      <3> HIDE DEF F
      <3> QED
        BY <2>1, <2>3, <3>4 DEF RedactOnce
    <2> QED
      BY <2>2, <2>3
  <1>5. F = [b \in Seq(Alphabet) |-> F[b]]
    OBVIOUS
  <1> HIDE DEF F
  <1>6. F = [b \in Seq(Alphabet) |-> RedactOnce(F, b)]
    BY <1>4, <1>5
  <1>7. Redaction = CHOOSE r : r = [b \in Seq(Alphabet) |-> 
          IF b = <<>> THEN <<>>
          ELSE IF IsPrefix(Secret, b)
          THEN <<Redacted>> \o r[SubSeq(b, Len(Secret) + 1, Len(b))]
          ELSE <<Head(b)>> \o r[Tail(b)]]
    BY DEF Redaction
  <1>8. ASSUME NEW r, NEW b
        PROVE  RedactOnce(r, b) = 
                 IF b = <<>> THEN <<>>
                 ELSE IF IsPrefix(Secret, b)
                 THEN <<Redacted>> \o r[SubSeq(b, Len(Secret) + 1, Len(b))]
                 ELSE <<Head(b)>> \o r[Tail(b)]
    BY DEF RedactOnce, Symbol, Rest
  <1>9. F = [b \in Seq(Alphabet) |-> 
          IF b = <<>> THEN <<>>
          ELSE IF IsPrefix(Secret, b)
          THEN <<Redacted>> \o F[SubSeq(b, Len(Secret) + 1, Len(b))]
          ELSE <<Head(b)>> \o F[Tail(b)]]
    BY <1>6, <1>8
  <1>10. Redaction = [b \in Seq(Alphabet) |-> 
          IF b = <<>> THEN <<>>
          ELSE IF IsPrefix(Secret, b)
          THEN <<Redacted>> \o Redaction[SubSeq(b, Len(Secret) + 1, Len(b))]
          ELSE <<Head(b)>> \o Redaction[Tail(b)]]
    BY <1>7, <1>9, Zenon
  <1> QED
    BY <1>8, <1>10

(* Redacted output is output.                                              *)
LEMMA RedactionType ==
  ASSUME NEW a \in Seq(Alphabet)
  PROVE  Redaction[a] \in Output
  <1> DEFINE Bad == {b \in Seq(Alphabet) : Redaction[b] \notin Output}
             T == {Len(b) : b \in Bad}
  <1>1. SUFFICES ASSUME Bad # {} PROVE FALSE
    OBVIOUS
  <1>2. T \in SUBSET Nat /\ T # {}
    BY <1>1, LenProperties
  <1>3. PICK l \in T : \A m \in T : l <= m
    BY <1>2, SmallestIndex
  <1>4. PICK b \in Bad : l = Len(b)
    OBVIOUS
  <1>5. Redaction[b] = RedactOnce(Redaction, b) /\ Redaction[b] \notin Output
    BY RedactionDef
  <1>6. b # <<>>
    BY <1>5 DEF RedactOnce, Output
  <1>7. /\ Rest(b) \in Seq(Alphabet) /\ Symbol(b) \in Alphabet \cup {Redacted}
        /\ Len(Rest(b)) \in Nat /\ Len(b) \in Nat /\ Len(Rest(b)) < Len(b)
    BY <1>6, RestShorter
  <1>8. Redaction[Rest(b)] \in Output
    <2>1. ASSUME Rest(b) \in Bad PROVE FALSE
      <3>1. Len(Rest(b)) \in T
        BY <2>1
      <3> HIDE DEF T
      <3>2. l <= Len(Rest(b))
        BY <1>3, <3>1
      <3> QED
        BY <1>4, <1>7, <3>2
    <2> QED
      BY <1>7, <2>1
  <1>9. <<Symbol(b)>> \in Output
    BY <1>7 DEF Output
  <1>10. <<Symbol(b)>> \o Redaction[Rest(b)] \in Output
    BY <1>8, <1>9, ConcatProperties DEF Output
  <1> QED
    BY <1>5, <1>6, <1>10 DEF RedactOnce

(* The two ways in which a redaction begins.                               *)
LEMMA RedactionEmpty == Redaction[<<>>] = <<>>
  <1>1. <<>> \in Seq(Alphabet)
    OBVIOUS
  <1> QED
    BY <1>1, RedactionDef DEF RedactOnce

(* A byte at which no token begins passes.                                 *)
LEMMA RedactionHead ==
  ASSUME NEW b \in Seq(Alphabet), b # <<>>, ~IsPrefix(Secret, b)
  PROVE  Redaction[b] = <<Head(b)>> \o Redaction[Tail(b)]
  BY RedactionDef DEF RedactOnce, Symbol, Rest

(* A token is replaced as a whole.                                         *)
LEMMA RedactionToken ==
  ASSUME NEW b \in Seq(Alphabet), b # <<>>, IsPrefix(Secret, b)
  PROVE  Redaction[b] = <<Redacted>> \o Redaction[SubSeq(b, Len(Secret) + 1, Len(b))]
  BY RedactionDef DEF RedactOnce, Symbol, Rest

(* Bytes at which no token begins pass the redaction as they are.          *)
LEMMA RedactionClear ==
  ASSUME NEW p \in Seq(Alphabet), NEW n \in 0 .. Len(p),
         \A k \in 1 .. n : ~IsPrefix(Secret, SubSeq(p, k, Len(p)))
  PROVE  Redaction[p] = SubSeq(p, 1, n) \o Redaction[SubSeq(p, n + 1, Len(p))]
  <1> DEFINE Cut(k) == Redaction[p] = SubSeq(p, 1, k) \o Redaction[SubSeq(p, k + 1, Len(p))]
             T == {k \in 0 .. n : ~Cut(k)}
  <1>0. Len(p) \in Nat /\ n \in Nat
    BY LenProperties
  <1> SUFFICES ASSUME ~Cut(n) PROVE FALSE
    OBVIOUS
  <1> HIDE DEF Cut
  <1>1. n \in T
    BY <1>0
  <1>2. T \in SUBSET Nat
    BY <1>0
  <1>3. PICK m \in T : \A k \in T : m <= k
    BY <1>1, <1>2, SmallestIndex
  <1>4. m \in 0 .. n /\ ~Cut(m)
    OBVIOUS
  <1>5. CASE m = 0
    <2>1. SubSeq(p, 1, 0) = <<>> /\ SubSeq(p, 1, Len(p)) = p
      BY SubSeqEmpty, SubSeqFull
    <2>2. Redaction[p] \in Output
      BY RedactionType
    <2>3. SubSeq(p, 0 + 1, Len(p)) = p
      BY <2>1
    <2>4. <<>> \o Redaction[p] = Redaction[p]
      BY <2>2, ConcatEmptySeq DEF Output
    <2>5. Cut(0)
      BY <2>1, <2>3, <2>4 DEF Cut
    <2> QED
      BY <1>4, <1>5, <2>5
  <1>6. CASE m # 0
    <2>1. m - 1 \in 0 .. n /\ ~(m <= m - 1) /\ m \in 1 .. n /\ m \in 1 .. Len(p)
      BY <1>0, <1>4, <1>6
    <2>2. Cut(m - 1)
      BY <1>3, <2>1
    <2> DEFINE q == SubSeq(p, m, Len(p))
    <2>3. Redaction[p] = SubSeq(p, 1, m - 1) \o Redaction[q]
      <3>1. (m - 1) + 1 = m
        BY <2>1
      <3> QED
        BY <2>2, <3>1 DEF Cut
    <2>4. q \in Seq(Alphabet) /\ q # <<>>
      <3>1. \A i \in m .. Len(p) : p[i] \in Alphabet
        BY <1>0, <2>1, ElementOfSeq
      <3>2. q \in Seq(Alphabet) /\ Len(q) = Len(p) - m + 1
        BY <1>0, <2>1, <3>1, SubSeqProperties
      <3> HIDE DEF q
      <3>3. Len(q) # 0
        BY <1>0, <2>1, <3>2
      <3> QED
        BY <3>2, <3>3, EmptySeq
    <2>5. Head(q) = p[m] /\ Tail(q) = SubSeq(p, m + 1, Len(p))
      BY <1>0, <2>1, HeadTailOfSubSeq
    <2> HIDE DEF q
    <2>6. Redaction[q] = <<Head(q)>> \o Redaction[Tail(q)]
      BY <2>1, <2>4, RedactionHead DEF q
    <2>7. Redaction[p] = SubSeq(p, 1, m - 1) \o (<<p[m]>> \o Redaction[SubSeq(p, m + 1, Len(p))])
      BY <2>3, <2>5, <2>6
    <2>8. SubSeq(p, 1, m) = SubSeq(p, 1, m - 1) \o <<p[m]>>
      BY <1>0, <2>1, SubSeqRecursiveSecond
    <2> DEFINE r == Redaction[SubSeq(p, m + 1, Len(p))]
               u == SubSeq(p, 1, m - 1)
    <2>9. u \in Output /\ <<p[m]>> \in Output /\ r \in Output
      <3>1. \A i \in 1 .. m - 1 : p[i] \in Alphabet \cup {Redacted}
        BY <1>0, <2>1, ElementOfSeq
      <3>2. u \in Output
        BY <2>1, <3>1, SubSeqProperties DEF Output
      <3>3. p[m] \in Alphabet
        BY <2>1, ElementOfSeq
      <3>4. Tail(q) \in Seq(Alphabet)
        BY <2>4, HeadTailProperties
      <3>5. r \in Output
        BY <2>5, <3>4, RedactionType
      <3>6. <<p[m]>> \in Output
        BY <3>3 DEF Output
      <3> QED
        BY <3>2, <3>5, <3>6
    <2> HIDE DEF r, u
    <2>10. u \o (<<p[m]>> \o r) = (u \o <<p[m]>>) \o r
      BY <2>9, ConcatAssociative DEF Output
    <2> QED
      BY <1>4, <2>7, <2>8, <2>10 DEF u, r, Cut
  <1> QED
    BY <1>5, <1>6

(***************************************************************************)
(* The token in what a filter holds.                                       *)
(***************************************************************************)
At(p, k) == k + Len(Secret) - 1 <= Len(p) /\ \A i \in 1 .. Len(Secret) : p[k + i - 1] = Secret[i]

(* The token at a position, as a prefix of what is left.                   *)
LEMMA PrefixAt ==
  ASSUME NEW p \in Seq(Alphabet), NEW k \in 1 .. Len(p) + 1
  PROVE  IsPrefix(Secret, SubSeq(p, k, Len(p))) <=> At(p, k)
  <1> DEFINE q == SubSeq(p, k, Len(p))
             l == Len(Secret)
  <1>1. Len(p) \in Nat /\ l \in Nat /\ l >= 1 /\ k \in Nat /\ Secret \in Seq(Alphabet)
    BY LenProperties, SecretLength
  <1>2. \A i \in k .. Len(p) : p[i] \in Alphabet
    BY <1>1, ElementOfSeq
  <1>3. /\ q \in Seq(Alphabet) /\ Len(q) = Len(p) - k + 1
        /\ \A i \in 1 .. Len(p) - k + 1 : q[i] = p[k + i - 1]
    BY <1>1, <1>2, SubSeqProperties
  <1> HIDE DEF q
  <1>4. SubSeq(Secret, 1, l) = Secret
    BY <1>1, SubSeqFull
  <1>5. IsPrefix(Secret, q) <=> l <= Len(q) /\ Secret = SubSeq(q, 1, l)
    BY <1>4 DEF IsPrefix
  <1>6. CASE l <= Len(q)
    <2>1. \A i \in 1 .. l : q[i] \in Alphabet
      BY <1>1, <1>3, <1>6, ElementOfSeq
    <2>2. /\ SubSeq(q, 1, l) \in Seq(Alphabet) /\ Len(SubSeq(q, 1, l)) = l
          /\ \A i \in 1 .. l : SubSeq(q, 1, l)[i] = q[i]
      BY <1>1, <2>1, SubSeqProperties
    <2>3. (\A i \in 1 .. l : Secret[i] = q[i]) => Secret = SubSeq(q, 1, l)
      BY <1>1, <2>2, SeqEqual
    <2>4. Secret = SubSeq(q, 1, l) => \A i \in 1 .. l : Secret[i] = q[i]
      BY <2>2
    <2>5. \A i \in 1 .. l : q[i] = p[k + i - 1]
      BY <1>1, <1>3, <1>6
    <2>6. k + l - 1 <= Len(p)
      BY <1>1, <1>3, <1>6
    <2> QED
      BY <1>5, <1>6, <2>3, <2>4, <2>5, <2>6 DEF q, At
  <1>7. CASE ~(l <= Len(q))
    <2>1. ~(k + l - 1 <= Len(p))
      BY <1>1, <1>3, <1>7
    <2> QED
      BY <1>5, <1>7, <2>1 DEF q, At
  <1> QED
    BY <1>6, <1>7

(* The token at a position, as IndexOf compares it.                        *)
LEMMA MatchAt ==
  ASSUME NEW p \in Seq(Alphabet), NEW k \in 1 .. Len(p) - Len(Secret) + 1
  PROVE  SubSeq(p, k, k + Len(Secret) - 1) = Secret <=> At(p, k)
  <1> DEFINE l == Len(Secret)
             q == SubSeq(p, k, k + l - 1)
  <1>1. Len(p) \in Nat /\ l \in Nat /\ l >= 1 /\ k \in Nat /\ k >= 1 /\ Secret \in Seq(Alphabet)
        /\ k + l - 1 <= Len(p)
    BY LenProperties, SecretLength
  <1>2. \A i \in k .. k + l - 1 : p[i] \in Alphabet
    BY <1>1, ElementOfSeq
  <1>3. /\ q \in Seq(Alphabet) /\ Len(q) = l
        /\ \A i \in 1 .. (k + l - 1) - k + 1 : q[i] = p[k + i - 1]
    BY <1>1, <1>2, SubSeqProperties
  <1>4. \A i \in 1 .. l : q[i] = p[k + i - 1]
    BY <1>1, <1>3
  <1> HIDE DEF q
  <1>5. (\A i \in 1 .. l : q[i] = Secret[i]) => q = Secret
    BY <1>1, <1>3, SeqEqual
  <1> QED
    BY <1>1, <1>4, <1>5 DEF q, At

(* IndexOf finds the first occurrence, or there is none.                   *)
LEMMA IndexOfFinds ==
  ASSUME NEW p \in Seq(Alphabet), Len(p) >= Len(Secret)
  PROVE  /\ IndexOf(p) \in 0 .. Len(p) - Len(Secret) + 1
         /\ IndexOf(p) = 0 => \A k \in 1 .. Len(p) - Len(Secret) + 1 : ~At(p, k)
         /\ IndexOf(p) # 0 => /\ At(p, IndexOf(p))
                              /\ \A k \in 1 .. IndexOf(p) - 1 : ~At(p, k)
  <1> DEFINE n == Len(p) - Len(Secret) + 1
             found == {i \in 1 .. n : SubSeq(p, i, i + Len(Secret) - 1) = Secret}
  <1>1. Len(p) \in Nat /\ Len(Secret) \in Nat /\ n \in Nat
    BY LenProperties, SecretLength
  <1>2. \A k \in 1 .. n : k \in found <=> At(p, k)
    BY MatchAt
  <1>3. IndexOf(p) = IF found = {} THEN 0 ELSE CHOOSE i \in found : \A j \in found : i <= j
    BY DEF IndexOf
  <1>4. found \subseteq 1 .. n
    OBVIOUS
  <1> HIDE DEF found, n
  <1>5. CASE found = {}
    BY <1>1, <1>2, <1>3, <1>5 DEF n
  <1>6. CASE found # {}
    <2> DEFINE m == CHOOSE i \in found : \A j \in found : i <= j
    <2>1. \E i \in found : \A j \in found : i <= j
      BY <1>1, <1>4, <1>6, SmallestIndex
    <2>2. m \in found /\ \A j \in found : m <= j
      BY <2>1
    <2> HIDE DEF m
    <2>3. IndexOf(p) = m
      BY <1>3, <1>6 DEF m
    <2>4. m \in 1 .. n
      BY <1>4, <2>2
    <2>5. At(p, m)
      BY <1>2, <2>2, <2>4
    <2>6. ASSUME NEW k \in 1 .. m - 1 PROVE ~At(p, k)
      <3>1. k \in 1 .. n /\ ~(m <= k)
        BY <1>1, <2>4, <2>6
      <3> QED
        BY <1>2, <2>2, <3>1
    <2> QED
      BY <1>1, <2>3, <2>4, <2>5, <2>6 DEF n
  <1> QED
    BY <1>5, <1>6

(* Cutting what is followed by later bytes.                                *)
LEMMA ConcatCut ==
  ASSUME NEW p \in Seq(Alphabet), NEW z \in Seq(Alphabet), NEW n \in 0 .. Len(p)
  PROVE  /\ p \o z \in Seq(Alphabet) /\ Len(p \o z) = Len(p) + Len(z)
         /\ SubSeq(p \o z, 1, n) = SubSeq(p, 1, n)
         /\ SubSeq(p \o z, n + 1, Len(p \o z)) = SubSeq(p, n + 1, Len(p)) \o z
         /\ SubSeq(p, n + 1, Len(p)) \in Seq(Alphabet)
         /\ Len(SubSeq(p, n + 1, Len(p))) = Len(p) - n
         /\ SubSeq(p, 1, n) \in Seq(Alphabet)
  <1> DEFINE w == p \o z
             a == SubSeq(w, 1, n)
             b == SubSeq(p, 1, n)
             c == SubSeq(w, n + 1, Len(w))
             d == SubSeq(p, n + 1, Len(p))
             e == d \o z
  <1>1. /\ w \in Seq(Alphabet) /\ Len(w) = Len(p) + Len(z) /\ Len(p) \in Nat /\ Len(z) \in Nat
        /\ \A i \in 1 .. Len(p) + Len(z) : w[i] = IF i <= Len(p) THEN p[i] ELSE z[i - Len(p)]
    BY ConcatProperties, LenProperties
  <1>2. \A i \in 1 .. Len(p) + Len(z) : w[i] \in Alphabet
    BY <1>1, ElementOfSeq
  <1>3. \A i \in 1 .. Len(p) : p[i] \in Alphabet
    BY ElementOfSeq
  <1> HIDE DEF w
  <1>4. /\ a \in Seq(Alphabet) /\ Len(a) = n /\ \A i \in 1 .. n : a[i] = w[i]
    <2>1. \A i \in 1 .. n : w[i] \in Alphabet
      BY <1>1, <1>2
    <2> QED
      BY <1>1, <2>1, SubSeqProperties
  <1>5. /\ b \in Seq(Alphabet) /\ Len(b) = n /\ \A i \in 1 .. n : b[i] = p[i]
    <2>1. \A i \in 1 .. n : p[i] \in Alphabet
      BY <1>1, <1>3
    <2> QED
      BY <1>1, <2>1, SubSeqProperties
  <1>6. a = b
    <2>1. \A i \in 1 .. n : a[i] = b[i]
      BY <1>1, <1>4, <1>5
    <2> HIDE DEF a, b
    <2> QED
      BY <1>4, <1>5, <2>1, SeqEqual
  <1>7. /\ c \in Seq(Alphabet) /\ Len(c) = Len(w) - n
        /\ \A i \in 1 .. Len(w) - n : c[i] = w[n + i]
    <2>1. \A i \in n + 1 .. Len(w) : w[i] \in Alphabet
      BY <1>1, <1>2
    <2>2. /\ c \in Seq(Alphabet)
          /\ Len(c) = IF n + 1 <= Len(w) THEN Len(w) - (n + 1) + 1 ELSE 0
          /\ \A i \in 1 .. Len(w) - (n + 1) + 1 : c[i] = w[n + 1 + i - 1]
      BY <1>1, <2>1, SubSeqProperties
    <2> HIDE DEF c
    <2> QED
      BY <1>1, <2>2
  <1>8. /\ d \in Seq(Alphabet) /\ Len(d) = Len(p) - n
        /\ \A i \in 1 .. Len(p) - n : d[i] = p[n + i]
    <2>1. \A i \in n + 1 .. Len(p) : p[i] \in Alphabet
      BY <1>1, <1>3
    <2>2. /\ d \in Seq(Alphabet)
          /\ Len(d) = IF n + 1 <= Len(p) THEN Len(p) - (n + 1) + 1 ELSE 0
          /\ \A i \in 1 .. Len(p) - (n + 1) + 1 : d[i] = p[n + 1 + i - 1]
      BY <1>1, <2>1, SubSeqProperties
    <2> HIDE DEF d
    <2> QED
      BY <1>1, <2>2
  <1> HIDE DEF c, d
  <1>9. /\ e \in Seq(Alphabet) /\ Len(e) = Len(d) + Len(z)
        /\ \A i \in 1 .. Len(d) + Len(z) : e[i] = IF i <= Len(d) THEN d[i] ELSE z[i - Len(d)]
    BY <1>8, ConcatProperties
  <1> HIDE DEF e
  <1>10. c = e
    <2>1. Len(c) = Len(e)
      BY <1>1, <1>7, <1>8, <1>9
    <2>2. ASSUME NEW i \in 1 .. Len(c) PROVE c[i] = e[i]
      <3>0. i \in 1 .. Len(w) - n /\ i \in 1 .. Len(d) + Len(z) /\ n + i \in 1 .. Len(p) + Len(z)
        BY <1>1, <1>7, <1>8, <2>2
      <3>1. c[i] = w[n + i] /\ w[n + i] = IF n + i <= Len(p) THEN p[n + i] ELSE z[n + i - Len(p)]
        BY <1>1, <1>7, <3>0
      <3>2. CASE n + i <= Len(p)
        <4>1. i <= Len(d) /\ i \in 1 .. Len(p) - n
          BY <1>1, <1>8, <3>0, <3>2
        <4> QED
          BY <1>8, <1>9, <3>0, <3>1, <3>2, <4>1
      <3>3. CASE ~(n + i <= Len(p))
        <4>1. ~(i <= Len(d)) /\ i - Len(d) = n + i - Len(p)
          BY <1>1, <1>8, <3>0, <3>3
        <4> QED
          BY <1>9, <3>0, <3>1, <3>3, <4>1
      <3> QED
        BY <3>2, <3>3
    <2> QED
      BY <1>7, <1>9, <2>1, <2>2, SeqEqual
  <1> QED
    BY <1>1, <1>5, <1>6, <1>8, <1>10 DEF w, c, d, e

(* Cutting twice is cutting once.                                          *)
LEMMA CutOfCut ==
  ASSUME NEW w \in Seq(Alphabet), NEW m \in 1 .. Len(w) + 1, NEW k \in 0 .. Len(w) - m + 1,
         NEW v, v = SubSeq(w, m, Len(w))
  PROVE  /\ v \in Seq(Alphabet) /\ Len(v) = Len(w) - m + 1
         /\ SubSeq(v, k + 1, Len(v)) = SubSeq(w, m + k, Len(w))
  <1> DEFINE a == SubSeq(v, k + 1, Len(v))
             b == SubSeq(w, m + k, Len(w))
  <1>1. Len(w) \in Nat /\ m \in Nat /\ k \in Nat /\ m >= 1 /\ m + k <= Len(w) + 1
    BY LenProperties
  <1>2. \A i \in 1 .. Len(w) : w[i] \in Alphabet
    BY ElementOfSeq
  <1>3. /\ v \in Seq(Alphabet) /\ Len(v) = Len(w) - m + 1
        /\ \A i \in 1 .. Len(w) - m + 1 : v[i] = w[m + i - 1]
    <2>1. \A i \in m .. Len(w) : w[i] \in Alphabet
      BY <1>1, <1>2
    <2> QED
      BY <1>1, <2>1, SubSeqProperties
  <1>4. /\ b \in Seq(Alphabet) /\ Len(b) = Len(w) - m - k + 1
        /\ \A i \in 1 .. Len(w) - m - k + 1 : b[i] = w[m + k + i - 1]
    <2>1. \A i \in m + k .. Len(w) : w[i] \in Alphabet
      BY <1>1, <1>2
    <2>2. /\ b \in Seq(Alphabet)
          /\ Len(b) = IF m + k <= Len(w) THEN Len(w) - (m + k) + 1 ELSE 0
          /\ \A i \in 1 .. Len(w) - (m + k) + 1 : b[i] = w[m + k + i - 1]
      BY <1>1, <2>1, SubSeqProperties
    <2> HIDE DEF b
    <2>3. Len(w) - (m + k) + 1 = Len(w) - m - k + 1
      BY <1>1
    <2>4. (IF m + k <= Len(w) THEN Len(w) - (m + k) + 1 ELSE 0) = Len(w) - (m + k) + 1
      BY <1>1
    <2> QED
      BY <2>2, <2>3, <2>4
  <1>5. /\ a \in Seq(Alphabet) /\ Len(a) = Len(w) - m - k + 1
        /\ \A i \in 1 .. Len(w) - m - k + 1 : a[i] = v[k + i]
    <2>1. \A i \in k + 1 .. Len(v) : v[i] \in Alphabet
      BY <1>1, <1>3, ElementOfSeq
    <2>2. /\ a \in Seq(Alphabet)
          /\ Len(a) = IF k + 1 <= Len(v) THEN Len(v) - (k + 1) + 1 ELSE 0
          /\ \A i \in 1 .. Len(v) - (k + 1) + 1 : a[i] = v[k + 1 + i - 1]
      BY <1>1, <1>3, <2>1, SubSeqProperties
    <2> HIDE DEF a
    <2>3. /\ Len(v) - (k + 1) + 1 = Len(w) - m - k + 1
          /\ \A i \in 1 .. Len(v) - (k + 1) + 1 : k + 1 + i - 1 = k + i
      BY <1>1, <1>3
    <2>4. (IF k + 1 <= Len(v) THEN Len(v) - (k + 1) + 1 ELSE 0) = Len(v) - (k + 1) + 1
      BY <1>1, <1>3
    <2> QED
      BY <2>2, <2>3, <2>4
  <1> HIDE DEF a, b
  <1>6. ASSUME NEW i \in 1 .. Len(w) - m - k + 1 PROVE a[i] = b[i]
    <2>1. k + i \in 1 .. Len(w) - m + 1 /\ m + (k + i) - 1 = m + k + i - 1
      BY <1>1, <1>6
    <2> QED
      BY <1>3, <1>4, <1>5, <2>1
  <1>7. a = b
    BY <1>4, <1>5, <1>6, SeqEqual
  <1> QED
    BY <1>3, <1>7 DEF a, b

(* What secretFilter.Write lets through: bytes at which no token begins,   *)
(* whatever gh writes next.                                                *)
LEMMA FilterClear ==
  ASSUME NEW p \in Seq(Alphabet), NEW z \in Seq(Alphabet), NEW n \in 0 .. Len(p),
         \A k \in 1 .. n : k + Len(Secret) - 1 <= Len(p) /\ ~At(p, k)
  PROVE  Redaction[p \o z] = SubSeq(p, 1, n) \o Redaction[SubSeq(p, n + 1, Len(p)) \o z]
  <1> DEFINE w == p \o z
  <1>1. /\ w \in Seq(Alphabet) /\ Len(w) = Len(p) + Len(z)
        /\ SubSeq(w, 1, n) = SubSeq(p, 1, n)
        /\ SubSeq(w, n + 1, Len(w)) = SubSeq(p, n + 1, Len(p)) \o z
    BY ConcatCut
  <1>2. Len(p) \in Nat /\ Len(z) \in Nat /\ Len(Secret) \in Nat /\ Len(Secret) >= 1
    BY LenProperties, SecretLength
  <1>3. \A i \in 1 .. Len(p) + Len(z) : w[i] = IF i <= Len(p) THEN p[i] ELSE z[i - Len(p)]
    BY ConcatProperties
  <1> HIDE DEF w
  <1>4. ASSUME NEW k \in 1 .. n
        PROVE  ~IsPrefix(Secret, SubSeq(w, k, Len(w)))
    <2>1. k + Len(Secret) - 1 <= Len(p) /\ ~At(p, k) /\ k \in 1 .. Len(w) + 1 /\ k \in Nat /\ k >= 1
      BY <1>1, <1>2
    <2>2. PICK i \in 1 .. Len(Secret) : p[k + i - 1] # Secret[i]
      BY <2>1 DEF At
    <2>3. k + i - 1 \in 1 .. Len(p) + Len(z) /\ k + i - 1 <= Len(p)
      BY <1>2, <2>1, <2>2
    <2>4. w[k + i - 1] = p[k + i - 1]
      BY <1>3, <2>3
    <2>5. ~At(w, k)
      BY <2>2, <2>4 DEF At
    <2> QED
      BY <1>1, <2>1, <2>5, PrefixAt
  <1>5. n \in 0 .. Len(w)
    BY <1>1, <1>2
  <1>6. Redaction[w] = SubSeq(w, 1, n) \o Redaction[SubSeq(w, n + 1, Len(w))]
    BY <1>1, <1>4, <1>5, RedactionClear
  <1> QED
    BY <1>1, <1>6 DEF w

(* What it replaces: a token it has found.                                 *)
LEMMA FilterToken ==
  ASSUME NEW p \in Seq(Alphabet), NEW z \in Seq(Alphabet), NEW m \in 1 .. Len(p), At(p, m)
  PROVE  Redaction[SubSeq(p, m, Len(p)) \o z]
           = <<Redacted>> \o Redaction[SubSeq(p, m + Len(Secret), Len(p)) \o z]
  <1> DEFINE w == p \o z
             l == Len(Secret)
             v == SubSeq(w, m, Len(w))
  <1>1. Len(p) \in Nat /\ Len(z) \in Nat /\ l \in Nat /\ l >= 1 /\ m \in Nat /\ m >= 1
        /\ m + l - 1 <= Len(p)
    BY LenProperties, SecretLength DEF At
  <1>2. m - 1 \in 0 .. Len(p) /\ m + l - 1 \in 0 .. Len(p)
        /\ (m - 1) + 1 = m /\ (m + l - 1) + 1 = m + l
    BY <1>1
  <1>3. /\ w \in Seq(Alphabet) /\ Len(w) = Len(p) + Len(z)
        /\ SubSeq(w, (m - 1) + 1, Len(w)) = SubSeq(p, (m - 1) + 1, Len(p)) \o z
    BY <1>2, ConcatCut
  <1>4. SubSeq(w, (m + l - 1) + 1, Len(w)) = SubSeq(p, (m + l - 1) + 1, Len(p)) \o z
    BY <1>2, ConcatCut
  <1>5. \A i \in 1 .. Len(p) + Len(z) : w[i] = IF i <= Len(p) THEN p[i] ELSE z[i - Len(p)]
    BY ConcatProperties
  <1> HIDE DEF w
  <1>6. At(w, m)
    <2>1. m + l - 1 <= Len(w)
      BY <1>1, <1>3
    <2>2. ASSUME NEW i \in 1 .. l PROVE w[m + i - 1] = Secret[i]
      <3>1. m + i - 1 \in 1 .. Len(p) + Len(z) /\ m + i - 1 <= Len(p)
        BY <1>1, <2>2
      <3> QED
        BY <1>5, <3>1 DEF At
    <2> QED
      BY <2>1, <2>2 DEF At
  <1>7. m \in 1 .. Len(w) + 1 /\ l \in 0 .. Len(w) - m + 1
    BY <1>1, <1>3
  <1>8. IsPrefix(Secret, v)
    BY <1>3, <1>6, <1>7, PrefixAt
  <1>9. /\ v \in Seq(Alphabet) /\ Len(v) = Len(w) - m + 1
        /\ SubSeq(v, l + 1, Len(v)) = SubSeq(w, m + l, Len(w))
    BY <1>3, <1>7, CutOfCut
  <1> HIDE DEF v
  <1>10. v # <<>>
    <2>1. Len(v) # 0
      BY <1>1, <1>3, <1>9
    <2> QED
      BY <1>9, <2>1, EmptySeq
  <1>11. Redaction[v] = <<Redacted>> \o Redaction[SubSeq(v, l + 1, Len(v))]
    BY <1>8, <1>9, <1>10, RedactionToken
  <1>12. v = SubSeq(p, m, Len(p)) \o z
    BY <1>2, <1>3 DEF v
  <1>13. SubSeq(w, m + l, Len(w)) = SubSeq(p, m + l, Len(p)) \o z
    BY <1>2, <1>4
  <1> QED
    BY <1>9, <1>11, <1>12, <1>13

(* What secretFilter.Flush sends: too short to hold the token.             *)
LEMMA FlushClear ==
  ASSUME NEW p \in Seq(Alphabet), Len(p) < Len(Secret)
  PROVE  Redaction[p] = p
  <1>1. Len(p) \in Nat /\ Len(Secret) \in Nat
    BY LenProperties, SecretLength
  <1>2. ASSUME NEW k \in 1 .. Len(p)
        PROVE  ~IsPrefix(Secret, SubSeq(p, k, Len(p)))
    <2>1. k \in 1 .. Len(p) + 1 /\ ~(k + Len(Secret) - 1 <= Len(p))
      BY <1>1
    <2> QED
      BY <2>1, PrefixAt DEF At
  <1>3. Len(p) \in 0 .. Len(p)
    BY <1>1
  <1>4. Redaction[p] = SubSeq(p, 1, Len(p)) \o Redaction[SubSeq(p, Len(p) + 1, Len(p))]
    BY <1>2, <1>3, RedactionClear
  <1>5. SubSeq(p, 1, Len(p)) = p /\ SubSeq(p, Len(p) + 1, Len(p)) = <<>>
    BY <1>1, SubSeqFull, SubSeqEmpty
  <1> QED
    BY <1>4, <1>5, RedactionEmpty, ConcatEmptySeq

(***************************************************************************)
(* What a sequence of frames adds to a stream of output.                   *)
(***************************************************************************)

(* What one frame adds to a stream.                                        *)
Piece(s, frame) == IF frame.kind = "data" /\ frame.stream = s THEN frame.data ELSE <<>>

(* The stream after each of the frames.                                    *)
Adds(s, frames, acc) ==
  /\ acc \in [0 .. Len(frames) -> Output]
  /\ \A i \in 1 .. Len(frames) : acc[i] = acc[i - 1] \o Piece(s, frames[i])

(* The frames take the stream from x to y.                                 *)
Carries(s, x, frames, y) ==
  \E acc : Adds(s, frames, acc) /\ acc[0] = x /\ acc[Len(frames)] = y

(* A frame adds output, or nothing.                                        *)
LEMMA PieceType ==
  ASSUME NEW s, NEW frame \in FrameType
  PROVE  Piece(s, frame) \in Output
  BY DEF Piece, FrameType, Output

LEMMA CarriesType ==
  ASSUME NEW s, NEW f \in Seq(FrameType), NEW x, NEW y, Carries(s, x, f, y)
  PROVE  x \in Output /\ y \in Output
  <1>1. PICK acc : Adds(s, f, acc) /\ acc[0] = x /\ acc[Len(f)] = y
    BY DEF Carries
  <1>2. Len(f) \in Nat
    BY LenProperties
  <1> QED
    BY <1>1, <1>2 DEF Adds

(* No frames add nothing.                                                  *)
LEMMA CarriesNothing ==
  ASSUME NEW s, NEW x \in Output, NEW y
  PROVE  Carries(s, x, <<>>, y) <=> x = y
  <1>1. Len(<<>>) = 0
    BY EmptySeq
  <1>2. Carries(s, x, <<>>, y) => x = y
    BY <1>1 DEF Carries
  <1>3. Carries(s, x, <<>>, x)
    <2> DEFINE acc == [i \in 0 .. 0 |-> x]
    <2>1. Adds(s, <<>>, acc) /\ acc[0] = x
      BY <1>1 DEF Adds
    <2> HIDE DEF acc
    <2> QED
      BY <1>1, <2>1 DEF Carries
  <1> QED
    BY <1>2, <1>3

(* One frame adds its piece.                                               *)
LEMMA CarriesOne ==
  ASSUME NEW s, NEW x \in Output, NEW frame \in FrameType
  PROVE  Carries(s, x, <<frame>>, x \o Piece(s, frame))
  <1> DEFINE f == <<frame>>
             y == x \o Piece(s, frame)
             acc == [i \in 0 .. 1 |-> IF i = 0 THEN x ELSE y]
  <1>1. Len(f) = 1 /\ f[1] = frame
    OBVIOUS
  <1>2. y \in Output
    BY PieceType, ConcatProperties DEF Output
  <1> HIDE DEF f
  <1>3. acc \in [0 .. 1 -> Output] /\ acc[0] = x /\ acc[1] = acc[1 - 1] \o Piece(s, frame) /\ acc[1] = y
    BY <1>2
  <1> HIDE DEF acc
  <1>4. Adds(s, f, acc)
    <2>1. \A i \in 1 .. 1 : i = 1
      OBVIOUS
    <2> QED
      BY <1>1, <1>3, <2>1 DEF Adds
  <1>5. Carries(s, x, f, y)
    BY <1>1, <1>3, <1>4 DEF Carries
  <1> QED
    BY <1>5 DEF f

(* One sequence of frames after the other.                                 *)
LEMMA CarriesJoin ==
  ASSUME NEW s, NEW f \in Seq(FrameType), NEW g \in Seq(FrameType), NEW x, NEW y, NEW z,
         Carries(s, x, f, y), Carries(s, y, g, z)
  PROVE  Carries(s, x, f \o g, z)
  <1> DEFINE h == f \o g
             m == Len(f)
             n == Len(g)
  <1>1. PICK a : Adds(s, f, a) /\ a[0] = x /\ a[m] = y
    BY DEF Carries
  <1>2. PICK b : Adds(s, g, b) /\ b[0] = y /\ b[n] = z
    BY DEF Carries
  <1>3. /\ h \in Seq(FrameType) /\ Len(h) = m + n /\ m \in Nat /\ n \in Nat
        /\ \A i \in 1 .. m + n : h[i] = IF i <= m THEN f[i] ELSE g[i - m]
    BY ConcatProperties, LenProperties
  <1> DEFINE acc == [i \in 0 .. m + n |-> IF i <= m THEN a[i] ELSE b[i - m]]
  <1> HIDE DEF h, m, n
  <1>4. acc \in [0 .. m + n -> Output]
    <2>1. \A i \in 0 .. m : a[i] \in Output
      BY <1>1 DEF Adds, m
    <2>2. \A i \in 0 .. n : b[i] \in Output
      BY <1>2 DEF Adds, n
    <2>3. \A i \in 0 .. m + n : i \in 0 .. m \/ (~(i <= m) /\ i - m \in 0 .. n)
      BY <1>3
    <2> QED
      BY <1>3, <2>1, <2>2, <2>3
  <1>5. acc[0] = x /\ acc[m + n] = z
    <2>1. acc[0] = a[0]
      BY <1>3
    <2>2. CASE n = 0
      BY <1>1, <1>2, <1>3, <2>1, <2>2
    <2>3. CASE n # 0
      <3>1. acc[m + n] = b[m + n - m]
        BY <1>3, <2>3
      <3>2. m + n - m = n
        BY <1>3
      <3> QED
        BY <1>1, <1>2, <2>1, <3>1, <3>2
    <2> QED
      BY <2>2, <2>3
  <1>6. ASSUME NEW i \in 1 .. m + n
        PROVE  acc[i] = acc[i - 1] \o Piece(s, h[i])
    <2>1. i \in 0 .. m + n /\ i - 1 \in 0 .. m + n /\ i \in Int
      BY <1>3
    <2>2. CASE i <= m
      <3>1. i \in 1 .. m /\ i - 1 <= m
        BY <1>3, <2>2
      <3>2. a[i] = a[i - 1] \o Piece(s, f[i])
        BY <1>1, <3>1 DEF Adds, m
      <3>3. acc[i] = a[i] /\ acc[i - 1] = a[i - 1] /\ h[i] = f[i]
        BY <1>3, <2>1, <2>2, <3>1
      <3> QED
        BY <3>2, <3>3
    <2>3. CASE ~(i <= m)
      <3>1. i - m \in 1 .. n /\ (i - m) - 1 = i - 1 - m
        BY <1>3, <2>1, <2>3
      <3>2. b[i - m] = b[(i - m) - 1] \o Piece(s, g[i - m])
        BY <1>2, <3>1 DEF Adds, n
      <3>3. acc[i] = b[i - m] /\ h[i] = g[i - m]
        BY <1>3, <2>1, <2>3
      <3>4. acc[i - 1] = b[i - 1 - m]
        <4>1. CASE i - 1 <= m
          <5>1. i - 1 = m /\ i - 1 - m = 0
            BY <1>3, <2>1, <2>3, <4>1
          <5>2. acc[i - 1] = a[m]
            BY <2>1, <4>1, <5>1
          <5> QED
            BY <1>1, <1>2, <5>1, <5>2
        <4>2. CASE ~(i - 1 <= m)
          BY <2>1, <4>2
        <4> QED
          BY <4>1, <4>2
      <3> QED
        BY <3>1, <3>2, <3>3, <3>4
    <2> QED
      BY <2>2, <2>3
  <1> HIDE DEF acc
  <1>7. Adds(s, h, acc)
    BY <1>3, <1>4, <1>6 DEF Adds
  <1>8. Carries(s, x, h, z)
    BY <1>3, <1>5, <1>7 DEF Carries
  <1> QED
    BY <1>8 DEF h

(* The first frame, and the others.                                        *)
LEMMA CarriesHead ==
  ASSUME NEW s, NEW f \in Seq(FrameType), f # <<>>, NEW x, NEW z, Carries(s, x, f, z)
  PROVE  Carries(s, x \o Piece(s, Head(f)), Tail(f), z)
  <1> DEFINE g == Tail(f)
             n == Len(f)
  <1>1. PICK a : Adds(s, f, a) /\ a[0] = x /\ a[n] = z
    BY DEF Carries
  <1>2. /\ g \in Seq(FrameType) /\ Len(g) = n - 1 /\ n \in Nat /\ n >= 1 /\ Head(f) = f[1]
        /\ \A i \in 1 .. n - 1 : g[i] = f[i + 1]
    BY HeadTailProperties, LenProperties, EmptySeq
  <1> DEFINE acc == [i \in 0 .. n - 1 |-> a[i + 1]]
  <1> HIDE DEF g, n
  <1>3. acc \in [0 .. n - 1 -> Output]
    <2>1. \A i \in 0 .. n : a[i] \in Output
      BY <1>1 DEF Adds, n
    <2>2. \A i \in 0 .. n - 1 : i + 1 \in 0 .. n
      BY <1>2
    <2> QED
      BY <2>1, <2>2
  <1>4. acc[0] = x \o Piece(s, Head(f)) /\ acc[n - 1] = z
    <2>1. 0 \in 0 .. n - 1 /\ n - 1 \in 0 .. n - 1 /\ n - 1 + 1 = n /\ 0 + 1 = 1 /\ 1 - 1 = 0 /\ 1 \in 1 .. n
      BY <1>2
    <2>2. a[1] = a[1 - 1] \o Piece(s, f[1])
      BY <1>1, <2>1 DEF Adds, n
    <2> QED
      BY <1>1, <1>2, <2>1, <2>2
  <1>5. ASSUME NEW i \in 1 .. n - 1
        PROVE  acc[i] = acc[i - 1] \o Piece(s, g[i])
    <2>1. i \in 0 .. n - 1 /\ i - 1 \in 0 .. n - 1 /\ i + 1 \in 1 .. n /\ (i - 1) + 1 = (i + 1) - 1
      BY <1>2
    <2>2. a[i + 1] = a[(i + 1) - 1] \o Piece(s, f[i + 1])
      BY <1>1, <2>1 DEF Adds, n
    <2>3. acc[i] = a[i + 1] /\ acc[i - 1] = a[(i - 1) + 1]
      BY <2>1
    <2> QED
      BY <1>2, <2>1, <2>2, <2>3
  <1> HIDE DEF acc
  <1>6. Adds(s, g, acc)
    BY <1>2, <1>3, <1>5 DEF Adds
  <1>7. Carries(s, x \o Piece(s, Head(f)), g, z)
    BY <1>2, <1>4, <1>6 DEF Carries
  <1> QED
    BY <1>7 DEF g

(* Frames without a piece of the stream.                                   *)
LEMMA CarriesOther ==
  ASSUME NEW s, NEW x \in Output, NEW f \in Seq(FrameType),
         \A i \in 1 .. Len(f) : Piece(s, f[i]) = <<>>
  PROVE  Carries(s, x, f, x)
  <1> DEFINE acc == [i \in 0 .. Len(f) |-> x]
  <1>1. Len(f) \in Nat
    BY LenProperties
  <1>2. x \o <<>> = x
    BY ConcatEmptySeq DEF Output
  <1>3. acc[0] = x /\ acc[Len(f)] = x /\ acc \in [0 .. Len(f) -> Output]
    BY <1>1
  <1>4. \A i \in 1 .. Len(f) : acc[i] = x /\ acc[i - 1] = x
    BY <1>1
  <1> HIDE DEF acc
  <1>5. Adds(s, f, acc)
    BY <1>2, <1>3, <1>4 DEF Adds
  <1> QED
    BY <1>3, <1>5 DEF Carries

(* One output begins another.                                              *)
Begins(x, y) == \E u \in Output : y = x \o u

(* What begins an output is a prefix of it.                                *)
LEMMA BeginsPrefix ==
  ASSUME NEW x \in Output, NEW y, Begins(x, y)
  PROVE  IsPrefix(x, y)
  <1>1. PICK u \in Output : y = x \o u
    BY DEF Begins
  <1>2. /\ y \in Output /\ Len(y) = Len(x) + Len(u) /\ Len(x) \in Nat /\ Len(u) \in Nat
        /\ \A i \in 1 .. Len(x) + Len(u) : y[i] = IF i <= Len(x) THEN x[i] ELSE u[i - Len(x)]
    BY <1>1, ConcatProperties, LenProperties DEF Output
  <1>3. \A i \in 1 .. Len(x) : y[i] = x[i]
    BY <1>2
  <1>4. \A i \in 1 .. Len(x) : y[i] \in Alphabet \cup {Redacted}
    BY <1>3, ElementOfSeq DEF Output
  <1>5. SubSeq(x, 1, Len(x)) = x
    BY SubSeqFull DEF Output
  <1> DEFINE z == SubSeq(y, 1, Len(x))
  <1>6. z \in Seq(Alphabet \cup {Redacted}) /\ Len(z) = Len(x) /\ \A i \in 1 .. Len(x) : z[i] = y[i]
    BY <1>2, <1>4, SubSeqProperties
  <1> HIDE DEF z
  <1>7. z = x
    BY <1>3, <1>6, SeqEqual DEF Output
  <1> QED
    BY <1>2, <1>5, <1>7 DEF IsPrefix, z

(* An output begins itself.                                                *)
LEMMA BeginsItself ==
  ASSUME NEW x \in Output
  PROVE  Begins(x, x)
  <1>1. x = x \o <<>> /\ <<>> \in Output
    BY ConcatEmptySeq DEF Output
  <1> QED
    BY <1>1 DEF Begins

(* It begins whatever is made longer.                                      *)
LEMMA BeginsMore ==
  ASSUME NEW x \in Output, NEW y, Begins(x, y), NEW u \in Output
  PROVE  Begins(x, y \o u)
  <1>1. PICK v \in Output : y = x \o v
    BY DEF Begins
  <1>2. v \o u \in Output /\ y \o u = x \o (v \o u)
    BY <1>1, ConcatProperties, ConcatAssociative DEF Output
  <1> QED
    BY <1>2 DEF Begins

(* Frames only add to the end.                                             *)
LEMMA CarriesBegins ==
  ASSUME NEW s, NEW x, NEW f \in Seq(FrameType), NEW y, Carries(s, x, f, y)
  PROVE  Begins(x, y)
  <1>1. PICK acc : Adds(s, f, acc) /\ acc[0] = x /\ acc[Len(f)] = y
    BY DEF Carries
  <1>2. Len(f) \in Nat /\ x \in Output
    BY CarriesType, LenProperties
  <1> DEFINE T == {i \in 0 .. Len(f) : ~Begins(x, acc[i])}
  <1>3. SUFFICES ASSUME ~Begins(x, y) PROVE FALSE
    OBVIOUS
  <1>4. Len(f) \in T /\ T \in SUBSET Nat
    BY <1>1, <1>2, <1>3
  <1>5. PICK m \in T : \A k \in T : m <= k
    BY <1>4, SmallestIndex
  <1>6. m \in 0 .. Len(f) /\ ~Begins(x, acc[m])
    OBVIOUS
  <1>7. m # 0
    BY <1>1, <1>2, <1>6, BeginsItself
  <1>8. m - 1 \in 0 .. Len(f) /\ ~(m <= m - 1) /\ m \in 1 .. Len(f)
    BY <1>2, <1>6, <1>7
  <1>9. Begins(x, acc[m - 1])
    BY <1>5, <1>8
  <1>10. acc[m] = acc[m - 1] \o Piece(s, f[m])
    BY <1>1, <1>8 DEF Adds
  <1>11. Piece(s, f[m]) \in Output
    BY <1>8, ElementOfSeq, PieceType
  <1> QED
    BY <1>2, <1>6, <1>9, <1>10, <1>11, BeginsMore

(* The number of frames is the number of bytes over the frame size, rounded*)
(* up.                                                                     *)
LEMMA Rounding ==
  ASSUME NEW L \in Nat, NEW F \in Nat \ {0}, NEW n, n = (L + F - 1) \div F
  PROVE  n \in Nat /\ n * F >= L /\ n * F <= L + F - 1
  OBVIOUS

(* The frame after i - 1 frames starts FrameSize later, and lies within n. *)
LEMMA Multiples ==
  ASSUME NEW i \in Nat \ {0}, NEW n \in Nat, i <= n, NEW F \in Nat \ {0}
  PROVE  /\ i * F \in Nat /\ (i - 1) * F \in Nat /\ n * F \in Nat
         /\ i * F = (i - 1) * F + F
         /\ i * F <= n * F
  OBVIOUS

(* frameWriter.Write cuts the bytes into frames and loses none.            *)
LEMMA CarriesFrames ==
  ASSUME NEW c \in Calls, NEW s \in Streams, NEW x \in Output, NEW bytes \in Output
  PROVE  /\ Carries(s, x, Frames(c, s, bytes), x \o bytes)
         /\ \A t \in Streams \ {s} : Carries(t, x, Frames(c, s, bytes), x)
  <1> DEFINE L == Len(bytes)
             n == (L + FrameSize - 1) \div FrameSize
             upto(i) == Smaller(i * FrameSize, L)
             low(i) == (i - 1) * FrameSize + 1
             piece(i) == SubSeq(bytes, low(i), upto(i))
             f == Frames(c, s, bytes)
             A == Alphabet \cup {Redacted}
  <1>1. f \in Seq(FrameType)
    BY FramesType
  <1>2. FrameSize \in Nat \ {0} /\ L \in Nat /\ n \in Nat
    BY StreamAssumption, Lengths
  <1>3. n * FrameSize >= L /\ n * FrameSize <= L + FrameSize - 1
    BY <1>2, Rounding
  <1>4. f = [i \in 1 .. n |-> Data(c, s, piece(i))]
    BY DEF Frames
  <1> HIDE DEF f, n
  <1>5. Len(f) = n /\ \A i \in 1 .. n : f[i] = Data(c, s, piece(i))
    BY <1>1, <1>2, <1>4, LenProperties
  <1>6. \A t \in Streams \ {s} : Carries(t, x, f, x)
    <2>1. \A t \in Streams \ {s} : \A i \in 1 .. Len(f) : Piece(t, f[i]) = <<>>
      BY <1>5 DEF Piece, Data
    <2> QED
      BY <1>1, <2>1, CarriesOther
  <1>7. ASSUME NEW i \in 1 .. n
        PROVE  /\ low(i) \in Nat /\ low(i) >= 1 /\ low(i) <= L
               /\ upto(i) \in Nat /\ upto(i) >= low(i) /\ upto(i) <= L
               /\ low(i) - 1 = upto(i - 1)
    <2>1. i \in Nat \ {0} /\ i <= n /\ i - 1 \in Nat
      BY <1>2
    <2>2. /\ i * FrameSize \in Nat /\ (i - 1) * FrameSize \in Nat /\ n * FrameSize \in Nat
          /\ i * FrameSize = (i - 1) * FrameSize + FrameSize
          /\ i * FrameSize <= n * FrameSize
      BY <1>2, <2>1, Multiples
    <2>3. (i - 1) * FrameSize < L
      BY <1>2, <1>3, <2>2
    <2> QED
      BY <1>2, <2>2, <2>3 DEF Smaller
  <1>8. upto(0) = 0 /\ upto(n) = L
    <2>1. 0 * FrameSize = 0
      BY <1>2
    <2> QED
      BY <1>2, <1>3, <2>1 DEF Smaller
  <1>9. \A i \in 0 .. n : upto(i) \in 0 .. L
    <2>1. ASSUME NEW i \in 0 .. n PROVE upto(i) \in 0 .. L
      <3>1. CASE i = 0
        BY <1>2, <1>8, <3>1
      <3>2. CASE i # 0
        <4>1. i \in 1 .. n
          BY <1>2, <3>2
        <4> QED
          BY <1>2, <1>7, <4>1
      <3> QED
        BY <3>1, <3>2
    <2> QED
      BY <2>1
  <1> HIDE DEF upto, low
  <1>10. ASSUME NEW j \in 0 .. L
         PROVE  SubSeq(bytes, 1, j) \in Output
    <2>1. \A k \in 1 .. j : bytes[k] \in A
      BY <1>2, ElementOfSeq DEF Output
    <2> QED
      BY <1>2, <2>1, SubSeqProperties DEF Output
  <1> DEFINE acc == [i \in 0 .. n |-> x \o SubSeq(bytes, 1, upto(i))]
  <1>11. acc \in [0 .. n -> Output]
    <2>1. \A i \in 0 .. n : x \o SubSeq(bytes, 1, upto(i)) \in Output
      BY <1>9, <1>10, ConcatProperties DEF Output
    <2> QED
      BY <2>1
  <1>12. acc[0] = x /\ acc[n] = x \o bytes
    <2>1. SubSeq(bytes, 1, 0) = <<>> /\ SubSeq(bytes, 1, L) = bytes
      BY SubSeqEmpty, SubSeqFull DEF Output
    <2>2. x \o <<>> = x
      BY ConcatEmptySeq DEF Output
    <2>3. acc[0] = x \o SubSeq(bytes, 1, upto(0)) /\ acc[n] = x \o SubSeq(bytes, 1, upto(n))
      <3>1. 0 \in 0 .. n /\ n \in 0 .. n
        BY <1>2
      <3> QED
        BY <3>1
    <2> HIDE DEF acc
    <2> QED
      BY <1>8, <2>1, <2>2, <2>3
  <1>13. ASSUME NEW i \in 1 .. n
         PROVE  acc[i] = acc[i - 1] \o Piece(s, f[i])
    <2>1. i \in 0 .. n /\ i - 1 \in 0 .. n
      BY <1>2
    <2>2. Piece(s, f[i]) = piece(i)
      BY <1>5 DEF Piece, Data
    <2> DEFINE k == upto(i - 1)
               m == upto(i)
    <2>3. k \in Nat /\ m \in Nat /\ k <= m /\ m <= L /\ low(i) = k + 1
      BY <1>2, <1>7, <1>9, <2>1
    <2> HIDE DEF k, m
    <2>4. SubSeq(bytes, 1, m) = SubSeq(bytes, 1, k) \o SubSeq(bytes, k + 1, m)
      <3>1. 1 \in 1 .. L + 1 /\ k \in 1 - 1 .. L /\ m \in k .. L
        BY <1>2, <2>3
      <3> QED
        BY <3>1, ConcatAdjacentSubSeq DEF Output
    <2>5. SubSeq(bytes, k + 1, m) \in Output
      <3>1. \A j \in k + 1 .. m : bytes[j] \in A
        BY <1>2, <2>3, ElementOfSeq DEF Output
      <3> QED
        BY <2>3, <3>1, SubSeqProperties DEF Output
    <2>6. SubSeq(bytes, 1, k) \in Output
      BY <1>2, <1>10, <2>3
    <2>7. x \o SubSeq(bytes, 1, m) = (x \o SubSeq(bytes, 1, k)) \o SubSeq(bytes, k + 1, m)
      <3>1. \A u, v, w \in Output : (u \o v) \o w = u \o (v \o w)
        BY ConcatAssociative DEF Output
      <3> DEFINE u == SubSeq(bytes, 1, k)
                 v == SubSeq(bytes, k + 1, m)
                 w == SubSeq(bytes, 1, m)
      <3>2. u \in Output /\ v \in Output /\ w = u \o v
        BY <2>4, <2>5, <2>6
      <3> HIDE DEF u, v, w
      <3>3. x \o w = (x \o u) \o v
        BY <3>1, <3>2
      <3> QED
        BY <3>3 DEF u, v, w
    <2>8. acc[i] = x \o SubSeq(bytes, 1, m) /\ acc[i - 1] = x \o SubSeq(bytes, 1, k)
      BY <2>1 DEF k, m
    <2>9. piece(i) = SubSeq(bytes, k + 1, m)
      BY <2>3 DEF m
    <2> QED
      BY <2>2, <2>7, <2>8, <2>9
  <1> HIDE DEF acc
  <1>14. Adds(s, f, acc)
    BY <1>5, <1>11, <1>13 DEF Adds
  <1>15. Carries(s, x, f, x \o bytes)
    BY <1>5, <1>12, <1>14 DEF Carries
  <1> QED
    BY <1>6, <1>15 DEF f

(* What is sent (a) and what is held (p) make up the redaction of what was *)
(* written (w), whatever is written next (one of Z).                       *)
Accounts(w, a, p, Z) == \A z \in Z : Redaction[w \o z] = a \o Redaction[p \o z]

(* Redaction of one sequence of bytes after another.                       *)
LEMMA Redacts ==
  ASSUME NEW u \in Seq(Alphabet), NEW v \in Seq(Alphabet)
  PROVE  Redaction[u \o v] \in Output
  BY ConcatProperties, RedactionType

LEMMA NoMore ==
  ASSUME NEW u \in Seq(Alphabet)
  PROVE  u \o <<>> = u
  BY ConcatEmptySeq

(* Outputs are closed under concatenation, which is associative.           *)
LEMMA OutputFacts ==
  /\ <<>> \in Output
  /\ \A u, v \in Output : u \o v \in Output
  /\ \A u \in Output : u \o <<>> = u /\ <<>> \o u = u
  /\ \A u, v, w \in Output : (u \o v) \o w = u \o (v \o w)
  BY ConcatProperties, ConcatEmptySeq, ConcatAssociative DEF Output

(* The filter of a stream holds these bytes now.                           *)
Pends(c, s, bytes) == gh' = [gh EXCEPT ![c].pending[s] = bytes]

(***************************************************************************)
(* One pass of secretFilter.Write: what it sends is the redaction of what  *)
(* it takes from the pending bytes, whatever comes after them.             *)
(***************************************************************************)
CarriesOnly(s, frames, e) ==
  /\ \A a \in Output : Carries(s, a, frames, a \o e)
  /\ \A t \in Streams \ {s} : \A a \in Output : Carries(t, a, frames, a)

LEMMA CarriesOnlyConcat ==
  ASSUME NEW s \in Streams, NEW f \in Seq(FrameType), NEW g \in Seq(FrameType),
         NEW e \in Output, NEW h \in Output, CarriesOnly(s, f, e), CarriesOnly(s, g, h)
  PROVE  CarriesOnly(s, f \o g, e \o h)
  <1>1. ASSUME NEW a \in Output PROVE Carries(s, a, f \o g, a \o (e \o h))
    <2>1. a \o e \in Output /\ a \o (e \o h) = (a \o e) \o h
      BY OutputFacts
    <2>2. Carries(s, a, f, a \o e)
      BY DEF CarriesOnly
    <2>3. Carries(s, a \o e, g, (a \o e) \o h)
      BY <2>1 DEF CarriesOnly
    <2>4. Carries(s, a, f \o g, (a \o e) \o h)
      BY <2>2, <2>3, CarriesJoin
    <2> QED
      BY <2>1, <2>4
  <1>2. ASSUME NEW t \in Streams \ {s}, NEW a \in Output PROVE Carries(t, a, f \o g, a)
    <2>1. Carries(t, a, f, a) /\ Carries(t, a, g, a)
      BY DEF CarriesOnly
    <2> QED
      BY <2>1, CarriesJoin
  <1> QED
    BY <1>1, <1>2 DEF CarriesOnly

(* The frames of some bytes of a stream carry these to it and nothing to   *)
(* the other.                                                              *)
LEMMA FramesCarry ==
  ASSUME NEW c \in Calls, NEW s \in Streams, NEW bytes \in Output
  PROVE  DataFor(c, Frames(c, s, bytes)) /\ CarriesOnly(s, Frames(c, s, bytes), bytes)
  BY FramesType, CarriesFrames DEF DataFor, CarriesOnly

(* The filter holds this rest, or its execution is broken off.             *)
FilterKeepsRest(c, s, rest) ==
  \/ Pends(c, s, rest)
  \/ ~Reached(c) /\ gh' = [gh EXCEPT ![c].broken = TRUE]

FilterSends(c, s, frames, rest, e) ==
  /\ DataFor(c, frames) /\ CarriesOnly(s, frames, e)
  /\ Accounts(gh[c].pending[s], e, rest, Seq(Alphabet))
  /\ Encode(c, frames)
  /\ FilterKeepsRest(c, s, rest)

(* The loop of secretFilter.Write: before a token, at a token, and with    *)
(* less than a token left.                                                 *)
LEMMA FilterCorrect ==
  ASSUME TypeOK, NEW c \in Calls, NEW s \in Streams, Filter(c, s)
  PROVE  \E frames \in Seq(FrameType), rest \in Seq(Alphabet), e \in Output :
           FilterSends(c, s, frames, rest, e)
  <1> DEFINE p == gh[c].pending[s]
             l == Len(Secret)
             n == Len(p)
             match == IndexOf(p)
             settled == n - l + 1
             before == SubSeq(p, 1, match - 1)
             clear == SubSeq(p, 1, settled)
             from == IF match > 0 THEN match + l ELSE settled + 1
             rest == SubSeq(p, from, n)
             out == IF match > 0 THEN Frames(c, s, before) \o Frames(c, s, <<Redacted>>)
                    ELSE Frames(c, s, clear)
             e == IF match > 0 THEN before \o <<Redacted>> ELSE clear
  <1>1. /\ Encode(c, out) /\ n >= l
        /\ FilterKeepsRest(c, s, rest)
    BY DEF Filter, Holds, Settled, FilterKeepsRest, Pends
  <1>2. p \in Seq(Alphabet)
    BY DEF TypeOK, GhType
  <1>3. n \in Nat /\ l \in Nat /\ l >= 1
    BY <1>2, SecretLength, LenProperties
  <1>4. /\ match \in 0 .. settled
        /\ match = 0 => \A k \in 1 .. settled : ~At(p, k)
        /\ match # 0 => At(p, match) /\ \A k \in 1 .. match - 1 : ~At(p, k)
    BY <1>1, <1>2, IndexOfFinds
  <1> HIDE DEF p, match, l, n
  <1>5. \A u \in Seq(Alphabet) : u \in Output
    BY SeqMonotonic DEF Output
  <1>6. <<Redacted>> \in Output
    BY DEF Output
  <1>7. CASE match > 0
    <2>0. /\ match - 1 \in 0 .. n /\ match + l - 1 \in 0 .. n /\ match \in 1 .. n
          /\ (match - 1) + 1 = match /\ (match + l - 1) + 1 = match + l
          /\ \A k \in 1 .. match - 1 : k + l - 1 <= n
      BY <1>1, <1>3, <1>4, <1>7
    <2>1. before \in Seq(Alphabet)
      BY <1>2, <2>0, ConcatCut DEF n
    <2>2. SubSeq(p, match + l, n) \in Seq(Alphabet)
      <3>1. SubSeq(p, (match + l - 1) + 1, n) \in Seq(Alphabet)
        BY <1>2, <2>0, ConcatCut DEF n
      <3> QED
        BY <2>0, <3>1
    <2>3. ASSUME NEW z \in Seq(Alphabet)
          PROVE  Redaction[p \o z] = (before \o <<Redacted>>) \o Redaction[SubSeq(p, match + l, n) \o z]
      <3>1. Redaction[p \o z] = before \o Redaction[SubSeq(p, (match - 1) + 1, n) \o z]
        <4>1. \A k \in 1 .. match - 1 : k + Len(Secret) - 1 <= Len(p) /\ ~At(p, k)
          BY <1>3, <1>4, <1>7, <2>0 DEF n, l
        <4> QED
          BY <1>2, <2>0, <4>1, FilterClear DEF n
      <3>2. Redaction[SubSeq(p, match, n) \o z] = <<Redacted>> \o Redaction[SubSeq(p, match + l, n) \o z]
        BY <1>2, <1>4, <1>7, <2>0, FilterToken DEF n, l
      <3> DEFINE r == Redaction[SubSeq(p, match + l, n) \o z]
      <3>3. r \in Output
        BY <2>2, Redacts
      <3>4. before \in Output
        BY <1>5, <2>1
      <3> HIDE DEF r, before
      <3>5. before \o (<<Redacted>> \o r) = (before \o <<Redacted>>) \o r
        BY <1>6, <3>3, <3>4, OutputFacts
      <3> QED
        BY <2>0, <3>1, <3>2, <3>5 DEF r
    <2>4. before \in Output
      BY <1>5, <2>1
    <2> HIDE DEF before
    <2>5. /\ DataFor(c, Frames(c, s, before)) /\ CarriesOnly(s, Frames(c, s, before), before)
          /\ DataFor(c, Frames(c, s, <<Redacted>>))
          /\ CarriesOnly(s, Frames(c, s, <<Redacted>>), <<Redacted>>)
      BY <1>6, <2>4, FramesCarry
    <2> DEFINE f == Frames(c, s, before)
               g == Frames(c, s, <<Redacted>>)
               tail == SubSeq(p, match + l, n)
               given == before \o <<Redacted>>
    <2> HIDE DEF f, g
    <2>6. DataFor(c, f) /\ DataFor(c, g) /\ CarriesOnly(s, f, before) /\ CarriesOnly(s, g, <<Redacted>>)
      BY <2>5 DEF f, g
    <2>7. DataFor(c, f \o g) /\ CarriesOnly(s, f \o g, given) /\ given \in Output
      BY <1>6, <2>4, <2>6, DataForConcat, CarriesOnlyConcat, OutputFacts DEF DataFor
    <2>8. Encode(c, f \o g)
      BY <1>1, <1>7 DEF f, g
    <2>9. FilterKeepsRest(c, s, tail)
      BY <1>1, <1>7
    <2>10. tail \in Seq(Alphabet) /\ Accounts(p, given, tail, Seq(Alphabet))
      BY <2>2, <2>3 DEF Accounts
    <2> HIDE DEF tail, given
    <2>11. FilterSends(c, s, f \o g, tail, given)
      BY <2>7, <2>8, <2>9, <2>10 DEF FilterSends, p
    <2>12. f \o g \in Seq(FrameType)
      BY <2>7 DEF DataFor
    <2> QED
      BY <2>7, <2>10, <2>11, <2>12
  <1>8. CASE ~(match > 0)
    <2>0. match = 0 /\ settled \in 0 .. n /\ \A k \in 1 .. settled : k + l - 1 <= n
      BY <1>1, <1>3, <1>4, <1>8
    <2>1. clear \in Seq(Alphabet) /\ SubSeq(p, settled + 1, n) \in Seq(Alphabet)
      BY <1>2, <2>0, ConcatCut DEF n
    <2>2. ASSUME NEW z \in Seq(Alphabet)
          PROVE  Redaction[p \o z] = clear \o Redaction[SubSeq(p, settled + 1, n) \o z]
      BY <1>2, <1>4, <2>0, FilterClear DEF n, l
    <2> DEFINE tail == SubSeq(p, settled + 1, n)
               f == Frames(c, s, clear)
    <2>3. clear \in Output
      BY <1>5, <2>1
    <2>4. Encode(c, f)
      BY <1>1, <1>8
    <2>5. FilterKeepsRest(c, s, tail)
      BY <1>1, <1>8
    <2> HIDE DEF clear
    <2>6. DataFor(c, f) /\ CarriesOnly(s, f, clear)
      BY <2>3, FramesCarry
    <2>7. tail \in Seq(Alphabet) /\ Accounts(p, clear, tail, Seq(Alphabet))
      BY <2>1, <2>2 DEF Accounts
    <2> HIDE DEF tail, f
    <2>8. FilterSends(c, s, f, tail, clear)
      BY <2>4, <2>5, <2>6, <2>7 DEF FilterSends, p
    <2>9. f \in Seq(FrameType)
      BY <2>6 DEF DataFor
    <2> QED
      BY <2>3, <2>7, <2>8, <2>9
  <1> QED
    BY <1>7, <1>8

(***************************************************************************)
(* gh and the filters.                                                     *)
(***************************************************************************)

(* A filter's pending bytes change, and nothing else of the execution.     *)
LEMMA PendingGh ==
  ASSUME gh \in [Calls -> GhType], NEW c \in Calls, NEW s \in Streams,
         NEW bytes \in Seq(Alphabet), Pends(c, s, bytes)
  PROVE  /\ gh' \in [Calls -> GhType]
         /\ \A d \in Calls : gh'[d].pc = gh[d].pc
  <1> DEFINE x == gh[c]
             pending == [x.pending EXCEPT ![s] = bytes]
             y == [x EXCEPT !.pending = pending]
  <1>1. x \in GhType
    OBVIOUS
  <1>2. pending \in [Streams -> Seq(Alphabet)]
    BY <1>1 DEF GhType
  <1> HIDE DEF pending
  <1>3. y \in GhType /\ y.pc = x.pc
    BY <1>1, <1>2 DEF GhType
  <1>4. gh' = [gh EXCEPT ![c] = y]
    BY DEF pending, Pends
  <1> HIDE DEF y
  <1> QED
    BY <1>3, <1>4

(* Whatever changes only gh without starting one, or what is remembered.   *)
LEMMA GhKeeps ==
  ASSUME StreamInv, gh' \in [Calls -> GhType], budget' \in Nat,
         written' \in [Calls -> [Streams -> Seq(Alphabet)]],
         \A d \in Calls : gh'[d].pc \in {"run", "ended"} => gh[d].pc \in {"run", "ended"},
         UNCHANGED <<client, inbox, closed, bridgeVars, toBridge, serving>>
  PROVE  StreamInv'
  <1> USE DEF StreamInv, bridgeVars
  <1>1. TypeOK'
    BY DEF TypeOK
  <1>2. GhInv'
    BY DEF GhInv
  <1>3. InboxInv' /\ TurnInv' /\ BridgeInv' /\ HeardOwn'
    BY DEF InboxInv, TurnInv, BridgeInv, HeardOwn, Suits, EndsAnswer
  <1> QED
    BY <1>1, <1>2, <1>3

(* gh writes.                                                              *)
LEMMA GhWritesKeeps ==
  ASSUME StreamInv, NEW c \in Calls, GhWritesSome(c)
  PROVE  StreamInv'
  <1>1. PICK s \in Streams, n \in 1 .. budget : \E bytes \in [1 .. n -> Alphabet] : GhWrites(c, s, bytes)
    BY DEF GhWritesSome
  <1>2. PICK bytes \in [1 .. n -> Alphabet] : GhWrites(c, s, bytes)
    BY <1>1
  <1>3. /\ gh \in [Calls -> GhType] /\ budget \in Nat
        /\ written \in [Calls -> [Streams -> Seq(Alphabet)]]
    BY DEF StreamInv, TypeOK
  <1>4. bytes \in Seq(Alphabet) /\ Len(bytes) \in Nat
    BY <1>2, <1>3, LenProperties
  <1>5. /\ gh' = [gh EXCEPT ![c].pending[s] = gh[c].pending[s] \o bytes]
        /\ Len(bytes) <= budget /\ budget' = budget - Len(bytes)
        /\ written' = IF Waiting(c) THEN [written EXCEPT ![c][s] = @ \o bytes] ELSE written
        /\ UNCHANGED <<client, inbox, closed, bridgeVars, toBridge, serving>>
    BY <1>2 DEF GhWrites
  <1>6. gh[c].pending[s] \o bytes \in Seq(Alphabet) /\ written[c][s] \o bytes \in Seq(Alphabet)
    BY <1>3, <1>4, ConcatProperties DEF GhType
  <1>7. gh' \in [Calls -> GhType] /\ \A d \in Calls : gh'[d].pc = gh[d].pc
    <2>1. Pends(c, s, gh[c].pending[s] \o bytes)
      BY <1>5 DEF Pends
    <2> QED
      BY <1>3, <1>6, <2>1, PendingGh
  <1>8. written' \in [Calls -> [Streams -> Seq(Alphabet)]]
    BY <1>3, <1>5, <1>6
  <1> QED
    BY <1>3, <1>4, <1>5, <1>7, <1>8, GhKeeps

(* gh ends, or is killed.                                                  *)
LEMMA GhEndsKeeps ==
  ASSUME StreamInv, NEW c \in Calls, GhEnds(c)
  PROVE  StreamInv'
  <1>1. gh \in [Calls -> GhType] /\ budget \in Nat
        /\ written \in [Calls -> [Streams -> Seq(Alphabet)]]
    BY DEF StreamInv, TypeOK
  <1>2. gh' \in [Calls -> GhType] /\ \A d \in Calls \ {c} : gh'[d] = gh[d]
    BY <1>1, RunGh DEF GhEnds
  <1>3. gh[c].pc = "run" /\ UNCHANGED <<client, inbox, closed, bridgeVars, toBridge, serving, budget, written>>
    BY DEF GhEnds, history
  <1> QED
    BY <1>1, <1>2, <1>3, GhKeeps

(* Over the bridge, an execution has the turn as long as its bridge lives. *)
LEMMA GhHasTurn ==
  ASSUME StreamInv, NEW c \in Calls, gh[c].pc \in {"run", "ended"}
  PROVE  /\ client[c].request = "execute" /\ client[c].pc # "idle"
         /\ client[c].path = "bridge" =>
              /\ serving = c
              /\ up => /\ holder = c /\ passed /\ toHost = <<>>
                       /\ \A i \in 1 .. Len(toBridge) : ~EndsAnswer(c, toBridge[i])
  <1> USE DEF StreamInv
  <1>1. c # NoCall
    BY DEF Calls, NoCall
  <1>2. client[c].request = "execute" /\ client[c].pc # "idle"
        /\ (client[c].path = "bridge" => serving = c)
    BY DEF GhInv
  <1>3. client[c].path = "bridge" /\ up => holder = c /\ passed /\ toHost = <<>>
    BY <1>1, <1>2 DEF TurnInv
  <1>4. client[c].path = "bridge" /\ up =>
          \A i \in 1 .. Len(toBridge) : ~EndsAnswer(c, toBridge[i])
    BY <1>1, <1>2, <1>3 DEF BridgeInv
  <1> QED
    BY <1>2, <1>3, <1>4

(* What one pass of secretFilter.Write sends and keeps.                    *)
LEMMA FilterKeeps ==
  ASSUME StreamInv, NEW c \in Calls, NEW s \in Streams, Filter(c, s)
  PROVE  StreamInv'
  <1> USE DEF StreamInv
  <1>0. /\ gh[c].pc \in {"run", "ended"}
        /\ UNCHANGED <<client, closed, up, holder, passed, toHost, serving, budget, written>>
    BY DEF Filter, bridgeVars, history
  <1>1. PICK frames \in Seq(FrameType), rest \in Seq(Alphabet) :
          /\ \A i \in 1 .. Len(frames) :
               frames[i].kind = "data" /\ frames[i].of = c /\ ~frames[i].error
          /\ Encode(c, frames)
          /\ Pends(c, s, rest) \/ gh' = [gh EXCEPT ![c].broken = TRUE]
    BY FilterCorrect DEF FilterSends, FilterKeepsRest, DataFor
  <1>2. /\ client[c].request = "execute" /\ client[c].pc # "idle"
        /\ client[c].path = "bridge" /\ up =>
             /\ holder = c /\ passed /\ toHost = <<>>
             /\ \A i \in 1 .. Len(toBridge) : ~EndsAnswer(c, toBridge[i])
    BY <1>0, GhHasTurn
  <1>3. Proper(c, frames) /\ \A i \in 1 .. Len(frames) : ~EndsAnswer(c, frames[i])
    BY <1>1, <1>2, ProperData
  <1>4. /\ inbox' \in [Calls -> Seq(FrameType)] /\ toBridge' \in Seq(FrameType)
        /\ InboxInv' /\ BridgeInv'
        /\ toBridge' # toBridge => client[c].path = "bridge" /\ up
    BY <1>0, <1>1, <1>2, <1>3, EncodeKeeps
  <1>5. gh' \in [Calls -> GhType] /\ \A d \in Calls : gh'[d].pc = gh[d].pc
    <2>1. gh \in [Calls -> GhType]
      BY DEF TypeOK
    <2>2. CASE Pends(c, s, rest)
      BY <2>1, <2>2, PendingGh
    <2>3. CASE gh' = [gh EXCEPT ![c].broken = TRUE]
      BY <2>1, <2>3 DEF GhType
    <2> QED
      BY <1>1, <2>2, <2>3
  <1>6. TypeOK'
    BY <1>0, <1>4, <1>5 DEF TypeOK
  <1>7. TurnInv'
    <2>1. CASE toBridge' = toBridge
      BY <1>0, <2>1 DEF TurnInv
    <2>2. CASE client[c].path = "bridge" /\ up
      <3>1. c # NoCall
        BY DEF Calls, NoCall
      <3> QED
        BY <1>0, <1>2, <2>2, <3>1 DEF TurnInv
    <2> QED
      BY <1>4, <2>1, <2>2
  <1>8. GhInv' /\ HeardOwn'
    BY <1>0, <1>5 DEF GhInv, HeardOwn
  <1> QED
    BY <1>4, <1>6, <1>7, <1>8

(* The filters are flushed and the exit frame is sent, the last of its     *)
(* answer.                                                                 *)
LEMMA FinishKeeps ==
  ASSUME StreamInv, NEW c \in Calls, Finish(c)
  PROVE  StreamInv'
  <1> USE DEF StreamInv
  <1> DEFINE f == Frames(c, "stdout", gh[c].pending["stdout"])
             g == Frames(c, "stderr", gh[c].pending["stderr"])
             x == gh[c]
             y == [x EXCEPT !.pc = "done"]
             z == [y EXCEPT !.pending = Nothing]
  <1>0. /\ gh[c].pc = "ended" /\ Encode(c, f \o g \o <<ExitFrame(c)>>) /\ Served(c)
        /\ gh' = [gh EXCEPT ![c].pc = "done", ![c].pending = Nothing]
        /\ UNCHANGED <<client, up, holder, passed, toHost, budget, written>>
    BY DEF Finish, Flush, bridgeVars, history
  <1>1. gh \in [Calls -> GhType] /\ x \in GhType
    BY DEF TypeOK
  <1>2. gh' \in [Calls -> GhType] /\ gh'[c].pc = "done" /\ \A d \in Calls \ {c} : gh'[d] = gh[d]
    <2>1. Nothing \in [Streams -> Seq(Alphabet)]
      BY DEF Nothing
    <2>2. y \in GhType /\ y.pc = "done"
      BY <1>1 DEF GhType
    <2> HIDE DEF y
    <2>3. z \in GhType /\ z.pc = "done"
      BY <2>1, <2>2 DEF GhType
    <2>4. gh' = [gh EXCEPT ![c] = z]
      BY <1>0, <1>1 DEF y
    <2> HIDE DEF z
    <2> QED
      BY <1>1, <2>3, <2>4
  <1>3. gh[c].pending["stdout"] \in Output /\ gh[c].pending["stderr"] \in Output
    BY <1>1, SeqMonotonic DEF GhType, Streams, Output
  <1>4. /\ f \in Seq(FrameType) /\ g \in Seq(FrameType)
        /\ \A i \in 1 .. Len(f) : f[i].kind = "data" /\ f[i].of = c /\ ~f[i].error
        /\ \A i \in 1 .. Len(g) : g[i].kind = "data" /\ g[i].of = c /\ ~g[i].error
    BY <1>3, FramesType DEF Streams
  <1> HIDE DEF f, g
  <1> DEFINE h == f \o g
  <1>5. /\ h \in Seq(FrameType)
        /\ \A i \in 1 .. Len(h) : h[i].kind = "data" /\ h[i].of = c /\ ~h[i].error
    <2>1. DataFor(c, f) /\ DataFor(c, g)
      BY <1>4 DEF DataFor
    <2>2. DataFor(c, h)
      BY <2>1, DataForConcat
    <2> HIDE DEF h
    <2> QED
      BY <2>2 DEF DataFor
  <1>6. /\ client[c].request = "execute" /\ client[c].pc # "idle"
        /\ client[c].path = "bridge" =>
             /\ serving = c
             /\ up => /\ holder = c /\ passed /\ toHost = <<>>
                      /\ \A i \in 1 .. Len(toBridge) : ~EndsAnswer(c, toBridge[i])
    BY <1>0, GhHasTurn
  <1>7. Encode(c, h \o <<ExitFrame(c)>>)
    BY <1>0
  <1> HIDE DEF h
  <1>8. Proper(c, h \o <<ExitFrame(c)>>)
    BY <1>5, <1>6, ProperData
  <1>9. /\ client[c].path = "socket" => serving' = serving
        /\ client[c].path # "socket" => serving' = NoCall
        /\ closed' \subseteq Calls
    BY <1>0 DEF Served, TypeOK
  <1>10. /\ inbox' \in [Calls -> Seq(FrameType)] /\ toBridge' \in Seq(FrameType)
         /\ InboxInv' /\ BridgeInv'
         /\ toBridge' # toBridge => client[c].path = "bridge" /\ up
    BY <1>0, <1>6, <1>7, <1>8, <1>9, EncodeKeeps
  <1>11. TypeOK'
    BY <1>0, <1>2, <1>9, <1>10 DEF TypeOK
  <1>12. client[c].path \in {"bridge", "socket"}
    BY DEF TypeOK, ClientType
  <1>13. TurnInv'
    <2>1. CASE toBridge' = toBridge
      BY <1>0, <1>9, <2>1 DEF TurnInv
    <2>2. CASE client[c].path = "bridge" /\ up
      <3>1. c # NoCall
        BY DEF Calls, NoCall
      <3> QED
        BY <1>0, <1>6, <1>9, <2>2, <3>1 DEF TurnInv
    <2> QED
      BY <1>10, <2>1, <2>2
  <1>14. GhInv'
    BY <1>0, <1>2, <1>6, <1>9, <1>12 DEF GhInv
  <1>15. HeardOwn'
    BY <1>0 DEF HeardOwn
  <1> QED
    BY <1>10, <1>11, <1>13, <1>14, <1>15

(***************************************************************************)
(* The theorems.                                                           *)
(***************************************************************************)

(* Initially no frame is under way.                                        *)
LEMMA StreamInit == Init => StreamInv
  <1> SUFFICES ASSUME Init PROVE StreamInv
    OBVIOUS
  <1>1. TypeOK
    BY TypeInit
  <1>2. InboxInv
    BY EmptySeq DEF Init, InboxInv
  <1>3. TurnInv /\ GhInv /\ HeardOwn
    BY DEF Init, TurnInv, GhInv, HeardOwn
  <1>4. BridgeInv
    BY EmptySeq DEF Init, BridgeInv
  <1> QED
    BY <1>1, <1>2, <1>3, <1>4 DEF StreamInv

(* Every step preserves the invariant.                                     *)
LEMMA StreamNext == StreamInv /\ [Next]_vars => StreamInv'
  <1> SUFFICES ASSUME StreamInv, [Next]_vars PROVE StreamInv'
    OBVIOUS
  <1>1. ASSUME NEW c \in Calls,
               \/ \E path \in Paths, request \in Requests : Dial(c, path, request)
               \/ Send(c) \/ Read(c) \/ ReadEnd(c) \/ Leave(c)
        PROVE  StreamInv'
    <2>1. ClientStep(c)
      BY <1>1, ClientSteps DEF StreamInv
    <2>2. UNCHANGED <<closed, bridgeVars, toBridge, serving, gh, budget>>
      BY <1>1 DEF Dial, Send, Read, ReadEnd, Leave, history
    <2>3. InboxInv' /\ TurnInv' /\ BridgeInv' /\ GhInv' /\ HeardOwn'
      BY <2>1, <2>2, ClientKeeps
    <2>4. written' = written \/ written' = [written EXCEPT ![c] = Nothing]
      BY <1>1 DEF Dial, Send, Read, ReadEnd, Leave, history
    <2>5. written' \in [Calls -> [Streams -> Seq(Alphabet)]]
      <3>1. Nothing \in [Streams -> Seq(Alphabet)]
        BY DEF Nothing
      <3> QED
        BY <2>4, <3>1 DEF StreamInv, TypeOK
    <2>6. TypeOK'
      BY <2>1, <2>2, <2>5 DEF StreamInv, TypeOK, ClientStep, bridgeVars
    <2> QED
      BY <2>3, <2>6 DEF StreamInv
  <1>2. CASE UNCHANGED vars
    <2>1. TypeOK' /\ TurnInv' /\ GhInv' /\ HeardOwn'
      BY <1>2 DEF vars, StreamInv, TypeOK, TurnInv, GhInv, HeardOwn
    <2>2. InboxInv'
      BY <1>2 DEF vars, StreamInv, InboxInv, Suits
    <2>3. BridgeInv'
      BY <1>2 DEF vars, StreamInv, BridgeInv, Suits, EndsAnswer
    <2> QED
      BY <2>1, <2>2, <2>3 DEF StreamInv
  <1>3. CASE Progress
    BY <1>1, <1>3, LockKeeps, PassKeeps, RelayKeeps, TakeConnectionKeeps, TakeRequestKeeps,
       GhEndsKeeps, FilterKeeps, FinishKeeps DEF Progress
  <1> QED
    BY <1>1, <1>2, <1>3, CollapseKeeps, DropKeeps, GhWritesKeeps DEF Next

(* Whose turn it is on the shared pipe, for any number of calls, any token,*)
(* any frame size and any output.                                          *)
THEOREM StreamCorrect == Spec => []StreamInv
  BY StreamInit, StreamNext, PTL DEF Spec

(***************************************************************************)
(* What a client has been shown (x), what is in its inbox and on the pipe, *)
(* and what the filter holds (p) make up the redaction of what gh wrote    *)
(* (w), whatever it goes on to write (one of Z).                           *)
(***************************************************************************)
Sent(s, x, box, pipe, w, p, Z) ==
  \E o, a : Carries(s, x, box, o) /\ Carries(s, o, pipe, a) /\ Accounts(w, a, p, Z)

(* The exit has arrived.                                                   *)
HasExit(box) == \E i \in 1 .. Len(box) : box[i].kind = "exit"

(* When the bridge has died, what has arrived is still a beginning of it.  *)
Lost(s, x, box, w, Z) ==
  \E o : /\ Carries(s, x, box, o)
         /\ \A z \in Z : Begins(o, Redaction[w \o z])
         /\ HasExit(box) => o = Redaction[w]

(* Before anything is written, and then step by step.                      *)
LEMMA SentStart ==
  ASSUME NEW s, NEW Z \in SUBSET Seq(Alphabet)
  PROVE  Sent(s, <<>>, <<>>, <<>>, <<>>, <<>>, Z)
  <1>1. Carries(s, <<>>, <<>>, <<>>)
    BY CarriesNothing, OutputFacts
  <1>2. ASSUME NEW z \in Z
        PROVE  Redaction[<<>> \o z] = <<>> \o Redaction[<<>> \o z]
    <2>1. Redaction[<<>> \o z] \in Output
      BY Redacts, EmptySeq
    <2> QED
      BY <2>1, OutputFacts
  <1> QED
    BY <1>1, <1>2 DEF Sent, Accounts

(* The client reads a frame.                                               *)
LEMMA SentRead ==
  ASSUME NEW s, NEW x, NEW box \in Seq(FrameType), box # <<>>, NEW pipe, NEW w, NEW p, NEW Z,
         Sent(s, x, box, pipe, w, p, Z)
  PROVE  Sent(s, x \o Piece(s, Head(box)), Tail(box), pipe, w, p, Z)
  BY CarriesHead DEF Sent

LEMMA LostRead ==
  ASSUME NEW s, NEW x, NEW box \in Seq(FrameType), box # <<>>, NEW w, NEW Z,
         Lost(s, x, box, w, Z)
  PROVE  Lost(s, x \o Piece(s, Head(box)), Tail(box), w, Z)
  <1>1. PICK o : /\ Carries(s, x, box, o)
                 /\ \A z \in Z : Begins(o, Redaction[w \o z])
                 /\ HasExit(box) => o = Redaction[w]
    BY DEF Lost
  <1>2. HasExit(Tail(box)) => HasExit(box)
    <2>1. /\ Len(Tail(box)) = Len(box) - 1 /\ Len(box) \in Nat
          /\ \A i \in 1 .. Len(box) - 1 : Tail(box)[i] = box[i + 1]
      BY HeadTailProperties, LenProperties
    <2>2. \A i \in 1 .. Len(box) - 1 : i + 1 \in 1 .. Len(box)
      BY <2>1
    <2> QED
      BY <2>1, <2>2 DEF HasExit
  <1>3. Carries(s, x \o Piece(s, Head(box)), Tail(box), o)
    BY <1>1, CarriesHead
  <1> QED
    BY <1>1, <1>2, <1>3 DEF Lost

(* What is shown is a beginning of the redaction.                          *)
LEMMA SentBegins ==
  ASSUME NEW s, NEW x, NEW box \in Seq(FrameType), NEW pipe \in Seq(FrameType),
         NEW w \in Seq(Alphabet), NEW p \in Seq(Alphabet), NEW Z \in SUBSET Seq(Alphabet),
         Sent(s, x, box, pipe, w, p, Z)
  PROVE  /\ x \in Output
         /\ <<>> \in Z => Begins(x, Redaction[w])
         /\ \E o : /\ Carries(s, x, box, o)
                   /\ \A z \in Z : Begins(o, Redaction[w \o z])
                   /\ pipe = <<>> /\ p = <<>> /\ <<>> \in Z => o = Redaction[w]
  <1>1. PICK o, a : /\ Carries(s, x, box, o) /\ Carries(s, o, pipe, a)
                    /\ Accounts(w, a, p, Z)
                    /\ \A z \in Z : Redaction[w \o z] = a \o Redaction[p \o z]
    BY DEF Sent, Accounts
  <1>2. x \in Output /\ o \in Output /\ a \in Output
    BY <1>1, CarriesType
  <1>3. \A z \in Z : Redaction[p \o z] \in Output
    BY Redacts
  <1>4. Begins(x, o) /\ Begins(o, a)
    BY <1>1, CarriesBegins
  <1>5. \A z \in Z : Begins(o, Redaction[w \o z])
    BY <1>1, <1>2, <1>3, <1>4, BeginsMore
  <1>6. Begins(x, a)
    <2>1. PICK u \in Output : a = o \o u
      BY <1>4 DEF Begins
    <2> QED
      BY <1>2, <1>4, <2>1, BeginsMore
  <1>7. w \o <<>> = w
    BY NoMore
  <1>8. <<>> \in Z => Begins(x, Redaction[w])
    BY <1>1, <1>2, <1>3, <1>6, <1>7, BeginsMore
  <1>9. ASSUME pipe = <<>>, p = <<>>, <<>> \in Z
        PROVE  o = Redaction[w]
    <2>1. o = a
      BY <1>1, <1>2, <1>9, CarriesNothing
    <2>2. Redaction[w] = a \o Redaction[<<>> \o <<>>]
      BY <1>1, <1>7, <1>9
    <2>3. <<>> \o <<>> = <<>>
      BY EmptySeq, NoMore
    <2> QED
      BY <1>2, <2>1, <2>2, <2>3, RedactionEmpty, OutputFacts
  <1> QED
    BY <1>1, <1>2, <1>5, <1>8, <1>9

LEMMA LostBegins ==
  ASSUME NEW s, NEW x, NEW box \in Seq(FrameType), NEW w \in Seq(Alphabet), NEW Z,
         Lost(s, x, box, w, Z), <<>> \in Z
  PROVE  x \in Output /\ Begins(x, Redaction[w])
  <1>1. PICK o : Carries(s, x, box, o) /\ Begins(o, Redaction[w \o <<>>])
    BY DEF Lost
  <1>2. x \in Output /\ o \in Output /\ Begins(x, o)
    BY <1>1, CarriesType, CarriesBegins
  <1>3. w \o <<>> = w
    BY NoMore
  <1>4. PICK u \in Output : Redaction[w] = o \o u
    BY <1>1, <1>3 DEF Begins
  <1> QED
    BY <1>2, <1>4, BeginsMore

(* An exit frame that is alone in the inbox comes after everything.        *)
LEMMA LastFrame ==
  ASSUME NEW s, NEW x, NEW box \in Seq(FrameType), NEW o, Carries(s, x, box, o),
         Len(box) = 1, box[1].kind = "exit"
  PROVE  o = x
  <1>1. PICK acc : Adds(s, box, acc) /\ acc[0] = x /\ acc[1] = o
    BY DEF Carries
  <1>2. acc[1] = acc[1 - 1] \o Piece(s, box[1])
    BY <1>1 DEF Adds
  <1>3. Piece(s, box[1]) = <<>> /\ 1 - 1 = 0
    BY DEF Piece
  <1>4. x \in Output
    BY CarriesType
  <1> QED
    BY <1>1, <1>2, <1>3, <1>4, OutputFacts

LEMMA SentComplete ==
  ASSUME NEW s, NEW x, NEW box \in Seq(FrameType), Len(box) = 1, box[1].kind = "exit",
         NEW w \in Seq(Alphabet), NEW Z \in SUBSET Seq(Alphabet), <<>> \in Z,
         Sent(s, x, box, <<>>, w, <<>>, Z)
  PROVE  x = Redaction[w]
  <1>1. <<>> \in Seq(FrameType) /\ <<>> \in Seq(Alphabet)
    BY EmptySeq
  <1>2. PICK o : Carries(s, x, box, o) /\ o = Redaction[w]
    BY <1>1, SentBegins
  <1> QED
    BY <1>2, LastFrame

LEMMA LostComplete ==
  ASSUME NEW s, NEW x, NEW box \in Seq(FrameType), Len(box) = 1, box[1].kind = "exit",
         NEW w, NEW Z, Lost(s, x, box, w, Z)
  PROVE  x = Redaction[w]
  <1>1. HasExit(box)
    BY DEF HasExit
  <1> QED
    BY <1>1, LastFrame DEF Lost

(* The bridge passes a frame on, or dies.                                  *)
LEMMA SentRelay ==
  ASSUME NEW s, NEW x, NEW box \in Seq(FrameType), NEW pipe \in Seq(FrameType), pipe # <<>>,
         NEW w, NEW p, NEW Z, Sent(s, x, box, pipe, w, p, Z)
  PROVE  Sent(s, x, Append(box, Head(pipe)), Tail(pipe), w, p, Z)
  <1> DEFINE f == Head(pipe)
  <1>1. PICK o, a : /\ Carries(s, x, box, o) /\ Carries(s, o, pipe, a)
                    /\ Accounts(w, a, p, Z)
                    /\ \A z \in Z : Redaction[w \o z] = a \o Redaction[p \o z]
    BY DEF Sent, Accounts
  <1>2. f \in FrameType
    BY HeadTailProperties
  <1>3. Carries(s, o \o Piece(s, f), Tail(pipe), a)
    BY <1>1, CarriesHead
  <1> HIDE DEF f
  <1>4. o \in Output
    BY <1>1, CarriesType
  <1>5. Carries(s, o, <<f>>, o \o Piece(s, f))
    BY <1>2, <1>4, CarriesOne
  <1>6. <<f>> \in Seq(FrameType)
    BY <1>2
  <1>7. Carries(s, x, box \o <<f>>, o \o Piece(s, f))
    BY <1>1, <1>5, <1>6, CarriesJoin
  <1>8. Append(box, f) = box \o <<f>>
    BY <1>2, AppendIsConcat
  <1>9. Carries(s, x, Append(box, f), o \o Piece(s, f))
    BY <1>7, <1>8
  <1>10. Sent(s, x, Append(box, f), Tail(pipe), w, p, Z)
    BY <1>1, <1>3, <1>9 DEF Sent
  <1> QED
    BY <1>10 DEF f

LEMMA SentLost ==
  ASSUME NEW s, NEW x, NEW box \in Seq(FrameType), NEW pipe \in Seq(FrameType),
         NEW w \in Seq(Alphabet), NEW p \in Seq(Alphabet), NEW Z \in SUBSET Seq(Alphabet),
         <<>> \in Z, Sent(s, x, box, pipe, w, p, Z),
         HasExit(box) => pipe = <<>> /\ p = <<>>
  PROVE  Lost(s, x, box, w, Z)
  BY SentBegins DEF Lost

(* Whatever was sent before, the frames add e.                             *)
Brings(s, frames, e) == \A a \in Output : Carries(s, a, frames, a \o e)

(* The filter sends frames that carry e, and keeps q.                      *)
LEMMA SentMore ==
  ASSUME NEW s, NEW x, NEW box \in Seq(FrameType), NEW pipe \in Seq(FrameType),
         NEW w, NEW p \in Seq(Alphabet), NEW q \in Seq(Alphabet),
         NEW Z \in SUBSET Seq(Alphabet), NEW Y \in SUBSET Z,
         Sent(s, x, box, pipe, w, p, Z),
         NEW frames \in Seq(FrameType), NEW e \in Output, Brings(s, frames, e),
         Accounts(p, e, q, Y)
  PROVE  /\ Sent(s, x, box, pipe \o frames, w, q, Y)
         /\ pipe = <<>> => Sent(s, x, box \o frames, <<>>, w, q, Y)
  <1>1. PICK o, a : /\ Carries(s, x, box, o) /\ Carries(s, o, pipe, a)
                    /\ Accounts(w, a, p, Z)
                    /\ \A z \in Z : Redaction[w \o z] = a \o Redaction[p \o z]
    BY DEF Sent, Accounts
  <1>2. o \in Output /\ a \in Output
    BY <1>1, CarriesType
  <1>3. Carries(s, a, frames, a \o e)
    BY <1>2 DEF Brings
  <1>4. ASSUME NEW z \in Y
        PROVE  Redaction[w \o z] = (a \o e) \o Redaction[q \o z]
    <2>0. z \in Z /\ z \in Seq(Alphabet)
      OBVIOUS
    <2>1. Redaction[w \o z] = a \o (e \o Redaction[q \o z])
      BY <1>1, <2>0 DEF Accounts
    <2>2. Redaction[q \o z] \in Output
      BY <2>0, Redacts
    <2> QED
      BY <1>2, <2>1, <2>2, OutputFacts
  <1> DEFINE b == a \o e
             more == pipe \o frames
             most == box \o frames
  <1>5. b \in Output /\ Carries(s, o, more, b) /\ Accounts(w, b, q, Y)
    BY <1>1, <1>2, <1>3, <1>4, CarriesJoin, OutputFacts DEF Accounts
  <1>6. ASSUME pipe = <<>>
        PROVE  Carries(s, x, most, b)
    <2>1. o = a
      BY <1>1, <1>2, <1>6, CarriesNothing
    <2> QED
      BY <1>1, <1>3, <2>1, CarriesJoin
  <1> HIDE DEF b, more, most
  <1>7. Sent(s, x, box, more, w, q, Y)
    BY <1>1, <1>5 DEF Sent
  <1>8. pipe = <<>> => Sent(s, x, most, <<>>, w, q, Y)
    <2>1. Carries(s, b, <<>>, b)
      BY <1>5, CarriesNothing
    <2> QED
      BY <1>5, <1>6, <2>1 DEF Sent
  <1> QED
    BY <1>7, <1>8 DEF more, most

(* gh writes.                                                              *)
LEMMA SentWrites ==
  ASSUME NEW s, NEW x, NEW box, NEW pipe, NEW w \in Seq(Alphabet), NEW p \in Seq(Alphabet),
         NEW b \in Seq(Alphabet), Sent(s, x, box, pipe, w, p, Seq(Alphabet))
  PROVE  Sent(s, x, box, pipe, w \o b, p \o b, Seq(Alphabet))
  <1>1. PICK o, a : /\ Carries(s, x, box, o) /\ Carries(s, o, pipe, a)
                    /\ \A z \in Seq(Alphabet) : Redaction[w \o z] = a \o Redaction[p \o z]
    BY DEF Sent, Accounts
  <1>2. ASSUME NEW z \in Seq(Alphabet)
        PROVE  Redaction[(w \o b) \o z] = a \o Redaction[(p \o b) \o z]
    <2>1. b \o z \in Seq(Alphabet)
      BY ConcatProperties
    <2>2. (w \o b) \o z = w \o (b \o z)
      BY ConcatAssociative
    <2>3. (p \o b) \o z = p \o (b \o z)
      BY ConcatAssociative
    <2> QED
      BY <1>1, <2>1, <2>2, <2>3
  <1> DEFINE v == w \o b
             q == p \o b
  <1>3. Accounts(v, a, q, Seq(Alphabet))
    BY <1>2 DEF Accounts
  <1> HIDE DEF v, q
  <1>4. Sent(s, x, box, pipe, v, q, Seq(Alphabet))
    BY <1>1, <1>3 DEF Sent
  <1> QED
    BY <1>4 DEF v, q

LEMMA LostWrites ==
  ASSUME NEW s, NEW x, NEW box, NEW w \in Seq(Alphabet), NEW b \in Seq(Alphabet),
         Lost(s, x, box, w, Seq(Alphabet)), ~HasExit(box)
  PROVE  Lost(s, x, box, w \o b, Seq(Alphabet))
  <1>1. PICK o : /\ Carries(s, x, box, o)
                 /\ \A z \in Seq(Alphabet) : Begins(o, Redaction[w \o z])
    BY DEF Lost
  <1>2. ASSUME NEW z \in Seq(Alphabet)
        PROVE  Begins(o, Redaction[(w \o b) \o z])
    <2>1. b \o z \in Seq(Alphabet) /\ (w \o b) \o z = w \o (b \o z)
      BY ConcatProperties, ConcatAssociative
    <2> QED
      BY <1>1, <2>1
  <1> QED
    BY <1>1, <1>2 DEF Lost

(***************************************************************************)
(* What the steps of a client change of it.                                *)
(***************************************************************************)
Others(c) == \A d \in Calls \ {c} : client'[d] = client[d] /\ inbox'[d] = inbox[d]

(* An agent or control client connects.                                    *)
LEMMA DialFields ==
  ASSUME TypeOK, NEW c \in Calls, NEW path \in Paths, NEW request \in Requests,
         Dial(c, path, request)
  PROVE  /\ client[c].pc = "idle" /\ client'[c].pc = "dialled"
         /\ client'[c].path = path /\ (path = "bridge" => up)
         /\ client'[c].shown = client[c].shown /\ client'[c].result = client[c].result
         /\ inbox' = inbox /\ Others(c)
         /\ path \in {"bridge", "socket"}
  <1> DEFINE x == client[c]
             a == [x EXCEPT !.pc = "dialled"]
             b == [a EXCEPT !.path = path]
             y == [b EXCEPT !.request = request]
  <1>1. client \in [Calls -> ClientType] /\ x \in ClientType
    BY DEF TypeOK
  <1>2. a \in ClientType /\ a.pc = "dialled" /\ a.shown = x.shown /\ a.result = x.result
    BY <1>1 DEF ClientType
  <1> HIDE DEF a
  <1>3. b \in ClientType /\ b.pc = "dialled" /\ b.shown = x.shown /\ b.result = x.result
        /\ b.path = path
    BY <1>2, StreamAssumption DEF ClientType
  <1> HIDE DEF b
  <1>4. y \in ClientType /\ y.pc = "dialled" /\ y.shown = x.shown /\ y.result = x.result
        /\ y.path = path
    BY <1>3, StreamAssumption DEF ClientType
  <1>5. /\ client' = [client EXCEPT ![c] = y] /\ inbox' = inbox /\ x.pc = "idle"
        /\ path = "bridge" => up
    BY <1>1 DEF Dial, a, b
  <1> HIDE DEF y
  <1>6. client'[c] = y /\ Others(c)
    BY <1>1, <1>5 DEF Others
  <1>7. path \in {"bridge", "socket"}
    BY StreamAssumption
  <1> QED
    BY <1>4, <1>5, <1>6, <1>7

(* It sends its request.                                                   *)
LEMMA SendFields ==
  ASSUME TypeOK, NEW c \in Calls, Send(c)
  PROVE  /\ client[c].pc = "dialled" /\ client'[c].pc = "sent"
         /\ client'[c].path = client[c].path
         /\ client'[c].shown = client[c].shown /\ client'[c].result = client[c].result
         /\ inbox' = inbox /\ Others(c)
  <1> DEFINE x == client[c]
             y == [x EXCEPT !.pc = "sent"]
  <1>1. client \in [Calls -> ClientType] /\ x \in ClientType
    BY DEF TypeOK
  <1>2. y.pc = "sent" /\ y.shown = x.shown /\ y.result = x.result /\ y.path = x.path
    BY <1>1 DEF ClientType
  <1>3. client' = [client EXCEPT ![c] = y] /\ inbox' = inbox /\ x.pc = "dialled"
    BY <1>1 DEF Send
  <1> HIDE DEF y
  <1>4. client'[c] = y /\ Others(c)
    BY <1>1, <1>3 DEF Others
  <1> QED
    BY <1>2, <1>3, <1>4

(* It reads the end of its connection.                                     *)
LEMMA ReadEndFields ==
  ASSUME TypeOK, NEW c \in Calls, ReadEnd(c)
  PROVE  /\ Waiting(c) /\ client'[c].pc = "done" /\ client'[c].result = "closed"
         /\ client'[c].path = client[c].path /\ client'[c].shown = client[c].shown
         /\ inbox' = inbox /\ Others(c)
  <1> DEFINE x == client[c]
             a == [x EXCEPT !.pc = "done"]
             y == [a EXCEPT !.result = "closed"]
  <1>1. client \in [Calls -> ClientType] /\ x \in ClientType
    BY DEF TypeOK
  <1>2. a \in ClientType /\ a.pc = "done" /\ a.shown = x.shown /\ a.path = x.path
    BY <1>1 DEF ClientType
  <1> HIDE DEF a
  <1>3. y.pc = "done" /\ y.shown = x.shown /\ y.path = x.path /\ y.result = "closed"
    BY <1>2 DEF ClientType
  <1>4. client' = [client EXCEPT ![c] = y] /\ inbox' = inbox /\ Waiting(c)
    BY <1>1 DEF ReadEnd, a
  <1> HIDE DEF y
  <1>5. client'[c] = y /\ Others(c)
    BY <1>1, <1>4 DEF Others
  <1> QED
    BY <1>3, <1>4, <1>5

(* It leaves.                                                              *)
LEMMA LeaveFields ==
  ASSUME TypeOK, NEW c \in Calls, Leave(c)
  PROVE  /\ Waiting(c) /\ client'[c].pc \in {"left", "gone"} /\ client'[c].shown = Nothing
         /\ client'[c].path = client[c].path /\ client'[c].result = client[c].result
         /\ inbox'[c] = <<>> /\ Others(c)
  <1> DEFINE x == client[c]
             pc == IF x.pc = "sent" THEN "left" ELSE "gone"
             a == [x EXCEPT !.pc = pc]
             y == [a EXCEPT !.shown = Nothing]
  <1>1. /\ client \in [Calls -> ClientType] /\ x \in ClientType
        /\ inbox \in [Calls -> Seq(FrameType)]
    BY DEF TypeOK
  <1>2. a \in ClientType /\ a.pc = pc /\ a.result = x.result /\ a.path = x.path
    BY <1>1 DEF ClientType
  <1> HIDE DEF a
  <1>3. y.pc = pc /\ y.shown = Nothing /\ y.path = x.path /\ y.result = x.result
    BY <1>2 DEF ClientType
  <1>4. /\ client' = [client EXCEPT ![c] = y] /\ inbox' = [inbox EXCEPT ![c] = <<>>]
        /\ Waiting(c)
    BY <1>1 DEF Leave, a
  <1> HIDE DEF y
  <1>5. client'[c] = y /\ inbox'[c] = <<>> /\ Others(c)
    BY <1>1, <1>4 DEF Others
  <1> QED
    BY <1>3, <1>4, <1>5

(* ReadStream shows data, and ends with the frame that ends the answer.    *)
LEMMA HeardShown ==
  ASSUME NEW x \in ClientType, NEW frame \in FrameType, NEW y, y = Heard(x, frame)
  PROVE  /\ y.path = x.path
         /\ \/ /\ y.pc = "done" /\ y.shown = x.shown /\ x.request = "query"
               /\ y.result = "answered"
            \/ /\ y.pc = "done" /\ y.shown = x.shown /\ frame.kind = "exit"
               /\ y.result = "exit"
            \/ /\ y.pc = "done" /\ y.shown = x.shown /\ frame.kind = "answer"
               /\ y.result = "invalid"
            \/ /\ y.pc = x.pc /\ y.result = x.result /\ frame.kind = "data"
               /\ \A s \in Streams : y.shown[s] = x.shown[s] \o Piece(s, frame)
  <1> DEFINE h == [x EXCEPT !.heard = @ \cup {frame.of}]
  <1>1. /\ h \in ClientType /\ h.path = x.path /\ h.request = x.request /\ h.pc = x.pc
        /\ h.shown = x.shown /\ h.result = x.result
    BY DEF ClientType, FrameType
  <1> HIDE DEF h
  <1>2. ASSUME NEW result \in {"answered", "exit", "invalid"},
               y = [h EXCEPT !.pc = "done", !.result = result]
        PROVE  y.path = x.path /\ y.pc = "done" /\ y.shown = x.shown /\ y.result = result
    <2> DEFINE z == [h EXCEPT !.pc = "done"]
    <2>1. z \in ClientType /\ z.path = x.path /\ z.pc = "done" /\ z.shown = x.shown
      BY <1>1 DEF ClientType
    <2>2. y = [z EXCEPT !.result = result]
      BY <1>2 DEF z
    <2> HIDE DEF z
    <2> QED
      BY <2>1, <2>2 DEF ClientType
  <1>3. ASSUME y = [h EXCEPT !.shown[frame.stream] = @ \o frame.data], frame.kind = "data"
        PROVE  /\ y.path = x.path /\ y.pc = x.pc /\ y.result = x.result
               /\ \A s \in Streams : y.shown[s] = x.shown[s] \o Piece(s, frame)
    <2> DEFINE shown == [h.shown EXCEPT ![frame.stream] = @ \o frame.data]
    <2>1. h.shown \in [Streams -> Output] /\ frame.data \in Output
      BY <1>1 DEF ClientType, FrameType
    <2>2. ASSUME NEW s \in Streams
          PROVE  shown[s] = x.shown[s] \o Piece(s, frame)
      <3>1. x.shown[s] \o <<>> = x.shown[s]
        BY <1>1, <2>1, OutputFacts
      <3> QED
        BY <1>1, <1>3, <2>1, <3>1 DEF Piece
    <2>3. y = [h EXCEPT !.shown = shown]
      BY <1>3
    <2> HIDE DEF shown
    <2>4. y.shown = shown /\ y.path = x.path /\ y.pc = x.pc /\ y.result = x.result
      BY <1>1, <2>3 DEF ClientType
    <2> QED
      BY <2>2, <2>4
  <1>4. x.request \in {"execute", "query"} /\ frame.kind \in {"data", "exit", "answer"}
    BY DEF ClientType, FrameType
  <1>5. CASE x.request = "query"
    <2>1. y = [h EXCEPT !.pc = "done", !.result = "answered"]
      BY <1>5 DEF Heard, h
    <2> QED
      BY <1>2, <1>5, <2>1
  <1>6. CASE x.request = "execute"
    <2>1. CASE frame.kind = "exit"
      <3>1. y = [h EXCEPT !.pc = "done", !.result = "exit"]
        BY <1>6, <2>1 DEF Heard, h
      <3> QED
        BY <1>2, <2>1, <3>1
    <2>2. CASE frame.kind = "data"
      <3>1. y = [h EXCEPT !.shown[frame.stream] = @ \o frame.data]
        BY <1>6, <2>2 DEF Heard, h
      <3> QED
        BY <1>3, <2>2, <3>1
    <2>3. CASE frame.kind = "answer"
      <3>1. y = [h EXCEPT !.pc = "done", !.result = "invalid"]
        BY <1>6, <2>3 DEF Heard, h
      <3> QED
        BY <1>2, <2>3, <3>1
    <2> QED
      BY <1>4, <2>1, <2>2, <2>3
  <1> QED
    BY <1>4, <1>5, <1>6

(* It reads a frame.                                                       *)
LEMMA ReadFields ==
  ASSUME TypeOK, NEW c \in Calls, Read(c)
  PROVE  /\ client[c].pc = "sent" /\ inbox[c] # <<>> /\ inbox'[c] = Tail(inbox[c]) /\ Others(c)
         /\ client'[c].path = client[c].path
         /\ \/ /\ client'[c].pc = "done" /\ client'[c].shown = client[c].shown
               /\ client'[c].result = "exit" => Head(inbox[c]).kind = "exit"
            \/ /\ client'[c].pc = "sent" /\ client'[c].result = client[c].result
               /\ Has(inbox[c], "data")
               /\ \A s \in Streams :
                    client'[c].shown[s] = client[c].shown[s] \o Piece(s, Head(inbox[c]))
  <1> DEFINE x == client[c]
             frame == Head(inbox[c])
             y == Heard(x, frame)
  <1>1. /\ client \in [Calls -> ClientType] /\ x \in ClientType
        /\ inbox \in [Calls -> Seq(FrameType)]
    BY DEF TypeOK
  <1>2. /\ x.pc = "sent" /\ inbox[c] # <<>> /\ inbox' = [inbox EXCEPT ![c] = Tail(inbox[c])]
        /\ client' = [client EXCEPT ![c] = y]
    BY DEF Read
  <1>3. frame \in FrameType /\ (frame.kind = "data" => Has(inbox[c], "data"))
    BY <1>1, <1>2, HeadTailProperties, EmptySeq, LenProperties DEF Has
  <1> HIDE DEF frame
  <1>4. /\ y.path = x.path
        /\ \/ /\ y.pc = "done" /\ y.shown = x.shown /\ x.request = "query"
              /\ y.result = "answered"
           \/ /\ y.pc = "done" /\ y.shown = x.shown /\ frame.kind = "exit"
              /\ y.result = "exit"
           \/ /\ y.pc = "done" /\ y.shown = x.shown /\ frame.kind = "answer"
              /\ y.result = "invalid"
           \/ /\ y.pc = x.pc /\ y.result = x.result /\ frame.kind = "data"
              /\ \A s \in Streams : y.shown[s] = x.shown[s] \o Piece(s, frame)
    BY <1>1, <1>3, HeardShown
  <1> HIDE DEF y
  <1>5. client'[c] = y /\ inbox'[c] = Tail(inbox[c]) /\ Others(c)
    BY <1>1, <1>2 DEF Others
  <1> QED
    BY <1>2, <1>3, <1>4, <1>5 DEF frame

(***************************************************************************)
(* OnceInv is preserved.                                                   *)
(***************************************************************************)
LEMMA OnceInit == Init => OnceInv
  <1> SUFFICES ASSUME Init PROVE OnceInv
    OBVIOUS
  <1>1. \A c \in Calls : Clean(c) /\ Once(c)
    BY DEF Init, Clean, Once
  <1>2. \A c \in Calls : ExitLast(c)
    BY EmptySeq DEF Init, ExitLast
  <1> QED
    BY <1>1, <1>2 DEF Init, OnceInv

(* What does not concern a call.                                           *)
LEMMA CleanSame ==
  ASSUME NEW d \in Calls, Clean(d), client'[d] = client[d], gh'[d] = gh[d],
         written'[d] = written[d], up' => up
  PROVE  Clean(d)'
  BY DEF Clean, Reached, Waiting

LEMMA ExitLastSame ==
  ASSUME NEW d \in Calls, ExitLast(d), inbox'[d] = inbox[d], closed \subseteq closed',
         gh'[d].pc \in {"run", "ended"} => gh[d].pc \in {"run", "ended"}
  PROVE  ExitLast(d)'
  BY DEF ExitLast

(* What the steps of a client have in common.                              *)
ClientChange(c) ==
  /\ Others(c)
  /\ client'[c].pc # "idle"
  /\ Waiting(c) \/ client[c].pc = "idle"
  /\ client[c].pc # "idle" => client'[c].path = client[c].path
  /\ client'[c].pc \in {"left", "gone"} => client'[c].shown = Nothing
  /\ client'[c].result \in {"exit", "invalid"} =>
       client'[c].pc = "done" \/ client'[c].result = client[c].result
  /\ client'[c].shown \in {client[c].shown, Nothing} \/ Has(inbox[c], "data")
  /\ \/ inbox'[c] \in {inbox[c], <<>>}
     \/ inbox[c] # <<>> /\ inbox'[c] = Tail(inbox[c])

LEMMA ClientChanges ==
  ASSUME TypeOK, NEW c \in Calls,
         \/ \E path \in Paths, request \in Requests : Dial(c, path, request)
         \/ Send(c) \/ Read(c) \/ ReadEnd(c) \/ Leave(c)
  PROVE  ClientChange(c)
  <1>1. ASSUME NEW path \in Paths, NEW request \in Requests, Dial(c, path, request)
        PROVE  ClientChange(c)
    BY <1>1, DialFields DEF ClientChange
  <1>2. CASE Send(c)
    BY <1>2, SendFields DEF ClientChange, Waiting
  <1>3. CASE Read(c)
    BY <1>3, ReadFields DEF ClientChange, Waiting
  <1>4. CASE ReadEnd(c)
    BY <1>4, ReadEndFields DEF ClientChange
  <1>5. CASE Leave(c)
    BY <1>5, LeaveFields DEF ClientChange, Waiting
  <1> QED
    BY <1>1, <1>2, <1>3, <1>4, <1>5

(* The steps of a client.                                                  *)
LEMMA OnceClient ==
  ASSUME StreamInv, OnceInv, NEW c \in Calls,
         \/ \E path \in Paths, request \in Requests : Dial(c, path, request)
         \/ Send(c) \/ Read(c) \/ ReadEnd(c) \/ Leave(c)
  PROVE  OnceInv'
  <1>0. TypeOK
    BY DEF StreamInv
  <1>1. /\ UNCHANGED <<closed, up, holder, passed, toHost, gh>>
        /\ written' = written \/ written' = [written EXCEPT ![c] = Nothing]
    BY DEF Dial, Send, Read, ReadEnd, Leave, history, bridgeVars
  <1>2. ClientChange(c)
    BY <1>0, ClientChanges
  <1>3. ASSUME NEW d \in Calls
        PROVE  Clean(d)'
    <2>1. CASE d # c
      <3>1. client'[d] = client[d] /\ written'[d] = written[d] /\ Clean(d)
        BY <1>0, <1>1, <1>2, <2>1 DEF ClientChange, Others, OnceInv, TypeOK
      <3> QED
        BY <1>1, <3>1, CleanSame
    <2>2. CASE d = c
      <3>1. Clean(c)
        BY DEF OnceInv
      <3>2. client'[c].result = "exit" => client'[c].pc = "done"
        BY <1>2, <3>1 DEF ClientChange, Clean, Waiting
      <3>3. gh[c].broken => ~Reached(c)'
        <4>1. SUFFICES ASSUME gh[c].broken PROVE ~Reached(c)'
          OBVIOUS
        <4>2. client[c].pc # "idle" /\ ~Reached(c)
          BY <3>1, <4>1 DEF Clean
        <4>3. client[c].path = "bridge" /\ ~up /\ client'[c].path = "bridge"
          BY <1>2, <4>2 DEF ClientChange, Reached
        <4> QED
          BY <1>1, <4>3 DEF Reached
      <3> QED
        BY <1>1, <1>2, <2>2, <3>1, <3>2, <3>3 DEF Clean, ClientChange
    <2> QED
      BY <2>1, <2>2
  <1>4. ASSUME NEW d \in Calls
        PROVE  Once(d)'
    <2>1. Once(d) /\ Clean(d)
      BY DEF OnceInv
    <2> QED
      BY <1>1, <1>2, <2>1 DEF Once, Clean, ClientChange, Others
  <1>5. ASSUME NEW d \in Calls
        PROVE  ExitLast(d)'
    <2>0. ExitLast(d)
      BY DEF OnceInv
    <2>1. CASE inbox'[d] = inbox[d]
      BY <1>1, <2>0, <2>1, ExitLastSame
    <2>2. CASE inbox'[d] = <<>>
      BY <2>2, EmptySeq DEF ExitLast
    <2>3. CASE inbox[d] # <<>> /\ inbox'[d] = Tail(inbox[d])
      <3>1. /\ Len(inbox'[d]) = Len(inbox[d]) - 1 /\ Len(inbox[d]) \in Nat
            /\ \A i \in 1 .. Len(inbox[d]) - 1 : inbox'[d][i] = inbox[d][i + 1]
        BY <1>0, <2>3, HeadTailProperties, LenProperties DEF TypeOK
      <3>2. ASSUME NEW i \in 1 .. Len(inbox'[d]), inbox'[d][i].kind = "exit"
            PROVE  i = Len(inbox'[d]) /\ d \in closed /\ gh[d].pc \notin {"run", "ended"}
        <4>1. i + 1 \in 1 .. Len(inbox[d]) /\ inbox'[d][i] = inbox[d][i + 1]
          BY <3>1
        <4>2. i + 1 = Len(inbox[d]) /\ d \in closed /\ gh[d].pc \notin {"run", "ended"}
          BY <2>0, <3>2, <4>1 DEF ExitLast
        <4> QED
          BY <3>1, <4>2
      <3> QED
        BY <1>1, <3>2 DEF ExitLast
    <2> QED
      BY <1>2, <2>1, <2>2, <2>3 DEF ClientChange, Others
  <1> QED
    BY <1>1, <1>3, <1>4, <1>5 DEF OnceInv

(* Over the bridge, only the call whose turn it is may have a gh.          *)
LEMMA OnceBridge ==
  ASSUME StreamInv, OnceInv, NEW c \in Calls, Lock(c) \/ Pass(c)
  PROVE  OnceInv'
  <1>0. TypeOK /\ c # NoCall
    BY DEF StreamInv, Calls, NoCall
  <1>1. UNCHANGED <<client, inbox, up, gh, written>>
    BY DEF Lock, Pass, history
  <1>2. closed \subseteq closed' /\ holder' \notin closed'
    BY <1>0 DEF Lock, Pass, Release, OnceInv, TypeOK, Calls, NoCall
  <1>3. ASSUME NEW d \in Calls
        PROVE  Clean(d)' /\ ExitLast(d)'
    <2>1. Clean(d) /\ ExitLast(d)
      BY DEF OnceInv
    <2> QED
      BY <1>1, <1>2, <2>1, CleanSame, ExitLastSame
  <1>4. ASSUME NEW d \in Calls
        PROVE  Once(d)'
    <2>1. Once(d) /\ d # NoCall /\ holder \notin closed
      BY DEF OnceInv, Calls, NoCall
    <2> QED
      BY <1>0, <1>1, <1>2, <2>1 DEF Once, Lock, Pass, Release
  <1> QED
    BY <1>2, <1>3, <1>4 DEF OnceInv

(* The bridge's end takes the turn away, and the execution cannot send.    *)
LEMMA OnceCollapse ==
  ASSUME StreamInv, OnceInv, Collapse
  PROVE  OnceInv'
  <1>1. /\ UNCHANGED <<client, inbox, gh, written>> /\ up' = FALSE /\ holder' = NoCall
        /\ closed' = closed \cup {d \in Calls : client[d].path = "bridge" /\ client[d].pc # "idle"}
    BY DEF Collapse, history
  <1>2. NoCall \notin closed'
    BY <1>1 DEF StreamInv, TypeOK, Calls, NoCall
  <1>3. ASSUME NEW d \in Calls
        PROVE  Clean(d)' /\ ExitLast(d)' /\ Once(d)'
    <2>1. Clean(d) /\ ExitLast(d)
      BY DEF OnceInv
    <2>2. Clean(d)' /\ ExitLast(d)'
      BY <1>1, <2>1, CleanSame, ExitLastSame
    <2>3. Once(d)'
      BY <1>1, <2>1 DEF Once, Clean
    <2> QED
      BY <2>2, <2>3
  <1> QED
    BY <1>1, <1>2, <1>3 DEF OnceInv

(* The exit frame is the last thing to be relayed.                         *)
LEMMA OnceRelay ==
  ASSUME StreamInv, OnceInv, NEW c \in Calls, Relay(c)
  PROVE  OnceInv'
  <1> DEFINE frame == Head(toBridge)
  <1>0. TypeOK /\ TurnInv /\ BridgeInv /\ GhInv /\ c # NoCall
    BY DEF StreamInv, Calls, NoCall
  <1>1. /\ holder = c /\ passed /\ toBridge # <<>>
        /\ inbox' = IF Waiting(c) THEN [inbox EXCEPT ![c] = Append(@, frame)] ELSE inbox
        /\ IF EndsAnswer(c, frame) THEN Release(c) ELSE UNCHANGED <<holder, closed>>
        /\ UNCHANGED <<client, up, passed, toHost, gh, written>>
    BY DEF Relay, history
  <1>2. frame \in FrameType /\ frame = toBridge[1] /\ 1 \in 1 .. Len(toBridge)
    BY <1>0, <1>1, HeadTailProperties, EmptySeq, LenProperties DEF TypeOK
  <1>3. EndsAnswer(c, frame) => serving = NoCall
    BY <1>0, <1>1, <1>2 DEF BridgeInv
  <1>4. frame.kind = "exit" => c \in closed' /\ gh[c].pc \notin {"run", "ended"}
    <2>1. SUFFICES ASSUME frame.kind = "exit" PROVE c \in closed' /\ gh[c].pc \notin {"run", "ended"}
      OBVIOUS
    <2>2. EndsAnswer(c, frame)
      BY <2>1 DEF EndsAnswer
    <2>3. client[c].path = "bridge" /\ serving = NoCall
      BY <1>0, <1>1, <1>3, <2>2 DEF TurnInv
    <2> QED
      BY <1>0, <1>1, <2>2, <2>3 DEF GhInv, Release
  <1> HIDE DEF frame
  <1>5. closed \subseteq closed' /\ holder' \notin closed'
    BY <1>0, <1>1 DEF Release, OnceInv, TypeOK, Calls, NoCall
  <1>6. ASSUME NEW d \in Calls
        PROVE  Clean(d)' /\ Once(d)'
    <2>1. Clean(d) /\ Once(d)
      BY DEF OnceInv
    <2>2. Clean(d)'
      BY <1>1, <2>1, CleanSame
    <2>3. Once(d)'
      BY <1>0, <1>1, <2>1 DEF Once, Release
    <2> QED
      BY <2>2, <2>3
  <1>7. ASSUME NEW d \in Calls
        PROVE  ExitLast(d)'
    <2>0. ExitLast(d)
      BY DEF OnceInv
    <2>1. CASE inbox'[d] = inbox[d]
      BY <1>1, <1>5, <2>0, <2>1, ExitLastSame
    <2>2. CASE d = c /\ inbox'[d] = Append(inbox[d], frame)
      <3>1. /\ inbox[d] \in Seq(FrameType) /\ Len(inbox[d]) \in Nat
            /\ Len(inbox'[d]) = Len(inbox[d]) + 1
            /\ \A i \in 1 .. Len(inbox[d]) : inbox'[d][i] = inbox[d][i]
            /\ inbox'[d][Len(inbox[d]) + 1] = frame
        BY <1>0, <1>2, <2>2, AppendProperties, LenProperties DEF TypeOK
      <3>2. \A i \in 1 .. Len(inbox[d]) : inbox[d][i].kind # "exit"
        BY <1>1, <2>0, <2>2 DEF ExitLast, OnceInv
      <3>3. ASSUME NEW i \in 1 .. Len(inbox'[d]), inbox'[d][i].kind = "exit"
            PROVE  i = Len(inbox'[d]) /\ frame.kind = "exit"
        <4>1. i \in 1 .. Len(inbox[d]) \/ i = Len(inbox[d]) + 1
          BY <3>1
        <4> QED
          BY <3>1, <3>2, <3>3, <4>1
      <3> QED
        BY <1>1, <1>4, <2>2, <3>3 DEF ExitLast
    <2> QED
      BY <1>0, <1>1, <2>1, <2>2 DEF TypeOK
  <1> QED
    BY <1>5, <1>6, <1>7 DEF OnceInv

(* A sequence of frames has a kind when one of its parts has.              *)
LEMMA HasNone ==
  ASSUME NEW kind
  PROVE  ~Has(<<>>, kind)
  BY EmptySeq DEF Has

LEMMA HasOne ==
  ASSUME NEW frame \in FrameType, NEW kind, Has(<<frame>>, kind)
  PROVE  frame.kind = kind
  BY DEF Has

LEMMA HasTail ==
  ASSUME NEW frames \in Seq(FrameType), frames # <<>>, NEW kind
  PROVE  /\ Has(Tail(frames), kind) => Has(frames, kind)
         /\ Head(frames).kind = kind => Has(frames, kind)
  <1>1. /\ Len(frames) \in Nat /\ Len(Tail(frames)) = Len(frames) - 1 /\ 1 \in 1 .. Len(frames)
        /\ Head(frames) = frames[1]
        /\ \A i \in 1 .. Len(frames) - 1 : Tail(frames)[i] = frames[i + 1]
    BY HeadTailProperties, LenProperties, EmptySeq
  <1>2. \A i \in 1 .. Len(frames) - 1 : i + 1 \in 1 .. Len(frames)
    BY <1>1
  <1> QED
    BY <1>1, <1>2 DEF Has

LEMMA HasConcat ==
  ASSUME NEW f \in Seq(FrameType), NEW g \in Seq(FrameType), NEW kind, Has(f \o g, kind)
  PROVE  Has(f, kind) \/ Has(g, kind)
  <1>1. /\ Len(f) \in Nat /\ Len(g) \in Nat /\ Len(f \o g) = Len(f) + Len(g)
        /\ \A i \in 1 .. Len(f) + Len(g) :
             (f \o g)[i] = IF i <= Len(f) THEN f[i] ELSE g[i - Len(f)]
    BY ConcatProperties, LenProperties
  <1>2. PICK i \in 1 .. Len(f \o g) : (f \o g)[i].kind = kind
    BY DEF Has
  <1>3. CASE i <= Len(f)
    <2>1. i \in 1 .. Len(f) /\ f[i].kind = kind
      BY <1>1, <1>2, <1>3
    <2> QED
      BY <2>1 DEF Has
  <1>4. CASE ~(i <= Len(f))
    <2>1. i - Len(f) \in 1 .. Len(g) /\ g[i - Len(f)].kind = kind
      BY <1>1, <1>2, <1>4
    <2> QED
      BY <2>1 DEF Has
  <1> QED
    BY <1>3, <1>4

(* The call's frames on the pipe, and whether what is sent can arrive.     *)
Pipe(c) == IF holder = c THEN toBridge ELSE <<>>
Live(c) == client[c].path = "socket" \/ up

(* Frames are sent to one call only, and arrive as long as it is there.    *)
LEMMA EncodeEffect ==
  ASSUME StreamInv, NEW c \in Calls, NEW frames, Encode(c, frames),
         client[c].path = "bridge" /\ up => holder = c,
         UNCHANGED <<client, up, holder>>
  PROVE  /\ \A d \in Calls \ {c} : inbox'[d] = inbox[d] /\ Pipe(d)' = Pipe(d)
         /\ inbox'[c] # inbox[c] =>
              inbox'[c] = inbox[c] \o frames /\ client[c].path = "socket"
         /\ Waiting(c) /\ Live(c) /\ ~gh[c].broken =>
              \/ inbox'[c] = inbox[c] /\ Pipe(c)' = Pipe(c) \o frames
              \/ inbox'[c] = inbox[c] \o frames /\ Pipe(c)' = <<>> /\ Pipe(c) = <<>>
  <1>1. inbox \in [Calls -> Seq(FrameType)] /\ client[c].path \in {"bridge", "socket"}
    BY DEF StreamInv, TypeOK, ClientType
  <1>2. holder = c => client[c].path = "bridge" /\ up
    BY DEF StreamInv, TurnInv, Calls, NoCall
  <1>3. CASE ~(Reached(c) /\ ~gh[c].broken)
    <2>1. inbox' = inbox /\ toBridge' = toBridge
      BY <1>3 DEF Encode
    <2>2. ~(Waiting(c) /\ Live(c) /\ ~gh[c].broken)
      BY <1>1, <1>3 DEF Reached, Live
    <2> QED
      BY <2>1, <2>2 DEF Pipe
  <1>4. CASE Reached(c) /\ ~gh[c].broken /\ client[c].path = "bridge"
    <2>1. inbox' = inbox /\ toBridge' = toBridge \o frames /\ holder = c
      BY <1>4 DEF Encode, Reached
    <2> QED
      BY <2>1 DEF Pipe
  <1>5. CASE Reached(c) /\ ~gh[c].broken /\ client[c].path = "socket"
    <2>1. toBridge' = toBridge /\ inbox' = [inbox EXCEPT ![c] = @ \o frames] /\ holder # c
      BY <1>2, <1>5 DEF Encode
    <2>2. inbox'[c] = inbox[c] \o frames /\ \A d \in Calls \ {c} : inbox'[d] = inbox[d]
      BY <1>1, <2>1
    <2> QED
      BY <1>5, <2>1, <2>2 DEF Pipe
  <1> QED
    BY <1>1, <1>3, <1>4, <1>5

(* An exit frame that is the last of the frames sent is the last of all.   *)
LEMMA ExitAppended ==
  ASSUME NEW box \in Seq(FrameType), NEW frames \in Seq(FrameType),
         \A i \in 1 .. Len(box) : box[i].kind # "exit",
         \A i \in 1 .. Len(frames) : frames[i].kind = "exit" => i = Len(frames),
         NEW i \in 1 .. Len(box \o frames), (box \o frames)[i].kind = "exit"
  PROVE  /\ i = Len(box \o frames)
         /\ \E j \in 1 .. Len(frames) : frames[j].kind = "exit"
  <1> DEFINE all == box \o frames
             m == Len(box)
             n == Len(frames)
  <1>1. /\ Len(all) = m + n /\ m \in Nat /\ n \in Nat
        /\ \A k \in 1 .. m + n : all[k] = IF k <= m THEN box[k] ELSE frames[k - m]
    BY ConcatProperties, LenProperties
  <1> HIDE DEF all, m, n
  <1>2. i \in 1 .. m + n /\ all[i].kind = "exit"
    BY <1>1 DEF all
  <1>3. ~(i <= m)
    <2>1. SUFFICES ASSUME i <= m PROVE FALSE
      OBVIOUS
    <2>2. all[i] = box[i] /\ i \in 1 .. m
      BY <1>1, <1>2, <2>1
    <2> QED
      BY <1>2, <2>2 DEF m
  <1> DEFINE j == i - m
  <1>4. j \in 1 .. n /\ all[i] = frames[j] /\ i = m + j
    BY <1>1, <1>2, <1>3
  <1> HIDE DEF j
  <1>5. j = n
    BY <1>2, <1>4 DEF n
  <1> QED
    BY <1>1, <1>2, <1>4, <1>5 DEF all, n

(* A step that sends frames for one call and keeps its client.             *)
LEMMA OnceSends ==
  ASSUME StreamInv, OnceInv, NEW c \in Calls, NEW frames \in Seq(FrameType), Encode(c, frames),
         client[c].path = "bridge" /\ up => holder = c,
         \A i \in 1 .. Len(frames) : frames[i].kind = "exit" => i = Len(frames),
         UNCHANGED <<client, up, holder>>,
         closed \subseteq closed',
         \A i \in 1 .. Len(inbox[c]) : inbox[c][i].kind # "exit",
         (\E i \in 1 .. Len(frames) : frames[i].kind = "exit") /\ client[c].path = "socket" =>
            c \in closed' /\ gh'[c].pc \notin {"run", "ended"},
         \A d \in Calls \ {c} : gh'[d] = gh[d]
  PROVE  \A d \in Calls : ExitLast(d)'
  <1>1. /\ \A d \in Calls \ {c} : inbox'[d] = inbox[d]
        /\ inbox'[c] # inbox[c] =>
              inbox'[c] = inbox[c] \o frames /\ client[c].path = "socket"
    BY EncodeEffect
  <1>2. ASSUME NEW d \in Calls \ {c} PROVE ExitLast(d)'
    <2>1. ExitLast(d)
      BY DEF OnceInv
    <2> QED
      BY <1>1, <2>1, ExitLastSame
  <1>3. ExitLast(c)'
    <2>1. CASE inbox'[c] = inbox[c]
      BY <2>1 DEF ExitLast
    <2>2. CASE inbox'[c] # inbox[c]
      <3>1. inbox[c] \in Seq(FrameType)
        BY DEF StreamInv, TypeOK
      <3>2. ASSUME NEW i \in 1 .. Len(inbox'[c]), inbox'[c][i].kind = "exit"
            PROVE  i = Len(inbox'[c]) /\ c \in closed' /\ gh'[c].pc \notin {"run", "ended"}
        <4>1. /\ i \in 1 .. Len(inbox[c] \o frames) /\ (inbox[c] \o frames)[i].kind = "exit"
              /\ client[c].path = "socket" /\ inbox'[c] = inbox[c] \o frames
          BY <1>1, <2>2, <3>2
        <4>2. i = Len(inbox[c] \o frames) /\ \E j \in 1 .. Len(frames) : frames[j].kind = "exit"
          BY <3>1, <4>1, ExitAppended
        <4> QED
          BY <4>1, <4>2
      <3> QED
        BY <3>2 DEF ExitLast
    <2> QED
      BY <2>1, <2>2
  <1> QED
    BY <1>2, <1>3

(* A call whose connection is open, or whose gh runs, got no exit frame.   *)
LEMMA NoExitYet ==
  ASSUME OnceInv, NEW c \in Calls, c \notin closed \/ gh[c].pc \in {"run", "ended"}
  PROVE  \A i \in 1 .. Len(inbox[c]) : inbox[c][i].kind # "exit"
  BY DEF OnceInv, ExitLast

(* HandleAgent answers with one frame, or lets gh run.                     *)
LEMMA HandleFrames ==
  ASSUME TypeOK, NEW c \in Calls, HandleAgent(c)
  PROVE  \/ /\ \E frame \in FrameType : frame.kind # "data" /\ Encode(c, <<frame>>)
            /\ Served(c) /\ gh' = gh
         \/ /\ gh' = [gh EXCEPT ![c].pc = "run"]
            /\ UNCHANGED <<closed, inbox, toBridge>>
  <1>1. <<>> \in Output
    BY DEF Output
  <1>2. \A error \in BOOLEAN : Answer(c, error) \in FrameType /\ Answer(c, error).kind = "answer"
    BY <1>1 DEF Answer, FrameType
  <1>3. ExitFrame(c) \in FrameType /\ ExitFrame(c).kind = "exit"
    BY <1>1 DEF ExitFrame, FrameType
  <1> HIDE DEF Answer, ExitFrame
  <1> QED
    BY <1>2, <1>3 DEF HandleAgent

(* gh starts or ends.                                                      *)
LEMMA RunFields ==
  ASSUME gh \in [Calls -> GhType], NEW c \in Calls,
         NEW pc \in {"run", "ended"}, gh' = [gh EXCEPT ![c].pc = pc]
  PROVE  /\ gh'[c].pc = pc /\ gh'[c].pending = gh[c].pending /\ gh'[c].broken = gh[c].broken
         /\ \A d \in Calls \ {c} : gh'[d] = gh[d]
  BY DEF GhType

(* A request is handled while its call has no gh and has got no exit frame.*)
LEMMA RequestTurn ==
  ASSUME StreamInv, OnceInv, TakeRequest
  PROVE  /\ holder \in Calls /\ client[holder].path = "bridge" /\ client[holder].pc # "idle"
         /\ gh[holder].pc = "none" /\ holder \notin closed /\ passed /\ toHost' = <<>>
         /\ HandleAgent(holder)
         /\ UNCHANGED <<client, up, holder, passed, written>>
  <1>1. /\ up /\ serving = NoCall /\ toHost # <<>>
        /\ \E n \in 1 .. Len(toHost) : toHost' = SubSeq(toHost, n + 1, Len(toHost))
        /\ HandleAgent(Head(toHost))
        /\ UNCHANGED <<client, up, holder, passed, written>>
    BY DEF TakeRequest, history
  <1>2. toHost = <<holder>> /\ holder # NoCall /\ passed
    BY <1>1 DEF StreamInv, TurnInv
  <1>3. Head(toHost) = holder /\ Len(toHost) = 1
    BY <1>2
  <1>4. toHost' = <<>>
    <2>1. toHost' = SubSeq(toHost, 2, 1)
      BY <1>1, <1>3
    <2> QED
      BY <2>1, SubSeqEmpty
  <1>5. holder \in Calls /\ client[holder].path = "bridge" /\ client[holder].pc # "idle"
    BY <1>2 DEF StreamInv, TurnInv, TypeOK
  <1>6. holder \notin closed /\ Once(holder)
    BY <1>5 DEF OnceInv
  <1>7. gh[holder].pc = "none"
    BY <1>1, <1>5, <1>6 DEF Once
  <1> QED
    BY <1>1, <1>2, <1>3, <1>4, <1>5, <1>6, <1>7

LEMMA OnceHandle ==
  ASSUME StreamInv, OnceInv, NEW c \in Calls, HandleAgent(c), gh[c].pc = "none", c \notin closed,
         client[c].pc # "idle",
         client[c].path = "bridge" => holder = c /\ passed /\ toHost' = <<>>,
         client[c].path # "bridge" => toHost' = toHost,
         UNCHANGED <<client, up, holder, passed, written>>
  PROVE  OnceInv'
  <1>0. TypeOK /\ client[c].path \in {"bridge", "socket"} /\ holder \notin closed
    BY DEF StreamInv, TypeOK, ClientType, OnceInv
  <1>1. \A i \in 1 .. Len(inbox[c]) : inbox[c][i].kind # "exit"
    BY NoExitYet
  <1>2. CASE /\ \E frame \in FrameType : frame.kind # "data" /\ Encode(c, <<frame>>)
             /\ Served(c) /\ gh' = gh
    <2>1. PICK frame \in FrameType : Encode(c, <<frame>>)
      BY <1>2
    <2>2. <<frame>> \in Seq(FrameType) /\ Len(<<frame>>) = 1
      OBVIOUS
    <2>3. closed \subseteq closed' /\ (client[c].path = "socket" => c \in closed')
      BY <1>0, <1>2 DEF Served
    <2> DEFINE frames == <<frame>>
    <2>8. /\ frames \in Seq(FrameType) /\ Encode(c, frames)
          /\ \A i \in 1 .. Len(frames) : i = Len(frames)
      BY <2>1, <2>2
    <2>9. gh'[c].pc \notin {"run", "ended"} /\ \A d \in Calls \ {c} : gh'[d] = gh[d]
      BY <1>2
    <2> HIDE DEF frames
    <2>4. \A d \in Calls : ExitLast(d)'
      BY <1>1, <2>3, <2>8, <2>9, OnceSends
    <2>5. holder' \notin closed'
      <3>1. client[c].path = "socket" => holder # c
        BY DEF StreamInv, TurnInv, Calls, NoCall
      <3> QED
        BY <1>0, <1>2, <3>1 DEF Served
    <2>6. \A d \in Calls : Clean(d)'
      BY <1>2, CleanSame DEF OnceInv
    <2>7. ASSUME NEW d \in Calls PROVE Once(d)'
      <3>1. Once(d)
        BY DEF OnceInv
      <3> QED
        BY <1>0, <1>2, <2>3, <3>1 DEF Once
    <2> QED
      BY <2>4, <2>5, <2>6, <2>7 DEF OnceInv
  <1>3. CASE /\ gh' = [gh EXCEPT ![c].pc = "run"]
             /\ UNCHANGED <<closed, inbox, toBridge>>
    <2>1. /\ gh'[c].pc = "run" /\ gh'[c].pending = gh[c].pending /\ gh'[c].broken = gh[c].broken
          /\ \A d \in Calls \ {c} : gh'[d] = gh[d]
      BY <1>0, <1>3, RunFields DEF TypeOK
    <2>2. ASSUME NEW d \in Calls \ {c} PROVE Clean(d)' /\ Once(d)' /\ ExitLast(d)'
      <3>1. Clean(d) /\ Once(d) /\ ExitLast(d)
        BY DEF OnceInv
      <3>2. Clean(d)' /\ ExitLast(d)'
        BY <1>3, <2>1, <3>1, CleanSame, ExitLastSame
      <3>3. Once(d)'
        BY <1>0, <1>3, <2>1, <3>1 DEF Once
      <3> QED
        BY <3>2, <3>3
    <2>3. Clean(c)' /\ Once(c)'
      <3>1. Clean(c)
        BY DEF OnceInv
      <3> QED
        BY <1>3, <2>1, <3>1 DEF Clean, Once, Reached, Waiting
    <2>4. ExitLast(c)'
      BY <1>1, <1>3 DEF ExitLast
    <2> QED
      BY <1>0, <1>3, <2>2, <2>3, <2>4 DEF OnceInv
  <1> QED
    BY <1>0, <1>2, <1>3, HandleFrames

(* A request over the bridge.                                              *)
LEMMA OnceTakeRequest ==
  ASSUME StreamInv, OnceInv, TakeRequest
  PROVE  OnceInv'
  BY RequestTurn, OnceHandle

(* A request over a socket.                                                *)
LEMMA OnceTakeConnection ==
  ASSUME StreamInv, OnceInv, NEW c \in Calls, TakeConnection(c)
  PROVE  OnceInv'
  BY OnceHandle DEF TakeConnection, bridgeVars, history

(* What changes with the bytes a filter holds.                             *)
LEMMA PendingFields ==
  ASSUME gh \in [Calls -> GhType], NEW c \in Calls, NEW s \in Streams,
         NEW bytes \in Seq(Alphabet), Pends(c, s, bytes)
  PROVE  /\ gh'[c].pc = gh[c].pc /\ gh'[c].broken = gh[c].broken
         /\ gh'[c].pending[s] = bytes
         /\ \A t \in Streams \ {s} : gh'[c].pending[t] = gh[c].pending[t]
         /\ \A d \in Calls \ {c} : gh'[d] = gh[d]
  <1> DEFINE x == gh[c]
             pending == [x.pending EXCEPT ![s] = bytes]
             y == [x EXCEPT !.pending = pending]
  <1>1. x \in GhType /\ x.pending \in [Streams -> Seq(Alphabet)]
    BY DEF GhType
  <1>2. pending[s] = bytes /\ \A t \in Streams \ {s} : pending[t] = x.pending[t]
    BY <1>1
  <1>3. gh' = [gh EXCEPT ![c] = y]
    BY DEF Pends
  <1> HIDE DEF pending
  <1>4. y.pending = pending /\ y.pc = x.pc /\ y.broken = x.broken
    BY <1>1 DEF GhType
  <1> HIDE DEF y
  <1>5. gh'[c] = y /\ \A d \in Calls \ {c} : gh'[d] = gh[d]
    BY <1>3
  <1> QED
    BY <1>2, <1>4, <1>5

(* What changes when a write fails.                                        *)
LEMMA BrokenFields ==
  ASSUME gh \in [Calls -> GhType], NEW c \in Calls, gh' = [gh EXCEPT ![c].broken = TRUE]
  PROVE  /\ gh'[c].pc = gh[c].pc /\ gh'[c].pending = gh[c].pending
         /\ \A d \in Calls \ {c} : gh'[d] = gh[d]
  BY DEF GhType

(* What changes when an execution is finished.                             *)
LEMMA FinishFields ==
  ASSUME TypeOK, NEW c \in Calls, Finish(c)
  PROVE  /\ gh[c].pc = "ended" /\ gh'[c].pc = "done" /\ gh'[c].pending = Nothing
         /\ gh'[c].broken = gh[c].broken
         /\ \A d \in Calls \ {c} : gh'[d] = gh[d]
  <1> DEFINE x == gh[c]
             y == [x EXCEPT !.pc = "done"]
             z == [y EXCEPT !.pending = Nothing]
  <1>1. gh \in [Calls -> GhType] /\ x \in GhType /\ x.pc = "ended"
    BY DEF TypeOK, Finish
  <1>2. y \in GhType /\ y.pc = "done" /\ y.broken = x.broken
    BY <1>1 DEF GhType
  <1> HIDE DEF y
  <1>3. z.pc = "done" /\ z.broken = x.broken /\ z.pending = Nothing
    BY <1>2 DEF GhType
  <1>4. gh' = [gh EXCEPT ![c] = z]
    BY <1>1 DEF Finish, y
  <1> HIDE DEF z
  <1> QED
    BY <1>1, <1>3, <1>4

(* A step of gh or its filters that sends nothing.                         *)
LEMMA OnceQuiet ==
  ASSUME StreamInv, OnceInv, NEW c \in Calls, gh[c].pc \in {"run", "ended"},
         gh'[c].pc \in {"run", "ended"}, gh'[c].broken => gh[c].broken \/ ~Reached(c),
         \A d \in Calls \ {c} : gh'[d] = gh[d] /\ written'[d] = written[d],
         UNCHANGED <<client, closed, up, holder, passed, toHost>>,
         \A d \in Calls : ExitLast(d)'
  PROVE  OnceInv'
  <1>1. ASSUME NEW d \in Calls \ {c} PROVE Clean(d)' /\ Once(d)'
    <2>1. Clean(d) /\ Once(d)
      BY DEF OnceInv
    <2>2. Clean(d)'
      BY <2>1, CleanSame
    <2> QED
      BY <2>1, <2>2 DEF Once
  <1>2. client[c].pc # "idle"
    BY DEF StreamInv, GhInv
  <1>3. Clean(c)' /\ Once(c)'
    <2>1. Clean(c) /\ Once(c)
      BY DEF OnceInv
    <2>2. Reached(c)' => Reached(c)
      BY DEF Reached, Waiting
    <2>3. Clean(c)'
      BY <1>2, <2>1, <2>2 DEF Clean
    <2>4. Once(c)'
      BY <2>1 DEF Once
    <2> QED
      BY <2>3, <2>4
  <1> QED
    BY <1>1, <1>3 DEF OnceInv

(* gh goes on, or ends.                                                    *)
GhGoesOn(c) ==
  /\ gh[c].pc = "run" /\ gh'[c].pc \in {"run", "ended"} /\ gh'[c].broken = gh[c].broken
  /\ \A d \in Calls \ {c} : gh'[d] = gh[d] /\ written'[d] = written[d]
  /\ UNCHANGED <<client, inbox, closed, up, holder, passed, toHost>>

(* gh writes, or ends.                                                     *)
LEMMA OnceGh ==
  ASSUME StreamInv, OnceInv, NEW c \in Calls, GhWritesSome(c) \/ GhEnds(c)
  PROVE  OnceInv'
  <1>0. gh \in [Calls -> GhType] /\ written \in [Calls -> [Streams -> Seq(Alphabet)]] /\ budget \in Nat
    BY DEF StreamInv, TypeOK
  <1>1. GhGoesOn(c)
    <2>1. ASSUME NEW s \in Streams, NEW n \in 1 .. budget, NEW bytes \in [1 .. n -> Alphabet],
                 GhWrites(c, s, bytes)
          PROVE  GhGoesOn(c)
      <3>1. bytes \in Seq(Alphabet)
        BY <1>0
      <3>2. gh[c].pending[s] \o bytes \in Seq(Alphabet)
        BY <1>0, <3>1, ConcatProperties DEF GhType
      <3>3. /\ gh' = [gh EXCEPT ![c].pending[s] = gh[c].pending[s] \o bytes] /\ gh[c].pc = "run"
            /\ written' = IF Waiting(c) THEN [written EXCEPT ![c][s] = @ \o bytes] ELSE written
            /\ UNCHANGED <<client, inbox, closed, up, holder, passed, toHost>>
        BY <2>1 DEF GhWrites, bridgeVars
      <3>4. /\ gh'[c].pc = gh[c].pc /\ gh'[c].broken = gh[c].broken
            /\ \A d \in Calls \ {c} : gh'[d] = gh[d]
        <4>1. Pends(c, s, gh[c].pending[s] \o bytes)
          BY <3>3 DEF Pends
        <4> QED
          BY <1>0, <3>2, <4>1, PendingFields
      <3>5. \A d \in Calls \ {c} : written'[d] = written[d]
        BY <1>0, <3>3
      <3> QED
        BY <3>3, <3>4, <3>5 DEF GhGoesOn
    <2>2. CASE GhEnds(c)
      BY <1>0, <2>2, RunFields DEF GhEnds, GhGoesOn, bridgeVars, history
    <2> QED
      BY <2>1, <2>2 DEF GhWritesSome
  <1>2. ASSUME NEW d \in Calls PROVE ExitLast(d)'
    <2>1. ExitLast(d)
      BY DEF OnceInv
    <2> QED
      BY <1>1, <2>1, ExitLastSame DEF GhGoesOn
  <1> QED
    BY <1>1, <1>2, OnceQuiet DEF GhGoesOn

(* A pass of the filter sends no exit frame.                               *)
LEMMA OnceFilter ==
  ASSUME StreamInv, OnceInv, NEW c \in Calls, NEW s \in Streams, Filter(c, s)
  PROVE  OnceInv'
  <1>0. TypeOK /\ gh \in [Calls -> GhType]
    BY DEF StreamInv, TypeOK
  <1>1. /\ gh[c].pc \in {"run", "ended"}
        /\ UNCHANGED <<client, closed, up, holder, passed, toHost, written>>
    BY DEF Filter, bridgeVars, history
  <1>2. PICK frames \in Seq(FrameType), rest \in Seq(Alphabet), e \in Output :
          FilterSends(c, s, frames, rest, e)
    BY <1>0, FilterCorrect
  <1>3. /\ gh'[c].pc = gh[c].pc /\ (gh'[c].broken => gh[c].broken \/ ~Reached(c))
        /\ \A d \in Calls \ {c} : gh'[d] = gh[d]
    <2>1. CASE Pends(c, s, rest)
      BY <1>0, <2>1, PendingFields
    <2>2. CASE ~Reached(c) /\ gh' = [gh EXCEPT ![c].broken = TRUE]
      BY <1>0, <2>2, BrokenFields
    <2> QED
      BY <1>2, <2>1, <2>2 DEF FilterSends, FilterKeepsRest
  <1>4. client[c].path = "bridge" /\ up => holder = c
    BY <1>1, GhHasTurn
  <1>5. \A i \in 1 .. Len(inbox[c]) : inbox[c][i].kind # "exit"
    BY <1>1, NoExitYet
  <1>6. Encode(c, frames) /\ \A i \in 1 .. Len(frames) : frames[i].kind # "exit"
    BY <1>2 DEF FilterSends, DataFor
  <1>7. \A d \in Calls : ExitLast(d)'
    BY <1>1, <1>3, <1>4, <1>5, <1>6, OnceSends
  <1> QED
    BY <1>1, <1>3, <1>7, OnceQuiet

(***************************************************************************)
(* The flush and the exit frame.                                           *)
(***************************************************************************)
LastFrames(c) == Flush(c, "stdout") \o Flush(c, "stderr") \o <<ExitFrame(c)>>

(* The last frames: what the filters held, and then the exit.              *)
LEMMA FinishSends ==
  ASSUME TypeOK, NEW c \in Calls
  PROVE  /\ LastFrames(c) \in Seq(FrameType)
         /\ \A i \in 1 .. Len(LastFrames(c)) :
              LastFrames(c)[i].kind = "exit" => i = Len(LastFrames(c))
         /\ ~Has(LastFrames(c), "answer")
         /\ \A s \in Streams : \A a \in Output :
              Carries(s, a, LastFrames(c), a \o gh[c].pending[s])
  <1> DEFINE p == gh[c].pending["stdout"]
             q == gh[c].pending["stderr"]
             f == Flush(c, "stdout")
             g == Flush(c, "stderr")
             h == f \o g
             x == <<ExitFrame(c)>>
  <1>1. p \in Seq(Alphabet) /\ q \in Seq(Alphabet)
    BY DEF TypeOK, GhType, Streams
  <1>2. p \in Output /\ q \in Output
    BY <1>1, SeqMonotonic DEF Output
  <1>3. /\ DataFor(c, f) /\ CarriesOnly("stdout", f, p)
        /\ DataFor(c, g) /\ CarriesOnly("stderr", g, q)
    BY <1>2, FramesCarry DEF Flush, Streams
  <1> HIDE DEF f, g
  <1>4. DataFor(c, h)
    BY <1>3, DataForConcat
  <1>5. ExitFrame(c) \in FrameType /\ ExitFrame(c).kind = "exit"
    <2>1. <<>> \in Output
      BY OutputFacts
    <2> QED
      BY <2>1 DEF ExitFrame, FrameType
  <1>6. /\ x \in Seq(FrameType) /\ Len(x) = 1 /\ x[1] = ExitFrame(c)
        /\ \A i \in 1 .. Len(x) : i = Len(x)
    BY <1>5
  <1> HIDE DEF h, x
  <1>7. h \o x \in Seq(FrameType)
    BY <1>4, <1>6, ConcatProperties DEF DataFor
  <1>8. \A i \in 1 .. Len(h) : h[i].kind # "exit"
    BY <1>4 DEF DataFor
  <1>9. \A i \in 1 .. Len(h \o x) : (h \o x)[i].kind = "exit" => i = Len(h \o x)
    <2>1. h \in Seq(FrameType)
      BY <1>4 DEF DataFor
    <2>2. ASSUME NEW i \in 1 .. Len(h \o x), (h \o x)[i].kind = "exit"
          PROVE  i = Len(h \o x)
      BY <1>6, <1>8, <2>1, <2>2, ExitAppended
    <2> QED
      BY <2>2
  <1>10. ASSUME NEW s \in Streams, NEW a \in Output
         PROVE  Carries(s, a, h \o x, a \o gh[c].pending[s])
    <2>1. Carries(s, a, h, a \o gh[c].pending[s]) /\ a \o gh[c].pending[s] \in Output
      <3>0. f \in Seq(FrameType) /\ g \in Seq(FrameType)
        BY <1>3 DEF DataFor
      <3>1. CASE s = "stdout"
        <4>1. Carries(s, a, f, a \o p) /\ a \o p \in Output
          BY <1>2, <1>3, <3>1, OutputFacts DEF CarriesOnly
        <4>2. Carries(s, a \o p, g, a \o p)
          BY <1>3, <3>1, <4>1 DEF CarriesOnly
        <4>3. Carries(s, a, f \o g, a \o p)
          BY <3>0, <4>1, <4>2, CarriesJoin
        <4> QED
          BY <3>1, <4>1, <4>3 DEF h
      <3>2. CASE s = "stderr"
        <4>1. Carries(s, a, f, a)
          BY <1>3, <3>2 DEF CarriesOnly, Streams
        <4>2. Carries(s, a, g, a \o q) /\ a \o q \in Output
          BY <1>2, <1>3, <3>2, OutputFacts DEF CarriesOnly
        <4>3. Carries(s, a, f \o g, a \o q)
          BY <3>0, <4>1, <4>2, CarriesJoin
        <4> QED
          BY <3>2, <4>2, <4>3 DEF h
      <3> QED
        BY <3>1, <3>2 DEF Streams
    <2> DEFINE b == a \o gh[c].pending[s]
    <2> HIDE DEF b
    <2>2. Carries(s, b, x, b)
      <3>1. \A i \in 1 .. Len(x) : Piece(s, x[i]) = <<>>
        BY <1>5, <1>6 DEF Piece
      <3> QED
        BY <1>6, <2>1, <3>1, CarriesOther DEF b
    <2>3. Carries(s, a, h \o x, b)
      BY <1>4, <1>6, <2>1, <2>2, CarriesJoin DEF DataFor, b
    <2> QED
      BY <2>3 DEF b
  <1>11. ~Has(h \o x, "answer")
    <2>1. h \in Seq(FrameType) /\ ~Has(h, "answer")
      BY <1>4 DEF DataFor, Has
    <2>2. ~Has(x, "answer")
      BY <1>5, <1>6 DEF Has
    <2> QED
      BY <1>6, <2>1, <2>2, HasConcat
  <1>12. LastFrames(c) = h \o x
    BY DEF LastFrames, h, x, f, g
  <1> QED
    BY <1>7, <1>9, <1>10, <1>11, <1>12

(* The exit frame is sent once, after which its connection is closed.      *)
LEMMA OnceFinish ==
  ASSUME StreamInv, OnceInv, NEW c \in Calls, Finish(c)
  PROVE  OnceInv'
  <1>0. TypeOK /\ gh \in [Calls -> GhType] /\ client[c].path \in {"bridge", "socket"}
    BY DEF StreamInv, TypeOK, ClientType
  <1>1. /\ gh[c].pc = "ended" /\ gh'[c].pc = "done" /\ gh'[c].pending = Nothing
        /\ gh'[c].broken = gh[c].broken
        /\ \A d \in Calls \ {c} : gh'[d] = gh[d]
    BY <1>0, FinishFields
  <1>2. /\ Encode(c, LastFrames(c)) /\ Served(c)
        /\ UNCHANGED <<client, up, holder, passed, toHost, written>>
    BY DEF Finish, LastFrames, bridgeVars, history
  <1>3. /\ client[c].pc # "idle"
        /\ client[c].path = "bridge" /\ up => holder = c
    BY <1>1, GhHasTurn
  <1>4. \A i \in 1 .. Len(inbox[c]) : inbox[c][i].kind # "exit"
    BY <1>1, NoExitYet
  <1>5. /\ closed \subseteq closed' /\ (client[c].path = "socket" => c \in closed')
        /\ (client[c].path = "bridge" => closed' = closed)
    BY <1>0, <1>2 DEF Served
  <1>6. gh'[c].pc \notin {"run", "ended"}
    BY <1>1
  <1>7. \A d \in Calls : ExitLast(d)'
    BY <1>0, <1>1, <1>2, <1>3, <1>4, <1>5, <1>6, FinishSends, OnceSends
  <1>8. ASSUME NEW d \in Calls PROVE Clean(d)' /\ Once(d)'
    <2>1. Clean(d) /\ Once(d)
      BY DEF OnceInv
    <2>2. CASE d = c
      <3>1. Reached(c)' <=> Reached(c)
        BY <1>2 DEF Reached, Waiting
      <3>2. Clean(d)'
        BY <1>1, <1>2, <1>3, <2>1, <2>2, <3>1 DEF Clean
      <3>3. Once(d)'
        BY <1>1, <1>2, <1>5, <2>1, <2>2 DEF Once
      <3> QED
        BY <3>2, <3>3
    <2>3. CASE d # c
      <3>1. Clean(d)'
        BY <1>1, <1>2, <2>1, <2>3, CleanSame
      <3>2. Once(d)'
        BY <1>1, <1>2, <1>5, <2>1, <2>3 DEF Once
      <3> QED
        BY <3>1, <3>2
    <2> QED
      BY <2>2, <2>3
  <1>9. holder' \notin closed'
    <2>1. client[c].path = "socket" => holder # c
      BY DEF StreamInv, TurnInv, Calls, NoCall
    <2> QED
      BY <1>0, <1>2, <2>1 DEF Served, OnceInv
  <1> QED
    BY <1>7, <1>8, <1>9 DEF OnceInv

(* A connection is closed without an answer.                               *)
LEMMA OnceDrop ==
  ASSUME StreamInv, OnceInv, NEW c \in Calls, Drop(c)
  PROVE  OnceInv'
  <1>1. /\ UNCHANGED <<client, inbox, up, holder, passed, toHost, gh, written>>
        /\ closed' = closed \cup {c} /\ client[c].path = "socket"
    BY DEF Drop, bridgeVars, history
  <1>2. holder' \notin closed'
    BY <1>1 DEF StreamInv, TurnInv, OnceInv, Calls, NoCall
  <1>3. ASSUME NEW d \in Calls
        PROVE  Clean(d)' /\ ExitLast(d)' /\ Once(d)'
    <2>1. Clean(d) /\ ExitLast(d) /\ Once(d)
      BY DEF OnceInv
    <2>2. Clean(d)' /\ ExitLast(d)'
      BY <1>1, <2>1, CleanSame, ExitLastSame
    <2> QED
      BY <1>1, <2>1, <2>2 DEF Once
  <1> QED
    BY <1>2, <1>3 DEF OnceInv

(* Every step preserves OnceInv.                                           *)
LEMMA OnceNext == StreamInv /\ OnceInv /\ [Next]_vars => OnceInv'
  <1> SUFFICES ASSUME StreamInv, OnceInv, [Next]_vars PROVE OnceInv'
    OBVIOUS
  <1>1. CASE UNCHANGED vars
    BY <1>1 DEF vars, OnceInv, Clean, Once, ExitLast, Reached, Waiting
  <1>2. CASE Progress
    BY <1>2, OnceClient, OnceBridge, OnceRelay, OnceTakeConnection, OnceTakeRequest,
       OnceGh, OnceFilter, OnceFinish DEF Progress
  <1> QED
    BY <1>1, <1>2, OnceClient, OnceDrop, OnceCollapse, OnceGh DEF Next

(***************************************************************************)
(* RefusalInv is preserved: who is refused, has no gh.                     *)
(***************************************************************************)

(* A frame of that kind is on the pipe for the call.                       *)
Comes(c, kind) == holder = c /\ Has(toBridge, kind)

(* No frame of a new kind is under way to the call.                        *)
NoNews(c) ==
  /\ Has(inbox[c], "data")' => Has(inbox[c], "data")
  /\ Has(inbox[c], "answer")' => Has(inbox[c], "answer")
  /\ Comes(c, "data")' => Comes(c, "data")
  /\ Comes(c, "answer")' => Comes(c, "answer")

LEMMA RefusalSame ==
  ASSUME NEW d \in Calls, Silent(d), Refused(d), NoNews(d), client'[d] = client[d],
         gh'[d].pc = gh[d].pc, closed \subseteq closed'
  PROVE  Silent(d)' /\ Refused(d)'
  BY DEF Silent, Refused, NoNews, Comes

(* Initially nothing was asked.                                            *)
LEMMA RefusalInit == Init => RefusalInv
  <1> SUFFICES ASSUME Init PROVE RefusalInv
    OBVIOUS
  <1>1. \A c \in Calls : Silent(c) /\ Refused(c)
    BY HasNone DEF Init, Silent, Refused
  <1> QED
    BY <1>1 DEF RefusalInv

(* The steps of a client.                                                  *)
LEMMA RefusalClient ==
  ASSUME StreamInv, OnceInv, RefusalInv, NEW c \in Calls,
         \/ \E path \in Paths, request \in Requests : Dial(c, path, request)
         \/ Send(c) \/ Read(c) \/ ReadEnd(c) \/ Leave(c)
  PROVE  RefusalInv'
  <1>0. TypeOK /\ inbox[c] \in Seq(FrameType)
    BY DEF StreamInv, TypeOK
  <1>1. UNCHANGED <<closed, holder, toBridge, gh>>
    BY DEF Dial, Send, Read, ReadEnd, Leave, bridgeVars
  <1>2. ClientChange(c) /\ ClientStep(c)
    BY <1>0, ClientChanges, ClientSteps
  <1>3. ASSUME NEW d \in Calls \ {c} PROVE Silent(d)' /\ Refused(d)'
    <2>1. client'[d] = client[d] /\ NoNews(d) /\ Silent(d) /\ Refused(d)
      BY <1>1, <1>2 DEF ClientStep, NoNews, Comes, RefusalInv
    <2> QED
      BY <1>1, <2>1, RefusalSame
  <1>4. Silent(c) /\ Refused(c)
    BY DEF RefusalInv
  <1>5. /\ Has(inbox[c], "data")' => Has(inbox[c], "data")
        /\ Has(inbox[c], "answer")' => Has(inbox[c], "answer")
    BY <1>0, <1>2, HasNone, HasTail DEF ClientStep
  <1>6. client[c].result # "invalid"
    BY <1>2, <1>4 DEF ClientChange, Refused, Waiting
  <1>7. client'[c].result = "invalid" =>
          /\ client'[c].pc = "done" /\ client[c].request = "execute"
          /\ Has(inbox[c], "answer")
    BY <1>2, <1>6 DEF ClientChange, ClientStep, Has
  <1>8. Silent(c)'
    BY <1>1, <1>2, <1>4, <1>5 DEF Silent, ClientChange
  <1>9. Refused(c)'
    <2>1. CASE client[c].pc = "idle"
      <3>1. inbox[c] = <<>> /\ holder # c
        BY <2>1 DEF StreamInv, InboxInv, TurnInv, Calls, NoCall
      <3>2. ~Has(inbox[c], "answer")
        BY <3>1, HasNone
      <3> QED
        BY <1>1, <1>5, <1>7, <3>1, <3>2 DEF Refused
    <2>2. CASE client[c].pc # "idle"
      <3>1. client'[c].request = client[c].request
        BY <1>2, <2>2 DEF ClientStep
      <3> QED
        BY <1>1, <1>4, <1>5, <1>7, <3>1 DEF Refused
    <2> QED
      BY <2>1, <2>2
  <1> QED
    BY <1>3, <1>8, <1>9 DEF RefusalInv

(* The turn changes while the pipe is empty, and a connection is closed.   *)
LEMMA RefusalBridge ==
  ASSUME StreamInv, RefusalInv, NEW c \in Calls, Lock(c) \/ Pass(c) \/ Drop(c)
  PROVE  RefusalInv'
  <1>1. UNCHANGED <<client, inbox, toBridge, gh>> /\ closed \subseteq closed'
    BY DEF Lock, Pass, Drop, Release, bridgeVars, history
  <1>2. holder' # holder => toBridge = <<>>
    BY DEF Lock, Pass, Drop, StreamInv, TurnInv, bridgeVars
  <1>3. ASSUME NEW d \in Calls PROVE Silent(d)' /\ Refused(d)'
    <2>1. NoNews(d) /\ Silent(d) /\ Refused(d)
      BY <1>1, <1>2, HasNone DEF NoNews, Comes, RefusalInv
    <2> QED
      BY <1>1, <2>1, RefusalSame
  <1> QED
    BY <1>3 DEF RefusalInv

(* What was on the pipe is lost with the bridge.                           *)
LEMMA RefusalCollapse ==
  ASSUME RefusalInv, Collapse
  PROVE  RefusalInv'
  <1>1. UNCHANGED <<client, inbox, gh>> /\ closed \subseteq closed' /\ toBridge' = <<>>
    BY DEF Collapse, history
  <1>2. ASSUME NEW d \in Calls PROVE Silent(d)' /\ Refused(d)'
    <2>1. NoNews(d) /\ Silent(d) /\ Refused(d)
      BY <1>1, HasNone DEF NoNews, Comes, RefusalInv
    <2> QED
      BY <1>1, <2>1, RefusalSame
  <1> QED
    BY <1>2 DEF RefusalInv

(* A refusal carries an error, so that the bridge closes the connection    *)
(* with it.                                                                *)
LEMMA RefusalRelay ==
  ASSUME StreamInv, RefusalInv, NEW c \in Calls, Relay(c)
  PROVE  RefusalInv'
  <1> DEFINE frame == Head(toBridge)
  <1>1. /\ holder = c /\ toBridge # <<>> /\ toBridge' = Tail(toBridge)
        /\ inbox' = IF Waiting(c) THEN [inbox EXCEPT ![c] = Append(@, frame)] ELSE inbox
        /\ IF EndsAnswer(c, frame) THEN Release(c) ELSE UNCHANGED <<holder, closed>>
        /\ UNCHANGED <<client, gh>>
    BY DEF Relay, history
  <1>2. /\ toBridge \in Seq(FrameType) /\ inbox \in [Calls -> Seq(FrameType)]
        /\ frame \in FrameType /\ frame = toBridge[1] /\ 1 \in 1 .. Len(toBridge)
    BY <1>1, HeadTailProperties, EmptySeq, LenProperties DEF StreamInv, TypeOK
  <1>3. /\ Has(toBridge, "data")' => Has(toBridge, "data")
        /\ Has(toBridge, "answer")' => Has(toBridge, "answer")
        /\ frame.kind = "data" => Has(toBridge, "data")
        /\ frame.kind = "answer" => Has(toBridge, "answer")
    BY <1>1, <1>2, HasTail
  <1>4. frame.kind = "answer" /\ client[c].request = "execute" => EndsAnswer(c, frame)
    BY <1>1, <1>2 DEF StreamInv, BridgeInv, Suits, EndsAnswer
  <1> HIDE DEF frame
  <1>5. closed \subseteq closed' /\ holder' \in {c, NoCall} /\ c # NoCall
    BY <1>1 DEF Release, Calls, NoCall
  <1>6. ASSUME NEW d \in Calls \ {c} PROVE Silent(d)' /\ Refused(d)'
    <2>1. inbox'[d] = inbox[d] /\ holder' # d /\ Silent(d) /\ Refused(d)
      BY <1>1, <1>2, <1>5 DEF RefusalInv, Calls, NoCall
    <2> QED
      BY <1>1, <1>5, <2>1, RefusalSame DEF NoNews, Comes
  <1>7. Silent(c) /\ Refused(c)
    BY DEF RefusalInv
  <1>8. ASSUME NEW kind, Has(inbox'[c], kind)
        PROVE  Has(inbox[c], kind) \/ frame.kind = kind
    <2>1. CASE inbox'[c] = inbox[c]
      BY <1>8, <2>1
    <2>2. CASE inbox'[c] = Append(inbox[c], frame)
      <3>1. inbox[c] \in Seq(FrameType) /\ <<frame>> \in Seq(FrameType)
        BY <1>2
      <3>2. inbox'[c] = inbox[c] \o <<frame>>
        BY <2>2, <3>1, AppendIsConcat
      <3> QED
        BY <1>2, <1>8, <3>1, <3>2, HasConcat, HasOne
    <2> QED
      BY <1>1, <1>2, <2>1, <2>2
  <1>9. /\ Has(inbox[c], "data")' => Has(inbox[c], "data") \/ frame.kind = "data"
        /\ Has(inbox[c], "answer")' => Has(inbox[c], "answer") \/ frame.kind = "answer"
    BY <1>8
  <1>10. Silent(c)'
    BY <1>1, <1>3, <1>7, <1>9 DEF Silent
  <1>11. EndsAnswer(c, frame) => c \in closed'
    BY <1>1 DEF Release
  <1>12. Refused(c)'
    BY <1>1, <1>3, <1>4, <1>5, <1>7, <1>9, <1>11 DEF Refused
  <1> QED
    BY <1>6, <1>10, <1>12 DEF RefusalInv

(* A step that sends frames for one call: without a gh no data, and the end*)
(* of a socket's connection; with a gh no answer.                          *)
LEMMA RefusalSends ==
  ASSUME StreamInv, RefusalInv, NEW c \in Calls, NEW frames \in Seq(FrameType),
         Encode(c, frames), client[c].path = "bridge" /\ up => holder = c,
         UNCHANGED <<client, up, holder>>, closed \subseteq closed',
         \A d \in Calls \ {c} : gh'[d] = gh[d],
         \/ /\ gh[c].pc = "none" /\ gh'[c].pc = "none" /\ ~Has(frames, "data")
            /\ client[c].path = "socket" => c \in closed'
         \/ gh[c].pc # "none" /\ gh'[c].pc # "none" /\ ~Has(frames, "answer")
  PROVE  RefusalInv'
  <1>1. /\ \A d \in Calls \ {c} : inbox'[d] = inbox[d] /\ Pipe(d)' = Pipe(d)
        /\ inbox'[c] # inbox[c] =>
             inbox'[c] = inbox[c] \o frames /\ client[c].path = "socket"
    BY EncodeEffect
  <1>2. inbox[c] \in Seq(FrameType) /\ toBridge \in Seq(FrameType)
    BY DEF StreamInv, TypeOK
  <1>3. toBridge' \in {toBridge, toBridge \o frames}
    BY DEF Encode
  <1>4. ASSUME NEW d \in Calls \ {c} PROVE Silent(d)' /\ Refused(d)'
    <2>1. Silent(d) /\ Refused(d)
      BY DEF RefusalInv
    <2>2. NoNews(d)
      BY <1>1, HasNone DEF NoNews, Comes, Pipe
    <2> QED
      BY <2>1, <2>2, RefusalSame
  <1>5. Silent(c) /\ Refused(c)
    BY DEF RefusalInv
  <1>6. ASSUME NEW kind, ~Has(frames, kind)
        PROVE  /\ Has(inbox'[c], kind) => Has(inbox[c], kind)
               /\ Has(toBridge', kind) => Has(toBridge, kind)
    BY <1>1, <1>2, <1>3, <1>6, HasConcat
  <1>7. CASE /\ gh[c].pc = "none" /\ gh'[c].pc = "none" /\ ~Has(frames, "data")
             /\ client[c].path = "socket" => c \in closed'
    <2>1. /\ Has(inbox[c], "data")' => Has(inbox[c], "data")
          /\ Has(toBridge, "data")' => Has(toBridge, "data")
      BY <1>6, <1>7
    <2>2. Silent(c)'
      BY <1>5, <1>7, <2>1 DEF Silent
    <2>3. Refused(c)'
      BY <1>1, <1>5, <1>7 DEF Refused
    <2> QED
      BY <1>4, <2>2, <2>3 DEF RefusalInv
  <1>8. CASE gh[c].pc # "none" /\ gh'[c].pc # "none" /\ ~Has(frames, "answer")
    <2>1. /\ Has(inbox[c], "answer")' => Has(inbox[c], "answer")
          /\ Has(toBridge, "answer")' => Has(toBridge, "answer")
      BY <1>6, <1>8
    <2>2. Silent(c)' /\ Refused(c)'
      BY <1>5, <1>8, <2>1 DEF Silent, Refused
    <2> QED
      BY <1>4, <2>2 DEF RefusalInv
  <1> QED
    BY <1>7, <1>8

(* A request is handled: it is refused, or gh starts where no refusal was. *)
LEMMA RefusalHandle ==
  ASSUME StreamInv, OnceInv, RefusalInv, NEW c \in Calls, HandleAgent(c), gh[c].pc = "none",
         c \notin closed, client[c].path = "bridge" => holder = c /\ toBridge = <<>>,
         UNCHANGED <<client, up, holder>>
  PROVE  RefusalInv'
  <1>0. TypeOK /\ client[c].path \in {"bridge", "socket"}
    BY DEF StreamInv, TypeOK, ClientType
  <1>1. CASE /\ \E frame \in FrameType : frame.kind # "data" /\ Encode(c, <<frame>>)
             /\ Served(c) /\ gh' = gh
    <2>1. PICK frame \in FrameType : frame.kind # "data" /\ Encode(c, <<frame>>)
      BY <1>1
    <2> DEFINE frames == <<frame>>
    <2>2. frames \in Seq(FrameType) /\ ~Has(frames, "data") /\ Encode(c, frames)
      BY <2>1, HasOne
    <2>3. closed \subseteq closed' /\ (client[c].path = "socket" => c \in closed')
      BY <1>0, <1>1 DEF Served
    <2> HIDE DEF frames
    <2> QED
      BY <1>1, <2>2, <2>3, RefusalSends
  <1>2. CASE /\ gh' = [gh EXCEPT ![c].pc = "run"]
             /\ UNCHANGED <<closed, inbox, toBridge>>
    <2>1. gh'[c].pc = "run" /\ \A d \in Calls \ {c} : gh'[d] = gh[d]
      BY <1>0, <1>2, RunFields DEF TypeOK
    <2>2. ASSUME NEW d \in Calls \ {c} PROVE Silent(d)' /\ Refused(d)'
      <3>1. Silent(d) /\ Refused(d) /\ NoNews(d)
        BY <1>2 DEF RefusalInv, NoNews, Comes
      <3> QED
        BY <1>2, <2>1, <3>1, RefusalSame
    <2>3. Silent(c)'
      BY <2>1 DEF Silent
    <2>4. ~(holder = c /\ Has(toBridge, "answer"))
      <3>1. CASE client[c].path = "bridge"
        BY <3>1, HasNone
      <3>2. CASE client[c].path = "socket"
        BY <3>2 DEF StreamInv, TurnInv, Calls, NoCall
      <3> QED
        BY <1>0, <3>1, <3>2
    <2>5. Refused(c)'
      BY <1>2, <2>4 DEF RefusalInv, Refused
    <2> QED
      BY <2>2, <2>3, <2>5 DEF RefusalInv
  <1> QED
    BY <1>0, <1>1, <1>2, HandleFrames

(* A request over the bridge, where nothing is on the way back.            *)
LEMMA RefusalTakeRequest ==
  ASSUME StreamInv, OnceInv, RefusalInv, TakeRequest
  PROVE  RefusalInv'
  <1>1. toBridge = <<>>
    BY DEF TakeRequest, StreamInv, TurnInv
  <1> QED
    BY <1>1, RequestTurn, RefusalHandle

(* A request over a socket.                                                *)
LEMMA RefusalTakeConnection ==
  ASSUME StreamInv, OnceInv, RefusalInv, NEW c \in Calls, TakeConnection(c)
  PROVE  RefusalInv'
  BY RefusalHandle DEF TakeConnection, bridgeVars

(* gh writes, or ends.                                                     *)
LEMMA RefusalGh ==
  ASSUME StreamInv, RefusalInv, NEW c \in Calls, GhWritesSome(c) \/ GhEnds(c)
  PROVE  RefusalInv'
  <1>1. /\ \A d \in Calls : gh'[d].pc = gh[d].pc \/ (gh[d].pc = "run" /\ gh'[d].pc = "ended")
        /\ UNCHANGED <<client, inbox, closed, holder, toBridge>>
    <2>0. gh \in [Calls -> GhType] /\ budget \in Nat
      BY DEF StreamInv, TypeOK
    <2>1. ASSUME NEW s \in Streams, NEW n \in 1 .. budget, NEW bytes \in [1 .. n -> Alphabet],
                 GhWrites(c, s, bytes)
          PROVE  /\ \A d \in Calls : gh'[d].pc = gh[d].pc
                 /\ UNCHANGED <<client, inbox, closed, holder, toBridge>>
      <3>1. bytes \in Seq(Alphabet)
        BY <2>0
      <3>2. gh[c].pending[s] \o bytes \in Seq(Alphabet)
        BY <2>0, <3>1, ConcatProperties DEF GhType
      <3>3. /\ Pends(c, s, gh[c].pending[s] \o bytes)
            /\ UNCHANGED <<client, inbox, closed, holder, toBridge>>
        BY <2>1 DEF GhWrites, Pends, bridgeVars
      <3> QED
        BY <2>0, <3>2, <3>3, PendingFields
    <2>2. CASE GhEnds(c)
      <3>1. /\ gh[c].pc = "run" /\ gh' = [gh EXCEPT ![c].pc = "ended"]
            /\ UNCHANGED <<client, inbox, closed, holder, toBridge>>
        BY <2>2 DEF GhEnds, bridgeVars
      <3>2. gh'[c].pc = "ended" /\ \A d \in Calls \ {c} : gh'[d] = gh[d]
        BY <2>0, <3>1, RunFields
      <3> QED
        BY <3>1, <3>2
    <2> QED
      BY <2>1, <2>2 DEF GhWritesSome
  <1>2. ASSUME NEW d \in Calls PROVE Silent(d)' /\ Refused(d)'
    <2>1. Silent(d) /\ Refused(d)
      BY DEF RefusalInv
    <2> QED
      BY <1>1, <2>1 DEF Silent, Refused
  <1> QED
    BY <1>2 DEF RefusalInv

(* A pass of the filter sends data only.                                   *)
LEMMA RefusalFilter ==
  ASSUME StreamInv, RefusalInv, NEW c \in Calls, NEW s \in Streams, Filter(c, s)
  PROVE  RefusalInv'
  <1>0. TypeOK /\ gh \in [Calls -> GhType]
    BY DEF StreamInv, TypeOK
  <1>1. gh[c].pc \in {"run", "ended"} /\ UNCHANGED <<client, closed, up, holder>>
    BY DEF Filter, bridgeVars
  <1>2. PICK frames \in Seq(FrameType), rest \in Seq(Alphabet), e \in Output :
          FilterSends(c, s, frames, rest, e)
    BY <1>0, FilterCorrect
  <1>3. gh'[c].pc = gh[c].pc /\ \A d \in Calls \ {c} : gh'[d] = gh[d]
    <2>1. CASE Pends(c, s, rest)
      BY <1>0, <2>1, PendingFields
    <2>2. CASE ~Reached(c) /\ gh' = [gh EXCEPT ![c].broken = TRUE]
      BY <1>0, <2>2, BrokenFields
    <2> QED
      BY <1>2, <2>1, <2>2 DEF FilterSends, FilterKeepsRest
  <1>4. client[c].path = "bridge" /\ up => holder = c
    BY <1>1, GhHasTurn
  <1>5. Encode(c, frames) /\ ~Has(frames, "answer")
    BY <1>2 DEF FilterSends, DataFor, Has
  <1> QED
    BY <1>1, <1>3, <1>4, <1>5, RefusalSends

(* The flush and the exit frame are no answer.                             *)
LEMMA RefusalFinish ==
  ASSUME StreamInv, RefusalInv, NEW c \in Calls, Finish(c)
  PROVE  RefusalInv'
  <1>0. TypeOK
    BY DEF StreamInv
  <1>1. gh[c].pc = "ended" /\ gh'[c].pc = "done" /\ \A d \in Calls \ {c} : gh'[d] = gh[d]
    BY <1>0, FinishFields
  <1>2. Encode(c, LastFrames(c)) /\ Served(c) /\ UNCHANGED <<client, up, holder>>
    BY DEF Finish, LastFrames, bridgeVars
  <1>3. client[c].path = "bridge" /\ up => holder = c
    BY <1>1, GhHasTurn
  <1>4. closed \subseteq closed'
    BY <1>2 DEF Served
  <1>5. LastFrames(c) \in Seq(FrameType) /\ ~Has(LastFrames(c), "answer")
    BY <1>0, FinishSends
  <1> QED
    BY <1>1, <1>2, <1>3, <1>4, <1>5, RefusalSends

(* Every step preserves RefusalInv.                                        *)
LEMMA RefusalNext == StreamInv /\ OnceInv /\ RefusalInv /\ [Next]_vars => RefusalInv'
  <1> SUFFICES ASSUME StreamInv, OnceInv, RefusalInv, [Next]_vars PROVE RefusalInv'
    OBVIOUS
  <1>1. CASE UNCHANGED vars
    BY <1>1 DEF vars, RefusalInv, Silent, Refused
  <1>2. CASE Progress
    BY <1>2, RefusalClient, RefusalBridge, RefusalRelay, RefusalTakeConnection,
       RefusalTakeRequest, RefusalGh, RefusalFilter, RefusalFinish DEF Progress
  <1> QED
    BY <1>1, <1>2, RefusalClient, RefusalBridge, RefusalCollapse, RefusalGh DEF Next

(* A client is given frames of its own call only, although all calls of a  *)
(* container share one pipe, no frame says whose it is, clients leave in   *)
(* the middle of an answer and the bridge may die; and a client that takes *)
(* a frame for invalid was refused, without a gh and without output        *)
(* (RunBridge, HandleAgent, ReadStream).                                   *)
THEOREM OwnAnswersOnly == Spec => []AnswersOwn
  <1>1. Init => StreamInv /\ OnceInv /\ RefusalInv
    BY StreamInit, OnceInit, RefusalInit
  <1>2. StreamInv /\ OnceInv /\ RefusalInv /\ [Next]_vars => (StreamInv /\ OnceInv /\ RefusalInv)'
    BY StreamNext, OnceNext, RefusalNext
  <1>3. StreamInv /\ RefusalInv => AnswersOwn
    BY DEF StreamInv, HeardOwn, RefusalInv, Silent, Refused, AnswersOwn
  <1> QED
    BY <1>1, <1>2, <1>3, PTL DEF Spec

(***************************************************************************)
(* The output of every call: FlowInv.                                      *)
(***************************************************************************)

(* What gh may still write.                                                *)
Later(c) == IF gh[c].pc = "done" THEN {<<>>} ELSE Seq(Alphabet)

(* The account of one stream.                                              *)
Flow(c, s) ==
  IF Live(c)
  THEN Sent(s, client[c].shown[s], inbox[c], Pipe(c), written[c][s], gh[c].pending[s], Later(c))
  ELSE Lost(s, client[c].shown[s], inbox[c], written[c][s], Later(c))

(* The account of a call: until its end it is even; at the end it is a     *)
(* beginning, and with the exit the whole.                                 *)
FlowOf(c) ==
  \A s \in Streams :
    /\ Waiting(c) => Flow(c, s)
    /\ client[c].pc = "done" => Begins(client[c].shown[s], Redaction[written[c][s]])
    /\ client[c].pc = "done" /\ client[c].result = "exit" =>
         client[c].shown[s] = Redaction[written[c][s]]

FlowInv == \A c \in Calls : FlowOf(c)

(* Initially nothing was written and nothing shown.                        *)
LEMMA FlowInit == Init => FlowInv
  BY DEF Init, FlowInv, FlowOf, Waiting

(* A step that does not concern a call.                                    *)
LEMMA FlowSame ==
  ASSUME NEW d \in Calls, FlowOf(d), client'[d] = client[d], written'[d] = written[d],
         Waiting(d) => /\ inbox'[d] = inbox[d] /\ Pipe(d)' = Pipe(d)
                       /\ gh'[d].pending = gh[d].pending
                       /\ (gh'[d].pc = "done") <=> (gh[d].pc = "done")
                       /\ Live(d)' <=> Live(d)
  PROVE  FlowOf(d)'
  <1>1. Waiting(d)' <=> Waiting(d)
    BY DEF Waiting
  <1>2. ASSUME NEW s \in Streams, Waiting(d) PROVE Flow(d, s)'
    <2>1. Later(d)' = Later(d)
      BY <1>2 DEF Later
    <2>2. Flow(d, s)
      BY <1>2 DEF FlowOf
    <2> QED
      BY <1>2, <2>1, <2>2 DEF Flow
  <1> QED
    BY <1>1, <1>2 DEF FlowOf

(* At any time gh may write nothing more.                                  *)
LEMMA LaterType ==
  ASSUME NEW c
  PROVE  Later(c) \in SUBSET Seq(Alphabet) /\ <<>> \in Later(c)
  BY EmptySeq DEF Later

(* The types of what FlowInv is about.                                     *)
LEMMA FlowTypes ==
  ASSUME TypeOK, NEW c \in Calls, NEW s \in Streams
  PROVE  /\ inbox[c] \in Seq(FrameType) /\ Pipe(c) \in Seq(FrameType)
         /\ written[c][s] \in Seq(Alphabet) /\ gh[c].pending[s] \in Seq(Alphabet)
         /\ client[c].shown[s] \in Output
         /\ client[c].path \in {"bridge", "socket"}
  <1>1. client[c] \in ClientType /\ gh[c] \in GhType
    BY DEF TypeOK
  <1>2. client[c].shown \in [Streams -> Output] /\ gh[c].pending \in [Streams -> Seq(Alphabet)]
        /\ client[c].path \in {"bridge", "socket"}
    BY <1>1 DEF ClientType, GhType
  <1>3. Pipe(c) \in Seq(FrameType)
    BY EmptySeq DEF TypeOK, Pipe
  <1>4. inbox[c] \in Seq(FrameType) /\ written[c][s] \in Seq(Alphabet)
    BY DEF TypeOK
  <1> QED
    BY <1>2, <1>3, <1>4

(* After the exit frame, nothing of the call is on the pipe or held back.  *)
LEMMA AfterExit ==
  ASSUME StreamInv, OnceInv, NEW c \in Calls, HasExit(inbox[c])
  PROVE  /\ Pipe(c) = <<>>
         /\ \A s \in Streams : gh[c].pending[s] = <<>>
  <1>1. ExitLast(c) /\ Clean(c) /\ holder \notin closed
    BY DEF OnceInv
  <1>2. c \in closed /\ gh[c].pc \notin {"run", "ended"}
    BY <1>1 DEF HasExit, ExitLast
  <1>3. gh[c].pending = Nothing
    BY <1>1, <1>2 DEF Clean
  <1> QED
    BY <1>1, <1>2, <1>3 DEF Pipe, Nothing

(* What a waiting client has been shown.                                   *)
LEMMA FlowShown ==
  ASSUME StreamInv, OnceInv, FlowInv, NEW c \in Calls, Waiting(c), NEW s \in Streams
  PROVE  /\ Begins(client[c].shown[s], Redaction[written[c][s]])
         /\ inbox[c] # <<>> /\ Head(inbox[c]).kind = "exit" =>
              client[c].shown[s] = Redaction[written[c][s]]
  <1> DEFINE x == client[c].shown[s]
             w == written[c][s]
             p == gh[c].pending[s]
             Z == Later(c)
             box == inbox[c]
             pipe == Pipe(c)
  <1>1. /\ box \in Seq(FrameType) /\ pipe \in Seq(FrameType)
        /\ w \in Seq(Alphabet) /\ p \in Seq(Alphabet)
    BY FlowTypes DEF StreamInv
  <1>2. Z \in SUBSET Seq(Alphabet) /\ <<>> \in Z
    BY LaterType
  <1>3. (Live(c) => Sent(s, x, box, pipe, w, p, Z)) /\ (~Live(c) => Lost(s, x, box, w, Z))
    BY DEF FlowInv, FlowOf, Flow
  <1>4. HasExit(box) => pipe = <<>> /\ p = <<>>
    BY AfterExit
  <1>5. box # <<>> /\ Head(box).kind = "exit" => Len(box) = 1 /\ box[1].kind = "exit" /\ HasExit(box)
    <2>1. SUFFICES ASSUME box # <<>>, Head(box).kind = "exit"
                   PROVE  Len(box) = 1 /\ box[1].kind = "exit" /\ HasExit(box)
      OBVIOUS
    <2>2. Head(box) = box[1] /\ 1 \in 1 .. Len(box)
      BY <1>1, <2>1, HeadTailProperties, EmptySeq, LenProperties
    <2>3. ExitLast(c)
      BY DEF OnceInv
    <2> QED
      BY <2>1, <2>2, <2>3 DEF ExitLast, HasExit
  <1> HIDE DEF x, w, p, Z, box, pipe
  <1>6. Begins(x, Redaction[w])
    <2>1. CASE Live(c)
      BY <1>1, <1>2, <1>3, <2>1, SentBegins
    <2>2. CASE ~Live(c)
      BY <1>1, <1>2, <1>3, <2>2, LostBegins
    <2> QED
      BY <2>1, <2>2
  <1>7. ASSUME box # <<>>, Head(box).kind = "exit" PROVE x = Redaction[w]
    <2>1. CASE Live(c)
      <3>1. Sent(s, x, box, <<>>, w, <<>>, Z)
        BY <1>3, <1>4, <1>5, <1>7, <2>1
      <3> QED
        BY <1>1, <1>2, <1>5, <1>7, <3>1, SentComplete
    <2>2. CASE ~Live(c)
      BY <1>1, <1>3, <1>5, <1>7, <2>2, LostComplete
    <2> QED
      BY <2>1, <2>2
  <1> QED
    BY <1>6, <1>7 DEF x, w, box

(* How FlowOf of the next state is established.                            *)
LEMMA FlowWaits ==
  ASSUME NEW c \in Calls, client'[c].pc # "done", \A s \in Streams : Flow(c, s)'
  PROVE  FlowOf(c)'
  BY DEF FlowOf

(* For a client that has left there is nothing to show.                    *)
LEMMA FlowLeft ==
  ASSUME NEW c \in Calls, client'[c].pc # "done", ~Waiting(c)'
  PROVE  FlowOf(c)'
  BY DEF FlowOf

(* A client that has read the end of its answer.                           *)
LEMMA FlowDone ==
  ASSUME NEW c \in Calls, client'[c].pc = "done", client'[c].shown = client[c].shown,
         written' = written,
         \A s \in Streams : Begins(client[c].shown[s], Redaction[written[c][s]]),
         client'[c].result = "exit" =>
           \A s \in Streams : client[c].shown[s] = Redaction[written[c][s]]
  PROVE  FlowOf(c)'
  <1>1. ~Waiting(c)'
    BY DEF Waiting
  <1> QED
    BY <1>1 DEF FlowOf

(* A step of one client.                                                   *)
ClientActs(c) ==
  \/ \E path \in Paths, request \in Requests : Dial(c, path, request)
  \/ Send(c) \/ Read(c) \/ ReadEnd(c) \/ Leave(c)

(* A step of one client does not concern the others.                       *)
LEMMA FlowOthers ==
  ASSUME StreamInv, OnceInv, FlowInv, NEW c \in Calls, ClientActs(c)
  PROVE  /\ UNCHANGED <<up, holder, toBridge, gh>>
         /\ \A d \in Calls : Pipe(d)' = Pipe(d) /\ Later(d)' = Later(d)
         /\ \A d \in Calls \ {c} : FlowOf(d)'
  <1>0. TypeOK
    BY DEF StreamInv
  <1>1. /\ UNCHANGED <<up, holder, toBridge, gh>>
        /\ written' = written \/ written' = [written EXCEPT ![c] = Nothing]
    BY DEF ClientActs, Dial, Send, Read, ReadEnd, Leave, history, bridgeVars
  <1>2. ClientChange(c)
    BY <1>0, ClientChanges DEF ClientActs
  <1>3. \A d \in Calls : Pipe(d)' = Pipe(d) /\ Later(d)' = Later(d)
    BY <1>1 DEF Pipe, Later
  <1>4. ASSUME NEW d \in Calls \ {c} PROVE FlowOf(d)'
    <2>1. client'[d] = client[d] /\ inbox'[d] = inbox[d] /\ written'[d] = written[d] /\ FlowOf(d)
      BY <1>0, <1>1, <1>2 DEF ClientChange, Others, FlowInv, TypeOK
    <2>2. Live(d)' <=> Live(d)
      BY <1>1, <2>1 DEF Live
    <2> QED
      BY <1>1, <1>3, <2>1, <2>2, FlowSame
  <1> QED
    BY <1>1, <1>3, <1>4

(* The steps of a client, one by one.                                      *)
LEMMA FlowDial ==
  ASSUME StreamInv, OnceInv, FlowInv, NEW c \in Calls, NEW path \in Paths,
         NEW request \in Requests, Dial(c, path, request)
  PROVE  FlowOf(c)'
  <1>0. TypeOK /\ FlowOf(c) /\ Clean(c) /\ ClientActs(c)
    BY DEF StreamInv, FlowInv, OnceInv, ClientActs
  <1>1. /\ UNCHANGED <<up, holder, toBridge, gh>>
        /\ \A d \in Calls : Pipe(d)' = Pipe(d) /\ Later(d)' = Later(d)
    BY <1>0, FlowOthers
  <1>2. /\ client[c].pc = "idle" /\ client'[c].pc = "dialled"
        /\ client'[c].path = path /\ (path = "bridge" => up) /\ path \in {"bridge", "socket"}
        /\ client'[c].shown = client[c].shown /\ inbox' = inbox
    BY <1>0, DialFields
  <1>3. client[c].shown = Nothing /\ written[c] = Nothing /\ gh[c].pc = "none"
        /\ gh[c].pending = Nothing
    BY <1>0, <1>2 DEF Clean
  <1>4. inbox[c] = <<>>
    BY <1>2 DEF StreamInv, InboxInv
  <1>5. Pipe(c) = <<>>
    BY <1>2 DEF StreamInv, TurnInv, Pipe, Calls, NoCall
  <1>6. Live(c)' /\ written' = written
    BY <1>1, <1>2 DEF Live, Dial, history
  <1>7. ASSUME NEW s \in Streams PROVE Flow(c, s)'
    <2>1. client[c].shown[s] = <<>> /\ written[c][s] = <<>> /\ gh[c].pending[s] = <<>>
      BY <1>3 DEF Nothing
    <2>2. Sent(s, <<>>, <<>>, <<>>, <<>>, <<>>, Later(c))
      BY LaterType, SentStart
    <2> QED
      BY <1>1, <1>2, <1>4, <1>5, <1>6, <2>1, <2>2 DEF Flow
  <1> QED
    BY <1>2, <1>7, FlowWaits

(* The request is sent.                                                    *)
LEMMA FlowSend ==
  ASSUME StreamInv, OnceInv, FlowInv, NEW c \in Calls, Send(c)
  PROVE  FlowOf(c)'
  <1>0. TypeOK /\ FlowOf(c) /\ ClientActs(c)
    BY DEF StreamInv, FlowInv, OnceInv, ClientActs
  <1>1. /\ UNCHANGED <<up, holder, toBridge, gh>>
        /\ \A d \in Calls : Pipe(d)' = Pipe(d) /\ Later(d)' = Later(d)
    BY <1>0, FlowOthers
  <1>2. /\ client[c].pc = "dialled" /\ client'[c].pc = "sent"
        /\ client'[c].path = client[c].path
        /\ client'[c].shown = client[c].shown /\ inbox' = inbox
    BY <1>0, SendFields
  <1>3. written' = written
    BY DEF Send, history
  <1>4. ASSUME NEW s \in Streams PROVE Flow(c, s)'
    <2>1. Flow(c, s)
      BY <1>0, <1>2 DEF FlowOf, Waiting
    <2>2. Live(c)' <=> Live(c)
      BY <1>1, <1>2 DEF Live
    <2> QED
      BY <1>1, <1>2, <1>3, <2>1, <2>2 DEF Flow
  <1>5. client'[c].pc # "done"
    BY <1>2
  <1> QED
    BY <1>4, <1>5, FlowWaits

(* The connection was closed under the client.                             *)
LEMMA FlowReadEnd ==
  ASSUME StreamInv, OnceInv, FlowInv, NEW c \in Calls, ReadEnd(c)
  PROVE  FlowOf(c)'
  <1>1. /\ Waiting(c) /\ client'[c].pc = "done" /\ client'[c].result = "closed"
        /\ client'[c].shown = client[c].shown
    BY ReadEndFields DEF StreamInv
  <1>2. written' = written
    BY DEF ReadEnd, history
  <1>3. \A s \in Streams : Begins(client[c].shown[s], Redaction[written[c][s]])
    BY <1>1, FlowShown
  <1>4. client'[c].result # "exit"
    BY <1>1
  <1> QED
    BY <1>1, <1>2, <1>3, <1>4, FlowDone

(* The client leaves.                                                      *)
LEMMA FlowLeave ==
  ASSUME StreamInv, NEW c \in Calls, Leave(c)
  PROVE  FlowOf(c)'
  <1>1. client'[c].pc \in {"left", "gone"}
    BY LeaveFields DEF StreamInv
  <1>2. client'[c].pc # "done" /\ ~Waiting(c)'
    BY <1>1 DEF Waiting
  <1> QED
    BY <1>2, FlowLeft

(* The client takes a frame from its inbox to its screen, or the exit.     *)
LEMMA FlowRead ==
  ASSUME StreamInv, OnceInv, FlowInv, NEW c \in Calls, Read(c)
  PROVE  FlowOf(c)'
  <1>0. TypeOK /\ FlowOf(c) /\ ClientActs(c)
    BY DEF StreamInv, FlowInv, OnceInv, ClientActs
  <1>1. /\ UNCHANGED <<up, holder, toBridge, gh>>
        /\ \A d \in Calls : Pipe(d)' = Pipe(d) /\ Later(d)' = Later(d)
    BY <1>0, FlowOthers
  <1>2. /\ client[c].pc = "sent" /\ inbox[c] # <<>> /\ inbox'[c] = Tail(inbox[c])
        /\ client'[c].path = client[c].path
        /\ \/ /\ client'[c].pc = "done" /\ client'[c].shown = client[c].shown
              /\ client'[c].result = "exit" => Head(inbox[c]).kind = "exit"
           \/ /\ client'[c].pc = "sent"
              /\ \A s \in Streams :
                   client'[c].shown[s] = client[c].shown[s] \o Piece(s, Head(inbox[c]))
    BY <1>0, ReadFields
  <1>3. written' = written /\ Waiting(c)
    BY <1>2 DEF Read, history, Waiting
  <1>4. CASE client'[c].pc = "done" /\ client'[c].shown = client[c].shown
             /\ (client'[c].result = "exit" => Head(inbox[c]).kind = "exit")
    <2>1. \A s \in Streams :
            /\ Begins(client[c].shown[s], Redaction[written[c][s]])
            /\ inbox[c] # <<>> /\ Head(inbox[c]).kind = "exit" =>
                 client[c].shown[s] = Redaction[written[c][s]]
      BY <1>3, FlowShown
    <2>2. client'[c].result = "exit" =>
            \A s \in Streams : client[c].shown[s] = Redaction[written[c][s]]
      BY <1>2, <1>4, <2>1
    <2> QED
      BY <1>3, <1>4, <2>1, <2>2, FlowDone
  <1>5. CASE /\ client'[c].pc = "sent"
             /\ \A s \in Streams :
                  client'[c].shown[s] = client[c].shown[s] \o Piece(s, Head(inbox[c]))
    <2>1. ASSUME NEW s \in Streams PROVE Flow(c, s)'
      <3>1. Flow(c, s) /\ inbox[c] \in Seq(FrameType)
        BY <1>0, <1>3, FlowTypes DEF FlowOf
      <3>2. Live(c)' <=> Live(c)
        BY <1>1, <1>2 DEF Live
      <3> DEFINE x == client[c].shown[s] \o Piece(s, Head(inbox[c]))
      <3>3. client'[c].shown[s] = x
        BY <1>5
      <3>4. CASE Live(c)
        <4>1. Sent(s, client[c].shown[s], inbox[c], Pipe(c), written[c][s], gh[c].pending[s], Later(c))
          BY <3>1, <3>4 DEF Flow
        <4>2. Sent(s, x, Tail(inbox[c]), Pipe(c), written[c][s], gh[c].pending[s], Later(c))
          BY <1>2, <3>1, <4>1, SentRead
        <4> HIDE DEF x
        <4> QED
          BY <1>1, <1>2, <1>3, <3>2, <3>3, <3>4, <4>2 DEF Flow
      <3>5. CASE ~Live(c)
        <4>1. Lost(s, client[c].shown[s], inbox[c], written[c][s], Later(c))
          BY <3>1, <3>5 DEF Flow
        <4>2. Lost(s, x, Tail(inbox[c]), written[c][s], Later(c))
          BY <1>2, <3>1, <4>1, LostRead
        <4> HIDE DEF x
        <4> QED
          BY <1>1, <1>2, <1>3, <3>2, <3>3, <3>5, <4>2 DEF Flow
      <3> QED
        BY <3>4, <3>5
    <2>2. client'[c].pc # "done"
      BY <1>5
    <2> QED
      BY <2>1, <2>2, FlowWaits
  <1> QED
    BY <1>2, <1>4, <1>5

(* All of them.                                                            *)
LEMMA FlowClient ==
  ASSUME StreamInv, OnceInv, FlowInv, NEW c \in Calls, ClientActs(c)
  PROVE  FlowInv'
  <1>1. \A d \in Calls \ {c} : FlowOf(d)'
    BY FlowOthers
  <1>2. FlowOf(c)'
    BY FlowDial, FlowSend, FlowReadEnd, FlowLeave, FlowRead DEF ClientActs
  <1> QED
    BY <1>1, <1>2 DEF FlowInv

(* A client that waits and has not lost its bridge is reached.             *)
LEMMA StillReached ==
  ASSUME TypeOK, OnceInv, NEW c \in Calls, Waiting(c), Live(c)
  PROVE  Reached(c) /\ ~gh[c].broken
  <1>1. client[c].path \in {"bridge", "socket"} /\ Clean(c)
    BY DEF TypeOK, ClientType, OnceInv
  <1> QED
    BY <1>1 DEF Reached, Live, Clean

(* The bridge, which only Relay and Collapse let lose anything.            *)
LEMMA FlowBridge ==
  ASSUME StreamInv, FlowInv, NEW c \in Calls, Lock(c) \/ Pass(c)
  PROVE  FlowInv'
  <1>1. UNCHANGED <<client, inbox, up, toBridge, gh, written>>
    BY DEF Lock, Pass, history
  <1>2. holder' # holder => toBridge = <<>>
    BY DEF Lock, Pass, StreamInv, TurnInv
  <1>3. ASSUME NEW d \in Calls PROVE FlowOf(d)'
    <2>1. Pipe(d)' = Pipe(d)
      BY <1>1, <1>2 DEF Pipe
    <2>2. (Live(d)' <=> Live(d)) /\ FlowOf(d)
      BY <1>1 DEF Live, FlowInv
    <2> QED
      BY <1>1, <2>1, <2>2, FlowSame
  <1> QED
    BY <1>3 DEF FlowInv

(* Nothing is lost with a connection that is closed without an answer.     *)
LEMMA FlowDrop ==
  ASSUME FlowInv, NEW c \in Calls, Drop(c)
  PROVE  FlowInv'
  <1>1. UNCHANGED <<client, inbox, up, holder, toBridge, gh, written>>
    BY DEF Drop, bridgeVars, history
  <1>2. ASSUME NEW d \in Calls PROVE FlowOf(d)'
    <2>1. Pipe(d)' = Pipe(d) /\ (Live(d)' <=> Live(d)) /\ FlowOf(d)
      BY <1>1 DEF Pipe, Live, FlowInv
    <2> QED
      BY <1>1, <2>1, FlowSame
  <1> QED
    BY <1>2 DEF FlowInv

(* A frame moves from the pipe to the inbox.                               *)
LEMMA FlowRelay ==
  ASSUME StreamInv, FlowInv, NEW c \in Calls, Relay(c)
  PROVE  FlowInv'
  <1> DEFINE frame == Head(toBridge)
  <1>0. TypeOK /\ BridgeInv /\ c # NoCall /\ toBridge \in Seq(FrameType)
    BY DEF StreamInv, TypeOK, Calls, NoCall
  <1>1. /\ holder = c /\ passed /\ toBridge # <<>> /\ toBridge' = Tail(toBridge)
        /\ inbox' = IF Waiting(c) THEN [inbox EXCEPT ![c] = Append(@, frame)] ELSE inbox
        /\ IF EndsAnswer(c, frame) THEN Release(c) ELSE UNCHANGED <<holder, closed>>
        /\ UNCHANGED <<client, up, gh, written>>
    BY DEF Relay, history
  <1>2. frame = toBridge[1] /\ 1 \in 1 .. Len(toBridge)
    BY <1>0, <1>1, HeadTailProperties, EmptySeq, LenProperties
  <1>3. EndsAnswer(c, frame) => Tail(toBridge) = <<>>
    <2>1. SUFFICES ASSUME EndsAnswer(c, frame) PROVE Tail(toBridge) = <<>>
      OBVIOUS
    <2>2. Len(toBridge) = 1
      BY <1>0, <1>1, <1>2, <2>1 DEF BridgeInv
    <2>3. Tail(toBridge) \in Seq(FrameType) /\ Len(Tail(toBridge)) = 0
      BY <1>0, <1>1, <2>2, HeadTailProperties
    <2> QED
      BY <2>3, EmptySeq
  <1> HIDE DEF frame
  <1>4. holder' \in {c, NoCall} /\ Pipe(c) = toBridge /\ Pipe(c)' = Tail(toBridge)
    BY <1>0, <1>1, <1>3 DEF Release, Pipe
  <1>5. ASSUME NEW d \in Calls \ {c} PROVE FlowOf(d)'
    <2>1. d # NoCall /\ FlowOf(d) /\ inbox'[d] = inbox[d]
      BY <1>0, <1>1 DEF Calls, NoCall, FlowInv, TypeOK
    <2>2. Pipe(d) = <<>> /\ Pipe(d)' = <<>> /\ (Live(d)' <=> Live(d))
      BY <1>1, <1>4, <2>1 DEF Pipe, Live
    <2> QED
      BY <1>1, <2>1, <2>2, FlowSame
  <1>6. FlowOf(c)'
    <2>0. FlowOf(c) /\ (Live(c)' <=> Live(c))
      BY <1>1 DEF FlowInv, Live
    <2>1. CASE ~Waiting(c)
      BY <1>1, <2>0, <2>1, FlowSame
    <2>2. CASE Waiting(c)
      <3>1. client'[c].pc # "done" /\ inbox'[c] = Append(inbox[c], frame)
        BY <1>0, <1>1, <2>2 DEF Waiting, TypeOK
      <3>2. Live(c) /\ Later(c)' = Later(c)
        BY <1>1 DEF Live, Later, StreamInv, TurnInv, Calls, NoCall
      <3>3. ASSUME NEW s \in Streams PROVE Flow(c, s)'
        <4>1. Sent(s, client[c].shown[s], inbox[c], toBridge, written[c][s], gh[c].pending[s],
                   Later(c))
          BY <1>4, <2>0, <2>2, <3>2 DEF FlowOf, Flow
        <4>2. inbox[c] \in Seq(FrameType)
          BY <1>0, FlowTypes
        <4>3. Sent(s, client[c].shown[s], Append(inbox[c], frame), Tail(toBridge), written[c][s],
                   gh[c].pending[s], Later(c))
          BY <1>0, <1>1, <4>1, <4>2, SentRelay DEF frame
        <4> QED
          BY <1>1, <1>4, <2>0, <3>1, <3>2, <4>3 DEF Flow
      <3> QED
        BY <3>1, <3>3, FlowWaits
    <2> QED
      BY <2>1, <2>2
  <1> QED
    BY <1>5, <1>6 DEF FlowInv

(* The frames on the pipe are lost with the bridge, and nothing follows    *)
(* them.                                                                   *)
LEMMA FlowCollapse ==
  ASSUME StreamInv, OnceInv, FlowInv, Collapse
  PROVE  FlowInv'
  <1>0. TypeOK
    BY DEF StreamInv
  <1>1. UNCHANGED <<client, inbox, gh, written>> /\ up /\ up' = FALSE /\ holder' = NoCall
    BY DEF Collapse, history
  <1>2. ASSUME NEW d \in Calls PROVE FlowOf(d)'
    <2>0. FlowOf(d) /\ client[d].path \in {"bridge", "socket"} /\ d # NoCall
      BY <1>0 DEF FlowInv, TypeOK, ClientType, Calls, NoCall
    <2>1. CASE ~Waiting(d)
      BY <1>1, <2>0, <2>1, FlowSame
    <2>2. CASE client[d].path = "socket"
      <3>1. Live(d) /\ Live(d)' /\ holder # d
        BY <1>1, <2>0, <2>2 DEF Live, StreamInv, TurnInv
      <3>2. Pipe(d)' = Pipe(d)
        BY <1>1, <2>0, <3>1 DEF Pipe
      <3> QED
        BY <1>1, <2>0, <3>1, <3>2, FlowSame
    <2>3. CASE Waiting(d) /\ client[d].path = "bridge"
      <3>1. Live(d) /\ ~Live(d)' /\ client'[d].pc # "done" /\ Later(d)' = Later(d)
        BY <1>1, <2>3 DEF Live, Waiting, Later
      <3>2. ASSUME NEW s \in Streams PROVE Flow(d, s)'
        <4>1. Sent(s, client[d].shown[s], inbox[d], Pipe(d), written[d][s], gh[d].pending[s],
                   Later(d))
          BY <2>0, <2>3, <3>1 DEF FlowOf, Flow
        <4>2. HasExit(inbox[d]) => Pipe(d) = <<>> /\ gh[d].pending[s] = <<>>
          BY AfterExit
        <4>3. Later(d) \in SUBSET Seq(Alphabet) /\ <<>> \in Later(d)
          BY LaterType
        <4>4. /\ inbox[d] \in Seq(FrameType) /\ Pipe(d) \in Seq(FrameType)
              /\ written[d][s] \in Seq(Alphabet) /\ gh[d].pending[s] \in Seq(Alphabet)
          BY <1>0, FlowTypes
        <4>5. Lost(s, client[d].shown[s], inbox[d], written[d][s], Later(d))
          BY <4>1, <4>2, <4>3, <4>4, SentLost
        <4> QED
          BY <1>1, <3>1, <4>5 DEF Flow
      <3> QED
        BY <3>1, <3>2, FlowWaits
    <2> QED
      BY <2>0, <2>1, <2>2, <2>3
  <1> QED
    BY <1>2 DEF FlowInv

(***************************************************************************)
(* A step that sends frames for a call.                                    *)
(***************************************************************************)

(* The frames carry what the step takes from the stream's filter.          *)
Emits(c, s, frames) ==
  \E e \in Output : /\ Brings(s, frames, e)
                    /\ Accounts(gh[c].pending[s], e, gh'[c].pending[s], Later(c)')

(* It is a beginning for fewer continuations too.                          *)
LEMMA LostLess ==
  ASSUME NEW s, NEW x, NEW box, NEW w, NEW Z, NEW Y \in SUBSET Z, Lost(s, x, box, w, Z)
  PROVE  Lost(s, x, box, w, Y)
  BY DEF Lost

(* Whatever is sent was taken from a filter, so that the account stays     *)
(* even.                                                                   *)
LEMMA FlowSends ==
  ASSUME StreamInv, OnceInv, FlowInv, NEW c \in Calls, NEW frames \in Seq(FrameType),
         Encode(c, frames), client[c].path = "bridge" /\ up => holder = c,
         UNCHANGED <<client, up, holder, written>>,
         \A d \in Calls \ {c} : gh'[d] = gh[d],
         Later(c)' \subseteq Later(c),
         \A s \in Streams : gh'[c].pending[s] \in Seq(Alphabet),
         Waiting(c) /\ Live(c) => \A s \in Streams : Emits(c, s, frames)
  PROVE  FlowInv'
  <1>0. TypeOK
    BY DEF StreamInv
  <1>1. /\ \A d \in Calls \ {c} : inbox'[d] = inbox[d] /\ Pipe(d)' = Pipe(d)
        /\ inbox'[c] # inbox[c] => client[c].path = "socket"
        /\ Waiting(c) /\ Live(c) /\ ~gh[c].broken =>
              \/ inbox'[c] = inbox[c] /\ Pipe(c)' = Pipe(c) \o frames
              \/ inbox'[c] = inbox[c] \o frames /\ Pipe(c)' = <<>> /\ Pipe(c) = <<>>
    BY EncodeEffect
  <1>2. ASSUME NEW d \in Calls \ {c} PROVE FlowOf(d)'
    <2>1. FlowOf(d) /\ (Live(d)' <=> Live(d))
      BY DEF FlowInv, Live
    <2> QED
      BY <1>1, <2>1, FlowSame
  <1>3. FlowOf(c)'
    <2>0. FlowOf(c) /\ (Live(c)' <=> Live(c))
      BY DEF FlowInv, Live
    <2>1. CASE ~Waiting(c)
      BY <2>0, <2>1, FlowSame
    <2>2. CASE Waiting(c)
      <3>1. client'[c].pc # "done"
        BY <2>2 DEF Waiting
      <3>2. ASSUME NEW s \in Streams PROVE Flow(c, s)'
        <4> DEFINE x == client[c].shown[s]
                   box == inbox[c]
                   pipe == Pipe(c)
                   w == written[c][s]
                   p == gh[c].pending[s]
                   q == gh'[c].pending[s]
                   Z == Later(c)
                   Y == Later(c)'
        <4>1. box \in Seq(FrameType) /\ pipe \in Seq(FrameType) /\ p \in Seq(Alphabet)
              /\ q \in Seq(Alphabet)
          BY <1>0, FlowTypes
        <4>2. Z \in SUBSET Seq(Alphabet) /\ Y \in SUBSET Z
          BY LaterType
        <4>3. CASE Live(c)
          <5>1. Sent(s, x, box, pipe, w, p, Z)
            BY <2>0, <2>2, <4>3 DEF FlowOf, Flow
          <5>2. PICK e \in Output : Brings(s, frames, e) /\ Accounts(p, e, q, Y)
            BY <2>2, <4>3 DEF Emits
          <5>3. \/ inbox'[c] = box /\ Pipe(c)' = pipe \o frames
                \/ inbox'[c] = box \o frames /\ Pipe(c)' = <<>> /\ pipe = <<>>
            BY <1>0, <1>1, <2>2, <4>3, StillReached
          <5> HIDE DEF x, box, pipe, w, p, q, Z, Y
          <5>4. /\ Sent(s, x, box, pipe \o frames, w, q, Y)
                /\ pipe = <<>> => Sent(s, x, box \o frames, <<>>, w, q, Y)
            BY <4>1, <4>2, <5>1, <5>2, SentMore
          <5>5. Sent(s, x, inbox'[c], Pipe(c)', w, q, Y)
            BY <5>3, <5>4
          <5> QED
            BY <2>0, <4>3, <5>5 DEF Flow, x, w, q, Y
        <4>4. CASE ~Live(c)
          <5>1. Lost(s, x, box, w, Z)
            BY <2>0, <2>2, <4>4 DEF FlowOf, Flow
          <5>2. inbox'[c] = box
            BY <1>1, <4>4 DEF Live
          <5> HIDE DEF x, box, w, Z, Y
          <5>3. Lost(s, x, box, w, Y)
            BY <4>2, <5>1, LostLess
          <5> QED
            BY <2>0, <4>4, <5>2, <5>3 DEF Flow, x, w, Y
        <4> QED
          BY <4>3, <4>4
      <3> QED
        BY <3>1, <3>2, FlowWaits
    <2> QED
      BY <2>1, <2>2
  <1> QED
    BY <1>2, <1>3 DEF FlowInv

(* Frames without data of a stream leave its account as it was.            *)
LEMMA EmitsNothing ==
  ASSUME TypeOK, NEW c \in Calls, NEW s \in Streams, NEW frames,
         gh'[c].pending[s] = gh[c].pending[s], Later(c)' \subseteq Later(c),
         \A a \in Output : Carries(s, a, frames, a)
  PROVE  Emits(c, s, frames)
  <1> DEFINE p == gh[c].pending[s]
             Y == Later(c)'
  <1>1. p \in Seq(Alphabet)
    BY FlowTypes
  <1>2. Y \in SUBSET Seq(Alphabet)
    BY LaterType
  <1>3. gh'[c].pending[s] = p
    OBVIOUS
  <1> HIDE DEF p, Y
  <1>4. Brings(s, frames, <<>>)
    BY OutputFacts DEF Brings
  <1>5. ASSUME NEW z \in Y PROVE Redaction[p \o z] = <<>> \o Redaction[p \o z]
    <2>1. Redaction[p \o z] \in Output
      BY <1>1, <1>2, Redacts
    <2> QED
      BY <2>1, OutputFacts
  <1>6. Accounts(p, <<>>, p, Y)
    BY <1>5 DEF Accounts
  <1>7. <<>> \in Output
    BY OutputFacts
  <1> QED
    BY <1>3, <1>4, <1>6, <1>7 DEF Emits, p, Y

(* The host answers a request or lets gh run.                              *)
LEMMA FlowHandle ==
  ASSUME StreamInv, OnceInv, FlowInv, NEW c \in Calls, HandleAgent(c), gh[c].pc = "none",
         client[c].path = "bridge" => holder = c,
         UNCHANGED <<client, up, holder, written>>
  PROVE  FlowInv'
  <1>0. TypeOK
    BY DEF StreamInv
  <1>1. CASE /\ \E frame \in FrameType : frame.kind # "data" /\ Encode(c, <<frame>>)
             /\ gh' = gh
    <2>1. PICK frame \in FrameType : frame.kind # "data" /\ Encode(c, <<frame>>)
      BY <1>1
    <2> DEFINE frames == <<frame>>
    <2>2. /\ frames \in Seq(FrameType) /\ Encode(c, frames)
          /\ \A s \in Streams : \A i \in 1 .. Len(frames) : Piece(s, frames[i]) = <<>>
      BY <2>1 DEF Piece
    <2> HIDE DEF frames
    <2>3. \A s \in Streams : \A a \in Output : Carries(s, a, frames, a)
      BY <2>2, CarriesOther
    <2>4. Later(c)' = Later(c)
      BY <1>1 DEF Later
    <2>5. \A s \in Streams : Emits(c, s, frames)
      BY <1>0, <1>1, <2>3, <2>4, EmitsNothing
    <2>6. \A s \in Streams : gh'[c].pending[s] \in Seq(Alphabet)
      BY <1>0, <1>1, FlowTypes
    <2>7. \A d \in Calls \ {c} : gh'[d] = gh[d]
      BY <1>1
    <2> QED
      BY <2>2, <2>4, <2>5, <2>6, <2>7, FlowSends
  <1>2. CASE /\ gh' = [gh EXCEPT ![c].pc = "run"]
             /\ UNCHANGED <<closed, inbox, toBridge>>
    <2>1. /\ gh'[c].pc = "run" /\ gh'[c].pending = gh[c].pending
          /\ \A d \in Calls \ {c} : gh'[d] = gh[d]
      BY <1>0, <1>2, RunFields DEF TypeOK
    <2>2. ASSUME NEW d \in Calls PROVE FlowOf(d)'
      <3>1. FlowOf(d) /\ (Live(d)' <=> Live(d)) /\ Pipe(d)' = Pipe(d)
        BY <1>2 DEF FlowInv, Live, Pipe
      <3>2. gh'[d].pending = gh[d].pending /\ ((gh'[d].pc = "done") <=> (gh[d].pc = "done"))
        BY <2>1
      <3> QED
        BY <1>2, <3>1, <3>2, FlowSame
    <2> QED
      BY <2>2 DEF FlowInv
  <1> QED
    BY <1>0, <1>1, <1>2, HandleFrames

(* The request came over the bridge.                                       *)
LEMMA FlowTakeRequest ==
  ASSUME StreamInv, OnceInv, FlowInv, TakeRequest
  PROVE  FlowInv'
  BY RequestTurn, FlowHandle

(* The request came over a socket.                                         *)
LEMMA FlowTakeConnection ==
  ASSUME StreamInv, OnceInv, FlowInv, NEW c \in Calls, TakeConnection(c)
  PROVE  FlowInv'
  BY FlowHandle DEF TakeConnection, bridgeVars, history

(* gh ends and writes nothing more.                                        *)
LEMMA FlowGhEnds ==
  ASSUME StreamInv, FlowInv, NEW c \in Calls, GhEnds(c)
  PROVE  FlowInv'
  <1>0. gh \in [Calls -> GhType]
    BY DEF StreamInv, TypeOK
  <1>1. /\ gh[c].pc = "run" /\ gh' = [gh EXCEPT ![c].pc = "ended"]
        /\ UNCHANGED <<client, inbox, up, holder, toBridge, written>>
    BY DEF GhEnds, bridgeVars, history
  <1>2. /\ gh'[c].pc = "ended" /\ gh'[c].pending = gh[c].pending
        /\ \A d \in Calls \ {c} : gh'[d] = gh[d]
    BY <1>0, <1>1, RunFields
  <1>3. ASSUME NEW d \in Calls PROVE FlowOf(d)'
    <2>1. FlowOf(d) /\ (Live(d)' <=> Live(d)) /\ Pipe(d)' = Pipe(d)
      BY <1>1 DEF FlowInv, Live, Pipe
    <2>2. gh'[d].pending = gh[d].pending /\ ((gh'[d].pc = "done") <=> (gh[d].pc = "done"))
      BY <1>1, <1>2
    <2> QED
      BY <1>1, <2>1, <2>2, FlowSame
  <1> QED
    BY <1>3 DEF FlowInv

(* What gh writes is taken by the filter of its stream.                    *)
LEMMA FlowGhWrites ==
  ASSUME StreamInv, OnceInv, FlowInv, NEW c \in Calls, NEW s \in Streams,
         NEW bytes \in Seq(Alphabet), GhWrites(c, s, bytes)
  PROVE  FlowInv'
  <1>0. /\ TypeOK /\ gh \in [Calls -> GhType]
        /\ written \in [Calls -> [Streams -> Seq(Alphabet)]]
    BY DEF StreamInv, TypeOK
  <1>1. gh[c].pending[s] \in Seq(Alphabet) /\ written[c][s] \in Seq(Alphabet)
    BY <1>0, FlowTypes
  <1>2. gh[c].pending[s] \o bytes \in Seq(Alphabet)
    BY <1>1, ConcatProperties
  <1>3. /\ gh' = [gh EXCEPT ![c].pending[s] = gh[c].pending[s] \o bytes] /\ gh[c].pc = "run"
        /\ written' = IF Waiting(c) THEN [written EXCEPT ![c][s] = @ \o bytes] ELSE written
        /\ UNCHANGED <<client, inbox, up, holder, toBridge>>
    BY DEF GhWrites, bridgeVars
  <1>4. /\ gh'[c].pc = gh[c].pc /\ gh'[c].pending[s] = gh[c].pending[s] \o bytes
        /\ \A t \in Streams \ {s} : gh'[c].pending[t] = gh[c].pending[t]
        /\ \A d \in Calls \ {c} : gh'[d] = gh[d]
    <2> DEFINE q == gh[c].pending[s] \o bytes
    <2>1. q \in Seq(Alphabet) /\ Pends(c, s, q)
      BY <1>2, <1>3 DEF Pends
    <2> HIDE DEF q
    <2>2. /\ gh'[c].pc = gh[c].pc /\ gh'[c].pending[s] = q
          /\ \A t \in Streams \ {s} : gh'[c].pending[t] = gh[c].pending[t]
          /\ \A d \in Calls \ {c} : gh'[d] = gh[d]
      BY <1>0, <2>1, PendingFields
    <2> QED
      BY <2>2 DEF q
  <1>5. \A d \in Calls : (Live(d)' <=> Live(d)) /\ Pipe(d)' = Pipe(d) /\ FlowOf(d)
    BY <1>3 DEF FlowInv, Live, Pipe
  <1>6. ASSUME NEW d \in Calls \ {c} PROVE FlowOf(d)'
    <2>1. written'[d] = written[d]
      BY <1>0, <1>3
    <2> QED
      BY <1>3, <1>4, <1>5, <2>1, FlowSame
  <1>7. FlowOf(c)'
    <2>1. CASE ~Waiting(c)
      BY <1>3, <1>5, <2>1, FlowSame
    <2>2. CASE Waiting(c)
      <3>1. client'[c].pc # "done" /\ Later(c) = Seq(Alphabet) /\ Later(c)' = Seq(Alphabet)
        BY <1>3, <1>4, <2>2 DEF Waiting, Later
      <3>2. /\ written'[c][s] = written[c][s] \o bytes
            /\ \A t \in Streams \ {s} : written'[c][t] = written[c][t]
        BY <1>0, <1>3, <2>2
      <3>3. ~HasExit(inbox[c])
        BY <1>3, NoExitYet DEF HasExit
      <3>4. ASSUME NEW t \in Streams PROVE Flow(c, t)'
        <4>1. Flow(c, t)
          BY <1>5, <2>2 DEF FlowOf
        <4>2. CASE t # s
          BY <1>3, <1>4, <1>5, <3>1, <3>2, <4>1, <4>2 DEF Flow
        <4>3. CASE t = s
          <5> DEFINE v == written[c][s] \o bytes
                     q == gh[c].pending[s] \o bytes
          <5>1. CASE Live(c)
            <6>1. Sent(s, client[c].shown[s], inbox[c], Pipe(c), written[c][s], gh[c].pending[s],
                       Seq(Alphabet))
              BY <3>1, <4>1, <4>3, <5>1 DEF Flow
            <6>2. Sent(s, client[c].shown[s], inbox[c], Pipe(c), v, q, Seq(Alphabet))
              BY <1>1, <6>1, SentWrites
            <6>3. written'[c][s] = v /\ gh'[c].pending[s] = q
              BY <1>4, <3>2
            <6> HIDE DEF v, q
            <6> QED
              BY <1>3, <1>5, <3>1, <4>3, <5>1, <6>2, <6>3 DEF Flow
          <5>2. CASE ~Live(c)
            <6>1. Lost(s, client[c].shown[s], inbox[c], written[c][s], Seq(Alphabet))
              BY <3>1, <4>1, <4>3, <5>2 DEF Flow
            <6>2. Lost(s, client[c].shown[s], inbox[c], v, Seq(Alphabet))
              BY <1>1, <3>3, <6>1, LostWrites
            <6>3. written'[c][s] = v
              BY <3>2
            <6> HIDE DEF v
            <6> QED
              BY <1>3, <1>5, <3>1, <4>3, <5>2, <6>2, <6>3 DEF Flow
          <5> QED
            BY <5>1, <5>2
        <4> QED
          BY <4>2, <4>3
      <3> QED
        BY <3>1, <3>4, FlowWaits
    <2> QED
      BY <2>1, <2>2
  <1> QED
    BY <1>6, <1>7 DEF FlowInv

(* gh writes to one of its streams.                                        *)
LEMMA FlowGh ==
  ASSUME StreamInv, OnceInv, FlowInv, NEW c \in Calls, GhWritesSome(c)
  PROVE  FlowInv'
  <1>1. PICK s \in Streams, n \in 1 .. budget : \E bytes \in [1 .. n -> Alphabet] :
          GhWrites(c, s, bytes)
    BY DEF GhWritesSome
  <1>2. PICK bytes \in [1 .. n -> Alphabet] : GhWrites(c, s, bytes)
    BY <1>1
  <1>3. bytes \in Seq(Alphabet)
    BY DEF StreamInv, TypeOK
  <1> QED
    BY <1>2, <1>3, FlowGhWrites

(* The filter passes on what no later byte can change.                     *)
LEMMA FlowFilter ==
  ASSUME StreamInv, OnceInv, FlowInv, NEW c \in Calls, NEW s \in Streams, Filter(c, s)
  PROVE  FlowInv'
  <1>0. TypeOK /\ gh \in [Calls -> GhType]
    BY DEF StreamInv, TypeOK
  <1>1. /\ gh[c].pc \in {"run", "ended"}
        /\ UNCHANGED <<client, up, holder, written>>
    BY DEF Filter, bridgeVars, history
  <1>2. PICK frames \in Seq(FrameType), rest \in Seq(Alphabet), e \in Output :
          FilterSends(c, s, frames, rest, e)
    BY <1>0, FilterCorrect
  <1>3. /\ gh'[c].pc = gh[c].pc
        /\ \A d \in Calls \ {c} : gh'[d] = gh[d]
        /\ \A t \in Streams : gh'[c].pending[t] \in Seq(Alphabet)
        /\ Reached(c) => /\ gh'[c].pending[s] = rest
                         /\ \A t \in Streams \ {s} : gh'[c].pending[t] = gh[c].pending[t]
    <2>0. \A t \in Streams : gh[c].pending[t] \in Seq(Alphabet)
      BY <1>0, FlowTypes
    <2>1. CASE Pends(c, s, rest)
      <3>1. /\ gh'[c].pc = gh[c].pc /\ gh'[c].pending[s] = rest
            /\ \A t \in Streams \ {s} : gh'[c].pending[t] = gh[c].pending[t]
            /\ \A d \in Calls \ {c} : gh'[d] = gh[d]
        BY <1>0, <2>1, PendingFields
      <3>2. ASSUME NEW t \in Streams PROVE gh'[c].pending[t] \in Seq(Alphabet)
        BY <2>0, <3>1
      <3> QED
        BY <3>1, <3>2
    <2>2. CASE ~Reached(c) /\ gh' = [gh EXCEPT ![c].broken = TRUE]
      BY <1>0, <2>0, <2>2, BrokenFields
    <2> QED
      BY <1>2, <2>1, <2>2 DEF FilterSends, FilterKeepsRest
  <1>4. client[c].path = "bridge" /\ up => holder = c
    BY <1>1, GhHasTurn
  <1>5. Later(c) = Seq(Alphabet) /\ Later(c)' = Seq(Alphabet)
    BY <1>1, <1>3 DEF Later
  <1>6. ASSUME Waiting(c), Live(c), NEW t \in Streams PROVE Emits(c, t, frames)
    <2>1. Reached(c)
      BY <1>0, <1>6, StillReached
    <2>2. CASE t = s
      <3>1. Brings(s, frames, e) /\ Accounts(gh[c].pending[s], e, rest, Seq(Alphabet))
        BY <1>2 DEF FilterSends, CarriesOnly, Brings
      <3> QED
        BY <1>3, <1>5, <2>1, <2>2, <3>1 DEF Emits
    <2>3. CASE t # s
      <3>1. \A a \in Output : Carries(t, a, frames, a)
        BY <1>2, <2>3 DEF FilterSends, CarriesOnly
      <3> QED
        BY <1>0, <1>3, <1>5, <2>1, <2>3, <3>1, EmitsNothing
    <2> QED
      BY <2>2, <2>3
  <1>7. Encode(c, frames)
    BY <1>2 DEF FilterSends
  <1> QED
    BY <1>1, <1>3, <1>4, <1>5, <1>6, <1>7, FlowSends

(* What a filter holds at the end is too short to be the token.            *)
LEMMA FlowFinish ==
  ASSUME StreamInv, OnceInv, FlowInv, NEW c \in Calls, Finish(c)
  PROVE  FlowInv'
  <1>0. TypeOK
    BY DEF StreamInv
  <1>1. /\ gh[c].pc = "ended" /\ gh'[c].pc = "done" /\ gh'[c].pending = Nothing
        /\ \A d \in Calls \ {c} : gh'[d] = gh[d]
    BY <1>0, FinishFields
  <1>2. /\ Encode(c, LastFrames(c)) /\ (gh[c].broken \/ \A s \in Streams : ~Holds(c, s))
        /\ UNCHANGED <<client, up, holder, written>>
    BY DEF Finish, LastFrames, bridgeVars, history
  <1>3. client[c].path = "bridge" /\ up => holder = c
    BY <1>1, GhHasTurn
  <1>4. Later(c)' = {<<>>} /\ Later(c)' \subseteq Later(c)
    BY <1>1, LaterType DEF Later
  <1>5. \A s \in Streams : gh'[c].pending[s] = <<>> /\ gh'[c].pending[s] \in Seq(Alphabet)
    BY <1>1, EmptySeq DEF Nothing
  <1>6. ASSUME Waiting(c), Live(c), NEW s \in Streams PROVE Emits(c, s, LastFrames(c))
    <2> DEFINE p == gh[c].pending[s]
    <2>1. p \in Seq(Alphabet)
      BY <1>0, FlowTypes
    <2>2. p \in Output
      BY <2>1 DEF Output
    <2>3. Brings(s, LastFrames(c), p)
      BY <1>0, FinishSends DEF Brings
    <2>4. Len(p) < Len(Secret)
      <3>1. ~Holds(c, s)
        BY <1>0, <1>2, <1>6, StillReached
      <3>2. Len(p) \in Nat /\ Len(Secret) \in Nat
        BY <2>1, LenProperties, SecretLength
      <3> QED
        BY <3>1, <3>2 DEF Holds
    <2>5. gh'[c].pending[s] = <<>>
      BY <1>5
    <2>6. Emits(c, s, LastFrames(c)) <=>
            \E e \in Output : Brings(s, LastFrames(c), e) /\ Accounts(p, e, <<>>, {<<>>})
      BY <1>4, <2>5 DEF Emits
    <2> HIDE DEF p
    <2>7. Redaction[p] = p
      BY <2>1, <2>4, FlushClear
    <2>8. p \o <<>> = p /\ <<>> \o <<>> = <<>>
      BY <2>1, NoMore, EmptySeq
    <2>9. Redaction[<<>>] = <<>>
      BY RedactionEmpty
    <2>10. Redaction[p \o <<>>] = p \o Redaction[<<>> \o <<>>]
      BY <2>7, <2>8, <2>9
    <2>11. Accounts(p, p, <<>>, {<<>>})
      BY <2>10 DEF Accounts
    <2> QED
      BY <2>2, <2>3, <2>6, <2>11
  <1>7. LastFrames(c) \in Seq(FrameType)
    BY <1>0, FinishSends
  <1> QED
    BY <1>1, <1>2, <1>3, <1>4, <1>5, <1>6, <1>7, FlowSends

(* Every step preserves FlowInv.                                           *)
LEMMA FlowNext == StreamInv /\ OnceInv /\ FlowInv /\ [Next]_vars => FlowInv'
  <1> SUFFICES ASSUME StreamInv, OnceInv, FlowInv, [Next]_vars PROVE FlowInv'
    OBVIOUS
  <1>1. CASE UNCHANGED vars
    <2>1. ASSUME NEW d \in Calls PROVE FlowOf(d)'
      <3>1. FlowOf(d) /\ (Live(d)' <=> Live(d)) /\ Pipe(d)' = Pipe(d)
        BY <1>1 DEF FlowInv, Live, Pipe, vars
      <3> QED
        BY <1>1, <3>1, FlowSame DEF vars
    <2> QED
      BY <2>1 DEF FlowInv
  <1>2. CASE Progress
    BY <1>2, FlowClient, FlowBridge, FlowRelay, FlowTakeConnection, FlowTakeRequest,
       FlowGhEnds, FlowFilter, FlowFinish DEF Progress, ClientActs
  <1> QED
    BY <1>1, <1>2, FlowClient, FlowDrop, FlowCollapse, FlowGh DEF Next, ClientActs

(* What FlowInv says of every client.                                      *)
LEMMA FlowMeans ==
  ASSUME StreamInv, OnceInv, FlowInv
  PROVE  ShowsRedaction /\ ExitMeansComplete
  <1>0. TypeOK
    BY DEF StreamInv
  <1>1. ASSUME NEW c \in Calls, NEW s \in Streams
        PROVE  IsPrefix(client[c].shown[s], Redaction[written[c][s]])
    <2>1. /\ client[c].pc \in {"idle", "dialled", "sent", "left", "gone", "done"}
          /\ client[c].shown[s] \in Output /\ written[c][s] \in Seq(Alphabet)
      BY <1>0, FlowTypes DEF TypeOK, ClientType
    <2>2. CASE client[c].pc \in {"idle", "left", "gone"}
      <3>1. client[c].shown[s] = <<>>
        BY <2>2 DEF OnceInv, Clean, Nothing
      <3>2. Redaction[written[c][s]] \in Output
        BY <2>1, NoMore, Redacts, EmptySeq
      <3>3. Begins(<<>>, Redaction[written[c][s]])
        BY <3>2, OutputFacts DEF Begins
      <3> QED
        BY <3>1, <3>3, OutputFacts, BeginsPrefix
    <2>3. CASE Waiting(c)
      <3>1. Begins(client[c].shown[s], Redaction[written[c][s]])
        BY <2>3, FlowShown
      <3> QED
        BY <2>1, <3>1, BeginsPrefix
    <2>4. CASE client[c].pc = "done"
      <3>1. Begins(client[c].shown[s], Redaction[written[c][s]])
        BY <2>4 DEF FlowInv, FlowOf
      <3> QED
        BY <2>1, <3>1, BeginsPrefix
    <2> QED
      BY <2>1, <2>2, <2>3, <2>4 DEF Waiting
  <1>2. ASSUME NEW c \in Calls, client[c].result = "exit", NEW s \in Streams
        PROVE  client[c].shown[s] = Redaction[written[c][s]]
    <2>1. client[c].pc = "done"
      BY <1>2 DEF OnceInv, Clean
    <2> QED
      BY <1>2, <2>1 DEF FlowInv, FlowOf
  <1> QED
    BY <1>1, <1>2 DEF ShowsRedaction, ExitMeansComplete

(* The three invariants hold together.                                     *)
LEMMA FlowAlways == Spec => [](StreamInv /\ OnceInv /\ FlowInv)
  <1>1. Init => StreamInv /\ OnceInv /\ FlowInv
    BY StreamInit, OnceInit, FlowInit
  <1>2. StreamInv /\ OnceInv /\ FlowInv /\ [Next]_vars => (StreamInv /\ OnceInv /\ FlowInv)'
    BY StreamNext, OnceNext, FlowNext
  <1> QED
    BY <1>1, <1>2, PTL DEF Spec

(* A client is shown a beginning of the redacted output of its own gh and  *)
(* nothing else, for any token, any alphabet, however gh cuts its writes,  *)
(* whatever the size of a frame, and whoever leaves or dies on the way     *)
(* (secretFilter, frameWriter, RunBridge, ReadStream).                     *)
THEOREM OnlyRedactedShown == Spec => []ShowsRedaction
  <1>1. StreamInv /\ OnceInv /\ FlowInv => ShowsRedaction
    BY FlowMeans
  <1> QED
    BY <1>1, FlowAlways, PTL

(* A client that was told the exit code has shown all of that output, what *)
(* the filters held back included (Executor.Run flushes, then Stream sends *)
(* the exit frame).                                                        *)
THEOREM ExitAfterEverything == Spec => []ExitMeansComplete
  <1>1. StreamInv /\ OnceInv /\ FlowInv => ExitMeansComplete
    BY FlowMeans
  <1> QED
    BY <1>1, FlowAlways, PTL
=============================================================================
