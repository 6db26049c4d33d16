--------------------------- MODULE ExecutionStream --------------------------
(***************************************************************************)
(* The output of gh on its way to the agent that asked for it.  gh writes  *)
(* in pieces on two streams; a secretFilter on each holds back what may be *)
(* the beginning of the account's token; a frameWriter cuts the rest into  *)
(* frames, and an exit frame ends the answer.  A native agent or a control *)
(* client reads the frames from its own socket.  In a container they pass  *)
(* a bridge: one pipe each way for all clients, and a mutex that a client  *)
(* holds from its request to the end of its answer.  Nothing in a frame    *)
(* says whose it is.                                                       *)
(*                                                                         *)
(* Here a call is one connection of one client.  Bytes are the symbols of  *)
(* Alphabet, and the replacement text is one symbol.  What gh does and     *)
(* whether a call is permitted (IdentityService) is a choice.              *)
(* A Bug_ operator is a faulty variant of the definition that follows it.  *)
(***************************************************************************)
EXTENDS Naturals, Sequences, SequencesExt

CONSTANTS
  MaxCalls,   \* bound on the connections made
  Paths,      \* how they may be made: "bridge", "socket"
  Requests,   \* what they may ask for: "execute", "query"
  Alphabet,   \* the bytes gh writes
  Secret,     \* the token, a sequence of bytes
  FrameSize,  \* the bytes a frame carries at most
  MaxBytes    \* bound on what gh writes, over all calls

Streams == {"stdout", "stderr"}
Redacted == "[credential redacted]"

ASSUME StreamAssumption ==
  /\ Secret \in Seq(Alphabet) /\ Secret # <<>>
  /\ Redacted \notin Alphabet
  /\ FrameSize \in Nat \ {0} /\ MaxBytes \in Nat /\ MaxCalls \in Nat
  /\ Paths \subseteq {"bridge", "socket"}
  /\ Requests \subseteq {"execute", "query"}

(* Calls are numbered in the order in which they are made.                 *)
Calls == 1 .. MaxCalls
NoCall == 0

VARIABLES
  client,    \* each call as its client sees it
  inbox,     \* the frames on each client's connection
  closed,    \* the connections closed by the other end
  up,        \* the bridge process lives
  holder,    \* the call whose goroutine holds the bridge's mutex
  passed,    \* the holder's request was passed on
  toHost,    \* the bridge's standard output: requests, by call
  toBridge,  \* the bridge's standard input: frames
  serving,   \* the call whose request the host's bridge loop is handling
  gh,        \* the execution of each call
  budget,    \* the bytes that may still be written
  written    \* history: what gh wrote for each call its client waits for

vars == <<client, inbox, closed, up, holder, passed, toHost, toBridge, serving, gh,
          budget, written>>
history == <<budget, written>>

bridgeVars == <<up, holder, passed, toHost>>

Nothing == [s \in Streams |-> <<>>]

Init ==
  /\ client = [c \in Calls |-> [pc |-> "idle", path |-> "socket", request |-> "execute",
                                shown |-> Nothing, heard |-> {},
                                result |-> "none"]]
  /\ inbox = [c \in Calls |-> <<>>]
  /\ closed = {}
  /\ up = TRUE
  /\ holder = NoCall
  /\ passed = FALSE
  /\ toHost = <<>>
  /\ toBridge = <<>>
  /\ serving = NoCall
  /\ gh = [c \in Calls |-> [pc |-> "none", pending |-> Nothing,
                            broken |-> FALSE]]
  /\ budget = MaxBytes
  /\ written = [c \in Calls |-> Nothing]

(***************************************************************************)
(* Frames.  `of` is the call a frame was made for; no code can read it.    *)
(* The code and the error of an exit frame make no difference here: it     *)
(* ends the answer and the client reports it.                              *)
(***************************************************************************)
Data(c, s, bytes) == [kind |-> "data", of |-> c, stream |-> s, data |-> bytes, error |-> FALSE]
ExitFrame(c) == [kind |-> "exit", of |-> c, stream |-> "none", data |-> <<>>, error |-> FALSE]
Answer(c, error) == [kind |-> "answer", of |-> c, stream |-> "none", data |-> <<>>, error |-> error]

Smaller(m, n) == IF m < n THEN m ELSE n

(* frameWriter.Write: nothing is sent for an empty write.                  *)
Frames(c, s, bytes) ==
  [i \in 1 .. (Len(bytes) + FrameSize - 1) \div FrameSize |->
     Data(c, s, SubSeq(bytes, (i - 1) * FrameSize + 1, Smaller(i * FrameSize, Len(bytes))))]

Waiting(c) == client[c].pc \in {"dialled", "sent"}

(* Frames are encoded onto the pipe to the bridge, or onto the client's    *)
(* connection.  When the other end is gone they are lost, the writer may   *)
(* learn of it, and its encoder then fails ever after.                     *)
Reached(c) == IF client[c].path = "bridge" THEN up ELSE Waiting(c)

Encode(c, frames) ==
  IF Reached(c) /\ ~gh[c].broken
  THEN /\ toBridge' = IF client[c].path = "bridge" THEN toBridge \o frames ELSE toBridge
       /\ inbox' = IF client[c].path = "bridge" THEN inbox
                   ELSE [inbox EXCEPT ![c] = @ \o frames]
  ELSE UNCHANGED <<toBridge, inbox>>

(***************************************************************************)
(* The client: runGH with ReadStream for an execution, callAgentContext    *)
(* for a query.                                                            *)
(***************************************************************************)
Dial(c, path, request) ==
  /\ client[c].pc = "idle"
  /\ \A d \in 1 .. c - 1 : client[d].pc # "idle"
  /\ path = "bridge" => up
  /\ client' = [client EXCEPT ![c].pc = "dialled", ![c].path = path, ![c].request = request]
  /\ UNCHANGED <<inbox, closed, bridgeVars, toBridge, serving, gh, history>>

Send(c) ==
  /\ client[c].pc = "dialled"
  /\ client' = [client EXCEPT ![c].pc = "sent"]
  /\ UNCHANGED <<inbox, closed, bridgeVars, toBridge, serving, gh, history>>

(* An execution shows data until an exit frame, and takes any other frame  *)
(* for an error; a query takes the first frame it gets.                    *)
Heard(call, frame) ==
  LET heard == [call EXCEPT !.heard = @ \cup {frame.of}]
      end(result) == [heard EXCEPT !.pc = "done", !.result = result] IN
  IF call.request = "query" THEN end("answered")
  ELSE CASE frame.kind = "exit" -> end("exit")
         [] frame.kind = "data" -> [heard EXCEPT !.shown[frame.stream] = @ \o frame.data]
         [] OTHER               -> end("invalid")

Read(c) ==
  /\ client[c].pc = "sent"
  /\ inbox[c] # <<>>
  /\ inbox' = [inbox EXCEPT ![c] = Tail(@)]
  /\ client' = [client EXCEPT ![c] = Heard(@, Head(inbox[c]))]
  /\ UNCHANGED <<closed, bridgeVars, toBridge, serving, gh, history>>

(* "gh execution channel closed": the connection ended before the answer.  *)
ReadEnd(c) ==
  /\ Waiting(c)
  /\ inbox[c] = <<>>
  /\ c \in closed
  /\ client' = [client EXCEPT ![c].pc = "done", ![c].result = "closed"]
  /\ UNCHANGED <<inbox, closed, bridgeVars, toBridge, serving, gh, history>>

(* The client is interrupted or dies, with its request sent or not.        *)
Leave(c) ==
  /\ Waiting(c)
  /\ client' = [client EXCEPT ![c].pc = IF @ = "sent" THEN "left" ELSE "gone",
                              ![c].shown = Nothing]
  /\ inbox' = [inbox EXCEPT ![c] = <<>>]
  /\ written' = [written EXCEPT ![c] = Nothing]
  /\ UNCHANGED <<closed, bridgeVars, toBridge, serving, gh, budget>>

(***************************************************************************)
(* The bridge: one goroutine per connection, serialised by mu.             *)
(***************************************************************************)
Lock(c) ==
  /\ up
  /\ holder = NoCall
  /\ client[c].path = "bridge"
  /\ client[c].pc \in {"dialled", "sent", "left", "gone"}
  /\ c \notin closed
  /\ holder' = c
  /\ passed' = FALSE
  /\ UNCHANGED <<client, inbox, closed, up, toHost, toBridge, serving, gh, history>>

(* The goroutine returns: unlock, then close the connection.               *)
Release(c) ==
  /\ holder' = NoCall
  /\ closed' = closed \cup {c}

(* The request is passed on, unless its client left without one, or it     *)
(* cannot be decoded or encoded.                                           *)
Pass(c) ==
  /\ holder = c
  /\ ~passed
  /\ \/ /\ client[c].pc \in {"sent", "left"}
        /\ toHost' = Append(toHost, c)
        /\ passed' = TRUE
        /\ UNCHANGED <<holder, closed>>
     \/ /\ client[c].pc \in {"sent", "left", "gone"}
        /\ Release(c)
        /\ UNCHANGED <<toHost, passed>>
  /\ UNCHANGED <<client, inbox, up, toBridge, serving, gh, history>>

Bug_EndsWhenLeft(c, frame) ==
  frame.kind = "exit" \/ frame.error \/ client[c].request # "execute" \/ ~Waiting(c)

Bug_EndsOnExit(c, frame) == frame.kind = "exit" \/ frame.error

(* The frame that ends an answer, whether or not the client is still there.*)
EndsAnswer(c, frame) ==
  frame.kind = "exit" \/ frame.error \/ client[c].request # "execute"

Relay(c) ==
  /\ holder = c
  /\ passed
  /\ toBridge # <<>>
  /\ toBridge' = Tail(toBridge)
  /\ inbox' = IF Waiting(c) THEN [inbox EXCEPT ![c] = Append(@, Head(toBridge))] ELSE inbox
  /\ IF EndsAnswer(c, Head(toBridge)) THEN Release(c) ELSE UNCHANGED <<holder, closed>>
  /\ UNCHANGED <<client, up, passed, toHost, serving, gh, history>>

(* The bridge dies, or its pipes are closed with the run of its container. *)
Collapse ==
  /\ up
  /\ up' = FALSE
  /\ holder' = NoCall
  /\ toHost' = <<>>
  /\ toBridge' = <<>>
  /\ closed' = closed \cup {c \in Calls : client[c].path = "bridge" /\ client[c].pc # "idle"}
  /\ UNCHANGED <<client, inbox, passed, serving, gh, history>>
(***************************************************************************)
(* The host.  HandleAgent answers one request; over the bridge they come   *)
(* one after the other.                                                    *)
(***************************************************************************)

(* The handler returns, and with it the connection of a socket is closed.  *)
Served(c) ==
  IF client[c].path = "socket"
  THEN closed' = closed \cup {c} /\ UNCHANGED serving
  ELSE serving' = NoCall /\ UNCHANGED closed

(* A query is answered.  A request that cannot be decoded or is of another *)
(* version is refused the same way, one to execute too, before anything    *)
(* looks at what it asks for; a refusal of Execute is an exit frame.       *)
HandleAgent(c) ==
  \/ /\ \E error \in BOOLEAN :
          /\ client[c].request = "execute" => error
          /\ Encode(c, <<Answer(c, error)>>)
     /\ Served(c)
     /\ UNCHANGED gh
  \/ /\ client[c].request = "execute"
     /\ Encode(c, <<ExitFrame(c)>>)
     /\ Served(c)
     /\ UNCHANGED gh
  \/ /\ client[c].request = "execute"
     /\ gh' = [gh EXCEPT ![c].pc = "run"]
     /\ serving' = IF client[c].path = "bridge" THEN c ELSE serving
     /\ UNCHANGED <<closed, inbox, toBridge>>

(* Each request gets a new decoder, which may read ahead: requests that    *)
(* are already on the pipe are lost with it.                               *)
TakeRequest ==
  /\ up
  /\ serving = NoCall
  /\ toHost # <<>>
  /\ \E n \in 1 .. Len(toHost) : toHost' = SubSeq(toHost, n + 1, Len(toHost))
  /\ HandleAgent(Head(toHost))
  /\ UNCHANGED <<client, up, holder, passed, history>>

(* serveAgent and handleConnection: a goroutine for each connection.       *)
TakeConnection(c) ==
  /\ client[c].path = "socket"
  /\ client[c].pc \in {"sent", "left"}
  /\ c \notin closed
  /\ gh[c].pc = "none"
  /\ HandleAgent(c)
  /\ UNCHANGED <<client, bridgeVars, history>>

(* serveAgent closes a connection on which nothing comes in time, or whose *)
(* peer is not the session's, and handleConnection answers what it cannot  *)
(* decode with something that is no frame.                                 *)
Drop(c) ==
  /\ client[c].path = "socket"
  /\ Waiting(c)
  /\ c \notin closed
  /\ gh[c].pc = "none"
  /\ closed' = closed \cup {c}
  /\ UNCHANGED <<client, inbox, bridgeVars, toBridge, serving, gh, history>>

(***************************************************************************)
(* gh and the filters of its streams.                                      *)
(***************************************************************************)
Holds(c, s) == Len(gh[c].pending[s]) >= Len(Secret)

(* One read of the pipe that is gh's standard output or error.             *)
GhWrites(c, s, bytes) ==
  /\ gh[c].pc = "run"
  /\ ~gh[c].broken
  /\ ~Holds(c, s)
  /\ Len(bytes) <= budget
  /\ budget' = budget - Len(bytes)
  /\ written' = IF Waiting(c) THEN [written EXCEPT ![c][s] = @ \o bytes] ELSE written
  /\ gh' = [gh EXCEPT ![c].pending[s] = @ \o bytes]
  /\ UNCHANGED <<client, inbox, closed, bridgeVars, toBridge, serving>>

(* gh ends, or is killed after two minutes or with the caller.             *)
GhEnds(c) ==
  /\ gh[c].pc = "run"
  /\ gh' = [gh EXCEPT ![c].pc = "ended"]
  /\ UNCHANGED <<client, inbox, closed, bridgeVars, toBridge, serving, history>>

IndexOf(pending) ==
  LET found == {i \in 1 .. Len(pending) - Len(Secret) + 1 :
                  SubSeq(pending, i, i + Len(Secret) - 1) = Secret} IN
  IF found = {} THEN 0 ELSE CHOOSE i \in found : \A j \in found : i <= j

Bug_SettledAll(pending) == Len(pending)

(* Without a match, what no later byte can make the beginning of one.      *)
Settled(pending) == Len(pending) - Len(Secret) + 1

(* One pass of the loop of secretFilter.Write.  When the writer fails, the *)
(* pending bytes stay, the whole token perhaps among them.                 *)
Filter(c, s) ==
  LET pending == gh[c].pending[s]
      match == IndexOf(pending)
      out == IF match > 0
             THEN Frames(c, s, SubSeq(pending, 1, match - 1)) \o Frames(c, s, <<Redacted>>)
             ELSE Frames(c, s, SubSeq(pending, 1, Settled(pending)))
      rest == IF match > 0 THEN match + Len(Secret) ELSE Settled(pending) + 1 IN
  /\ gh[c].pc \in {"run", "ended"}
  /\ ~gh[c].broken
  /\ Holds(c, s)
  /\ Encode(c, out)
  /\ \/ gh' = [gh EXCEPT ![c].pending[s] = SubSeq(pending, rest, Len(pending))]
     \/ ~Reached(c) /\ gh' = [gh EXCEPT ![c].broken = TRUE]
  /\ UNCHANGED <<client, closed, bridgeVars, serving, history>>

Bug_NoFlush(c, s) == <<>>

(* secretFilter.Flush                                                      *)
Flush(c, s) == Frames(c, s, gh[c].pending[s])

(* Run returned, so both copies have ended; both filters are flushed and   *)
(* Stream sends the exit frame, also when gh was killed.                   *)
Finish(c) ==
  /\ gh[c].pc = "ended"
  /\ gh[c].broken \/ \A s \in Streams : ~Holds(c, s)
  /\ Encode(c, Flush(c, "stdout") \o Flush(c, "stderr") \o <<ExitFrame(c)>>)
  /\ gh' = [gh EXCEPT ![c].pc = "done", ![c].pending = Nothing]
  /\ Served(c)
  /\ UNCHANGED <<client, bridgeVars, history>>

(***************************************************************************)
(* The specification.                                                      *)
(***************************************************************************)
GhWritesSome(c) ==
  \E s \in Streams, n \in 1 .. budget : \E bytes \in [1 .. n -> Alphabet] :
    GhWrites(c, s, bytes)

(* What goes on by itself; gh ends at the latest with its two minutes.     *)
Progress ==
  \/ \E c \in Calls :
       \/ Send(c) \/ Read(c) \/ ReadEnd(c)
       \/ Lock(c) \/ Pass(c) \/ Relay(c)
       \/ TakeConnection(c) \/ GhEnds(c) \/ Finish(c)
       \/ \E s \in Streams : Filter(c, s)
  \/ TakeRequest

Next ==
  \/ Progress
  \/ \E c \in Calls :
       \/ \E path \in Paths, request \in Requests : Dial(c, path, request)
       \/ Leave(c)
       \/ Drop(c)
       \/ GhWritesSome(c)
  \/ Collapse

Spec == Init /\ [][Next]_vars

(* Some goroutine or client that can go on does.  That is enough because   *)
(* none of their steps can be repeated for ever.                           *)
FairSpec == Spec /\ WF_vars(Progress)

(***************************************************************************)
(* Properties.                                                             *)
(***************************************************************************)

(* What gh wrote with every occurrence of the token replaced, from the left*)
(* and in one piece: the reference for the filter.                         *)
Redaction[bytes \in Seq(Alphabet)] ==
  IF bytes = <<>> THEN <<>>
  ELSE IF IsPrefix(Secret, bytes)
  THEN <<Redacted>> \o Redaction[SubSeq(bytes, Len(Secret) + 1, Len(bytes))]
  ELSE <<Head(bytes)>> \o Redaction[Tail(bytes)]

(* A client never shows anything but a beginning of the redacted output of *)
(* its own gh, in order, however gh cut its writes, whoever left and where *)
(* a writer failed: no token in one piece or in two, no byte invented,     *)
(* dropped or doubled (secretFilter, frameWriter, RunBridge, ReadStream).  *)
ShowsRedaction ==
  \A c \in Calls, s \in Streams :
    IsPrefix(client[c].shown[s], Redaction[written[c][s]])

(* A client that is told the exit code has shown all the output, what the  *)
(* filters held back included, even when gh was killed (Executor.Run       *)
(* flushes before Stream sends the exit frame).                            *)
ExitMeansComplete ==
  \A c \in Calls :
    client[c].request = "execute" /\ client[c].result = "exit" =>
      \A s \in Streams : client[c].shown[s] = Redaction[written[c][s]]

(* A client is only ever given frames made for its own request, although   *)
(* all share one pipe and some leave in the middle of an answer (RunBridge *)
(* drains what nobody reads).  It takes a frame for invalid only when the  *)
(* host refused its request: then gh has not run for it, nor ever will, and*)
(* it has shown nothing.  No frame is taken for invalid in the middle of an*)
(* answer (HandleAgent, ReadStream).                                       *)
AnswersOwn ==
  \A c \in Calls :
    /\ client[c].heard \subseteq {c}
    /\ client[c].result = "invalid" => gh[c].pc = "none" /\ client[c].shown = Nothing

(***************************************************************************)
(* The inductive strengthening of AnswersOwn.                              *)
(***************************************************************************)
Output == Seq(Alphabet \cup {Redacted})
FrameType ==
  [kind : {"data", "exit", "answer"}, of : Calls, stream : Streams \cup {"none"},
   data : Output, error : BOOLEAN]

ClientType ==
  [pc : {"idle", "dialled", "sent", "left", "gone", "done"},
   path : {"bridge", "socket"}, request : {"execute", "query"},
   shown : [Streams -> Output], heard : SUBSET Calls,
   result : {"none", "answered", "exit", "invalid", "closed"}]
GhType ==
  [pc : {"none", "run", "ended", "done"}, pending : [Streams -> Seq(Alphabet)],
   broken : BOOLEAN]

(* Every variable has its type.                                            *)
TypeOK ==
  /\ client \in [Calls -> ClientType]
  /\ inbox \in [Calls -> Seq(FrameType)]
  /\ closed \subseteq Calls
  /\ up \in BOOLEAN /\ passed \in BOOLEAN
  /\ holder \in Calls \cup {NoCall} /\ serving \in Calls \cup {NoCall}
  /\ toHost \in Seq(Calls) /\ toBridge \in Seq(FrameType)
  /\ gh \in [Calls -> GhType]
  /\ budget \in Nat
  /\ written \in [Calls -> [Streams -> Seq(Alphabet)]]

(* The frame was made for the call, and answers what its client asked for; *)
(* an execution gets an answer only when it was refused.                   *)
Suits(c, frame) ==
  /\ frame.of = c
  /\ IF client[c].request = "query" THEN frame.kind = "answer"
     ELSE frame.kind = "answer" => frame.error

InboxInv ==
  \A c \in Calls :
    /\ client[c].pc = "idle" => inbox[c] = <<>>
    /\ \A i \in 1 .. Len(inbox[c]) : Suits(c, inbox[c][i])

(* Whose turn it is: what is on the pipes, and what the host is doing for  *)
(* the bridge, belongs to the call that holds the mutex and has passed its *)
(* request on.  Only the death of the bridge leaves a handler without one. *)
TurnInv ==
  /\ holder # NoCall => up /\ client[holder].path = "bridge" /\ client[holder].pc # "idle"
  /\ holder = NoCall \/ ~passed => toHost = <<>> /\ toBridge = <<>>
  /\ toHost # <<>> => toHost = <<holder>> /\ toBridge = <<>> /\ serving = NoCall
  /\ serving # NoCall =>
       /\ client[serving].path = "bridge" /\ client[serving].pc # "idle"
       /\ up => serving = holder /\ passed

(* The pipe to the bridge holds frames of that call; the one that ends its *)
(* answer is the last, and is there only when the handler has returned.    *)
BridgeInv ==
  \A i \in 1 .. Len(toBridge) :
    /\ Suits(holder, toBridge[i])
    /\ EndsAnswer(holder, toBridge[i]) => i = Len(toBridge) /\ serving = NoCall

(* gh runs for executions only, and over the bridge for the call served.   *)
GhInv ==
  \A c \in Calls : gh[c].pc \in {"run", "ended"} =>
    /\ client[c].request = "execute" /\ client[c].pc # "idle"
    /\ client[c].path = "bridge" => serving = c

(* What a client has read was for it.                                      *)
HeardOwn == \A c \in Calls : client[c].heard \subseteq {c}

StreamInv == TypeOK /\ InboxInv /\ TurnInv /\ BridgeInv /\ GhInv /\ HeardOwn

(***************************************************************************)
(* What ShowsRedaction and ExitMeansComplete need besides.                 *)
(***************************************************************************)

(* Where nothing was made yet or is kept any more, there is nothing; and an*)
(* encoder that failed once never reaches its client again.                *)
Clean(c) ==
  /\ client[c].pc = "idle" =>
       client[c].shown = Nothing /\ written[c] = Nothing /\ gh[c].pc = "none"
  /\ client[c].pc \in {"left", "gone"} => client[c].shown = Nothing
  /\ client[c].result = "exit" => client[c].pc = "done"
  /\ gh[c].pc \notin {"run", "ended"} => gh[c].pending = Nothing
  /\ gh[c].broken => client[c].pc # "idle" /\ ~Reached(c)

(* Over the bridge a call gets one turn, and in it one gh.                 *)
Once(c) ==
  gh[c].pc # "none" /\ client[c].path = "bridge" =>
    \/ c \in closed
    \/ holder = c /\ passed /\ toHost = <<>>

(* Nothing follows an exit frame.                                          *)
ExitLast(c) ==
  \A i \in 1 .. Len(inbox[c]) : inbox[c][i].kind = "exit" =>
    i = Len(inbox[c]) /\ c \in closed /\ gh[c].pc \notin {"run", "ended"}

OnceInv ==
  /\ holder \notin closed
  /\ \A c \in Calls : Clean(c) /\ Once(c) /\ ExitLast(c)

Has(frames, kind) == \E i \in 1 .. Len(frames) : frames[i].kind = kind

(* Data comes from gh alone.                                               *)
Silent(c) ==
  gh[c].pc = "none" =>
    /\ client[c].shown = Nothing /\ ~Has(inbox[c], "data")
    /\ holder = c => ~Has(toBridge, "data")

(* An execution gets an answer when gh has not run for it, and never will: *)
(* once the answer has arrived, the connection is closed.                  *)
Refused(c) ==
  /\ client[c].result = "invalid" => client[c].pc = "done" /\ client[c].request = "execute"
  /\ client[c].request = "execute" =>
       /\ holder = c /\ Has(toBridge, "answer") => gh[c].pc = "none"
       /\ Has(inbox[c], "answer") \/ client[c].result = "invalid" =>
            gh[c].pc = "none" /\ c \in closed

RefusalInv == \A c \in Calls : Silent(c) /\ Refused(c)

(* A client that has connected gets an answer or the end of its connection,*)
(* unless it leaves: the bridge's mutex is given back on every path, and no*)
(* request is lost in a decoder of the host.                               *)
CallsAnswered ==
  \A c \in Calls : (client[c].pc = "dialled") ~> ~Waiting(c)
=============================================================================
