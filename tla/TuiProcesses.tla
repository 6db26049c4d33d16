----------------------------- MODULE TuiProcesses ----------------------------
(***************************************************************************)
(* The process workspace of the terminal UI: Model.Update with its keys,   *)
(* messages and commands, over a daemon that other clients use as well.    *)
(* Update runs on one goroutine; each command runs on its own and its      *)
(* message is delivered in any order.  While the operator is in another    *)
(* workspace, or has quit, no key arrives here.                            *)
(*                                                                         *)
(* Abstractions.  model.generation is compared for equality only, so it is *)
(* kept as the mark `current` on the commands that carry its present value.*)
(* An output event is <<instance, sequence>>.  Layout, scrolling, help,    *)
(* details and notices are left out.                                       *)
(* loadRegistry's requests are one read of the daemon.                     *)
(*                                                                         *)
(* A Bug_ operator is a faulty variant of the definition that follows it.  *)
(***************************************************************************)
EXTENDS Naturals, Sequences, FiniteSets, Bags

CONSTANTS
  Keys, NoKey,
  Registries,     \* the lists of processes the daemon has in turn
  HasLauncher,    \* model.daemonLauncher is not nil
  MaxInstances,   \* bound on the runtimes ever started
  MaxOutput,      \* bound on the output events of a runtime
  MaxOthers,      \* bound on output, other clients' steps and slow answers
  MaxCommands     \* bound on the commands in flight

ASSUME TuiAssumption ==
  /\ NoKey \notin Keys
  /\ Registries \in Seq(Seq(Keys)) /\ Registries # <<>>
  /\ HasLauncher \in BOOLEAN
  /\ MaxInstances \in Nat /\ MaxOutput \in Nat /\ MaxOthers \in Nat
  /\ MaxCommands \in Nat

VARIABLES
  daemon,   \* external: what the daemon would answer
  view,     \* the Model
  commands  \* the bag of commands in flight

vars == <<daemon, view, commands>>

(* Instance 0 stands for no runtime.                                       *)
NoRuntime == [instance |-> 0, key |-> NoKey, active |-> FALSE]
Runtimes == [instance : 0 .. MaxInstances, key : Keys \cup {NoKey}, active : BOOLEAN]
Elements(s) == {s[i] : i \in DOMAIN s}

SelectedKey(v) == IF v.selected \in DOMAIN v.items THEN v.items[v.selected] ELSE NoKey

(***************************************************************************)
(* Commands.                                                               *)
(***************************************************************************)
Command(kind) ==
  [kind |-> kind, phase |-> "sent", key |-> NoKey, current |-> TRUE, after |-> 0,
   previous |-> 0, runtime |-> NoRuntime, events |-> {}, items |-> <<>>,
   failed |-> FALSE]

(* refreshCmd captures what the model holds when it is issued.             *)
Refresh(v) ==
  [Command("refresh") EXCEPT !.key = SelectedKey(v), !.after = v.lastSeq,
                             !.previous = v.runtime.instance]

Send(cs, command) == cs (+) SetToBag({command})
Done(cs, command) == cs (-) SetToBag({command})

(* model.generation++                                                      *)
Stale(command) == [command EXCEPT !.current = FALSE]
Outdated(cs) == BagOfAll(Stale, cs)

Room == BagCardinality(commands) < MaxCommands
Actions == {"start", "stop", "restart"}
Kinds == Actions \cup {"load", "refresh", "launch"}
InFlight(kind) == {c \in BagToSet(commands) : c.kind = kind}

Init ==
  /\ daemon = [up |-> TRUE, list |-> 1, next |-> 1, others |-> 0,
               runtime |-> [k \in Keys |-> NoRuntime], output |-> [k \in Keys |-> 0]]
  /\ view = [items |-> <<>>, selected |-> 0, loading |-> TRUE, registry |-> "loading",
             refreshing |-> FALSE, pending |-> FALSE, starting |-> FALSE,
             runtime |-> NoRuntime, known |-> FALSE, events |-> {}, lastSeq |-> 0,
             output |-> "closed", editing |-> {}]
  /\ commands = SetToBag({Command("load")})

(* Update returns a model and no command, or one command.                  *)
Become(v) == view' = v /\ UNCHANGED <<commands, daemon>>
BecomeAnd(v, cs, command) ==
  /\ view' = v
  /\ commands' = Send(cs, command)
  /\ UNCHANGED daemon

(***************************************************************************)
(* Keys, as Update and updateKey route them.                               *)
(***************************************************************************)
InEditor == view.editing # {}
InOutput == ~InEditor /\ view.output # "closed"
InProcesses == ~InEditor /\ view.output = "closed"

(* The output view: esc, the keys that scroll up, and f.                   *)
CloseOutput == InOutput /\ Become([view EXCEPT !.output = "closed"])
ScrollUp == InOutput /\ view.output = "following" /\ Become([view EXCEPT !.output = "paused"])
Follow ==
  /\ InOutput
  /\ IF view.output = "paused" /\ ~view.refreshing
     THEN /\ Room
          /\ BecomeAnd([view EXCEPT !.output = "following", !.refreshing = TRUE],
                       commands, Refresh(view))
     ELSE Become([view EXCEPT !.output =
                    IF @ = "paused" THEN "following" ELSE "paused"])

(* In Processes.                                                           *)
OpenOutput ==
  /\ InProcesses /\ view.items # <<>> /\ view.registry # "unavailable"
  /\ Become([view EXCEPT !.output = "paused"])

Bug_Settled == ~view.pending /\ view.registry # "unavailable" /\ view.items # <<>>

Settled ==
  /\ ~view.pending /\ ~view.loading
  /\ view.registry # "unavailable" /\ view.items # <<>>

EditProcess ==
  /\ InProcesses /\ Settled
  /\ Become([view EXCEPT !.editing = {<<SelectedKey(view), action>> : action \in
                      IF view.known /\ view.runtime.active
                      THEN {"stop", "restart"} ELSE {"start"}}])

(* resetSelection, apart from the generation.                              *)
Reset(v) == [v EXCEPT !.runtime = NoRuntime, !.known = FALSE, !.events = {}, !.lastSeq = 0]

Select(index) ==
  LET next == [Reset(view) EXCEPT !.selected = index, !.refreshing = TRUE] IN
  /\ InProcesses /\ Settled /\ Room
  /\ index \in DOMAIN view.items
  /\ BecomeAnd(next, Outdated(commands), Refresh(next))

Up == view.selected > 1 /\ Select(view.selected - 1)
Down == Select(view.selected + 1)

Reload ==
  /\ InProcesses /\ Room
  /\ ~view.pending /\ ~view.loading /\ ~view.starting
  /\ BecomeAnd([view EXCEPT !.loading = TRUE, !.registry = "loading", !.refreshing = FALSE],
               Outdated(commands), Command("load"))

ActionAvailable(action) == (action = "start") # view.runtime.active

Bug_WithAction(v, action) == [v EXCEPT !.pending = TRUE]

(* beginAction, once it is allowed.                                        *)
WithAction(v, action) == [v EXCEPT !.pending = TRUE, !.refreshing = FALSE]

MayAct(action) ==
  /\ Settled /\ ~view.starting
  /\ view.known
  /\ ActionAvailable(action)

BeginAction(action) ==
  /\ InProcesses /\ Room /\ MayAct(action)
  /\ BecomeAnd(WithAction(view, action), Outdated(commands),
               [Command(action) EXCEPT !.key = SelectedKey(view)])

BeginDaemonStart ==
  /\ InProcesses /\ Room
  /\ view.registry = "unavailable"
  /\ HasLauncher /\ ~view.starting /\ ~view.loading /\ ~view.pending
  /\ BecomeAnd([view EXCEPT !.starting = TRUE], commands, Command("launch"))

(* The form of openProcessEditor, with the actions it offers: aborted, or  *)
(* completed with one that beginAction still may refuse.                   *)
CloseEditor(v) == [v EXCEPT !.editing = {}]

AbortEditor == InEditor /\ Become(CloseEditor(view))

CompleteEditor(offer) ==
  /\ InEditor
  /\ IF MayAct(offer[2])
     THEN /\ Room
          /\ BecomeAnd(WithAction(CloseEditor(view), offer[2]), Outdated(commands),
                       [Command(offer[2]) EXCEPT !.key = SelectedKey(view)])
     ELSE Become(CloseEditor(view))

(***************************************************************************)
(* Messages: each ends its command.                                        *)
(***************************************************************************)
Deliver(c, kind, v) ==
  /\ c.kind = kind /\ c.phase = "done"
  /\ view' = v
  /\ UNCHANGED daemon

IndexOfKey(items, key) ==
  IF key \in Elements(items) THEN CHOOSE i \in DOMAIN items : items[i] = key
  ELSE IF items = <<>> THEN 0 ELSE 1

Unavailable(v) == [v EXCEPT !.registry = "unavailable", !.known = FALSE]

(* applyRegistryLoaded with a list: the selected process stays selected.   *)
WithItems(v, items) ==
  LET listed == [v EXCEPT !.items = items,
                          !.registry = IF items = <<>> THEN "empty" ELSE "populated",
                          !.selected = IndexOfKey(items, SelectedKey(v))] IN
  IF SelectedKey(listed) = SelectedKey(v) /\ items # <<>> THEN listed ELSE Reset(listed)

ApplyItems(c, kind, settled) ==
  LET items == c.items
      next == WithItems(settled, items)
      others == Done(commands, c)
      rest == IF items = <<>> \/ SelectedKey(next) # SelectedKey(view)
              THEN Outdated(others) ELSE others IN
  /\ ~c.failed
  /\ IF items = <<>>
     THEN /\ Deliver(c, kind, next)
          /\ commands' = rest
     ELSE /\ Deliver(c, kind, [next EXCEPT !.refreshing = TRUE])
          /\ commands' = Send(rest, Refresh(next))

ApplyFailure(c, kind, settled) ==
  /\ Deliver(c, kind, Unavailable(settled))
  /\ c.failed
  /\ commands' = Done(commands, c)

RegistryLoaded(c) ==
  \/ ApplyItems(c, "load", [view EXCEPT !.loading = FALSE])
  \/ ApplyFailure(c, "load", [view EXCEPT !.loading = FALSE])

(* applyRegistryLoaded clears `loading` here too.                          *)
DaemonLaunched(c) ==
  \/ ApplyItems(c, "launch", [view EXCEPT !.starting = FALSE, !.loading = FALSE])
  \/ ApplyFailure(c, "launch", [view EXCEPT !.starting = FALSE])

(* applyRuntime: another instance starts with no output.                   *)
WithRuntime(v, runtime) ==
  [(IF /\ runtime.instance # 0 /\ v.runtime.instance # 0
       /\ runtime.instance # v.runtime.instance
    THEN [v EXCEPT !.events = {}, !.lastSeq = 0] ELSE v)
   EXCEPT !.runtime = runtime, !.known = TRUE]

(* appendEvents                                                            *)
WithEvents(v, events) ==
  LET new == {e \in events : e[2] > v.lastSeq} IN
  [v EXCEPT !.events = @ \cup new,
            !.lastSeq = IF new = {} THEN @
                        ELSE CHOOSE n \in {e[2] : e \in new} : \A e \in new : e[2] <= n]

Bug_Concerns(c) == c.key \in Keys

(* The answer is for the present selection and generation.                 *)
Concerns(c) == c.key = SelectedKey(view) /\ c.current

Bug_Refreshed(c) ==
  LET answered == [view EXCEPT !.refreshing = FALSE] IN
  /\ Deliver(c, "refresh",
       IF ~Concerns(c) THEN view
       ELSE IF c.failed THEN answered
       ELSE WithEvents(WithRuntime(answered, c.runtime), c.events))
  /\ commands' = Done(commands, c)

Refreshed(c) ==
  LET answered == [view EXCEPT !.refreshing = FALSE] IN
  /\ Deliver(c, "refresh",
       IF ~Concerns(c) THEN view
       ELSE IF c.failed THEN [answered EXCEPT !.known = FALSE]
       ELSE WithEvents(WithRuntime(answered, c.runtime), c.events))
  /\ commands' = Done(commands, c)

ActionDone(c, action) ==
  LET answered == [view EXCEPT !.pending = FALSE]
      next == WithRuntime(answered, c.runtime)
      rest == Done(commands, c) IN
  \/ /\ ~Concerns(c) \/ c.failed
     /\ Deliver(c, action, answered)
     /\ commands' = rest
  \/ /\ Concerns(c) /\ ~c.failed
     /\ Deliver(c, action, [next EXCEPT !.refreshing = TRUE])
     /\ commands' = IF view.refreshing THEN rest ELSE Send(rest, Refresh(next))

(* A tick polls the selected process, unless its output is being read.     *)
Tick ==
  /\ Room
  /\ view.output # "paused"
  /\ view.items # <<>> /\ ~view.loading /\ ~view.starting
  /\ view.registry # "unavailable" /\ ~view.refreshing /\ ~view.pending
  /\ BecomeAnd([view EXCEPT !.refreshing = TRUE], commands, Refresh(view))

(***************************************************************************)
(* The commands at work.                                                   *)
(***************************************************************************)
Advance(c, next) == commands' = Send(Done(commands, c), next)

Fails(c) ==
  Advance(c, [Command(c.kind) EXCEPT !.phase = "done", !.failed = TRUE,
                   !.key = c.key, !.current = c.current])

Listed == Registries[daemon.list]

(* client.call: the daemon is reached and answers without an error.        *)
Served(c) == daemon.up /\ c.key \in Elements(Listed)

(* A request fails when the daemon cannot be reached or does not know the  *)
(* process, and when it takes longer than requestTimeout.                  *)
Disturb(d) == /\ daemon.others < MaxOthers
              /\ daemon' = [d EXCEPT !.others = @ + 1]

TimesOut(c) == c.phase # "done" /\ Disturb(daemon) /\ Fails(c) /\ UNCHANGED view

RequestFails(c) ==
  /\ c.phase # "done"
  /\ \/ c.kind = "load" /\ ~daemon.up
     \/ c.kind \in Actions \cup {"refresh"} /\ ~Served(c)
     \/ c.kind = "launch" /\ c.phase = "polling"
  /\ Fails(c)
  /\ UNCHANGED <<daemon, view>>

ReadRegistry(c) ==
  /\ <<c.kind, c.phase>> \in {<<"load", "sent">>, <<"launch", "polling">>}
  /\ daemon.up
  /\ Advance(c, [c EXCEPT !.phase = "done", !.items = Listed])
  /\ UNCHANGED <<daemon, view>>

(* refreshCmd asks for the status, and then for the output that follows.   *)
ReadStatus(c) ==
  /\ c.kind = "refresh" /\ c.phase = "sent" /\ Served(c)
  /\ LET runtime == daemon.runtime[c.key] IN
     Advance(c, [c EXCEPT !.phase = "status", !.runtime = runtime, !.previous = 0,
       !.after = IF runtime.instance # 0 /\ runtime.instance # c.previous
                 THEN 0 ELSE @])
  /\ UNCHANGED <<daemon, view>>

ReadLogs(c) ==
  /\ c.kind = "refresh" /\ c.phase = "status" /\ Served(c)
  /\ LET k == c.key IN
     Advance(c, [c EXCEPT !.phase = "done", !.after = 0,
       !.events = {<<daemon.runtime[k].instance, n>> : n \in c.after + 1 .. daemon.output[k]}])
  /\ UNCHANGED <<daemon, view>>

(* What the daemon makes of an action (Lifecycle has the steps): a start   *)
(* of a process that runs, or a stop of one that does not, changes nothing.*)
Started(k) ==
  [daemon EXCEPT !.runtime[k] = [instance |-> daemon.next, key |-> k, active |-> TRUE],
                 !.output[k] = 0, !.next = @ + 1]
Stopped(k) == [daemon EXCEPT !.runtime[k].active = FALSE]

After(action, k) ==
  IF action = "stop" THEN Stopped(k)
  ELSE IF action = "start" /\ daemon.runtime[k].active THEN daemon
  ELSE Started(k)

ServeAction(c, action) ==
  /\ c.kind = action /\ c.phase = "sent" /\ Served(c)
  /\ After(action, c.key).next <= MaxInstances + 1
  /\ \/ /\ daemon' = After(action, c.key)
        /\ Advance(c, [c EXCEPT !.phase = "done", !.runtime = daemon'.runtime[c.key]])
     \/ Disturb(After(action, c.key)) /\ Fails(c)
  /\ UNCHANGED view

(* The launcher runs dovikd, which may fail to start or to serve.          *)
Launched == {daemon, [daemon EXCEPT !.up = TRUE]}

(* Whatever came of it, the registry is polled for five seconds.           *)
LaunchDaemon(c) ==
  /\ c.kind = "launch" /\ c.phase = "sent"
  /\ Advance(c, [c EXCEPT !.phase = "polling"])
  /\ daemon' \in Launched
  /\ UNCHANGED view

(***************************************************************************)
(* The daemon, its processes and its other clients.                        *)
(***************************************************************************)
Produce(k) ==
  /\ daemon.runtime[k].active /\ daemon.output[k] < MaxOutput
  /\ Disturb([daemon EXCEPT !.output[k] = @ + 1])

OthersStart(k) ==
  /\ daemon.up /\ k \in Elements(Listed) /\ ~daemon.runtime[k].active
  /\ daemon.next <= MaxInstances
  /\ Disturb(Started(k))

Ends(k) == daemon.runtime[k].active /\ Disturb(Stopped(k))

(* Definitions are added and, when they do not run, removed.               *)
Relist ==
  /\ daemon.up /\ daemon.list < Len(Registries)
  /\ LET lost == Elements(Listed) \ Elements(Registries[daemon.list + 1]) IN
     /\ \A k \in lost : ~daemon.runtime[k].active
     /\ daemon' = [daemon EXCEPT !.list = @ + 1,
          !.runtime = [k \in Keys |-> IF k \in lost THEN NoRuntime ELSE @[k]],
          !.output = [k \in Keys |-> IF k \in lost THEN 0 ELSE @[k]]]

(* The daemon ends with its processes and their output; it comes back.     *)
GoDown ==
  /\ daemon.up
  /\ Disturb([daemon EXCEPT !.up = FALSE, !.output = [k \in Keys |-> 0],
                !.runtime = [k \in Keys |-> [@[k] EXCEPT !.active = FALSE]]])

ComeUp == ~daemon.up /\ daemon' = [daemon EXCEPT !.up = TRUE]

DaemonStep ==
  /\ \/ ComeUp \/ Relist \/ GoDown
     \/ \E k \in Keys : Produce(k) \/ OthersStart(k) \/ Ends(k)
  /\ UNCHANGED <<view, commands>>

(***************************************************************************)
(* The specification.                                                      *)
(***************************************************************************)
KeyPress ==
  \/ CloseOutput \/ ScrollUp \/ Follow
  \/ OpenOutput \/ Up \/ Down \/ Reload \/ BeginDaemonStart
  \/ \E action \in Actions : BeginAction(action)
  \/ EditProcess \/ AbortEditor
  \/ \E offer \in view.editing : CompleteEditor(offer)

Message(c) ==
  /\ c \in BagToSet(commands)
  /\ \/ RegistryLoaded(c) \/ DaemonLaunched(c) \/ Refreshed(c)
     \/ \E action \in Actions : ActionDone(c, action)

Work(c) ==
  /\ c \in BagToSet(commands)
  /\ \/ RequestFails(c) \/ TimesOut(c) \/ ReadRegistry(c)
     \/ ReadStatus(c) \/ ReadLogs(c) \/ LaunchDaemon(c)
     \/ \E action \in Actions : ServeAction(c, action)

Next ==
  \/ KeyPress \/ Tick \/ DaemonStep
  \/ \E c \in BagToSet(commands) : Message(c) \/ Work(c)

Spec == Init /\ [][Next]_vars

(* The clock ticks, a refresh is a goroutine whose requests are answered   *)
(* or time out, and its message is delivered.                              *)
FairSpec ==
  /\ Spec
  /\ WF_vars(Tick)
  /\ WF_vars(\E c \in InFlight("refresh") : Message(c) \/ Work(c))

(***************************************************************************)
(* Properties.                                                             *)
(***************************************************************************)
Phases == {"sent", "status", "polling", "done"}

(* Every field of the model and of the commands has its type; the selected *)
(* row exists whenever there is a row to select.                           *)
TypeOK ==
  /\ view.selected \in 0 .. Len(view.items)
  /\ view.items # <<>> => view.selected # 0
  /\ view.registry \in {"loading", "empty", "populated", "unavailable"}
  /\ view.runtime \in Runtimes
  /\ view.output \in {"closed", "paused", "following"}
  /\ BagCardinality(commands) <= MaxCommands
  /\ \A c \in BagToSet(commands) : c.kind \in Kinds /\ c.phase \in Phases

(* One command of these kinds is in flight if the flag is set, else none.  *)
Announces(flag, kinds) ==
  LET found == {c \in BagToSet(commands) : c.kind \in kinds} IN
  IF flag THEN \E c \in found : found = {c} /\ commands[c] = 1 ELSE found = {}

(* The flags that guard the keys tell what is in flight: at most one start,*)
(* stop or restart, and it is for the selected process, whose selection    *)
(* cannot change before the answer; and a list that is being read either by*)
(* a reload or by the start of a daemon, never by both.  While a refresh is*)
(* awaited, one whose answer will be taken is on its way: nothing leaves   *)
(* the model waiting for one it will ignore, which would end the polling.  *)
FlagsMatch ==
  /\ view.refreshing /\ view.items # <<>> => \E c \in InFlight("refresh") : Concerns(c)
  /\ Announces(view.pending, Actions)
  /\ \A action \in Actions : \A c \in InFlight(action) : Concerns(c)
  /\ Announces(view.loading, {"load"})
  /\ Announces(view.starting, {"launch"})
  /\ ~(view.loading /\ view.starting)

(* What is shown as the state of the selected process is a state of that   *)
(* process: no answer for another selection is shown under this one.       *)
ShowsSelected == view.runtime.key \in {NoKey, SelectedKey(view)}

(* The form for a process acts on the process it was opened for: nothing   *)
(* that arrives while it is open moves the selection.                      *)
EditorActsOnSelection == \A offer \in view.editing : offer[1] = SelectedKey(view)

(***************************************************************************)
(* The inductive strengthening of these three.                             *)
(***************************************************************************)

(* The daemon keeps runtimes under their own keys.                         *)
RuntimeType == [instance : Nat, key : Keys \cup {NoKey}, active : BOOLEAN]
DaemonOK ==
  /\ daemon \in [up : BOOLEAN, list : 1 .. Len(Registries), next : Nat, others : Nat,
                 runtime : [Keys -> RuntimeType], output : [Keys -> Nat]]
  /\ \A k \in Keys : daemon.runtime[k].key \in {NoKey, k}

CommandFields == {"kind", "phase", "key", "current", "after", "previous", "runtime",
                  "events", "items", "failed"}

(* A command brings a list of keys and a runtime of its own process.       *)
CommandOK(c) ==
  /\ DOMAIN c = CommandFields
  /\ c.kind \in Kinds /\ c.current \in BOOLEAN
  /\ c.items \in Seq(Keys)
  /\ c.runtime.key \in {NoKey, c.key}

(* What is not a refresh is alone, and never outdated.  A refresh that is  *)
(* not outdated is there as often as the bag says.                         *)
CommandsOK(cs) ==
  /\ \A c \in BagToSet(cs) :
       /\ CommandOK(c)
       /\ c.current => cs[c] \in Nat \ {0}
       /\ c.kind # "refresh" => c.current /\ cs[c] = 1
  /\ \A c, d \in BagToSet(cs) : c.kind # "refresh" /\ d.kind # "refresh" => c = d

ViewFields == {"items", "selected", "loading", "registry", "refreshing", "pending",
               "starting", "runtime", "known", "events", "lastSeq", "output", "editing"}

(* While a form is open, no list is on its way that could move what it is  *)
(* about.                                                                  *)
ViewOK(v) ==
  /\ DOMAIN v = ViewFields
  /\ v.items \in Seq(Keys)
  /\ {v.loading, v.pending, v.starting, v.refreshing} \subseteq BOOLEAN
  /\ v.runtime.key \in {NoKey, SelectedKey(v)}
  /\ v.starting => v.registry = "unavailable"
  /\ v.editing # {} => ~v.loading /\ ~v.starting
  /\ \A offer \in v.editing : offer[1] = SelectedKey(v) /\ offer[2] \in Actions

(* The flags and the commands in flight.                                   *)
FlagsOK(v, cs) ==
  /\ v.pending <=> \E c \in BagToSet(cs) : c.kind \in Actions
  /\ v.loading <=> \E c \in BagToSet(cs) : c.kind = "load"
  /\ v.starting <=> \E c \in BagToSet(cs) : c.kind = "launch"
  /\ \A c \in BagToSet(cs) : c.kind \in Actions => c.key = SelectedKey(v)
  /\ v.refreshing /\ v.items # <<>> =>
       \E c \in BagToSet(cs) : c.kind = "refresh" /\ c.current /\ c.key = SelectedKey(v)

TuiInv == DaemonOK /\ ViewOK(view) /\ CommandsOK(commands) /\ FlagsOK(view, commands)

(* A list is there, no action is pending, and polling is not paused by the *)
(* output view.                                                            *)
Polled == view.registry = "populated" /\ ~view.pending /\ view.output # "paused"

SelectedServed == daemon.up /\ SelectedKey(view) \in Elements(Listed)
SelectedRuntime == daemon.runtime[SelectedKey(view)]
SelectedOutput == daemon.output[SelectedKey(view)]

(* Once the process workspace is polled for good and the daemon settles, a *)
(* state shown as known is the one the daemon has for that process now,    *)
(* whatever answers overlapped, were late or came out of order before.     *)
StatusConverges ==
  <>[]Polled => <>[](view.known => SelectedServed /\ view.runtime = SelectedRuntime)

(* And so is the output: every event of the current run is on the screen.  *)
(* (The code does not achieve this: the run of this property finds a       *)
(* refresh whose status was read before a start and whose output after it; *)
(* lastSeq then counts events of a run that applyRuntime never saw, and the*)
(* events of the next run with those numbers are not shown.)               *)
OutputConverges ==
  <>[]Polled =>
    <>[](view.known => \A n \in 1 .. SelectedOutput : <<SelectedRuntime.instance, n>> \in view.events)
=============================================================================
