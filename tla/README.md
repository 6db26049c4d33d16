# Formal models of Dovik

Dovik is a local supervisor for development processes. One daemon (`dovikd`)
owns the registered processes of a user, their lifecycle and their captured
output; the CLI, the terminal UI and an MCP server are clients of its control
endpoint. It also routes GitHub CLI calls through per-project personas.

This directory holds TLA+ models of that program, the TLC configurations that
check them on small instances, and TLAPS proofs of their safety properties for
instances of every size. `PROJECT.json` maps every definition to the source
lines it stands for.

## The system

| Part | State | Operations | What makes it correct |
|---|---|---|---|
| Runtime state machine (`supervision/state.go`, `model.go`) | state, instance, reason, exit code | `Transition`, reconciliation | only legal transitions, outcomes are final |
| Lifecycle manager (`lifecycle.go`) | registry, `active`, `outputs`, one mutex; one observer goroutine per runtime | `Start`, `Stop`, `Restart`, `Shutdown`, `observeExit` | registry and owner agree; no leaked or doubled process; every wait ends |
| Registry and its file (`registry*.go`, `replace_file_*.go`) | definitions and last runtimes, in memory and in `registry.json` | add, remove, `Save`, `LoadAndReconcile` | memory rolls back with a failed save; the file is never aside from memory; a hierarchy without dangling parts |
| Process ownership (`process*.go`) | process group or job object | start, request stop, kill, wait, close | a stopped tree is gone |
| Output buffer (`output.go`) | bounded events of one runtime | `Capture`, `Tail` | limits, newest events, honest truncation flag |
| Log follower (`cli/cli.go`) | position in the sequence | poll, print | nothing twice, nothing skipped that is retained |
| Daemon (`cmd/dovikd/main.go`) and transport (`control/transport_*.go`) | endpoint | boot, serve, shut down | one serving daemon, sole writer of the registry |
| Control server (`control/server.go`) | accept loop, one goroutine per connection | the requests above | shutdown waits for its handlers |
| Identity store and service (`identity/store.go`, `service.go`, `model.go`) | personas and projects in memory and in `state.json`; sessions and their listeners | configure, set policy, create, select persona, activate, revoke | every persona of a project is on its host; a revoked session stays revoked; no session lives without its listener, or a listener without its session |
| Executor, agents and containers (`identity/executor.go`, `stream.go`, `container.go`, `catalog.go`) | one goroutine per call, agent or container run | authorise and run `gh`, serve agents, run a container and undo it | a call runs for a project, persona and policy that were in force together; a container is removed; no secret passes the output filter |
| Answers of an execution (`identity/stream.go`, `bridge_unix.go`, the filter in `executor.go`) | pending bytes of each stream; one pipe shared by a container's clients | filter, frame, relay, read | a client gets its own answer, redacted, complete before the exit, and it gets one |
| Git configuration (`identity/git.go`) | the repository's author and credential helper | apply with rollback | all or nothing |
| Operator commands (`cli/identity.go`, `cli/gh.go`, `identityui/`) | a copy of what was read | read, change, write back; read, fetch a token, run `gh` | no token for another host; Git is routed only for configured projects |
| Terminal UI (`tui/model.go`, `daemon.go`, `editor.go`, `identity.go`) | list, selection, shown runtime and output, what is in flight | keys, ticks, answers of commands that run concurrently | no answer under the wrong selection; polling never stops; one mutation at a time; the view converges to the daemon |
| MCP server, control client, launcher, packaging | none | one request at a time | see "Not modelled" |

How they interact: a connection's handler goroutine decodes a request and calls
the manager or the identity service. The manager changes the registry under its
mutex and saves it before it releases it; `Start` keeps the mutex from the first
save to the last, `Stop` gives it up before it signals and waits for the
observer's `done` channel. The observer takes the mutex to record an exit. Only
the file survives the daemon; the next one fails the runtimes it finds active.

What is hard here: clients, observers, processes and shutdown interleave; a save
may fail before or after the file was replaced; the daemon may die between any
two steps; processes ignore SIGTERM, leave descendants on the pipes, detach or
leave their group; several daemons boot over one file and one endpoint; a client
follows a log that is truncated and replaced under it; the operator changes
projects and revokes sessions while agents connect, containers come up and `gh`
calls are on their way; agents leave in the middle of an answer on a shared
pipe; several programs of the operator read the same configuration, change
their copies and write them back; the terminal UI's answers overlap and
overtake each other.

## Modules

* `ProcessState`: the pure part of the runtime state machine. A runtime is a
  record of instance, state, reason and exit code; `Outcome`, `Finish`, `Fail`
  and `Reconcile` are what `observeExit`, the failing branches of `Start` and
  the boot make of it.
* `ProcessTree`: the operating system's side of one runtime: the leader, one
  descendant standing for all, and what group signals and job objects do to
  them.
* `Lifecycle`: the daemon's supervision, extending both. Variables are the
  manager's fields, the file, the mutex, the trees, the observers and what each
  goroutine is doing. `StartBegin`, `Spawn`, `PersistRunning` and `AbortWait`
  are `Start` between its calls to the outside; `StopBegin`, `Signal`,
  `WaitDone`, `WaitCancelled` and `StatusWithError` are `Stop`, and `Restart` by
  way of `StopSucceeds`; `ObserveEnd` and `RecordExit` are `observeExit`; the
  four definition operations are one action each because they hold the mutex
  throughout; `Boot`, `Terminate`, `AcceptFails`, `ServeReturns`,
  `ShutdownNext`, `ShutdownExpires`, `Exit` and `Crash` are the daemon itself.
* `RunLedger`: the abstract specification, what supervision promises a client:
  one entry per definition, runs begun only while none is active, always under
  a new instance, moved along legal transitions, lost only with the daemon.
  `LifecycleLedger` states that `Lifecycle` implements it; the ledger is the
  registry of the live daemon, or while there is none the one the next daemon
  will boot with.
* `OutputBuffer`: the buffer of one runtime, one step per loop pass of
  `Capture` and `enforceLimits`. Bytes are positions in the stream, so that
  completeness and order of what is retained can be stated.
* `LogFollow`: `process logs --follow` over `OutputBuffer`, through several
  runs of the same definition.
* `DaemonBoot`: several `dovikd` processes over one file and one endpoint, with
  the boot in the order of `runDaemon` and the steps of `ListenLocal`.
* `IdentityState`: the identity configuration as a value: policies and what
  they allow, the validation of a state, the authorisation of an invocation.
* `IdentityService`: the store with its file, sessions and listeners, the
  goroutines that create sessions, run a container or execute `gh`, and the
  daemon's restart. `Update` is one step because it holds the store's lock;
  `Snapshot` and `Insert` are `createSession`; `Launch` to `RevokeOwn` are
  `RunContainer` with the order of its deferred calls; `TakeContext`, `Clear`,
  `Run` and `EndCall` are `Execute` and `Executor.Run`; `AgentConnects`,
  `Authenticate` and `BridgeCalls` are the agents' two ways in, and
  `AcceptFails` ends the accept loop of a native session for good.
* `TuiProcesses`: the process workspace of the terminal UI. `view` is the
  `Model`, `commands` the bag of commands whose goroutines are at work or whose
  messages are waiting, `daemon` (external) what the daemon would answer. One
  action per key (`Up`, `Reload`, `BeginAction`, `Follow`, `EditProcess`, ...),
  per message (`RegistryLoaded`, `DaemonLaunched`, `Refreshed`, `ActionDone`,
  `Tick`) and per request of a command (`ReadStatus`, then `ReadLogs`).
* `ExecutionStream`: calls from agents and control clients to `gh` and back.
  `GhWrites`, `Filter` and `Finish` are a read of `gh`'s output, one pass of
  the loop of `secretFilter.Write`, and the flush with the exit frame; `Encode`
  puts frames on a connection or on the pipe to the bridge, where `Lock`,
  `Pass`, `Relay` and `Release` are the goroutine of one client; `Read` is
  `ReadStream`. `HandleAgent` also refuses what it cannot decode, and `Drop` is
  a connection that is closed without an answer. A frame remembers the call it was made for, which no code can
  read; the token is any sequence of bytes.
* `GitConfig`: `ApplyGitAuthor` and `ApplyGitCredentialHelper`, one step per git
  command that writes, and their rollback.
* `TuiIdentity`: the persona and project workspaces: `view` again the `Model`,
  `commands` the loads and saves in flight, `store` the daemon's store. One
  action per key or group of keys (`SwitchWorkspace`, `CompleteProjectForm`,
  `Confirm`, ...), per message (`Loaded`, `SaveAnswered`), per request
  (`ServeSave`, `ReadSnapshot`). `Nudge` is any message that reaches a form
  which is already completed.
* `OperatorClients`: `TuiIdentity` and `GitConfig` composed with a terminal
  command (`term`: `UsePersona`, `SwitchPolicy`, `EditPersona`, and
  `StartConfigure` to `RunGit` for the questionnaire), the gh proxy (`proxied`:
  `ReadForGh`, `FetchCredential`, `RunOriginalGh`) and the requests of anybody
  else (`Elsewhere`). `team` says which of them are at work.
* `MCLifecycle`, `MCIdentity`, `MCStream`, `MCEditors`, `MCTuiProcesses`: the
  constants of the instances.
* The theorems and their proofs, in modules that extend what they are about:
  `LifecycleProofs` (the supervision core of `Lifecycle`), `ManagerProofs`
  (registry, file, `LifecycleLedger`, Stop and Shutdown), `LogFollowProofs`
  (`OutputBuffer` and `LogFollow`), `DaemonBootProofs`, `IdentityProofs`,
  `StreamProofs` (`ExecutionStream`), `EditorsProofs` (`GitConfig`,
  `TuiIdentity`, `OperatorClients`) and `TuiProofs` (`TuiProcesses`).

Operators named `Bug_...` are faulty variants of the definition that follows
them. No specification uses them; replacing the definition by its variant must
make TLC report the property that `PROJECT.json` names.

## What TLC checks

| Run | Instance | Properties |
|---|---|---|
| `unix` | one definition, two clients, two start attempts, every fault, descendants that leave the group | `TypeOK`, `Ownership`, `NoLeak`, `OneLeader`, `StopStops`, `LegalTransitions`, `DiskOutcomesFinal` |
| `windows` | two definitions in two projects, one client, two attempts, detached descendants; failing saves, spawns and waits, crashes | `SupervisionInv`, `OneTree`, `DiskIsPast`, `NothingDangles`, `ImplementsLedger` |
| `live` | one definition, one client, two attempts, processes that ignore SIGTERM and descendants on the pipes, failing spawns, a failing `Accept`, and the failing save of a process just started, which `Start` then kills and waits for with the mutex held | `ShutdownStopsAll`, `ShutdownEnds`, `StopEnds`, `ExitRecorded` |
| `follow` | two runs of up to 6 bytes in writes of up to 4, limits of 3 bytes and 2 events, a follower with `--tail 1` | `WithinLimits`, `RetainsNewest`, `TailIsNext`, `PrintsInOrder` |
| `identity` | two goroutines, one session, two personas on hosts that agree up to case or not, one project in two shapes and two policies, three backends, three invocations, containers that fail at every step, updates that fail after the file was replaced, an accept loop that ends, crashes | `CallsCovered`, `RevokedStaysRevoked`, `ContainersOwned`, `HostsAgree`, `SessionLife` |
| `tui` | two processes of which the selected one is removed and then the other, two runs, two commands in flight, and one of: output, another client's start, an end, a slow request, the daemon going down | `FlagsMatch`, `ShowsSelected`, `EditorActsOnSelection`, `StatusConverges` |
| `boot` | three daemons, two definitions, both transports | `OneServing`, `Reachable`, `RefusedForCause` |
| `stream` | two calls, each over the bridge or a socket of its own, an execution or a query; two streams, a token of two equal bytes, three bytes of output in all, frames of one byte; clients that leave at any point, requests that are refused or dropped, a bridge that dies | `AnswersOwn`, `ShowsRedaction`, `ExitMeansComplete`, `CallsAnswered` |
| `editors` | two personas, hosts that agree up to case or not, one project, a fresh and a configured store, two changes of it; the TUI alone with two requests in flight, and a terminal command beside the gh proxy; one git command that fails | `HelperOnlyIfConfigured`, `TokenFitsHost`, `Unstuck`, `AllOrNothing` |

The bounds. Two start attempts are what a race between an instance and its
successor needs. Two clients are what two overlapping calls need; a third adds
only another waiter. One descendant stands for any number because `Wait`,
signals and closing treat them alike. The client set is symmetric where no
liveness is checked. A third daemon lets a crashed one leave a stale socket
that two others find. Every write size around the byte limit occurs (below, at,
above), and so do truncation by bytes and by events, within one write and
across runs. The operator's changes, revocations and restarts are steps of
their own between any two steps of a goroutine, so one goroutine meets all of
them; the second is the agent that calls over the bridge of the first one's
container. Sessions do not touch each other, so one is enough: the
only session is created, changed, revoked and asked for again afterwards.
Interactive `gh` invocations, which isolation refuses, are not among those of
the instance, nor is one in which a session selects an alternative persona or
`CloseWithComment` is permitted: these are covered by the proof of
`CallsCovered` alone. Two commands in flight are what two answers need to overtake each
other; a selected process that disappears moves the selection without a key.
`MaxOthers` bounds what happens to the daemon besides the UI's own actions.
A token of two equal bytes is the shortest that can overlap itself, and three
bytes can hold it at both positions, split at every place. The second call is
the one that waits for the bridge, or finds what the first left on it. One
change of the store between a read and what follows it is what makes the read
stale; with two, one is the program's own. The TUI and the terminal command are
at work in different behaviours of `editors`, because each only meets the other
as a change of the store, which `Elsewhere` makes too.

Every `Faults` set is a bound as well. `DiskIsPast` and `ImplementsLedger` are
checked without "flush": when the flush of the directory fails after the
rename, `Save` reports an error, memory rolls back and the file keeps the
change. The `unix` run includes that fault and shows what still holds.
`ShutdownStopsAll` is checked without failing signals and with one failing save
only ("record"), that of the process `Start` has just spawned; see the smaller
disagreements below. `live` has descendants in the process group only. One that left the group and holds a pipe survives the kill; `Start` then
keeps the mutex, and a shutdown waits, for as long as it lives.

Some properties of these runs deserve a word:

* `Ownership` says that `manager.active` and the registry agree at every step,
  so that "process is not owned by this daemon" and "runtime ownership changed
  before exit" are never returned.
* `StopStops` holds for a Stop that *reports success*. It is stated at the
  moment before the status lookup, when a newer instance may already exist.
* `ImplementsLedger` includes crashes: a run whose end could not be saved may
  be reported as lost with the daemon, and nothing else may change.
* `RetainsNewest` relates sequence numbers, byte positions and the byte
  counter over any history of truncation.
* `CallsCovered` compares what an execution acts on with `InForce`, a
  definition of what the configuration and the sessions permit that does not
  follow the code of `Context`. `Next` records what was in force when the call
  took its context (`Watch`). A change or revocation after that
  does not stop a call: `gh` runs to its end, at most two minutes.
* `SessionLife` follows a session from step to step: an agent gets in by the
  loop of its own native session and while that session is known, and only such
  an agent, once authenticated, or the bridge of its own container makes it
  active. That a session which lives can be reached is *not* so: an error of
  `Accept` ends the loop (`stream.go:107`) and the session stays.
* `ContainersOwned` exempts what the code cannot remove: a container whose
  creation was reported as failed, whose removal failed (the error is ignored),
  or whose daemon died. They are kept in the model as "left" and "orphan".
* `FlagsMatch` is what keeps the UI alive: `refreshing` blocks the ticks, so it
  must never wait for an answer that the generation check will drop.
* `StatusConverges` allows every transient error of the display (answers that
  overtake each other, requests that time out after they were served) and says
  that none of them stays.
* `ShowsRedaction` compares what a client has been shown with the redaction of
  the whole output, computed at once: whatever the split of writes, passes and
  frames, it is a prefix. With `ExitMeansComplete` it is all of it when the
  exit is read. `AnswersOwn` is about the shared pipe: the bridge keeps reading
  an answer whose client left, up to its last frame. An execution whose request
  the host cannot decode, or of another version, is answered by an error frame
  without an exit code (`stream.go:145`), which `ReadStream` reports as an
  invalid frame. That is the only way to such a report: `gh` has not run and
  will not, and nothing was shown.
* `AllOrNothing` takes a git command that fails to have changed nothing. One
  that is killed after its effect (`"killed"` in `GitFaults`) breaks it for the
  helper only: a reset that is reported as failed is not restored
  (`git.go:76`).
* `HelperOnlyIfConfigured` is about the order of `configure`'s effects; a
  failure between them leaves a configured project without the helper, never
  the reverse.

### Disagreements with the documentation

| Run | Shows |
|---|---|
| `boot_writer` | a second `dovikd` rewrites the registry of the running one before it notices it |
| `edit_race` | `policy disable` reads a proxy-level project, somebody isolates it, and the copy written back disables its policy and ends its isolation |
| `edit_crash` | a key during a save opens a second confirmation, the saved message removes the form below it, and accepting the confirmation dereferences no form |

Four more have a configuration that TLC answers with a counterexample
(`tlc -config <file> <module>`):

| Configuration | Module | Property | Shows |
|---|---|---|---|
| `MCLifecycle_tree.cfg` | `MCLifecycle` | `OneTree` | on Unix a restart does not wait for a descendant that redirected its output (`process.go:29`), although `managed-process-lifecycle/spec.md:34` has it "wait until the existing process tree has terminated" |
| `MCLogFollow_restart.cfg` | `LogFollow` | `FollowShowsLater` | a follower stays silent after a restart until the new run's sequence numbers pass its old position (`cli.go:398`) |
| `MCTuiProcesses_output.cfg` | `MCTuiProcesses` | `OutputConverges` | when a process starts between the status and the output request of one refresh, `lastSeq` counts events of a run the model has no runtime for; the output of a run that follows at once stays hidden (`tui/model.go:535`) |
| `MCDaemonBoot_race.cfg` | `DaemonBoot` | `OneServing` | two daemons that boot over a stale socket can both end up serving the same registry (`transport_other.go:42`) |

Smaller ones were met and have no run of their own. When the save of
"stopping" fails during `Shutdown`, the process is never signalled and outlives
the daemon (`lifecycle.go:178`), although the comment at `lifecycle.go:208` says
"Shutdown stops every runtime currently owned by the daemon". After a start attempt
that fails to spawn, `Logs` still answers with the output of the run before it
(`lifecycle.go:116`), although `openspec/specs/process-output/spec.md:28` ties
output to the current or most recent runtime. And a follower that has not
printed anything polls at position 0, which means "the newest `--tail` events":
a first burst larger than that is shown only in part (`cli.go:398`). The TUI
"SHALL [...] avoid overlapping refreshes for one selection"
(`openspec/specs/operator-clients/spec.md:103`), but `l` abandons a refresh in
flight and starts another after the list, and `f` while an action is pending
starts one next to it. And a process form acts on completion
(`editor.go:133`) where `openspec/specs/tui-presentation/spec.md:242` has a
confirmation for "project, persona, and process-action editors". A resize
while a confirmation is open reaches the completed form below it: if the list
has changed so that the form no longer validates, a new form takes its place
and the confirmation, still open, saves that one (`tui/model.go:191`). A persona
that does not validate, entered while a failed load has emptied the list, leaves
a completed form that no key closes (`tui/editor.go:140`).

### Fairness

`FairSpec` of `Lifecycle` assumes what the Go runtime and the operating system
give: a goroutine that can go on without the lock does (weak fairness); one
that wants the mutex gets it if it is free again and again (strong fairness; a
waiter that starves is handed Go's mutex directly); a context timeout fires; a
process that hears SIGTERM and received it ends, and so do descendants on its
pipes. Nothing is assumed of processes that ignore SIGTERM, of clients, of the
launch of a daemon or of its termination. So `StopEnds` is stated for processes
that hear SIGTERM: for others a Stop waits until the daemon shuts down.

`FairSpec` of `TuiProcesses` assumes that the clock ticks (`tickCmd` rearms
itself) and that some refresh in flight makes progress: its goroutine runs, its
requests are answered or end with `requestTimeout`, and Bubble Tea delivers its
message. Nothing is assumed of the operator, of actions, of loads or of the
daemon.

`FairSpec` of `ExecutionStream` assumes that whatever has something to do goes
on: the client that has dialled sends and reads, the bridge's goroutines and
the host's handlers run, the filter empties its bytes, and `gh` ends or is
killed after two minutes. One weak fairness condition over all of these is
enough, as none of them can go on for ever. Nothing is assumed of clients that
leave, of the bridge's end, or of what `gh` writes.

## What is proved

Every safety invariant that a passing run checks is also a theorem, for every
value of the constants: any number of definitions, clients, daemons, sessions
and calls, any buffer limits, any token, and whatever the bounds. So are
the action properties that say what a step may not do, and the refinement of
`RunLedger`. The assumptions on constants are those named in the modules
(`...Assumption`): special model values differ from ordinary ones, bounds are
natural numbers, keys belong to projects, Windows has neither escaped
descendants nor a directory flush, and so on. Where a theorem needs more, that
is its own hypothesis and is listed here; each is the condition under which the
code keeps the property, and TLC or the findings show what happens without it.

| Module | Theorem | Shows | Needs besides |
|---|---|---|---|
| `LifecycleProofs` | `SupervisionCorrect`, `TypeCorrect`, `OwnershipCorrect`, `NothingLeaks`, `OneLeaderEach` | `SupervisionInv`, `TypeOK`, `Ownership`, `NoLeak`, `OneLeader` | |
| | `TransitionsLegal` | `LegalTransitions` | |
| `ManagerProofs` | `RegistryCorrect`, `NothingEverDangles` | `RegistryInv`, `NothingDangles` | |
| | `OutcomesFinal` | `DiskOutcomesFinal` | |
| | `FileIsPast`, `LifecycleImplementsLedger` | `DiskIsPast`, `ImplementsLedger` | no "flush" fault |
| | `EndsObserved`, `StopsStop` | `EndedInv`, `StopStops` | |
| | `OneTreeEach` | `OneTree` | Windows |
| | `ShutdownLeavesNothing` | `ShutdownStopsAll` | signals succeed, and so do saves and flushes, but for the save of a process just started |
| `LogFollowProofs` | `FollowCorrect`, `LimitsKept`, `NewestRetained`, `TailCorrect`, `FollowerInOrder` | `FollowInv`, `WithinLimits`, `RetainsNewest`, `TailIsNext`, `PrintsInOrder` | |
| `DaemonBootProofs` | `BootCorrect` | `BootInv` | |
| | `OneDaemonServes`, `ServingIsReachable` | `OneServing`, `Reachable` | a pipe, or sockets for which boots do not race |
| | `RefusalHasCause` | `RefusedForCause` | boots on a socket do not race |
| `IdentityProofs` | `IdentityCorrect`, `EveryCallCovered`, `RevocationIsFinal`, `SessionsLiveOnce`, `ContainersHaveOwners`, `HostsAlwaysAgree` | `IdentityInv`, `CallsCovered`, `RevokedStaysRevoked`, `SessionLife`, `ContainersOwned`, `HostsAgree` | |
| `StreamProofs` | `StreamCorrect`, `OwnAnswersOnly` | `StreamInv`, `AnswersOwn` | |
| | `OnlyRedactedShown`, `ExitAfterEverything` | `ShowsRedaction`, `ExitMeansComplete` | |
| `EditorsProofs` | `GitChangesAreAtomic` | `AllOrNothing` | a git command that fails changed nothing |
| | `HelperNeedsConfiguration` | `HelperOnlyIfConfigured` | it is so at first |
| | `TokensFitHosts`, `NothingStaysStuck` | `TokenFitsHost`, `Unstuck` | |
| `TuiProofs` | `TuiCorrect`, `FlagsTell`, `SelectionShown`, `EditorKeepsSelection` | `TuiInv`, `FlagsMatch`, `ShowsSelected`, `EditorActsOnSelection` | |

None of these properties is inductive as it stands. What each argument adds:

* Supervision. Whether an exit may be recorded as it is depends on whom the
  observer watches; whether `Start` may install an owner depends on what it did
  while it held the lock; and that a new instance has no process depends on
  instances being fresh. `SupervisionInv` adds exactly these: `ThreadInv` (the
  thread inside `Start` and no other holds the mutex, and a thread past its
  first step has an instance that was handed out), `StartInv` (what `Start` has
  made of its definition by each of its steps), `OwnerInv` (an owned instance is
  watched, a watched one owned, and an observer past `Wait` watches a dead
  leader), `FreshInv` (nothing uses an instance from `nextInst` on), `ActiveInv`
  and `DownInv`. There is one lemma per action; steps that touch neither
  registry nor owners share `QuietStepInv`, steps of one thread
  `ThreadStepInv`, the steps of `Start` `StartStepInv`, the definition
  operations `CommitInv`.
* Registry and refinement. `RegistryStep` sorts all steps into six kinds by
  what they do to memory and file. `OutcomeInv` says that an outcome in the
  file of the attempt memory is at is the one in memory: no `Save` takes it
  back, which is what `DiskOutcomesFinal` needs across a crash between any two
  steps. The refinement maps each kind to a step of `RunLedger`; a crash is a
  step because the file is memory's past (`FileIsPast`).
* Stopping. `EndedInv`: an owner is closed, and so its waiters released, only
  after its end was observed. `JobInv`: nothing of a Windows job outlives its
  owner. `ShutdownInv`: during a shutdown no handler is left, and a leader
  still alive is listed or the one being stopped.
* Buffer and follower. `CaptureInv` knows which step of `enforceLimits` the
  writer is in, and that no event alone exceeds the limit, which is why
  truncation never empties the buffer. `PositionInv` ties the follower's
  position to the last event it printed, across runs.
* Boot. `EndpointInv`: a listening daemon has the endpoint, and one that is
  about to remove or bind a socket path knows that nobody listens there. The
  second half is what racing boots break.
* Identity. `FreshInv`: a session in the making is not known yet and nobody
  else is making it. `TakenInv`: what a call took was in force when it took it.
  `LoopsFit` and `ConnectionsFit`: an accept loop works with a copy of a native
  session that is still known, and so does a connection it has accepted as long
  as the session is there.
* Answers. `TurnInv`, `BridgeInv` and `GhInv` say whose turn it is on the
  shared pipe and that the frame which ends an answer is the last one on it;
  frames carry no name, so this is all that keeps answers apart. `RefusalInv`
  says that data comes from `gh` alone and that an answer to an execution, an
  error, means that there was none: a refusal ends its connection, so the
  request is not handled again. For the
  redaction, `Redaction` is first shown to be well defined and to satisfy its
  recursive equation (by least counterexample, since induction theorems cannot
  be instantiated here). Then `FlowInv` keeps an account: what a client was
  shown, with what is in its inbox, on the pipe, and held by the filter, is the
  redaction of what `gh` wrote, *whatever it writes next*. The last words make
  it inductive: a filter may only let a byte pass at which no token can begin
  any more. `OnceInv` makes the exit frame the last thing sent, so that at the
  exit the account is closed. `FlowInv` quantifies over all outputs and stands
  in `StreamProofs`; `StreamInv`, `OnceInv` and `RefusalInv` are in `ExecutionStream` and were
  checked with TLC before they were proved, as was every other strengthening
  named here.
* Operator commands. `JobInv` knows how far a change of Git has come and what
  was read before. `HelperInv` and `ProxyInv` hold what each command knows from
  its reads, and that no request takes a configuration away.
* Terminal UI. `TuiInv` relates the model and the bag of commands: besides
  refreshes at most one command is in flight and it was never outdated, which
  is why incrementing the generation cannot make the model ignore the answer it
  waits for; a list is on its way only while no form is open.

Only model-checked: the liveness properties (`ShutdownEnds`, `StopEnds`,
`ExitRecorded`, `StatusConverges`, `CallsAnswered`), which are outside the
prover's reach; and the runs that show a violation, where there is nothing to
prove.

## Not modelled

* The identity subsystem's platform checks, discovery and styling: queries and
  layout without state of their own. Its tables of commands, flags and routes
  are data; mount checks and the authentication of native peers are refusals.
* The CLI's argument parsing and printing, `whoami`, `doctor`, the MCP server
  and the encoding of the control client: they translate one call into one
  request. What a call of the client may come to is `Served`, `RequestFails`
  and `TimesOut` of `TuiProcesses` and `PutDraft` and `PutRefused` of
  `OperatorClients`; of the launcher only its outcome remains (`Launched`).
* The presentation of the terminal UI, which is layout only.
* Release packaging, npm wrappers, documentation site: build time only.
* Request and response encoding, field validation of definitions (abstracted
  to a refusal), timestamps, PIDs, file permissions. Of a request that is passed
  over a bridge it is assumed that the host reads it within its limit: the
  bridge read it under the same one.

## Plan

1. Done: supervision (`ProcessState`, `ProcessTree`, `Lifecycle`), its abstract
   specification and first proofs; output and following; boot; the identity
   store, service, sessions, executions and container runs; the answers of an
   execution through filter, frames and bridge; the Git configuration; the
   operator's commands and the gh proxy; all workspaces of the terminal UI.
2. Done: the proofs of the safety properties and of the refinement.
3. Open: the registry document and its validation, which is a refusal so far;
   proofs of what holds beside the three disagreements (who may write the
   registry while a daemon serves, what a lost update cannot change).
