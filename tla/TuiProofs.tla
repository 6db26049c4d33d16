------------------------------ MODULE TuiProofs ------------------------------
(***************************************************************************)
(* Theorems about TuiProcesses for any processes and lists of them, any    *)
(* number of commands in flight and any answers.  TuiInv is inductive.     *)
(***************************************************************************)
EXTENDS TuiProcesses, TLAPS

(***************************************************************************)
(* The bag of commands.                                                    *)
(***************************************************************************)

(* Nothing but refreshes is in flight.                                     *)
Quiet(B) == \A c \in BagToSet(B) : c.kind = "refresh"

(* What a bag holds after one command more.                                *)
LEMMA SendHolds ==
  ASSUME NEW B, NEW n
  PROVE  /\ BagToSet(Send(B, n)) = BagToSet(B) \cup {n}
         /\ \A d \in BagToSet(B) \ {n} : B[d] \in Nat \ {0} => Send(B, n)[d] = B[d]
         /\ n \in BagToSet(B) /\ B[n] \in Nat \ {0} => Send(B, n)[n] \in Nat \ {0}
         /\ n \notin BagToSet(B) => Send(B, n)[n] = 1
  BY DEF Send, SetToBag, (+), BagToSet

(* What a bag holds after one command less.                                *)
LEMMA DoneHolds ==
  ASSUME NEW B, NEW c \in BagToSet(B)
  PROVE  /\ BagToSet(Done(B, c)) \subseteq BagToSet(B)
         /\ \A d \in BagToSet(B) \ {c} : B[d] \in Nat \ {0} =>
              d \in BagToSet(Done(B, c)) /\ Done(B, c)[d] = B[d]
         /\ B[c] \in Nat \ {0} /\ c \in BagToSet(Done(B, c)) => Done(B, c)[c] \in Nat \ {0}
         /\ B[c] = 1 => c \notin BagToSet(Done(B, c))
  BY DEF Done, SetToBag, (-), BagToSet

(* What a bag holds after its commands were outdated.                      *)
LEMMA OutdatedHolds ==
  ASSUME NEW B
  PROVE  BagToSet(Outdated(B)) = {Stale(c) : c \in BagToSet(B)}
  BY DEF Outdated, BagOfAll, BagToSet

(* An outdated command is the same but for that.                           *)
LEMMA StaleFields ==
  ASSUME NEW c, CommandOK(c)
  PROVE  /\ CommandOK(Stale(c)) /\ ~Stale(c).current
         /\ Stale(c).kind = c.kind /\ Stale(c).key = c.key
  BY DEF CommandOK, Stale, CommandFields

(* One more refresh.                                                       *)
LEMMA SendRefresh ==
  ASSUME NEW B, CommandsOK(B), NEW r, CommandOK(r), r.kind = "refresh", r.current
  PROVE  CommandsOK(Send(B, r)) /\ BagToSet(Send(B, r)) = BagToSet(B) \cup {r}
  <1>1. /\ BagToSet(Send(B, r)) = BagToSet(B) \cup {r}
        /\ \A d \in BagToSet(B) \ {r} : B[d] \in Nat \ {0} => Send(B, r)[d] = B[d]
        /\ Send(B, r)[r] \in Nat \ {0}
    BY SendHolds DEF CommandsOK
  <1> QED
    BY <1>1 DEF CommandsOK

(* Something else, when there are only refreshes.                          *)
LEMMA SendOther ==
  ASSUME NEW B, CommandsOK(B), Quiet(B), NEW n, CommandOK(n), n.kind # "refresh", n.current
  PROVE  CommandsOK(Send(B, n)) /\ BagToSet(Send(B, n)) = BagToSet(B) \cup {n}
  <1>1. n \notin BagToSet(B)
    BY DEF Quiet
  <1>2. /\ BagToSet(Send(B, n)) = BagToSet(B) \cup {n}
        /\ \A d \in BagToSet(B) \ {n} : B[d] \in Nat \ {0} => Send(B, n)[d] = B[d]
        /\ Send(B, n)[n] = 1
    BY <1>1, SendHolds
  <1> QED
    BY <1>1, <1>2 DEF CommandsOK, Quiet

(* model.generation++, when there are only refreshes.                      *)
LEMMA OutdatedKeeps ==
  ASSUME NEW B, CommandsOK(B), Quiet(B)
  PROVE  CommandsOK(Outdated(B)) /\ Quiet(Outdated(B))
  <1>1. \A c \in BagToSet(Outdated(B)) : CommandOK(c) /\ ~c.current /\ c.kind = "refresh"
    BY OutdatedHolds, StaleFields DEF CommandsOK, Quiet
  <1> QED
    BY <1>1 DEF CommandsOK, Quiet

(* A command ends.                                                         *)
LEMMA DoneKeeps ==
  ASSUME NEW B, CommandsOK(B), NEW c \in BagToSet(B)
  PROVE  /\ CommandsOK(Done(B, c))
         /\ BagToSet(Done(B, c)) \subseteq BagToSet(B)
         /\ \A d \in BagToSet(B) \ {c} : d.current => d \in BagToSet(Done(B, c))
         /\ c.kind # "refresh" => Quiet(Done(B, c))
  <1>1. /\ BagToSet(Done(B, c)) \subseteq BagToSet(B)
        /\ \A d \in BagToSet(B) \ {c} : B[d] \in Nat \ {0} =>
             d \in BagToSet(Done(B, c)) /\ Done(B, c)[d] = B[d]
        /\ B[c] \in Nat \ {0} /\ c \in BagToSet(Done(B, c)) => Done(B, c)[c] \in Nat \ {0}
        /\ B[c] = 1 => c \notin BagToSet(Done(B, c))
    BY DoneHolds
  <1>2. c.kind # "refresh" => Quiet(Done(B, c))
    BY <1>1 DEF CommandsOK, Quiet
  <1>3. \A d \in BagToSet(B) \ {c} : d.current => d \in BagToSet(Done(B, c))
    BY <1>1 DEF CommandsOK
  <1>4. CommandsOK(Done(B, c))
    <2>1. ASSUME NEW d \in BagToSet(Done(B, c))
          PROVE  /\ CommandOK(d)
                 /\ d.current => Done(B, c)[d] \in Nat \ {0}
                 /\ d.kind # "refresh" => d.current /\ Done(B, c)[d] = 1
      BY <1>1 DEF CommandsOK
    <2> QED
      BY <1>1, <2>1 DEF CommandsOK
  <1> QED
    BY <1>1, <1>2, <1>3, <1>4

(* A command goes on.                                                      *)
LEMMA AdvanceKeeps ==
  ASSUME NEW v, NEW B, CommandsOK(B), FlagsOK(v, B), NEW c \in BagToSet(B),
         NEW n, CommandOK(n), n.kind = c.kind, n.key = c.key, n.current = c.current
  PROVE  CommandsOK(Send(Done(B, c), n)) /\ FlagsOK(v, Send(Done(B, c), n))
  <1> DEFINE D == Done(B, c)
  <1>1. /\ CommandsOK(D) /\ BagToSet(D) \subseteq BagToSet(B)
        /\ \A d \in BagToSet(B) \ {c} : d.current => d \in BagToSet(D)
        /\ c.kind # "refresh" => Quiet(D)
    BY DoneKeeps
  <1>2. CommandOK(c) /\ (c.kind # "refresh" => c.current)
    BY DEF CommandsOK
  <1> HIDE DEF D
  <1>3. CommandsOK(Send(D, n)) /\ BagToSet(Send(D, n)) = BagToSet(D) \cup {n}
    <2>1. CASE n.kind # "refresh"
      BY <2>1, <1>1, <1>2, SendOther
    <2>2. CASE n.kind = "refresh" /\ n.current
      BY <2>2, <1>1, SendRefresh
    <2>3. CASE n.kind = "refresh" /\ ~n.current
      <3>1. /\ BagToSet(Send(D, n)) = BagToSet(D) \cup {n}
            /\ \A d \in BagToSet(D) \ {n} : D[d] \in Nat \ {0} => Send(D, n)[d] = D[d]
        BY SendHolds
      <3> QED
        BY <3>1, <2>3, <1>1 DEF CommandsOK
    <2>4. n.current \in BOOLEAN
      BY DEF CommandOK
    <2> QED
      BY <2>1, <2>2, <2>3, <2>4
  <1>4. \A d \in BagToSet(B) \ {c} : d.kind # "refresh" => d \in BagToSet(D)
    BY <1>1 DEF CommandsOK
  <1>5. FlagsOK(v, Send(D, n))
    BY <1>1, <1>2, <1>3, <1>4 DEF FlagsOK, Actions
  <1> QED
    BY <1>3, <1>5 DEF D

(***************************************************************************)
(* Commands the model issues.                                              *)
(***************************************************************************)

(* refreshCmd asks for the selected process.                               *)
LEMMA RefreshFields ==
  ASSUME NEW v
  PROVE  /\ CommandOK(Refresh(v)) /\ Refresh(v).kind = "refresh"
         /\ Refresh(v).current /\ Refresh(v).key = SelectedKey(v)
  <1>1. <<>> \in Seq(Keys)
    OBVIOUS
  <1> QED
    BY <1>1 DEF Refresh, Command, CommandOK, CommandFields, Kinds, NoRuntime

(* loadRegistry and the launcher.                                          *)
LEMMA CommandHas ==
  ASSUME NEW kind \in Kinds
  PROVE  CommandOK(Command(kind)) /\ Command(kind).kind = kind /\ Command(kind).current
  <1>1. <<>> \in Seq(Keys)
    OBVIOUS
  <1> QED
    BY <1>1 DEF Command, CommandOK, CommandFields, Kinds, NoRuntime

(* An action for a process.                                                *)
ActionFor(kind, k) == [Command(kind) EXCEPT !.key = k]

LEMMA ActionFields ==
  ASSUME NEW kind \in Actions, NEW k
  PROVE  LET n == ActionFor(kind, k) IN
         CommandOK(n) /\ n.kind = kind /\ n.current /\ n.key = k
  <1>1. <<>> \in Seq(Keys)
    OBVIOUS
  <1> QED
    BY <1>1 DEF ActionFor, Command, CommandOK, CommandFields, Kinds, NoRuntime

(* While no flag is set, nothing but refreshes is in flight.               *)
LEMMA QuietWhen ==
  ASSUME TuiInv, ~view.pending, ~view.loading, ~view.starting
  PROVE  Quiet(commands)
  BY DEF TuiInv, FlagsOK, CommandsOK, CommandOK, Quiet, Kinds

(* A refresh next to what is in flight.                                    *)
LEMMA RefreshNext ==
  ASSUME TuiInv, NEW w, w.pending = view.pending, w.loading = view.loading,
         w.starting = view.starting, SelectedKey(w) = SelectedKey(view),
         NEW r, CommandOK(r), r.kind = "refresh", r.current, r.key = SelectedKey(w)
  PROVE  CommandsOK(Send(commands, r)) /\ FlagsOK(w, Send(commands, r))
  <1>1. CommandsOK(Send(commands, r)) /\ BagToSet(Send(commands, r)) = BagToSet(commands) \cup {r}
    BY SendRefresh DEF TuiInv
  <1> QED
    BY <1>1 DEF TuiInv, FlagsOK, Actions

(* A refresh of what has just become the selection.                        *)
LEMMA RefreshAlone ==
  ASSUME NEW B, CommandsOK(B), Quiet(B), NEW w, ~w.pending, ~w.loading, ~w.starting,
         NEW r, CommandOK(r), r.kind = "refresh", r.current, r.key = SelectedKey(w)
  PROVE  CommandsOK(Send(B, r)) /\ FlagsOK(w, Send(B, r))
  <1>1. CommandsOK(Send(B, r)) /\ BagToSet(Send(B, r)) = BagToSet(B) \cup {r}
    BY SendRefresh
  <1> QED
    BY <1>1 DEF Quiet, FlagsOK, Actions

(* Something else than a refresh.                                          *)
LEMMA OtherAlone ==
  ASSUME NEW B, CommandsOK(B), Quiet(B), NEW w, NEW n, CommandOK(n), n.current,
         n.kind # "refresh",
         w.pending <=> n.kind \in Actions,
         w.loading <=> n.kind = "load",
         w.starting <=> n.kind = "launch",
         n.kind \in Actions => n.key = SelectedKey(w),
         w.refreshing /\ w.items # <<>> =>
           \E c \in BagToSet(B) : c.kind = "refresh" /\ c.current /\ c.key = SelectedKey(w)
  PROVE  CommandsOK(Send(B, n)) /\ FlagsOK(w, Send(B, n))
  <1>1. CommandsOK(Send(B, n)) /\ BagToSet(Send(B, n)) = BagToSet(B) \cup {n}
    BY SendOther
  <1> QED
    BY <1>1 DEF Quiet, FlagsOK, Actions

(***************************************************************************)
(* Keys.                                                                   *)
(***************************************************************************)

(* Two models that differ in nothing the flags or the selection tell.      *)
Alike(v, w) ==
  /\ w.pending = v.pending /\ w.loading = v.loading /\ w.starting = v.starting
  /\ w.refreshing = v.refreshing /\ w.items = v.items /\ w.selected = v.selected

LEMMA AlikeSelects ==
  ASSUME NEW v, NEW w, w.items = v.items, w.selected = v.selected
  PROVE  SelectedKey(w) = SelectedKey(v)
  BY DEF SelectedKey

(* Update returns a model that tells the same, and no command.             *)
LEMMA BecomeKeeps ==
  ASSUME TuiInv, NEW w, ViewOK(w), Alike(view, w), Become(w)
  PROVE  TuiInv'
  <1>1. SelectedKey(w) = SelectedKey(view)
    BY AlikeSelects DEF Alike
  <1>2. FlagsOK(w, commands)
    BY <1>1 DEF TuiInv, FlagsOK, Alike
  <1>3. view' = w /\ commands' = commands /\ daemon' = daemon
    BY DEF Become
  <1> QED
    BY <1>2, <1>3 DEF TuiInv, DaemonOK

(* Update returns a model and a command.                                   *)
LEMMA SentKeeps ==
  ASSUME TuiInv, NEW w, NEW B, NEW n, BecomeAnd(w, B, n), ViewOK(w),
         CommandsOK(Send(B, n)) /\ FlagsOK(w, Send(B, n))
  PROVE  TuiInv'
  BY DEF TuiInv, DaemonOK, BecomeAnd

(* The output view.                                                        *)
LEMMA OutputChanges ==
  ASSUME NEW v, ViewOK(v), NEW w, NEW x, w = [v EXCEPT !.output = x]
  PROVE  ViewOK(w) /\ Alike(v, w)
  <1>1. /\ DOMAIN w = ViewFields /\ Alike(v, w)
        /\ w.runtime = v.runtime /\ w.registry = v.registry /\ w.editing = v.editing
    BY DEF ViewOK, ViewFields, Alike
  <1>2. SelectedKey(w) = SelectedKey(v)
    BY <1>1, AlikeSelects DEF Alike
  <1> QED
    BY <1>1, <1>2 DEF ViewOK, Alike

(* A refresh is awaited.                                                   *)
LEMMA AwaitsRefresh ==
  ASSUME NEW v, ViewOK(v), NEW w, w = [v EXCEPT !.refreshing = TRUE]
  PROVE  /\ ViewOK(w) /\ SelectedKey(w) = SelectedKey(v)
         /\ w.pending = v.pending /\ w.loading = v.loading /\ w.starting = v.starting
         /\ w.items = v.items /\ w.selected = v.selected
  <1>1. /\ DOMAIN w = ViewFields /\ w.refreshing = TRUE
        /\ w.pending = v.pending /\ w.loading = v.loading /\ w.starting = v.starting
        /\ w.items = v.items /\ w.selected = v.selected
        /\ w.runtime = v.runtime /\ w.registry = v.registry /\ w.editing = v.editing
    BY DEF ViewOK, ViewFields
  <1>2. SelectedKey(w) = SelectedKey(v)
    BY <1>1, AlikeSelects
  <1> QED
    BY <1>1, <1>2 DEF ViewOK

(* The form is closed.                                                     *)
LEMMA FormCloses ==
  ASSUME NEW v, ViewOK(v), NEW w, w = CloseEditor(v)
  PROVE  ViewOK(w) /\ Alike(v, w) /\ w.editing = {} /\ w.registry = v.registry
  <1>1. /\ DOMAIN w = ViewFields /\ Alike(v, w)
        /\ w.runtime = v.runtime /\ w.registry = v.registry /\ w.editing = {}
    BY DEF ViewOK, ViewFields, Alike, CloseEditor
  <1>2. SelectedKey(w) = SelectedKey(v)
    BY <1>1, AlikeSelects DEF Alike
  <1> QED
    BY <1>1, <1>2 DEF ViewOK, Alike

(* esc, the keys that scroll, and the key that opens the output view.      *)
LEMMA OutputKeys ==
  ASSUME TuiInv, CloseOutput \/ ScrollUp \/ OpenOutput
  PROVE  TuiInv'
  <1>1. PICK x : Become([view EXCEPT !.output = x])
    BY DEF CloseOutput, ScrollUp, OpenOutput
  <1>2. ViewOK(view)
    BY DEF TuiInv
  <1> DEFINE w == [view EXCEPT !.output = x]
  <1>3. ViewOK(w) /\ Alike(view, w)
    BY <1>2, OutputChanges
  <1> QED
    BY <1>1, <1>3, BecomeKeeps

(* A refresh that the model in flight asks for: Follow and Tick.           *)
LEMMA PollKeeps ==
  ASSUME TuiInv, NEW v, ViewOK(v), Alike(view, v), NEW r, r = Refresh(view),
         BecomeAnd([v EXCEPT !.refreshing = TRUE], commands, r)
  PROVE  TuiInv'
  <1> DEFINE w == [v EXCEPT !.refreshing = TRUE]
  <1>1. /\ ViewOK(w) /\ SelectedKey(w) = SelectedKey(view)
        /\ w.pending = view.pending /\ w.loading = view.loading /\ w.starting = view.starting
    BY AwaitsRefresh, AlikeSelects DEF Alike
  <1> HIDE DEF w
  <1>2. CommandsOK(Send(commands, r)) /\ FlagsOK(w, Send(commands, r))
    BY <1>1, RefreshFields, RefreshNext
  <1> QED
    BY <1>1, <1>2, SentKeeps DEF w

(* A tick polls.                                                           *)
LEMMA TickKeeps ==
  ASSUME TuiInv, Tick
  PROVE  TuiInv'
  <1>1. ViewOK(view) /\ Alike(view, view)
    BY DEF TuiInv, Alike
  <1>2. BecomeAnd([view EXCEPT !.refreshing = TRUE], commands, Refresh(view))
    BY DEF Tick
  <1> QED
    BY <1>1, <1>2, PollKeeps

(* f polls at once, unless a refresh is awaited.                           *)
LEMMA FollowKeeps ==
  ASSUME TuiInv, Follow
  PROVE  TuiInv'
  <1>1. ViewOK(view)
    BY DEF TuiInv
  <1>2. CASE view.output = "paused" /\ ~view.refreshing
    <2> DEFINE v == [view EXCEPT !.output = "following"]
    <2>1. ViewOK(v) /\ Alike(view, v)
      BY <1>1, OutputChanges
    <2>2. [view EXCEPT !.output = "following", !.refreshing = TRUE] = [v EXCEPT !.refreshing = TRUE]
      OBVIOUS
    <2>3. BecomeAnd([v EXCEPT !.refreshing = TRUE], commands, Refresh(view))
      BY <1>2, <2>2 DEF Follow
    <2> HIDE DEF v
    <2> QED
      BY <2>1, <2>3, PollKeeps
  <1>3. CASE ~(view.output = "paused" /\ ~view.refreshing)
    <2> DEFINE x == IF view.output = "paused" THEN "following" ELSE "paused"
               w == [view EXCEPT !.output = x]
    <2>1. Become(w)
      BY <1>3, <1>1 DEF Follow, ViewOK, ViewFields
    <2>2. ViewOK(w) /\ Alike(view, w)
      BY <1>1, OutputChanges
    <2> QED
      BY <2>1, <2>2, BecomeKeeps
  <1> QED
    BY <1>2, <1>3

(* The form is opened for the selected process, while no list is on its    *)
(* way.                                                                    *)
LEMMA EditProcessKeeps ==
  ASSUME TuiInv, EditProcess
  PROVE  TuiInv'
  <1>1. ViewOK(view)
    BY DEF TuiInv
  <1>2. PICK offers \in SUBSET Actions :
          Become([view EXCEPT !.editing = {<<SelectedKey(view), action>> : action \in offers}])
    BY DEF EditProcess, Actions
  <1>3. ~view.loading /\ ~view.starting
    BY <1>1 DEF EditProcess, Settled, ViewOK
  <1> DEFINE form == {<<SelectedKey(view), action>> : action \in offers}
             w == [view EXCEPT !.editing = form]
  <1>4. \A offer \in form : offer[1] = SelectedKey(view) /\ offer[2] \in Actions
    OBVIOUS
  <1> HIDE DEF form
  <1>5. /\ DOMAIN w = ViewFields /\ Alike(view, w)
        /\ w.runtime = view.runtime /\ w.registry = view.registry /\ w.editing = form
    BY <1>1 DEF ViewOK, ViewFields, Alike
  <1> HIDE DEF w
  <1>6. SelectedKey(w) = SelectedKey(view)
    BY <1>5, AlikeSelects DEF Alike
  <1>7. ViewOK(w)
    BY <1>1, <1>3, <1>4, <1>5, <1>6 DEF ViewOK, Alike
  <1> QED
    BY <1>2, <1>5, <1>7, BecomeKeeps DEF w, form

(* The form is left.                                                       *)
LEMMA AbortEditorKeeps ==
  ASSUME TuiInv, AbortEditor
  PROVE  TuiInv'
  <1>1. ViewOK(CloseEditor(view)) /\ Alike(view, CloseEditor(view))
    BY FormCloses DEF TuiInv
  <1> QED
    BY <1>1, BecomeKeeps DEF AbortEditor

(* resetSelection shows no runtime.                                        *)
LEMMA ResetFields ==
  ASSUME NEW v, DOMAIN v = ViewFields, NEW w, w = Reset(v)
  PROVE  /\ DOMAIN w = ViewFields /\ Alike(v, w) /\ w.runtime.key = NoKey
         /\ w.editing = v.editing /\ w.registry = v.registry
  BY DEF Reset, ViewFields, Alike, NoRuntime

(* Another row is selected: what was asked for before is outdated, and the *)
(* new selection is asked for.                                             *)
LEMMA SelectKeeps ==
  ASSUME TuiInv, NEW index, Select(index)
  PROVE  TuiInv'
  <1> DEFINE v == Reset(view)
             w == [v EXCEPT !.selected = index, !.refreshing = TRUE]
  <1>1. ViewOK(view) /\ ~view.pending /\ ~view.loading /\ ~view.starting /\ view.editing = {}
    BY DEF TuiInv, Select, Settled, ViewOK, InProcesses, InEditor
  <1>2. /\ DOMAIN v = ViewFields /\ Alike(view, v) /\ v.runtime.key = NoKey
        /\ v.editing = {} /\ v.registry = view.registry
    BY <1>1, ResetFields DEF ViewOK
  <1>3. BecomeAnd(w, Outdated(commands), Refresh(w))
    BY DEF Select
  <1> HIDE DEF v
  <1>4. /\ DOMAIN w = ViewFields /\ w.items = view.items /\ w.refreshing = TRUE
        /\ ~w.pending /\ ~w.loading /\ ~w.starting
        /\ {w.pending, w.loading, w.starting} \subseteq BOOLEAN
        /\ w.runtime.key = NoKey /\ w.editing = {}
    BY <1>1, <1>2 DEF ViewFields, Alike, ViewOK
  <1> HIDE DEF w
  <1>5. ViewOK(w)
    BY <1>1, <1>4 DEF ViewOK
  <1>6. CommandsOK(Outdated(commands)) /\ Quiet(Outdated(commands))
    BY <1>1, QuietWhen, OutdatedKeeps DEF TuiInv
  <1>7. CommandsOK(Send(Outdated(commands), Refresh(w))) /\ FlagsOK(w, Send(Outdated(commands), Refresh(w)))
    BY <1>4, <1>6, RefreshFields, RefreshAlone
  <1> QED
    BY <1>3, <1>5, <1>7, SentKeeps

(* The list is read again: every refresh before it is outdated.            *)
LEMMA ReloadKeeps ==
  ASSUME TuiInv, Reload
  PROVE  TuiInv'
  <1> DEFINE w == [view EXCEPT !.loading = TRUE, !.registry = "loading", !.refreshing = FALSE]
             n == Command("load")
  <1>1. /\ ViewOK(view) /\ ~view.pending /\ ~view.loading /\ ~view.starting /\ view.editing = {}
        /\ BecomeAnd(w, Outdated(commands), n)
    BY DEF TuiInv, Reload, InProcesses, InEditor
  <1>2. /\ DOMAIN w = ViewFields /\ w.items = view.items /\ w.selected = view.selected
        /\ w.pending = view.pending /\ w.starting = view.starting
        /\ w.loading = TRUE /\ w.refreshing = FALSE
        /\ w.runtime = view.runtime /\ w.editing = view.editing
    BY <1>1 DEF ViewOK, ViewFields
  <1> HIDE DEF w
  <1>3. SelectedKey(w) = SelectedKey(view)
    BY <1>2, AlikeSelects
  <1>4. ViewOK(w)
    BY <1>1, <1>2, <1>3 DEF ViewOK
  <1>5. CommandsOK(Outdated(commands)) /\ Quiet(Outdated(commands))
    BY <1>1, QuietWhen, OutdatedKeeps DEF TuiInv
  <1>6. CommandOK(n) /\ n.kind = "load" /\ n.current
    BY CommandHas DEF Kinds
  <1> HIDE DEF n
  <1>7. CommandsOK(Send(Outdated(commands), n)) /\ FlagsOK(w, Send(Outdated(commands), n))
    BY <1>1, <1>2, <1>5, <1>6, OtherAlone DEF Actions
  <1> QED
    BY <1>1, <1>4, <1>7, SentKeeps

(* beginAction, from the list or from the form.                            *)
LEMMA ActKeeps ==
  ASSUME TuiInv, NEW v, ViewOK(v), Alike(view, v), v.editing = {},
         NEW action \in Actions, MayAct(action),
         BecomeAnd(WithAction(v, action), Outdated(commands),
                   [Command(action) EXCEPT !.key = SelectedKey(view)])
  PROVE  TuiInv'
  <1> DEFINE w == WithAction(v, action)
             n == ActionFor(action, SelectedKey(view))
  <1>1. ~view.pending /\ ~view.loading /\ ~view.starting
    BY DEF MayAct, Settled
  <1>2. /\ DOMAIN w = ViewFields /\ w.items = view.items /\ w.selected = view.selected
        /\ w.pending = TRUE /\ ~w.starting /\ ~w.loading /\ w.refreshing = FALSE
        /\ w.starting = v.starting /\ w.loading = v.loading
        /\ w.runtime = v.runtime /\ w.editing = {}
    BY <1>1 DEF ViewOK, ViewFields, WithAction, Alike
  <1> HIDE DEF w
  <1>3. SelectedKey(w) = SelectedKey(view) /\ SelectedKey(v) = SelectedKey(view)
    BY <1>2, AlikeSelects DEF Alike
  <1>4. ViewOK(w)
    BY <1>1, <1>2, <1>3 DEF ViewOK, Alike
  <1>5. CommandsOK(Outdated(commands)) /\ Quiet(Outdated(commands))
    BY <1>1, QuietWhen, OutdatedKeeps DEF TuiInv
  <1>6. CommandOK(n) /\ n.kind = action /\ n.current /\ n.key = SelectedKey(view)
    BY ActionFields
  <1> HIDE DEF n
  <1>7. CommandsOK(Send(Outdated(commands), n)) /\ FlagsOK(w, Send(Outdated(commands), n))
    BY <1>2, <1>3, <1>5, <1>6, OtherAlone DEF Actions
  <1> QED
    BY <1>4, <1>7, SentKeeps DEF w, n, ActionFor

(* From the list.                                                          *)
LEMMA BeginActionKeeps ==
  ASSUME TuiInv, NEW action \in Actions, BeginAction(action)
  PROVE  TuiInv'
  <1>1. ViewOK(view) /\ Alike(view, view) /\ view.editing = {}
    BY DEF TuiInv, Alike, BeginAction, InProcesses, InEditor
  <1> QED
    BY <1>1, ActKeeps DEF BeginAction

(* From the form, for the process it was opened for.                       *)
LEMMA CompleteEditorKeeps ==
  ASSUME TuiInv, NEW offer \in view.editing, CompleteEditor(offer)
  PROVE  TuiInv'
  <1>1. ViewOK(view) /\ offer[2] \in Actions
    BY DEF TuiInv, ViewOK
  <1>2. LET v == CloseEditor(view) IN ViewOK(v) /\ Alike(view, v) /\ v.editing = {}
    BY <1>1, FormCloses
  <1>3. CASE MayAct(offer[2])
    BY <1>1, <1>2, <1>3, ActKeeps DEF CompleteEditor
  <1>4. CASE ~MayAct(offer[2])
    BY <1>2, <1>4, BecomeKeeps DEF CompleteEditor
  <1> QED
    BY <1>3, <1>4

(* The launcher is started next to the refreshes in flight.                *)
LEMMA BeginDaemonStartKeeps ==
  ASSUME TuiInv, BeginDaemonStart
  PROVE  TuiInv'
  <1> DEFINE w == [view EXCEPT !.starting = TRUE]
             n == Command("launch")
  <1>1. /\ ViewOK(view) /\ ~view.pending /\ ~view.loading /\ ~view.starting /\ view.editing = {}
        /\ view.registry = "unavailable" /\ BecomeAnd(w, commands, n)
    BY DEF TuiInv, BeginDaemonStart, InProcesses, InEditor
  <1>2. /\ DOMAIN w = ViewFields /\ w.items = view.items /\ w.selected = view.selected
        /\ w.pending = view.pending /\ w.loading = view.loading /\ w.starting = TRUE
        /\ w.refreshing = view.refreshing /\ w.registry = view.registry
        /\ w.runtime = view.runtime /\ w.editing = view.editing
    BY <1>1 DEF ViewOK, ViewFields
  <1> HIDE DEF w
  <1>3. SelectedKey(w) = SelectedKey(view)
    BY <1>2, AlikeSelects
  <1>4. ViewOK(w)
    BY <1>1, <1>2, <1>3 DEF ViewOK
  <1>5. CommandsOK(commands) /\ Quiet(commands)
    BY <1>1, QuietWhen DEF TuiInv
  <1>6. CommandOK(n) /\ n.kind = "launch" /\ n.current
    BY CommandHas DEF Kinds
  <1> HIDE DEF n
  <1>7. w.refreshing /\ w.items # <<>> =>
          \E c \in BagToSet(commands) : c.kind = "refresh" /\ c.current /\ c.key = SelectedKey(w)
    BY <1>2, <1>3 DEF TuiInv, FlagsOK
  <1>8. CommandsOK(Send(commands, n)) /\ FlagsOK(w, Send(commands, n))
    BY <1>1, <1>2, <1>5, <1>6, <1>7, OtherAlone DEF Actions
  <1> QED
    BY <1>1, <1>4, <1>8, SentKeeps

(* Every key.                                                              *)
LEMMA KeyPressKeeps ==
  ASSUME TuiInv, KeyPress
  PROVE  TuiInv'
  <1>1. CASE CloseOutput \/ ScrollUp \/ OpenOutput
    BY <1>1, OutputKeys
  <1>2. CASE Up \/ Down
    BY <1>2, SelectKeeps DEF Up, Down
  <1>3. CASE \E action \in Actions : BeginAction(action)
    BY <1>3, BeginActionKeeps
  <1>4. CASE \E offer \in view.editing : CompleteEditor(offer)
    BY <1>4, CompleteEditorKeeps
  <1> QED
    BY <1>1, <1>2, <1>3, <1>4, FollowKeeps, ReloadKeeps, BeginDaemonStartKeeps,
       EditProcessKeeps, AbortEditorKeeps DEF KeyPress

(***************************************************************************)
(* Messages.                                                               *)
(***************************************************************************)

(* A list that arrives was the only thing awaited, and no form is open.    *)
LEMMA ListAlone ==
  ASSUME TuiInv, NEW c \in BagToSet(commands), c.kind \in {"load", "launch"}
  PROVE  /\ ~view.pending /\ view.editing = {}
         /\ view.loading <=> c.kind = "load"
         /\ view.starting <=> c.kind = "launch"
         /\ CommandsOK(Done(commands, c)) /\ Quiet(Done(commands, c))
  <1>1. \A d \in BagToSet(commands) : d.kind # "refresh" => d = c
    BY DEF TuiInv, CommandsOK
  <1>2. /\ ~view.pending
        /\ view.loading <=> c.kind = "load"
        /\ view.starting <=> c.kind = "launch"
    BY <1>1 DEF TuiInv, FlagsOK, Actions
  <1>3. view.editing = {}
    BY <1>2 DEF TuiInv, ViewOK
  <1> QED
    BY <1>2, <1>3, DoneKeeps DEF TuiInv

(* The model with what was awaited taken back.                             *)
SettledView(s) ==
  /\ DOMAIN s = ViewFields
  /\ s.items = view.items /\ s.selected = view.selected /\ s.runtime = view.runtime
  /\ s.refreshing = view.refreshing /\ s.editing = {}
  /\ {s.pending, s.loading, s.starting} = {FALSE}

(* applyRegistryLoaded: the selection keeps what is shown of it, or nothing*)
(* is shown.                                                               *)
LEMMA WithItemsFields ==
  ASSUME TuiInv, NEW s, SettledView(s), NEW items \in Seq(Keys), NEW w, w = WithItems(s, items)
  PROVE  /\ ViewOK(w) /\ w.items = items
         /\ ~w.pending /\ ~w.loading /\ ~w.starting
  <1> DEFINE listed == [s EXCEPT !.items = items,
                          !.registry = IF items = <<>> THEN "empty" ELSE "populated",
                          !.selected = IndexOfKey(items, SelectedKey(s))]
  <1>1. w = IF SelectedKey(listed) = SelectedKey(s) /\ items # <<>> THEN listed ELSE Reset(listed)
    BY DEF WithItems
  <1>2. /\ DOMAIN listed = ViewFields /\ listed.items = items
        /\ listed.pending = s.pending /\ listed.loading = s.loading /\ listed.starting = s.starting
        /\ listed.refreshing = s.refreshing /\ listed.runtime = s.runtime /\ listed.editing = {}
    BY DEF SettledView, ViewFields
  <1> HIDE DEF listed
  <1>3. SelectedKey(s) = SelectedKey(view)
    BY AlikeSelects DEF SettledView
  <1>4. view.runtime.key \in {NoKey, SelectedKey(view)} /\ view.refreshing \in BOOLEAN
    BY DEF TuiInv, ViewOK
  <1>5. CASE SelectedKey(listed) = SelectedKey(s) /\ items # <<>>
    <2>1. w.runtime.key \in {NoKey, SelectedKey(w)} /\ w = listed
      BY <1>1, <1>2, <1>3, <1>4, <1>5 DEF SettledView
    <2> QED
      BY <2>1, <1>2, <1>4 DEF ViewOK, SettledView
  <1>6. CASE ~(SelectedKey(listed) = SelectedKey(s) /\ items # <<>>)
    <2>1. w = Reset(listed)
      BY <1>1, <1>6
    <2>2. DOMAIN w = ViewFields /\ Alike(listed, w) /\ w.runtime.key = NoKey /\ w.editing = {}
      BY <2>1, <1>2, ResetFields
    <2> QED
      BY <2>2, <1>2, <1>4 DEF ViewOK, SettledView, Alike
  <1> QED
    BY <1>5, <1>6

(* A list arrives: its first refresh is for what is then selected.         *)
LEMMA ApplyItemsKeeps ==
  ASSUME TuiInv, NEW c \in BagToSet(commands), NEW kind \in {"load", "launch"},
         NEW s, SettledView(s), ApplyItems(c, kind, s)
  PROVE  TuiInv'
  <1> DEFINE items == c.items
             w == WithItems(s, items)
             others == Done(commands, c)
             rest == IF items = <<>> \/ SelectedKey(w) # SelectedKey(view)
                     THEN Outdated(others) ELSE others
  <1>0. c.kind = kind /\ items \in Seq(Keys)
    BY DEF TuiInv, CommandsOK, CommandOK, ApplyItems, Deliver
  <1>1. CommandsOK(others) /\ Quiet(others)
    BY <1>0, ListAlone
  <1>2. CommandsOK(rest) /\ Quiet(rest)
    BY <1>1, OutdatedKeeps
  <1>3. ViewOK(w) /\ w.items = items /\ ~w.pending /\ ~w.loading /\ ~w.starting
    BY <1>0, WithItemsFields
  <1>4. CASE items = <<>>
    <2>1. view' = w /\ commands' = rest /\ daemon' = daemon
      BY <1>4 DEF ApplyItems, Deliver
    <2> HIDE DEF w, rest, items
    <2>2. FlagsOK(w, rest)
      BY <1>2, <1>3, <1>4 DEF FlagsOK, Quiet, Actions
    <2> QED
      BY <2>1, <2>2, <1>2, <1>3 DEF TuiInv, DaemonOK
  <1>5. CASE items # <<>>
    <2> DEFINE u == [w EXCEPT !.refreshing = TRUE]
               r == Refresh(w)
    <2>1. view' = u /\ commands' = Send(rest, r) /\ daemon' = daemon
      BY <1>5 DEF ApplyItems, Deliver
    <2> HIDE DEF w, rest, items
    <2>2. ViewOK(u) /\ SelectedKey(u) = SelectedKey(w) /\ ~u.pending /\ ~u.loading /\ ~u.starting
      BY <1>3, AwaitsRefresh
    <2> HIDE DEF u
    <2>3. CommandOK(r) /\ r.kind = "refresh" /\ r.current /\ r.key = SelectedKey(u)
      BY <2>2, RefreshFields
    <2> HIDE DEF r
    <2>4. CommandsOK(Send(rest, r)) /\ FlagsOK(u, Send(rest, r))
      BY <2>2, <2>3, <1>2, RefreshAlone
    <2> QED
      BY <2>1, <2>2, <2>4 DEF TuiInv, DaemonOK
  <1> QED
    BY <1>4, <1>5

(* The list could not be read.                                             *)
LEMMA ApplyFailureKeeps ==
  ASSUME TuiInv, NEW c \in BagToSet(commands), NEW kind \in {"load", "launch"},
         NEW s, SettledView(s), ApplyFailure(c, kind, s)
  PROVE  TuiInv'
  <1> DEFINE w == Unavailable(s)
             B == Done(commands, c)
  <1>0. c.kind = kind /\ view' = w /\ commands' = B /\ daemon' = daemon
    BY DEF ApplyFailure, Deliver
  <1>1. /\ CommandsOK(B) /\ Quiet(B)
        /\ \A d \in BagToSet(commands) \ {c} : d.current => d \in BagToSet(B)
    BY <1>0, ListAlone, DoneKeeps DEF TuiInv
  <1>2. /\ DOMAIN w = ViewFields /\ w.items = view.items /\ w.selected = view.selected
        /\ w.pending = s.pending /\ w.loading = s.loading /\ w.starting = s.starting
        /\ w.refreshing = view.refreshing /\ w.runtime = view.runtime /\ w.editing = {}
    BY DEF Unavailable, SettledView, ViewFields
  <1> HIDE DEF w, B
  <1>3. SelectedKey(w) = SelectedKey(view)
    BY <1>2, AlikeSelects
  <1>4. ViewOK(w)
    BY <1>2, <1>3 DEF SettledView, TuiInv, ViewOK
  <1>5. ~w.pending /\ ~w.loading /\ ~w.starting
    BY <1>2 DEF SettledView
  <1>6. FlagsOK(w, B)
    BY <1>0, <1>1, <1>2, <1>3, <1>5 DEF TuiInv, FlagsOK, Quiet, Actions
  <1> QED
    BY <1>0, <1>1, <1>4, <1>6 DEF TuiInv, DaemonOK

(* The answer to a load.                                                   *)
LEMMA RegistryLoadedKeeps ==
  ASSUME TuiInv, NEW c \in BagToSet(commands), RegistryLoaded(c)
  PROVE  TuiInv'
  <1>1. c.kind = "load"
    BY DEF RegistryLoaded, ApplyItems, ApplyFailure, Deliver
  <1>2. ~view.pending /\ ~view.starting /\ view.editing = {} /\ ViewOK(view)
    BY <1>1, ListAlone DEF TuiInv
  <1>3. SettledView([view EXCEPT !.loading = FALSE])
    BY <1>2 DEF SettledView, ViewOK, ViewFields
  <1> QED
    BY <1>3, ApplyItemsKeeps, ApplyFailureKeeps DEF RegistryLoaded

(* The answer of the launcher.                                             *)
LEMMA DaemonLaunchedKeeps ==
  ASSUME TuiInv, NEW c \in BagToSet(commands), DaemonLaunched(c)
  PROVE  TuiInv'
  <1>1. c.kind = "launch"
    BY DEF DaemonLaunched, ApplyItems, ApplyFailure, Deliver
  <1>2. ~view.pending /\ ~view.loading /\ view.editing = {} /\ ViewOK(view)
    BY <1>1, ListAlone DEF TuiInv
  <1>3. SettledView([view EXCEPT !.starting = FALSE])
    BY <1>2 DEF SettledView, ViewOK, ViewFields
  <1>4. SettledView([view EXCEPT !.starting = FALSE, !.loading = FALSE])
    BY <1>2 DEF SettledView, ViewOK, ViewFields
  <1> QED
    BY <1>3, <1>4, ApplyItemsKeeps, ApplyFailureKeeps DEF DaemonLaunched

(* applyRuntime and appendEvents change what is shown of the selection.    *)
LEMMA WithRuntimeFields ==
  ASSUME NEW v, DOMAIN v = ViewFields, NEW runtime, NEW w, w = WithRuntime(v, runtime)
  PROVE  /\ DOMAIN w = ViewFields /\ Alike(v, w) /\ w.runtime = runtime
         /\ w.editing = v.editing /\ w.registry = v.registry
  <1> DEFINE u == IF /\ runtime.instance # 0 /\ v.runtime.instance # 0
                     /\ runtime.instance # v.runtime.instance
                  THEN [v EXCEPT !.events = {}, !.lastSeq = 0] ELSE v
  <1>1. w = [u EXCEPT !.runtime = runtime, !.known = TRUE]
    BY DEF WithRuntime
  <1>2. /\ DOMAIN u = ViewFields /\ Alike(v, u)
        /\ u.editing = v.editing /\ u.registry = v.registry
    BY DEF ViewFields, Alike
  <1> HIDE DEF u
  <1> QED
    BY <1>1, <1>2 DEF ViewFields, Alike

LEMMA WithEventsFields ==
  ASSUME NEW v, DOMAIN v = ViewFields, NEW events, NEW w, w = WithEvents(v, events)
  PROVE  /\ DOMAIN w = ViewFields /\ Alike(v, w) /\ w.runtime = v.runtime
         /\ w.editing = v.editing /\ w.registry = v.registry
  <1>1. PICK shown, last : w = [v EXCEPT !.events = shown, !.lastSeq = last]
    <2> DEFINE new == {e \in events : e[2] > v.lastSeq}
               last == IF new = {} THEN v.lastSeq
                       ELSE CHOOSE n \in {e[2] : e \in new} : \A e \in new : e[2] <= n
    <2>1. w = [v EXCEPT !.events = v.events \cup new, !.lastSeq = last]
      BY DEF WithEvents, ViewFields
    <2> HIDE DEF new, last
    <2> QED
      BY <2>1
  <1> QED
    BY <1>1 DEF ViewFields, Alike

(* What a model shows of its selection may be replaced.                    *)
LEMMA ShowsAnswer ==
  ASSUME NEW v, ViewOK(v), NEW w, DOMAIN w = ViewFields, Alike(v, w),
         w.editing = v.editing, w.registry = v.registry,
         w.runtime.key \in {NoKey, SelectedKey(v)}
  PROVE  ViewOK(w) /\ SelectedKey(w) = SelectedKey(v)
  <1>1. SelectedKey(w) = SelectedKey(v)
    BY AlikeSelects DEF Alike
  <1> QED
    BY <1>1 DEF ViewOK, Alike

(* An answer is taken for the selection it was asked for, or ignored.      *)
LEMMA RefreshedKeeps ==
  ASSUME TuiInv, NEW c \in BagToSet(commands), Refreshed(c)
  PROVE  TuiInv'
  <1> DEFINE B == Done(commands, c)
             answered == [view EXCEPT !.refreshing = FALSE]
  <1>1. /\ c.kind = "refresh" /\ commands' = B /\ daemon' = daemon
        /\ CommandOK(c) /\ ViewOK(view)
        /\ view' = IF ~Concerns(c) THEN view
                   ELSE IF c.failed THEN [answered EXCEPT !.known = FALSE]
                   ELSE WithEvents(WithRuntime(answered, c.runtime), c.events)
    BY DEF Refreshed, Deliver, TuiInv, CommandsOK
  <1>2. /\ CommandsOK(B) /\ BagToSet(B) \subseteq BagToSet(commands)
        /\ \A d \in BagToSet(commands) \ {c} : d.current => d \in BagToSet(B)
    BY DoneKeeps DEF TuiInv
  <1>3. \A d \in BagToSet(commands) : d.kind # "refresh" => d \in BagToSet(B)
    BY <1>1, <1>2 DEF TuiInv, CommandsOK
  <1> HIDE DEF B
  <1>4. CASE ~Concerns(c)
    <2>1. FlagsOK(view, B)
      BY <1>2, <1>3, <1>4 DEF TuiInv, FlagsOK, Actions, Concerns
    <2> QED
      BY <1>1, <1>2, <1>4, <2>1 DEF TuiInv, DaemonOK
  <1>5. CASE Concerns(c)
    <2>1. /\ DOMAIN answered = ViewFields /\ answered.items = view.items
          /\ answered.selected = view.selected /\ answered.pending = view.pending
          /\ answered.loading = view.loading /\ answered.starting = view.starting
          /\ answered.refreshing = FALSE /\ answered.runtime = view.runtime
          /\ answered.editing = view.editing /\ answered.registry = view.registry
      BY <1>1 DEF ViewOK, ViewFields
    <2> HIDE DEF answered
    <2>2. SelectedKey(answered) = SelectedKey(view)
      BY <2>1, AlikeSelects
    <2>3. ViewOK(answered)
      BY <1>1, <2>1, <2>2 DEF ViewOK
    <2>4. /\ DOMAIN view' = ViewFields /\ Alike(answered, view')
          /\ view'.editing = answered.editing /\ view'.registry = answered.registry
          /\ view'.runtime \in {answered.runtime, c.runtime}
      <3>1. CASE c.failed
        BY <1>1, <1>5, <2>1, <3>1 DEF ViewFields, Alike
      <3>2. CASE ~c.failed
        <4> DEFINE v == WithRuntime(answered, c.runtime)
        <4>1. /\ DOMAIN v = ViewFields /\ Alike(answered, v) /\ v.runtime = c.runtime
              /\ v.editing = answered.editing /\ v.registry = answered.registry
          BY <2>1, WithRuntimeFields
        <4>2. view' = WithEvents(v, c.events)
          BY <1>1, <1>5, <3>2
        <4> HIDE DEF v
        <4> QED
          BY <4>1, <4>2, WithEventsFields DEF Alike
      <3> QED
        BY <3>1, <3>2
    <2>5. view'.runtime.key \in {NoKey, SelectedKey(answered)}
      BY <1>1, <1>5, <2>2, <2>3, <2>4 DEF Concerns, CommandOK, ViewOK
    <2>6. ViewOK(view') /\ SelectedKey(view') = SelectedKey(view)
      BY <2>2, <2>3, <2>4, <2>5, ShowsAnswer
    <2>7. FlagsOK(view', B)
      BY <1>2, <1>3, <2>1, <2>4, <2>6 DEF TuiInv, FlagsOK, Actions, Alike
    <2> QED
      BY <1>1, <1>2, <2>6, <2>7 DEF TuiInv, DaemonOK
  <1> QED
    BY <1>4, <1>5

(* An action was for the selected process: its runtime is shown, and a     *)
(* refresh follows unless one is on its way.                               *)
LEMMA ActionDoneKeeps ==
  ASSUME TuiInv, NEW c \in BagToSet(commands), NEW action \in Actions, ActionDone(c, action)
  PROVE  TuiInv'
  <1> DEFINE B == Done(commands, c)
             answered == [view EXCEPT !.pending = FALSE]
             next == WithRuntime(answered, c.runtime)
  <1>1. /\ c.kind = action /\ c.kind # "refresh" /\ daemon' = daemon
        /\ CommandOK(c) /\ ViewOK(view)
        /\ \/ view' = answered /\ commands' = B
           \/ /\ Concerns(c)
              /\ view' = [next EXCEPT !.refreshing = TRUE]
              /\ commands' = IF view.refreshing THEN B ELSE Send(B, Refresh(next))
    BY DEF ActionDone, Deliver, TuiInv, CommandsOK, Actions
  <1>2. /\ CommandsOK(B) /\ Quiet(B)
        /\ BagToSet(B) \subseteq BagToSet(commands)
        /\ \A d \in BagToSet(commands) \ {c} : d.current => d \in BagToSet(B)
    BY <1>1, DoneKeeps DEF TuiInv
  <1>3. ~view.loading /\ ~view.starting
    <2>1. \A d \in BagToSet(commands) : d.kind # "refresh" => d = c
      BY <1>1 DEF TuiInv, CommandsOK
    <2> QED
      BY <1>1, <2>1 DEF TuiInv, FlagsOK, Actions
  <1>4. /\ DOMAIN answered = ViewFields /\ answered.items = view.items
        /\ answered.selected = view.selected /\ answered.pending = FALSE
        /\ answered.loading = view.loading /\ answered.starting = view.starting
        /\ answered.refreshing = view.refreshing /\ answered.runtime = view.runtime
        /\ answered.editing = view.editing /\ answered.registry = view.registry
    BY <1>1 DEF ViewOK, ViewFields
  <1> HIDE DEF B, answered
  <1>5. /\ DOMAIN next = ViewFields /\ Alike(answered, next) /\ next.runtime = c.runtime
        /\ next.editing = answered.editing /\ next.registry = answered.registry
    BY <1>4, WithRuntimeFields
  <1> HIDE DEF next
  <1>6. SelectedKey(answered) = SelectedKey(view)
    BY <1>4, AlikeSelects
  <1>7. ViewOK(answered)
    BY <1>1, <1>4, <1>6 DEF ViewOK
  <1>8. view.refreshing /\ view.items # <<>> =>
          \E d \in BagToSet(B) : d.kind = "refresh" /\ d.current /\ d.key = SelectedKey(view)
    BY <1>1, <1>2 DEF TuiInv, FlagsOK
  <1>9. CASE view' = answered /\ commands' = B
    <2>1. FlagsOK(answered, B)
      BY <1>2, <1>3, <1>4, <1>6, <1>8 DEF FlagsOK, Quiet, Actions
    <2> QED
      BY <1>1, <1>2, <1>7, <1>9, <2>1 DEF TuiInv, DaemonOK
  <1>10. CASE /\ Concerns(c)
              /\ view' = [next EXCEPT !.refreshing = TRUE]
              /\ commands' = IF view.refreshing THEN B ELSE Send(B, Refresh(next))
    <2> DEFINE w == [next EXCEPT !.refreshing = TRUE]
    <2>1. ViewOK(next) /\ SelectedKey(next) = SelectedKey(view)
      <3>1. next.runtime.key \in {NoKey, SelectedKey(answered)}
        BY <1>1, <1>5, <1>6, <1>10 DEF Concerns, CommandOK
      <3> QED
        BY <3>1, <1>5, <1>6, <1>7, ShowsAnswer
    <2>2. /\ ViewOK(w) /\ SelectedKey(w) = SelectedKey(view) /\ w.items = view.items
          /\ ~w.pending /\ ~w.loading /\ ~w.starting
      BY <2>1, <1>3, <1>4, <1>5, AwaitsRefresh DEF Alike
    <2> HIDE DEF w
    <2>3. CASE view.refreshing
      <3>1. FlagsOK(w, B)
        BY <1>2, <1>8, <2>2, <2>3 DEF FlagsOK, Quiet, Actions
      <3> QED
        BY <1>1, <1>2, <1>10, <2>2, <2>3, <3>1 DEF TuiInv, DaemonOK, w
    <2>4. CASE ~view.refreshing
      <3> DEFINE r == Refresh(next)
      <3>1. CommandOK(r) /\ r.kind = "refresh" /\ r.current /\ r.key = SelectedKey(w)
        BY <2>1, <2>2, RefreshFields
      <3>2. commands' = Send(B, r)
        BY <1>10, <2>4
      <3> HIDE DEF r
      <3>3. CommandsOK(Send(B, r)) /\ FlagsOK(w, Send(B, r))
        BY <3>1, <1>2, <2>2, RefreshAlone
      <3> QED
        BY <3>2, <3>3, <1>1, <1>10, <2>2 DEF TuiInv, DaemonOK, w
    <2> QED
      BY <2>3, <2>4
  <1> QED
    BY <1>1, <1>9, <1>10

(* Every message.                                                          *)
LEMMA MessageKeeps ==
  ASSUME TuiInv, NEW c \in BagToSet(commands), Message(c)
  PROVE  TuiInv'
  BY RegistryLoadedKeeps, DaemonLaunchedKeeps, RefreshedKeeps, ActionDoneKeeps DEF Message

(***************************************************************************)
(* The commands at work, and the daemon.                                   *)
(***************************************************************************)

(* The daemon changes and the command goes on.                             *)
LEMMA AdvanceInv ==
  ASSUME TuiInv, NEW c \in BagToSet(commands), NEW n, Advance(c, n),
         CommandOK(n), n.kind = c.kind, n.key = c.key, n.current = c.current,
         view' = view, DaemonOK'
  PROVE  TuiInv'
  <1>1. CommandsOK(Send(Done(commands, c), n)) /\ FlagsOK(view, Send(Done(commands, c), n))
    BY AdvanceKeeps DEF TuiInv
  <1> QED
    BY <1>1 DEF Advance, TuiInv

(* A request failed.                                                       *)
LEMMA FailsInv ==
  ASSUME TuiInv, NEW c \in BagToSet(commands), Fails(c), view' = view, DaemonOK'
  PROVE  TuiInv'
  <1> DEFINE n == [Command(c.kind) EXCEPT !.phase = "done", !.failed = TRUE,
                     !.key = c.key, !.current = c.current]
  <1>1. <<>> \in Seq(Keys) /\ CommandOK(c)
    BY DEF TuiInv, CommandsOK
  <1>2. CommandOK(n) /\ n.kind = c.kind /\ n.key = c.key /\ n.current = c.current
    BY <1>1 DEF Command, CommandOK, CommandFields, NoRuntime
  <1>3. Advance(c, n)
    BY DEF Fails
  <1> HIDE DEF n
  <1> QED
    BY <1>2, <1>3, AdvanceInv

(* What the daemon lists are processes.                                    *)
LEMMA ListedKeys ==
  ASSUME DaemonOK
  PROVE  Listed \in Seq(Keys) /\ Elements(Listed) \subseteq Keys
  <1>1. Listed \in Seq(Keys)
    BY TuiAssumption DEF DaemonOK, Listed
  <1> QED
    BY <1>1 DEF Elements

(* The list is read.                                                       *)
LEMMA ReadRegistryKeeps ==
  ASSUME TuiInv, NEW c \in BagToSet(commands), ReadRegistry(c)
  PROVE  TuiInv'
  <1> DEFINE n == [c EXCEPT !.phase = "done", !.items = Listed]
  <1>1. CommandOK(c) /\ Listed \in Seq(Keys)
    BY ListedKeys DEF TuiInv, CommandsOK
  <1>2. CommandOK(n) /\ n.kind = c.kind /\ n.key = c.key /\ n.current = c.current
    BY <1>1 DEF CommandOK, CommandFields
  <1>3. Advance(c, n) /\ view' = view /\ DaemonOK'
    BY DEF ReadRegistry, TuiInv, DaemonOK
  <1> HIDE DEF n
  <1> QED
    BY <1>2, <1>3, AdvanceInv

(* A refresh reads the runtime of its own process.                         *)
LEMMA ReadStatusKeeps ==
  ASSUME TuiInv, NEW c \in BagToSet(commands), ReadStatus(c)
  PROVE  TuiInv'
  <1> DEFINE runtime == daemon.runtime[c.key]
             n == [c EXCEPT !.phase = "status", !.runtime = runtime, !.previous = 0,
                     !.after = IF runtime.instance # 0 /\ runtime.instance # c.previous
                               THEN 0 ELSE @]
  <1>1. CommandOK(c) /\ c.key \in Keys
    BY ListedKeys DEF TuiInv, CommandsOK, ReadStatus, Served
  <1>2. runtime.key \in {NoKey, c.key}
    BY <1>1 DEF TuiInv, DaemonOK
  <1>3. Advance(c, n) /\ view' = view /\ DaemonOK'
    BY DEF ReadStatus, TuiInv, DaemonOK
  <1> HIDE DEF runtime
  <1>4. CommandOK(n) /\ n.kind = c.kind /\ n.key = c.key /\ n.current = c.current
    BY <1>1, <1>2 DEF CommandOK, CommandFields
  <1> HIDE DEF n
  <1> QED
    BY <1>3, <1>4, AdvanceInv

(* It reads the output.                                                    *)
LEMMA ReadLogsKeeps ==
  ASSUME TuiInv, NEW c \in BagToSet(commands), ReadLogs(c)
  PROVE  TuiInv'
  <1> DEFINE events == {<<daemon.runtime[c.key].instance, i>> : i \in c.after + 1 .. daemon.output[c.key]}
             n == [c EXCEPT !.phase = "done", !.after = 0, !.events = events]
  <1>1. CommandOK(c)
    BY DEF TuiInv, CommandsOK
  <1>2. Advance(c, n) /\ view' = view /\ DaemonOK'
    BY DEF ReadLogs, TuiInv, DaemonOK
  <1> HIDE DEF events
  <1>3. CommandOK(n) /\ n.kind = c.kind /\ n.key = c.key /\ n.current = c.current
    BY <1>1 DEF CommandOK, CommandFields
  <1> HIDE DEF n
  <1> QED
    BY <1>2, <1>3, AdvanceInv

(* What the daemon may become.                                             *)
DaemonType == [up : BOOLEAN, list : 1 .. Len(Registries), next : Nat, others : Nat,
               runtime : [Keys -> RuntimeType], output : [Keys -> Nat]]
SoundDaemon(d) == d \in DaemonType /\ \A k \in Keys : d.runtime[k].key \in {NoKey, k}

LEMMA DaemonSound == DaemonOK <=> SoundDaemon(daemon)
  BY DEF DaemonOK, SoundDaemon, DaemonType

(* The runtimes of processes that end and begin.                           *)
LEMMA EndedRuntime ==
  ASSUME NEW rt \in RuntimeType
  PROVE  [rt EXCEPT !.active = FALSE] \in RuntimeType /\ [rt EXCEPT !.active = FALSE].key = rt.key
  BY DEF RuntimeType

LEMMA NewRuntime ==
  ASSUME NEW i \in Nat, NEW k \in Keys \cup {NoKey}, NEW b \in BOOLEAN
  PROVE  [instance |-> i, key |-> k, active |-> b] \in RuntimeType
  BY DEF RuntimeType

(* A run begins or ends.                                                   *)
LEMMA StartedSound ==
  ASSUME SoundDaemon(daemon), NEW k \in Keys
  PROVE  SoundDaemon(Started(k))
  <1> DEFINE rt == [instance |-> daemon.next, key |-> k, active |-> TRUE]
             rts == [daemon.runtime EXCEPT ![k] = rt]
             out == [daemon.output EXCEPT ![k] = 0]
             n == daemon.next + 1
  <1>1. daemon.next \in Nat /\ n \in Nat
    BY DEF SoundDaemon, DaemonType
  <1>2. rt \in RuntimeType /\ rt.key = k
    BY <1>1, NewRuntime
  <1>3. Started(k) = [daemon EXCEPT !.runtime = rts, !.output = out, !.next = n]
    BY DEF Started, SoundDaemon, DaemonType
  <1> HIDE DEF rt, n
  <1>4. /\ rts \in [Keys -> RuntimeType] /\ out \in [Keys -> Nat]
        /\ \A j \in Keys : rts[j].key \in {NoKey, j}
    BY <1>2 DEF SoundDaemon, DaemonType
  <1> HIDE DEF rts, out
  <1> QED
    BY <1>1, <1>3, <1>4 DEF SoundDaemon, DaemonType

LEMMA StoppedSound ==
  ASSUME SoundDaemon(daemon), NEW k \in Keys
  PROVE  SoundDaemon(Stopped(k))
  <1> DEFINE rt == [daemon.runtime[k] EXCEPT !.active = FALSE]
             rts == [daemon.runtime EXCEPT ![k] = rt]
  <1>1. rt \in RuntimeType /\ rt.key \in {NoKey, k}
    BY EndedRuntime DEF SoundDaemon, DaemonType
  <1>2. Stopped(k) = [daemon EXCEPT !.runtime = rts]
    BY DEF Stopped, SoundDaemon, DaemonType
  <1> HIDE DEF rt
  <1>3. rts \in [Keys -> RuntimeType] /\ \A j \in Keys : rts[j].key \in {NoKey, j}
    BY <1>1 DEF SoundDaemon, DaemonType
  <1> HIDE DEF rts
  <1> QED
    BY <1>2, <1>3 DEF SoundDaemon, DaemonType

LEMMA AfterSound ==
  ASSUME SoundDaemon(daemon), NEW k \in Keys, NEW action
  PROVE  SoundDaemon(After(action, k))
  BY StartedSound, StoppedSound DEF After

LEMMA DisturbSound ==
  ASSUME NEW d, SoundDaemon(d), Disturb(d)
  PROVE  SoundDaemon(daemon')
  BY DEF Disturb, SoundDaemon, DaemonType

(* The daemon performs the action, and its answer arrives or is too late.  *)
LEMMA ServeActionKeeps ==
  ASSUME TuiInv, NEW c \in BagToSet(commands), NEW action \in Actions, ServeAction(c, action)
  PROVE  TuiInv'
  <1>1. CommandOK(c) /\ c.key \in Keys /\ SoundDaemon(daemon) /\ view' = view
    BY ListedKeys, DaemonSound DEF TuiInv, CommandsOK, ServeAction, Served
  <1>2. SoundDaemon(After(action, c.key))
    BY <1>1, AfterSound
  <1>3. CASE Disturb(After(action, c.key)) /\ Fails(c)
    <2>1. DaemonOK'
      BY <1>2, <1>3, DisturbSound DEF DaemonOK, SoundDaemon, DaemonType
    <2> QED
      BY <2>1, <1>1, <1>3, FailsInv
  <1>4. CASE /\ daemon' = After(action, c.key)
             /\ Advance(c, [c EXCEPT !.phase = "done", !.runtime = daemon'.runtime[c.key]])
    <2> DEFINE rt == After(action, c.key).runtime[c.key]
               n == [c EXCEPT !.phase = "done", !.runtime = rt]
    <2>1. DaemonOK' /\ Advance(c, n)
      BY <1>2, <1>4 DEF DaemonOK, SoundDaemon, DaemonType
    <2>2. rt.key \in {NoKey, c.key}
      BY <1>1, <1>2 DEF SoundDaemon
    <2> HIDE DEF rt
    <2>3. CommandOK(n) /\ n.kind = c.kind /\ n.key = c.key /\ n.current = c.current
      BY <1>1, <2>2 DEF CommandOK, CommandFields
    <2> HIDE DEF n
    <2> QED
      BY <1>1, <2>1, <2>3, AdvanceInv
  <1> QED
    BY <1>3, <1>4 DEF ServeAction

(* The launcher ran.                                                       *)
LEMMA LaunchDaemonKeeps ==
  ASSUME TuiInv, NEW c \in BagToSet(commands), LaunchDaemon(c)
  PROVE  TuiInv'
  <1> DEFINE n == [c EXCEPT !.phase = "polling"]
  <1>1. CommandOK(c)
    BY DEF TuiInv, CommandsOK
  <1>2. CommandOK(n) /\ n.kind = c.kind /\ n.key = c.key /\ n.current = c.current
    BY <1>1 DEF CommandOK, CommandFields
  <1>3. Advance(c, n) /\ view' = view /\ DaemonOK'
    BY DEF LaunchDaemon, Launched, TuiInv, DaemonOK
  <1> HIDE DEF n
  <1> QED
    BY <1>2, <1>3, AdvanceInv

(* Every request of a command.                                             *)
LEMMA WorkKeeps ==
  ASSUME TuiInv, NEW c \in BagToSet(commands), Work(c)
  PROVE  TuiInv'
  <1>1. CASE RequestFails(c)
    BY <1>1, FailsInv DEF RequestFails, TuiInv, DaemonOK
  <1>2. CASE TimesOut(c)
    <2>1. SoundDaemon(daemon')
      BY <1>2, DaemonSound, DisturbSound DEF TimesOut, TuiInv
    <2>2. DaemonOK'
      BY <2>1 DEF DaemonOK, SoundDaemon, DaemonType
    <2> QED
      BY <1>2, <2>2, FailsInv DEF TimesOut
  <1> QED
    BY <1>1, <1>2, ReadRegistryKeeps, ReadStatusKeeps, ReadLogsKeeps, LaunchDaemonKeeps,
       ServeActionKeeps DEF Work

(* The daemon, its processes and its other clients.                        *)
LEMMA DaemonStepKeeps ==
  ASSUME TuiInv, DaemonStep
  PROVE  TuiInv'
  <1>1. SoundDaemon(daemon)
    BY DaemonSound DEF TuiInv
  <1>2. SoundDaemon(daemon')
    <2>1. CASE ComeUp
      BY <1>1, <2>1 DEF ComeUp, SoundDaemon, DaemonType
    <2>2. CASE Relist
      <3> DEFINE lost == Elements(Listed) \ Elements(Registries[daemon.list + 1])
                 rts == [k \in Keys |-> IF k \in lost THEN NoRuntime ELSE daemon.runtime[k]]
                 out == [k \in Keys |-> IF k \in lost THEN 0 ELSE daemon.output[k]]
      <3>1. daemon' = [daemon EXCEPT !.list = daemon.list + 1, !.runtime = rts, !.output = out]
        BY <1>1, <2>2 DEF Relist, SoundDaemon, DaemonType
      <3>2. daemon.list + 1 \in 1 .. Len(Registries)
        BY <1>1, <2>2, TuiAssumption DEF Relist, SoundDaemon, DaemonType
      <3> HIDE DEF lost
      <3>3. /\ rts \in [Keys -> RuntimeType] /\ out \in [Keys -> Nat]
            /\ \A k \in Keys : rts[k].key \in {NoKey, k}
        BY <1>1 DEF SoundDaemon, DaemonType, RuntimeType, NoRuntime
      <3> HIDE DEF rts, out
      <3> QED
        BY <1>1, <3>1, <3>2, <3>3 DEF SoundDaemon, DaemonType
    <2>3. CASE GoDown
      <3> DEFINE rts == [k \in Keys |-> [daemon.runtime[k] EXCEPT !.active = FALSE]]
                 out == [k \in Keys |-> 0]
                 d == [daemon EXCEPT !.up = FALSE, !.output = out, !.runtime = rts]
      <3>1. Disturb(d)
        BY <1>1, <2>3 DEF GoDown, SoundDaemon, DaemonType
      <3>2. /\ rts \in [Keys -> RuntimeType] /\ out \in [Keys -> Nat]
            /\ \A k \in Keys : rts[k].key \in {NoKey, k}
        <4>1. ASSUME NEW k \in Keys
              PROVE  rts[k] \in RuntimeType /\ rts[k].key \in {NoKey, k}
          <5> DEFINE rt == daemon.runtime[k]
          <5>1. rt \in RuntimeType /\ rt.key \in {NoKey, k}
            BY <1>1 DEF SoundDaemon, DaemonType
          <5>2. rts[k] = [rt EXCEPT !.active = FALSE]
            OBVIOUS
          <5> HIDE DEF rt, rts
          <5> QED
            BY <5>1, <5>2, EndedRuntime
        <4>2. DOMAIN rts = Keys /\ rts = [k \in Keys |-> rts[k]]
          OBVIOUS
        <4>3. out \in [Keys -> Nat]
          OBVIOUS
        <4> HIDE DEF rts, out
        <4> QED
          BY <4>1, <4>2, <4>3
      <3> HIDE DEF rts, out
      <3>3. SoundDaemon(d)
        BY <1>1, <3>2 DEF SoundDaemon, DaemonType
      <3> QED
        BY <3>1, <3>3, DisturbSound
    <2>4. CASE \E k \in Keys : Produce(k) \/ OthersStart(k) \/ Ends(k)
      <3>1. PICK k \in Keys : Produce(k) \/ OthersStart(k) \/ Ends(k)
        BY <2>4
      <3>2. SoundDaemon([daemon EXCEPT !.output[k] = @ + 1])
        <4> DEFINE out == [daemon.output EXCEPT ![k] = daemon.output[k] + 1]
        <4>1. out \in [Keys -> Nat]
          BY <1>1 DEF SoundDaemon, DaemonType
        <4>2. [daemon EXCEPT !.output[k] = @ + 1] = [daemon EXCEPT !.output = out]
          OBVIOUS
        <4> HIDE DEF out
        <4>3. SoundDaemon([daemon EXCEPT !.output = out])
          BY <1>1, <4>1 DEF SoundDaemon, DaemonType
        <4> QED
          BY <4>2, <4>3
      <3> QED
        BY <1>1, <3>1, <3>2, StartedSound, StoppedSound, DisturbSound DEF Produce, OthersStart, Ends
    <2> QED
      BY <2>1, <2>2, <2>3, <2>4 DEF DaemonStep
  <1>3. DaemonOK' /\ view' = view /\ commands' = commands
    BY <1>2 DEF DaemonStep, DaemonOK, SoundDaemon, DaemonType
  <1> QED
    BY <1>3 DEF TuiInv

(***************************************************************************)
(* The theorems.                                                           *)
(***************************************************************************)

(* At first the list is being read.                                        *)
LEMMA TuiInit == Init => TuiInv
  <1> SUFFICES ASSUME Init PROVE TuiInv
    OBVIOUS
  <1>1. <<>> \in Seq(Keys)
    OBVIOUS
  <1>2. DaemonOK
    BY TuiAssumption DEF Init, DaemonOK, RuntimeType, NoRuntime
  <1>3. ViewOK(view)
    BY <1>1 DEF Init, ViewOK, ViewFields, SelectedKey, NoRuntime
  <1> DEFINE n == Command("load")
  <1>4. BagToSet(commands) = {n} /\ commands[n] = 1
    BY DEF Init, SetToBag, BagToSet
  <1>5. CommandOK(n) /\ n.kind = "load" /\ n.current
    BY CommandHas DEF Kinds
  <1> HIDE DEF n
  <1>6. CommandsOK(commands)
    BY <1>4, <1>5 DEF CommandsOK
  <1>7. FlagsOK(view, commands)
    BY <1>4, <1>5 DEF FlagsOK, Init, Actions
  <1> QED
    BY <1>2, <1>3, <1>6, <1>7 DEF TuiInv

(* Every step preserves the invariant.                                     *)
LEMMA TuiNext == TuiInv /\ [Next]_vars => TuiInv'
  <1> SUFFICES ASSUME TuiInv, [Next]_vars PROVE TuiInv'
    OBVIOUS
  <1>1. CASE UNCHANGED vars
    BY <1>1 DEF vars, TuiInv, DaemonOK
  <1>2. CASE Next
    BY <1>2, KeyPressKeeps, TickKeeps, DaemonStepKeeps, MessageKeeps, WorkKeeps DEF Next
  <1> QED
    BY <1>1, <1>2

(* The inductive invariant of the process workspace: the model, the daemon *)
(* it talks to and the commands between them fit together.                 *)
THEOREM TuiCorrect == Spec => []TuiInv
  BY TuiInit, TuiNext, PTL DEF Spec

(* The flags that guard the keys tell what is in flight, and a refresh the *)
(* model waits for is one it will take (Model.Update, refreshCmd).         *)
THEOREM FlagsTell == Spec => []FlagsMatch
  <1>1. TuiInv => FlagsMatch
    <2> SUFFICES ASSUME TuiInv PROVE FlagsMatch
      OBVIOUS
    <2>1. view.refreshing /\ view.items # <<>> => \E c \in InFlight("refresh") : Concerns(c)
      BY DEF TuiInv, FlagsOK, InFlight, Concerns
    <2>2. \A action \in Actions : \A c \in InFlight(action) : Concerns(c)
      BY DEF TuiInv, FlagsOK, CommandsOK, InFlight, Concerns, Actions
    <2>3. Announces(view.pending, Actions) /\ Announces(view.loading, {"load"})
          /\ Announces(view.starting, {"launch"})
      BY DEF TuiInv, FlagsOK, CommandsOK, Announces, Actions
    <2>4. ~(view.loading /\ view.starting)
      BY DEF TuiInv, FlagsOK, CommandsOK
    <2> QED
      BY <2>1, <2>2, <2>3, <2>4 DEF FlagsMatch
  <1> QED
    BY <1>1, TuiCorrect, PTL

(* No answer is shown under another selection than it was asked for, in    *)
(* whatever order answers arrive (applyRuntime, resetSelection).           *)
THEOREM SelectionShown == Spec => []ShowsSelected
  <1>1. TuiInv => ShowsSelected
    BY DEF TuiInv, ViewOK, ShowsSelected
  <1> QED
    BY <1>1, TuiCorrect, PTL

(* An open form acts on the process it was opened for, whatever arrives    *)
(* meanwhile (openProcessEditor, beginAction).                             *)
THEOREM EditorKeepsSelection == Spec => []EditorActsOnSelection
  <1>1. TuiInv => EditorActsOnSelection
    BY DEF TuiInv, ViewOK, EditorActsOnSelection
  <1> QED
    BY <1>1, TuiCorrect, PTL
=============================================================================
