---------------------------- MODULE TuiIdentity -----------------------------
(***************************************************************************)
(* The persona and project workspaces of the terminal UI: lists that are   *)
(* read from the daemon, a form for one entry, a confirmation on top of it *)
(* and the save.  Update runs on one goroutine; loads and saves run on     *)
(* their own and answer in any order.                                      *)
(*                                                                         *)
(* A selection is any listed entry.  Of a form there remain what was       *)
(* entered and whether it is completed; a completed huh form ignores every *)
(* message and stays completed.  While a process action is pending no      *)
(* project form opens; that refusal is no step.                            *)
(* A Bug_ operator is a faulty variant of the definition that follows it.  *)
(***************************************************************************)
EXTENDS IdentityState, Naturals, Bags

CONSTANTS
  MaxCommands,   \* bound on the commands in flight
  MaxChanges     \* bound on the changes of the store

ASSUME TuiIdentityAssumption == MaxCommands \in Nat /\ MaxChanges \in Nat

VARIABLES
  store,     \* external: Store.state of the daemon
  changes,   \* the changes of the store so far
  view,      \* the Model, as far as these workspaces go
  commands   \* the bag of loads and saves in flight

storeVars == <<store, changes>>

NoEditor == [kind |-> "none", id |-> "none", draft |-> {}, options |-> {}, done |-> FALSE]
NoModal == [kind |-> "none", approve |-> FALSE]

Load == [kind |-> "load", phase |-> "sent", editor |-> NoEditor, list |-> {}]
Save(editor) == [Load EXCEPT !.kind = "save", !.editor = editor]

Send(command) == commands' = commands (+) SetToBag({command})
Done(command) == commands' = commands (-) SetToBag({command})
Advance(command, next) ==
  commands' = (commands (-) SetToBag({command})) (+) SetToBag({next})
Room == BagCardinality(commands) < MaxCommands

TuiInit ==
  /\ view = [workspace |-> "processes", loading |-> TRUE, failed |-> FALSE,
             list |-> NewState, editor |-> NoEditor, modal |-> NoModal,
             saving |-> FALSE, crashed |-> FALSE]
  /\ commands = SetToBag({Load})

(***************************************************************************)
(* The store.                                                              *)
(***************************************************************************)

(* Store.Update, for all clients: accepted only if it validates.           *)
Update(next) ==
  /\ changes < MaxChanges
  /\ Validate(next)
  /\ store' = next
  /\ changes' = changes + 1

WithProject(state, id, project) == [state EXCEPT !.projects = Put(@, id, project)]
WithPersona(state, id, host) == [state EXCEPT !.personas = Put(@, id, host)]

(***************************************************************************)
(* Keys outside a form: Update and updateKey.                              *)
(***************************************************************************)
InList == ~view.crashed /\ view.modal = NoModal /\ view.editor = NoEditor

Become(v) == view' = v /\ UNCHANGED <<commands, storeVars>>
BecomeAnd(v, command) == Room /\ view' = v /\ Send(command) /\ UNCHANGED storeVars

(* left and right go round personas, projects, processes; i goes from      *)
(* processes to projects; l reloads, whether or not a load is on its way.  *)
SwitchWorkspace(to) ==
  /\ InList
  /\ to # view.workspace
  /\ IF to = "processes"
     THEN Become([view EXCEPT !.workspace = to])
     ELSE BecomeAnd([view EXCEPT !.workspace = to, !.loading = TRUE], Load)

Reload ==
  /\ InList
  /\ view.workspace # "processes"
  /\ BecomeAnd([view EXCEPT !.loading = TRUE], Load)

ProjectEditor(id) ==
  [kind |-> "project", id |-> id, draft |-> {view.list.projects[id]},
   options |-> DOMAIN view.list.personas, done |-> FALSE]
PersonaEditor(id) ==
  [kind |-> "persona", id |-> id, draft |-> {view.list.personas[id]},
   options |-> {}, done |-> FALSE]

OpenProjectEditor(id) ==
  /\ InList /\ view.workspace = "projects" /\ ~view.loading /\ ~view.failed
  /\ id \in DOMAIN view.list.projects
  /\ Become([view EXCEPT !.editor = ProjectEditor(id)])

OpenPersonaEditor(id) ==
  /\ InList /\ view.workspace = "personas" /\ ~view.loading /\ ~view.failed
  /\ id \in DOMAIN view.list.personas
  /\ Become([view EXCEPT !.editor = PersonaEditor(id)])

(***************************************************************************)
(* Keys and other messages in a form: updateEditor.                        *)
(***************************************************************************)
InForm == ~view.crashed /\ view.modal = NoModal /\ view.editor # NoEditor

(* A persona entered is valid by itself or not (no draft); a project, as   *)
(* validateEditedProject has it, with the list as it is now.               *)
EditedValid(editor) ==
  IF editor.kind = "persona" THEN editor.draft # {}
  ELSE \A project \in editor.draft :
         Validate(IF editor.id \in DOMAIN view.list.projects
                  THEN WithProject(view.list, editor.id, project) ELSE view.list)

(* What is opened in the place of a form that was refused: one for what is *)
(* selected now, or the same when the list is empty.                       *)
Reopened(editor) ==
  LET entries == IF editor.kind = "persona"
                 THEN {PersonaEditor(id) : id \in DOMAIN view.list.personas}
                 ELSE {ProjectEditor(id) : id \in DOMAIN view.list.projects} IN
  IF entries = {} THEN {editor} ELSE entries

(* What a completed form comes to: its confirmation, or a new form.        *)
Completed(editor) ==
  IF EditedValid(editor)
  THEN Become([view EXCEPT !.editor = editor,
                           !.modal = [kind |-> editor.kind, approve |-> FALSE]])
  ELSE \E next \in Reopened(editor) : Become([view EXCEPT !.editor = next])

AbortForm ==
  /\ InForm /\ ~view.editor.done
  /\ Become([view EXCEPT !.editor = NoEditor])

(* The last field is left: a persona and a mode were chosen, or a host     *)
(* entered.                                                                *)
CompleteProjectForm(persona, mode) ==
  /\ InForm /\ ~view.editor.done /\ view.editor.kind = "project"
  /\ persona \in view.editor.options
  /\ Completed([view.editor EXCEPT !.done = TRUE,
       !.draft = {[project EXCEPT !.persona = persona, !.mode = mode] : project \in @}])

CompletePersonaForm(entered) ==
  /\ InForm /\ ~view.editor.done /\ view.editor.kind = "persona"
  /\ Completed([view.editor EXCEPT !.done = TRUE, !.draft = entered])

(* Any key, also while the form is being saved, and any other message such *)
(* as a resize, also while the confirmation is open.                       *)
Nudge ==
  /\ ~view.crashed
  /\ view.editor.done
  /\ Completed(view.editor)

(***************************************************************************)
(* Keys in the confirmation: updateConfirmation.                           *)
(***************************************************************************)
InModal == ~view.crashed /\ view.modal # NoModal

(* Arrow keys and tab; y chooses "save" as they may.                       *)
ToggleApprove == InModal /\ Become([view EXCEPT !.modal.approve = ~@])

(* esc, n, or enter on "cancel".                                           *)
CancelModal == InModal /\ Become([view EXCEPT !.modal = NoModal, !.editor = NoEditor])

(* enter on "save".  saveIdentityCmd sends what the editor holds, and so   *)
(* needs one.                                                              *)
Confirm ==
  LET next == [view EXCEPT !.modal = NoModal, !.loading = TRUE, !.saving = TRUE] IN
  /\ InModal
  /\ view.modal.approve
  /\ IF view.editor = NoEditor
     THEN Become([next EXCEPT !.crashed = TRUE])
     ELSE BecomeAnd(next, Save(view.editor))

(***************************************************************************)
(* Commands and their messages.                                            *)
(***************************************************************************)
Saved(editor) ==
  IF editor.kind = "project"
  THEN {WithProject(store, editor.id, draft) : draft \in editor.draft}
  ELSE {WithPersona(store, editor.id, draft) : draft \in editor.draft}

(* project.put or persona.put is carried out.                              *)
ServeSave(c) ==
  /\ c.kind = "save" /\ c.phase = "sent"
  /\ \E next \in Saved(c.editor) : Update(next)
  /\ Advance(c, [c EXCEPT !.phase = "applied"])
  /\ UNCHANGED view

(* A load, or what follows a save in the same call, reads the store.       *)
ReadSnapshot(c) ==
  /\ c.phase = IF c.kind = "load" THEN "sent" ELSE "applied"
  /\ Advance(c, [c EXCEPT !.phase = "answered", !.list = {store}])
  /\ UNCHANGED <<view, storeVars>>

(* The daemon is not reached, refuses, or its answer comes too late.       *)
CommandFails(c) ==
  /\ c.phase \in {"sent", "applied"}
  /\ Advance(c, [c EXCEPT !.phase = "failed"])
  /\ UNCHANGED <<view, storeVars>>

Receive(c, kind, v) ==
  /\ ~view.crashed
  /\ c.kind = kind
  /\ c.phase \in {"answered", "failed"}
  /\ Done(c)
  /\ view' = v
  /\ UNCHANGED storeVars

(* identityLoadedMsg: the list is empty after an error.                    *)
Loaded(c) ==
  Receive(c, "load", [view EXCEPT !.loading = FALSE, !.failed = c.phase = "failed",
    !.list = IF c.phase = "failed" THEN NewState ELSE CHOOSE state \in c.list : TRUE])

Bug_SaveFailed(v) == [v EXCEPT !.loading = FALSE]

(* identitySavedMsg, with an error: the form stays, completed.             *)
SaveFailed(v) == [v EXCEPT !.loading = FALSE, !.saving = FALSE]

(* identitySavedMsg: the form goes, a confirmation that was opened over it *)
(* meanwhile stays.                                                        *)
SaveSucceeded(v, state) ==
  [v EXCEPT !.loading = FALSE, !.saving = FALSE, !.failed = FALSE,
            !.list = state, !.editor = NoEditor]

SaveAnswered(c) ==
  Receive(c, "save", IF c.phase = "failed" THEN SaveFailed(view)
                     ELSE SaveSucceeded(view, CHOOSE state \in c.list : TRUE))

TuiStep ==
  \/ \E to \in {"personas", "projects", "processes"} : SwitchWorkspace(to)
  \/ Reload
  \/ \E id \in ProjectIds : OpenProjectEditor(id)
  \/ \E id \in PersonaIds : OpenPersonaEditor(id)
  \/ AbortForm \/ Nudge
  \/ \E persona \in PersonaIds, mode \in Modes : CompleteProjectForm(persona, mode)
  \/ \E entered \in {{}} \cup {{host} : host \in Hosts} : CompletePersonaForm(entered)
  \/ ToggleApprove \/ CancelModal \/ Confirm
  \/ \E c \in BagToSet(commands) :
       ServeSave(c) \/ ReadSnapshot(c) \/ CommandFails(c) \/ Loaded(c) \/ SaveAnswered(c)

(***************************************************************************)
(* Properties.                                                             *)
(***************************************************************************)
InFlight(kind) == \E c \in BagToSet(commands) : c.kind = kind

(* "loading" and "saving..." are shown only while a command is on its way  *)
(* that will end them, although loads and saves overlap, overtake each     *)
(* other and fail: no form is ever stuck in "saving..." and no list behind *)
(* "loading" (Model.Update on identityLoadedMsg and identitySavedMsg).     *)
Unstuck ==
  ~view.crashed =>
    /\ view.loading => InFlight("load") \/ InFlight("save")
    /\ view.saving => InFlight("save")

(* A confirmation has the form it confirms: submitting a form opens it, and*)
(* nothing takes the form away while it is open (Model.Update, Confirm).   *)
ModalHasForm == view.modal # NoModal => view.editor # NoEditor

(* The inductive strengthening of Unstuck: the fields of a command and of  *)
(* the model, and that the commands are a bag.                             *)
CommandsInv ==
  /\ {"loading", "saving", "crashed"} \subseteq DOMAIN view
  /\ IsABag(commands)
  /\ \A c \in BagToSet(commands) : "kind" \in DOMAIN c
  /\ Unstuck
=============================================================================
