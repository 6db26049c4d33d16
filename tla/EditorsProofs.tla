---------------------------- MODULE EditorsProofs ---------------------------
(***************************************************************************)
(* Theorems about OperatorClients, with TuiIdentity and GitConfig: for     *)
(* every configuration, any number of changes, failures and commands in    *)
(* flight, and any of the programs at work together.                       *)
(***************************************************************************)
EXTENDS OperatorClients, SequenceTheorems, TLAPS

(***************************************************************************)
(* The repository: a change of the Git configuration is made or undone.    *)
(***************************************************************************)

(* Git is changed by the steps of GitConfig alone.                         *)
LEMMA GitSteps ==
  ASSUME [Next]_vars
  PROVE  \/ UNCHANGED gitVars
         \/ \E persona : BeginAuthor(persona)
         \/ term.pc = "helper" /\ BeginHelper
         \/ ReadPrevious \/ Write \/ WriteFails
  BY DEF Next, vars, gitVars, TerminalStep, GhStep, Elsewhere, UsePersona, SwitchPolicy, EditPersona,
     StartConfigure, Starts, AnswerQuestions, ListProjects, PutDraft, PutRefused, RegisterProject,
     StartGit, RunGit

(* A second element.                                                       *)
LEMMA AppendToOne ==
  ASSUME NEW x, NEW y
  PROVE  Append(<<x>>, y) = <<x, y>>
  <1> DEFINE s == Append(<<x>>, y)
             t == <<x, y>>
  <1>1. s \in Seq({x, y}) /\ Len(s) = 2 /\ s[1] = x /\ s[2] = y
    <2>1. <<x>> \in Seq({x, y}) /\ Len(<<x>>) = 1
      OBVIOUS
    <2> QED
      BY <2>1
  <1>2. t \in Seq({x, y}) /\ Len(t) = 2 /\ t[1] = x /\ t[2] = y
    OBVIOUS
  <1> HIDE DEF s, t
  <1>3. \A i \in 1 .. Len(s) : s[i] = t[i]
    BY <1>1, <1>2
  <1>4. s = t
    BY <1>1, <1>2, <1>3, SeqEqual
  <1> QED
    BY <1>4 DEF s, t

(* One field of the configuration is written, the others stay.             *)
LEMMA GitField ==
  ASSUME NEW x, x = [name |-> x.name, email |-> x.email, helper |-> x.helper], NEW value
  PROVE  /\ [x EXCEPT !.name = value] = [name |-> value, email |-> x.email, helper |-> x.helper]
         /\ [x EXCEPT !.email = value] = [name |-> x.name, email |-> value, helper |-> x.helper]
         /\ [x EXCEPT !.helper = value] = [name |-> x.name, email |-> x.email, helper |-> value]
  OBVIOUS

(* A command that fails leaves the configuration, with or without its own  *)
(* effect, and what is put back: both author keys or the helpers.          *)
LEMMA WriteFailsGit ==
  ASSUME JobInv, WriteFails
  PROVE  /\ job' = NoJob
         /\ git' = [name |-> git'.name, email |-> git'.email, helper |-> git'.helper]
         /\ \/ job.step = "reset" /\ (git' = git \/ "killed" \in GitFaults)
            \/ \E old \in job.previous :
                 /\ job.step = "add" /\ git'.helper = old.helper
                 /\ git'.name = git.name /\ git'.email = git.email
            \/ \E old \in job.previous :
                 /\ job.step \in {"name", "email"} /\ git'.helper = git.helper
                 /\ git'.name = old.name /\ git'.email = old.email
  <1>1. /\ job' = NoJob /\ job.step \in {"name", "email", "reset", "add"}
        /\ git = [name |-> git.name, email |-> git.email, helper |-> git.helper]
    BY DEF WriteFails, JobInv
  <1>2. PICK now : /\ now = git \/ ("killed" \in GitFaults /\ now = Effect(job.step))
                   /\ git' \in Restored(job.step, now)
    BY DEF WriteFails
  <1>3. /\ now = [name |-> now.name, email |-> now.email, helper |-> now.helper]
        /\ job.step \in {"name", "email"} => now.helper = git.helper
        /\ job.step \in {"reset", "add"} => now.name = git.name /\ now.email = git.email
    <2>1. CASE now = git
      BY <1>1, <2>1
    <2>2. CASE now = Effect(job.step)
      <3>1. \/ job.step = "name" /\ now = [git EXCEPT !.name = job.author]
            \/ job.step = "email" /\ now = [git EXCEPT !.email = job.author]
            \/ job.step = "reset" /\ now = [git EXCEPT !.helper = <<"">>]
            \/ job.step = "add"
               /\ now = [git EXCEPT !.helper = Append(git.helper, "!gh auth git-credential")]
        BY <1>1, <2>2 DEF Effect
      <3> QED
        BY <1>1, <3>1, GitField
    <2> QED
      BY <1>2, <2>1, <2>2
  <1>4. CASE job.step = "reset"
    BY <1>1, <1>2, <1>3, <1>4 DEF Restored
  <1>5. CASE job.step # "reset"
    <2>1. PICK old \in job.previous :
            git' = [now EXCEPT !.name = IF job.kind = "author" THEN old.name ELSE now.name,
                               !.email = IF job.kind = "author" THEN old.email ELSE now.email,
                               !.helper = IF job.kind = "helper" THEN old.helper ELSE now.helper]
      BY <1>2, <1>5 DEF Restored
    <2>2. git' = [name |-> IF job.kind = "author" THEN old.name ELSE now.name,
                  email |-> IF job.kind = "author" THEN old.email ELSE now.email,
                  helper |-> IF job.kind = "helper" THEN old.helper ELSE now.helper]
      BY <1>3, <2>1
    <2>3. \/ job.step = "add" /\ job.kind = "helper"
          \/ job.step \in {"name", "email"} /\ job.kind = "author"
      BY <1>1, <1>5 DEF JobInv
    <2> QED
      BY <1>1, <1>3, <2>2, <2>3
  <1> QED
    BY <1>4, <1>5

(* Every step preserves what is known of a change of the Git configuration.*)
LEMMA JobKeeps ==
  ASSUME JobInv, [Next]_vars
  PROVE  JobInv'
  <1>1. CASE UNCHANGED gitVars
    BY <1>1 DEF JobInv, gitVars
  <1>2. ASSUME NEW persona, BeginAuthor(persona)
        PROVE  JobInv'
    <2>1. job' = [kind |-> "author", step |-> "read", author |-> persona, previous |-> {}]
          /\ git' = git
      BY <1>2 DEF BeginAuthor, NoJob
    <2> QED
      BY <2>1 DEF JobInv
  <1>3. CASE BeginHelper
    <2>1. job' = [kind |-> "helper", step |-> "read", author |-> NoAuthor, previous |-> {}]
          /\ git' = git
      BY <1>3 DEF BeginHelper, NoJob
    <2> QED
      BY <2>1 DEF JobInv
  <1>4. CASE ReadPrevious
    <2>1. \/ job' = NoJob
          \/ \E step \in {"name", "reset"} :
               /\ job.step = "read"
               /\ step = "name" <=> job.kind = "author"
               /\ job' = [job EXCEPT !.previous = {git}, !.step = step]
      BY <1>4 DEF ReadPrevious
    <2>2. git' = git
      BY <1>4 DEF ReadPrevious
    <2>3. CASE job' = NoJob
      BY <2>2, <2>3 DEF JobInv, NoJob
    <2>4. ASSUME NEW step \in {"name", "reset"}, job.step = "read",
                 step = "name" <=> job.kind = "author",
                 job' = [job EXCEPT !.previous = {git}, !.step = step]
          PROVE  JobInv'
      <3> DEFINE x == [job EXCEPT !.previous = {git}]
      <3>1. x = [kind |-> job.kind, step |-> job.step, author |-> job.author, previous |-> {git}]
        <4>1. job = [kind |-> job.kind, step |-> job.step, author |-> job.author,
                     previous |-> job.previous]
          BY DEF JobInv
        <4> QED
          BY <4>1
      <3>2. job' = [x EXCEPT !.step = step]
        BY <2>4 DEF JobInv
      <3> HIDE DEF x
      <3>3. job' = [kind |-> job.kind, step |-> step, author |-> job.author, previous |-> {git}]
        BY <3>1, <3>2
      <3>4. job.kind \in {"author", "helper"}
        BY <2>4 DEF JobInv
      <3> QED
        BY <2>2, <2>4, <3>3, <3>4 DEF JobInv
    <2> QED
      BY <2>1, <2>3, <2>4
  <1>5. CASE Write
    <2>1. /\ job.step \in {"name", "email", "reset", "add"}
          /\ git' = Effect(job.step)
          /\ job' = IF After(job.step) = "done" THEN NoJob ELSE [job EXCEPT !.step = After(@)]
      BY <1>5 DEF Write
    <2>2. CASE job.step = "name"
      <3>1. git' = [git EXCEPT !.name = job.author] /\ job' = [job EXCEPT !.step = "email"]
        BY <2>1, <2>2 DEF Effect, After
      <3>2. git' = [name |-> job.author, email |-> git.email, helper |-> git.helper]
        BY <3>1 DEF JobInv
      <3>3. job' = [kind |-> job.kind, step |-> "email", author |-> job.author,
                    previous |-> job.previous]
        BY <3>1 DEF JobInv
      <3>4. job.kind = "author" /\ job.previous = {git}
        BY <2>2 DEF JobInv
      <3>5. git = [name |-> git.name, email |-> git.email, helper |-> git.helper]
        BY DEF JobInv
      <3>6. [git' EXCEPT !.name = git.name] = git
        BY <3>2, <3>5
      <3> QED
        BY <3>2, <3>3, <3>4, <3>6 DEF JobInv
    <2>3. CASE job.step = "reset"
      <3>1. git' = [git EXCEPT !.helper = <<"">>] /\ job' = [job EXCEPT !.step = "add"]
        BY <2>1, <2>3 DEF Effect, After
      <3>2. git' = [name |-> git.name, email |-> git.email, helper |-> <<"">>]
        BY <3>1 DEF JobInv
      <3>3. job' = [kind |-> job.kind, step |-> "add", author |-> job.author,
                    previous |-> job.previous]
        BY <3>1 DEF JobInv
      <3>4. job.kind = "helper" /\ job.previous = {git}
        BY <2>3 DEF JobInv
      <3>5. git = [name |-> git.name, email |-> git.email, helper |-> git.helper]
        BY DEF JobInv
      <3>6. [git' EXCEPT !.helper = git.helper] = git
        <4>1. \A value : LET x == [name |-> git.name, email |-> git.email, helper |-> value] IN
                        [x EXCEPT !.helper = git.helper] = git
          BY <3>5
        <4> QED
          BY <3>2, <4>1
      <3> QED
        BY <3>2, <3>3, <3>4, <3>6 DEF JobInv
    <2>4. CASE job.step \in {"email", "add"}
      <3>1. job' = NoJob
        BY <2>1, <2>4 DEF After
      <3>2. \/ git' = [git EXCEPT !.email = job.author]
            \/ git' = [git EXCEPT !.helper = Append(git.helper, "!gh auth git-credential")]
        BY <2>1, <2>4 DEF Effect
      <3>3. git' = [name |-> git'.name, email |-> git'.email, helper |-> git'.helper]
        BY <3>2, GitField DEF JobInv
      <3> QED
        BY <3>1, <3>3 DEF JobInv, NoJob
    <2> QED
      BY <2>1, <2>2, <2>3, <2>4
  <1>6. CASE WriteFails
    <2>1. job' = NoJob /\ git' = [name |-> git'.name, email |-> git'.email, helper |-> git'.helper]
      BY <1>6, WriteFailsGit
    <2> QED
      BY <2>1 DEF JobInv, NoJob
  <1> QED
    BY <1>1, <1>2, <1>3, <1>4, <1>5, <1>6, GitSteps

(* What a change that ends comes to.                                       *)
LEMMA MadeOrUndone ==
  ASSUME GitFaults = {}, JobInv, [Next]_vars,
         job.kind # "none", job.step # "read", job'.kind = "none"
  PROVE  \/ git' \in job.previous
         \/ job.kind = "author" /\ git'.name = job.author /\ git'.email = job.author
         \/ job.kind = "helper" /\ git'.helper = Installed
  <1>1. git = [name |-> git.name, email |-> git.email, helper |-> git.helper]
    BY DEF JobInv
  <1>2. CASE Write
    <2>1. /\ job.step \in {"name", "email", "reset", "add"}
          /\ git' = Effect(job.step)
          /\ job' = IF After(job.step) = "done" THEN NoJob ELSE [job EXCEPT !.step = After(@)]
      BY <1>2 DEF Write
    <2>2. CASE job.step = "email"
      <3>1. git' = [git EXCEPT !.email = job.author]
        BY <2>1, <2>2 DEF Effect
      <3>2. git'.email = job.author /\ git'.name = git.name
        BY <1>1, <3>1
      <3> QED
        BY <2>2, <3>2 DEF JobInv
    <2>3. CASE job.step = "add"
      <3>1. git' = [git EXCEPT !.helper = Append(git.helper, "!gh auth git-credential")]
        BY <2>1, <2>3 DEF Effect
      <3>2. git'.helper = Append(git.helper, "!gh auth git-credential")
        BY <1>1, <3>1
      <3>3. git.helper = <<"">> /\ job.kind = "helper"
        BY <2>3 DEF JobInv
      <3> QED
        BY <3>2, <3>3, AppendToOne DEF Installed
    <2>4. CASE job.step \in {"name", "reset"}
      <3>1. job' = [job EXCEPT !.step = After(job.step)]
        BY <2>1, <2>4 DEF After
      <3>2. job'.kind = job.kind
        BY <3>1 DEF JobInv
      <3> QED
        BY <3>2
    <2> QED
      BY <2>1, <2>2, <2>3, <2>4
  <1>3. CASE WriteFails
    <2>1. /\ git' = [name |-> git'.name, email |-> git'.email, helper |-> git'.helper]
          /\ \/ job.step = "reset" /\ git' = git
             \/ \E old \in job.previous :
                  /\ job.step = "add" /\ git'.helper = old.helper
                  /\ git'.name = git.name /\ git'.email = git.email
             \/ \E old \in job.previous :
                  /\ job.step \in {"name", "email"} /\ git'.helper = git.helper
                  /\ git'.name = old.name /\ git'.email = old.email
      BY <1>3, WriteFailsGit
    <2>2. CASE job.step \in {"reset", "name"}
      <3>1. job.previous = {git}
        BY <2>2 DEF JobInv
      <3>2. git' = git
        BY <1>1, <2>1, <2>2, <3>1
      <3> QED
        BY <3>1, <3>2
    <2>3. CASE job.step \in {"email", "add"}
      <3>1. PICK old \in job.previous :
              /\ job.previous = {old}
              /\ \/ job.step = "email" /\ old = [git EXCEPT !.name = old.name]
                 \/ job.step = "add" /\ old = [git EXCEPT !.helper = old.helper]
        BY <2>3 DEF JobInv
      <3>2. \/ job.step = "email" /\ old = [name |-> old.name, email |-> git.email, helper |-> git.helper]
            \/ job.step = "add" /\ old = [name |-> git.name, email |-> git.email, helper |-> old.helper]
        BY <1>1, <3>1
      <3>3. git' = old
        BY <2>1, <3>1, <3>2
      <3> QED
        BY <3>3
    <2> QED
      BY <2>1, <2>2, <2>3
  <1>4. ~UNCHANGED gitVars
    <2>1. CASE UNCHANGED job
      BY <2>1
    <2> QED
      BY <2>1 DEF gitVars
  <1>5. ~(\E persona : BeginAuthor(persona)) /\ ~BeginHelper /\ ~ReadPrevious
    BY DEF BeginAuthor, BeginHelper, ReadPrevious, NoJob
  <1> QED
    BY <1>2, <1>3, <1>4, <1>5, GitSteps

(***************************************************************************)
(* The credential helper: no change takes a configuration back.            *)
(***************************************************************************)

StoreShape == store = [gh |-> store.gh, personas |-> store.personas, projects |-> store.projects]

(* The fields of a configuration.                                          *)
LEMMA StoreFields ==
  ASSUME NEW x, x = [gh |-> x.gh, personas |-> x.personas, projects |-> x.projects], NEW id, NEW value
  PROVE  /\ WithPersona(x, id, value)
              = [gh |-> x.gh, personas |-> Put(x.personas, id, value), projects |-> x.projects]
         /\ WithProject(x, id, value)
              = [gh |-> x.gh, personas |-> x.personas, projects |-> Put(x.projects, id, value)]
         /\ DOMAIN Put(x.projects, id, value) = DOMAIN x.projects \cup {id}
  BY DEF WithPersona, WithProject, Put

(* Configuring gh changes one field of the store.                          *)
LEMMA GhField ==
  ASSUME StoreShape
  PROVE  WithGh(store) = [gh |-> TRUE, personas |-> store.personas, projects |-> store.projects]
  <1>1. \A value : [store EXCEPT !.gh = value]
                     = [gh |-> value, personas |-> store.personas, projects |-> store.projects]
    BY DEF StoreShape
  <1> QED
    BY <1>1 DEF WithGh

(* A configuration that still has what the present one has.                *)
Grows(next) ==
  /\ next = [gh |-> next.gh, personas |-> next.personas, projects |-> next.projects]
  /\ DOMAIN store.projects \subseteq DOMAIN next.projects
  /\ store.gh => next.gh

(* Storing a persona or a project takes nothing away.                      *)
LEMMA PutGrows ==
  ASSUME StoreShape, NEW id, NEW value
  PROVE  Grows(WithPersona(store, id, value)) /\ Grows(WithProject(store, id, value))
  <1>1. /\ WithPersona(store, id, value)
             = [gh |-> store.gh, personas |-> Put(store.personas, id, value),
                projects |-> store.projects]
        /\ WithProject(store, id, value)
             = [gh |-> store.gh, personas |-> store.personas,
                projects |-> Put(store.projects, id, value)]
        /\ DOMAIN Put(store.projects, id, value) = DOMAIN store.projects \cup {id}
    BY StoreFields DEF StoreShape
  <1> QED
    BY <1>1 DEF Grows

(* What `configure` writes, from the questionnaire or from a file.         *)
LEMMA ConfigureGrows ==
  ASSUME StoreShape, NEW id, NEW host, NEW project
  PROVE  LET next == WithProject(WithPersona(WithGh(store), id, host), Here, project) IN
         Grows(next) /\ Here \in DOMAIN next.projects /\ next.gh
  <1> DEFINE x == WithGh(store)
             y == WithPersona(x, id, host)
             z == WithProject(y, Here, project)
  <1>1. x = [gh |-> TRUE, personas |-> store.personas, projects |-> store.projects]
    BY GhField
  <1> HIDE DEF x
  <1>2. x = [gh |-> x.gh, personas |-> x.personas, projects |-> x.projects]
    BY <1>1
  <1>3. y = [gh |-> x.gh, personas |-> Put(x.personas, id, host), projects |-> x.projects]
    BY <1>2 DEF WithPersona
  <1> HIDE DEF y
  <1>4. y = [gh |-> y.gh, personas |-> y.personas, projects |-> y.projects]
    BY <1>3
  <1>5. /\ z = [gh |-> y.gh, personas |-> y.personas, projects |-> Put(y.projects, Here, project)]
        /\ DOMAIN Put(y.projects, Here, project) = DOMAIN y.projects \cup {Here}
    BY <1>4 DEF WithProject, Put
  <1> HIDE DEF z
  <1>6. z.gh /\ DOMAIN z.projects = DOMAIN store.projects \cup {Here}
        /\ z = [gh |-> z.gh, personas |-> z.personas, projects |-> z.projects]
    BY <1>1, <1>3, <1>5
  <1>7. Grows(z) /\ Here \in DOMAIN z.projects /\ z.gh
    BY <1>6 DEF Grows
  <1> QED
    BY <1>7 DEF x, y, z

(* policy.set and gh.set.                                                  *)
LEMMA SettingGrows ==
  ASSUME StoreShape, NEW policy
  PROVE  Grows([store EXCEPT !.projects[Here].policy = policy]) /\ Grows(WithGh(store))
  <1>1. WithGh(store) = [gh |-> TRUE, personas |-> store.personas, projects |-> store.projects]
    BY GhField
  <1>2. Grows(WithGh(store))
    BY <1>1 DEF Grows
  <1> DEFINE projects == [store.projects EXCEPT ![Here].policy = policy]
  <1>3. DOMAIN projects = DOMAIN store.projects
    OBVIOUS
  <1>4. [store EXCEPT !.projects[Here].policy = policy] = [store EXCEPT !.projects = projects]
    BY DEF StoreShape
  <1> HIDE DEF projects
  <1>5. [store EXCEPT !.projects = projects]
          = [gh |-> store.gh, personas |-> store.personas, projects |-> projects]
    BY DEF StoreShape
  <1>6. Grows([store EXCEPT !.projects[Here].policy = policy])
    BY <1>3, <1>4, <1>5 DEF Grows
  <1> QED
    BY <1>2, <1>6

(* Whoever writes, the configuration grows.                                *)
LEMMA StoreGrows ==
  ASSUME StoreShape, [Next]_vars
  PROVE  store' = store \/ Grows(store')
  <1>1. CASE \E c \in BagToSet(commands) : ServeSave(c)
    <2>1. PICK c \in BagToSet(commands) : \E next \in Saved(c.editor) : store' = next
      BY <1>1 DEF ServeSave, Update
    <2> QED
      BY <2>1, PutGrows DEF Saved
  <1>2. CASE TuiStep /\ ~\E c \in BagToSet(commands) : ServeSave(c)
    BY <1>2 DEF TuiStep, storeVars, SwitchWorkspace, Reload, OpenProjectEditor, OpenPersonaEditor,
       AbortForm, Nudge, CompleteProjectForm, CompletePersonaForm, Completed, ToggleApprove,
       CancelModal, Confirm, Become, BecomeAnd, ReadSnapshot, CommandFails, Loaded, SaveAnswered, Receive
  <1>3. CASE PutDraft
    <2>1. PICK next \in Written : store' = next
      BY <1>3 DEF PutDraft, Update
    <2>2. CASE term.kind = "persona"
      BY <2>1, <2>2, PutGrows DEF Written
    <2>3. CASE term.kind = "configure"
      <3>1. PICK p \in term.persona, draft \in term.draft :
              store' = WithProject(WithPersona(WithGh(store), p[1], p[2]), Here, draft)
        BY <2>1, <2>3 DEF Written
      <3> QED
        BY <3>1, ConfigureGrows
    <2>4. CASE term.kind \notin {"persona", "configure"}
      BY <2>1, <2>4, PutGrows DEF Written
    <2> QED
      BY <2>2, <2>3, <2>4
  <1>4. CASE TerminalStep /\ ~PutDraft
    BY <1>4 DEF TerminalStep, storeVars, UsePersona, SwitchPolicy, EditPersona, StartConfigure, Starts,
       AnswerQuestions, ListProjects, PutRefused, RegisterProject, StartGit, RunGit
  <1>5. CASE GhStep \/ UNCHANGED vars
    BY <1>5 DEF GhStep, storeVars, vars
  <1>6. CASE Elsewhere
    <2>1. CASE UNCHANGED storeVars
      BY <2>1 DEF storeVars
    <2>2. CASE \E id \in PersonaIds, host \in Hosts : PutPersona(id, host)
      BY <2>2, PutGrows DEF PutPersona, Update
    <2>3. CASE SetGh \/ \E policy \in PolicyChoices : SetPolicy(policy)
      BY <2>3, SettingGrows DEF SetGh, SetPolicy, Update
    <2>4. CASE \E file \in Files : ConfigureFromFile(file[1], file[2])
      BY <2>4, ConfigureGrows DEF ConfigureFromFile, Update
    <2> QED
      BY <1>6, <2>1, <2>2, <2>3, <2>4 DEF Elsewhere
  <1> QED
    BY <1>1, <1>2, <1>3, <1>4, <1>5, <1>6 DEF Next

(* The terminal turns to the registry, or to the helper, only when the     *)
(* configuration has been accepted.                                        *)
LEMMA TerminalKeeps ==
  ASSUME HelperInv, [Next]_vars
  PROVE  /\ DOMAIN term' = DOMAIN NoCommand
         /\ term'.pc \in {"register", "helper"} => ConfiguredHere \/ ConfiguredHere'
  <1>1. /\ "pc" \in DOMAIN NoCommand /\ NoCommand.pc = "idle"
        /\ DOMAIN term = DOMAIN NoCommand
        /\ term.pc \in {"register", "helper"} => ConfiguredHere
    BY DEF NoCommand, HelperInv
  <1>2. CASE term' = term \/ term' = NoCommand
    BY <1>1, <1>2
  <1>3. ASSUME NEW pc, term' = [term EXCEPT !.pc = pc], pc \in {"register", "helper"} => ConfiguredHere'
                                                          \/ ConfiguredHere
        PROVE  /\ DOMAIN term' = DOMAIN NoCommand
               /\ term'.pc \in {"register", "helper"} => ConfiguredHere \/ ConfiguredHere'
    <2>1. DOMAIN term' = DOMAIN term /\ term'.pc = pc
      BY <1>1, <1>3
    <2> QED
      BY <1>1, <1>3, <2>1
  <1>4. ASSUME NEW pc \in {"put", "questions", "list"}, DOMAIN term' = DOMAIN NoCommand, term'.pc = pc
        PROVE  /\ DOMAIN term' = DOMAIN NoCommand
               /\ term'.pc \in {"register", "helper"} => ConfiguredHere \/ ConfiguredHere'
    BY <1>4
  <1>5. ASSUME NEW kind, NEW persona, NEW draft, NEW applyGit,
               term' = PutNext(kind, persona, draft, applyGit)
        PROVE  DOMAIN term' = DOMAIN NoCommand /\ term'.pc = "put"
    BY <1>1, <1>5 DEF PutNext
  <1>6. CASE \/ \E id \in PersonaIds, applyGit \in BOOLEAN : UsePersona(id, applyGit)
             \/ \E enabled \in BOOLEAN : SwitchPolicy(enabled)
             \/ \E id \in PersonaIds, host \in Hosts : EditPersona(id, host)
    <2>1. \E kind, persona, draft, applyGit : term' = PutNext(kind, persona, draft, applyGit)
      BY <1>6 DEF UsePersona, SwitchPolicy, EditPersona, Starts
    <2> QED
      BY <1>4, <1>5, <2>1
  <1>7. CASE StartConfigure
    <2>1. DOMAIN term' = DOMAIN NoCommand /\ term'.pc = "questions"
      BY <1>1, <1>7 DEF StartConfigure, Starts
    <2> QED
      BY <1>4, <2>1
  <1>8. CASE \E chosen \in PersonaIds \X Hosts, applyGit \in BOOLEAN : AnswerQuestions(chosen, applyGit)
    <2>1. PICK chosen \in PersonaIds \X Hosts, applyGit \in BOOLEAN : AnswerQuestions(chosen, applyGit)
      BY <1>8
    <2>2. PICK draft : term' = [term EXCEPT !.pc = "list", !.list = {}, !.persona = {chosen},
                                            !.draft = {draft}, !.applyGit = applyGit]
      BY <2>1, Zenon DEF AnswerQuestions
    <2>3. DOMAIN term' = DOMAIN term /\ term'.pc = "list"
      BY <1>1, <2>2
    <2> QED
      BY <1>1, <1>4, <2>3
  <1>9. CASE ListProjects
    <2>1. DOMAIN term' = DOMAIN term /\ term'.pc = "put"
      BY <1>1, <1>9 DEF ListProjects
    <2> QED
      BY <1>1, <1>4, <2>1
  <1>10. CASE PutDraft
    <2>1. CASE term.kind = "configure"
      <3>1. PICK p \in term.persona, draft \in term.draft :
              store' = WithProject(WithPersona(WithGh(store), p[1], p[2]), Here, draft)
        BY <1>10, <2>1 DEF PutDraft, Update, Written
      <3>2. Here \in DOMAIN store'.projects /\ store'.gh
        BY <3>1, ConfigureGrows DEF HelperInv, StoreShape
      <3>3. term' = NoCommand \/ \E pc : term' = [term EXCEPT !.pc = pc]
        BY <1>10, <2>1 DEF PutDraft, AfterPut
      <3> QED
        BY <1>2, <1>3, <3>2, <3>3 DEF ConfiguredHere
    <2>2. CASE term.kind # "configure"
      <3>1. term' = NoCommand \/ term' = [term EXCEPT !.pc = "author"]
        BY <1>10, <2>2 DEF PutDraft, AfterPut
      <3> QED
        BY <1>2, <1>3, <3>1
    <2> QED
      BY <2>1, <2>2
  <1>11. CASE PutRefused
    BY <1>2, <1>11 DEF PutRefused
  <1>12. CASE RegisterProject
    <2>1. \/ term' = NoCommand
          \/ term.pc = "register" /\ term' = [term EXCEPT !.pc = "helper"]
      BY <1>12 DEF RegisterProject
    <2> QED
      BY <1>1, <1>2, <1>3, <2>1
  <1>13. CASE StartGit
    <2>1. term' = [term EXCEPT !.pc = "git"]
      BY <1>13 DEF StartGit
    <2> QED
      BY <1>3, <2>1
  <1>14. CASE RunGit
    <2>1. term' = term \/ term' = NoCommand \/ term' = [term EXCEPT !.pc = "author"]
      BY <1>14 DEF RunGit, AfterGit
    <2> QED
      BY <1>2, <1>3, <2>1
  <1>15. CASE GhStep \/ Elsewhere \/ UNCHANGED vars \/ UNCHANGED term
    BY <1>2, <1>15 DEF GhStep, Elsewhere, vars
  <1> QED
    BY <1>6, <1>7, <1>8, <1>9, <1>10, <1>11, <1>12, <1>13, <1>14, <1>15 DEF Next, TerminalStep

(* The helper is only written for a project that was stored before, and no *)
(* project is ever removed.                                                *)
LEMMA HelperKeeps ==
  ASSUME HelperInv, JobInv, [Next]_vars
  PROVE  HelperInv'
  <1>1. /\ StoreShape
        /\ job.kind = "helper" => ConfiguredHere
        /\ \A old \in job.previous : old.helper = Installed => ConfiguredHere
        /\ git.helper = Installed => ConfiguredHere
    BY DEF HelperInv, StoreShape, HelperOnlyIfConfigured, ConfiguredHere
  <1>2. StoreShape' /\ (ConfiguredHere => ConfiguredHere')
    <2>1. store' = store \/ Grows(store')
      BY <1>1, StoreGrows
    <2>2. CASE store' = store
      BY <1>1, <2>2 DEF StoreShape, ConfiguredHere
    <2>3. CASE Grows(store')
      BY <2>3 DEF Grows, StoreShape, ConfiguredHere
    <2> QED
      BY <2>1, <2>2, <2>3
  <1>3. /\ DOMAIN term' = DOMAIN NoCommand
        /\ term'.pc \in {"register", "helper"} => ConfiguredHere'
    BY <1>2, TerminalKeeps
  <1>4. /\ git = [name |-> git.name, email |-> git.email, helper |-> git.helper]
        /\ job = [kind |-> job.kind, step |-> job.step, author |-> job.author,
                  previous |-> job.previous]
        /\ job.step \in {"name", "email"} => job.kind = "author"
        /\ job.step \in {"reset", "add"} => job.kind = "helper"
    BY DEF JobInv
  <1>5. /\ job'.kind = "helper" => ConfiguredHere
        /\ \A old \in job'.previous : old.helper = Installed => ConfiguredHere
        /\ git'.helper = Installed => ConfiguredHere
    <2>0. NoJob.kind = "none" /\ NoJob.previous = {}
      BY DEF NoJob
    <2>1. CASE UNCHANGED gitVars
      BY <1>1, <2>1 DEF gitVars
    <2>2. ASSUME NEW persona, BeginAuthor(persona)
          PROVE  git' = git /\ job'.kind = "author" /\ job'.previous = {}
      BY <2>2 DEF BeginAuthor, NoJob
    <2>3. CASE term.pc = "helper" /\ BeginHelper
      <3>1. git' = git /\ job'.kind = "helper" /\ job'.previous = {}
        BY <2>3 DEF BeginHelper, NoJob
      <3> QED
        BY <1>1, <2>3, <3>1 DEF HelperInv
    <2>4. CASE ReadPrevious
      <3>1. /\ git' = git
            /\ \/ job' = NoJob
               \/ \E step : job' = [job EXCEPT !.previous = {git}, !.step = step]
        BY <2>4 DEF ReadPrevious
      <3>2. ASSUME NEW step, job' = [job EXCEPT !.previous = {git}, !.step = step]
            PROVE  job'.kind = job.kind /\ job'.previous = {git}
        BY <1>4, <3>2
      <3> QED
        BY <1>1, <2>0, <3>1, <3>2
    <2>5. CASE Write
      <3>1. /\ job.step \in {"name", "email", "reset", "add"}
            /\ git' = Effect(job.step)
            /\ job' = NoJob \/ \E step : job' = [job EXCEPT !.step = step]
        BY <2>5 DEF Write
      <3>2. (job'.kind = job.kind /\ job'.previous = job.previous) \/ job' = NoJob
        BY <1>4, <3>1
      <3>3. CASE job.step \in {"name", "email"}
        <4>1. \E value : git' = [git EXCEPT !.name = value] \/ git' = [git EXCEPT !.email = value]
          BY <3>1, <3>3 DEF Effect
        <4>2. git'.helper = git.helper
          BY <1>4, <4>1
        <4> QED
          BY <1>1, <2>0, <3>2, <4>2
      <3>4. CASE job.step \in {"reset", "add"}
        BY <1>1, <1>4, <3>4
      <3> QED
        BY <3>1, <3>3, <3>4
    <2>6. CASE WriteFails
      <3>1. /\ job' = NoJob
            /\ \/ job.step \in {"reset", "add"}
               \/ git'.helper = git.helper
        BY <2>6, WriteFailsGit
      <3> QED
        BY <1>1, <1>4, <2>0, <3>1
    <2> QED
      BY <1>1, <2>1, <2>2, <2>3, <2>4, <2>5, <2>6, GitSteps
  <1> QED
    BY <1>2, <1>3, <1>5 DEF HelperInv, StoreShape, HelperOnlyIfConfigured, ConfiguredHere

(***************************************************************************)
(* The gh proxy.                                                           *)
(***************************************************************************)
LEMMA ProxyKeeps ==
  ASSUME ProxyInv, [Next]_vars
  PROVE  ProxyInv'
  <1>1. proxied = [pc |-> proxied.pc, host |-> proxied.host, token |-> proxied.token]
    BY DEF ProxyInv
  <1>2. CASE UNCHANGED proxied
    BY <1>2 DEF ProxyInv, TokenFitsHost
  <1>3. CASE proxied' = NoCall
    BY <1>3 DEF ProxyInv, TokenFitsHost, NoCall
  <1>4. CASE ReadForGh
    <2>1. \E host : proxied' = [pc |-> "credential", host |-> {host}, token |-> {}]
      BY <1>4 DEF ReadForGh
    <2> QED
      BY <2>1 DEF ProxyInv, TokenFitsHost
  <1>5. CASE FetchCredential /\ proxied' # NoCall
    <2>1. PICK host : /\ AuthorizeGitCredential(host, [kind |-> "credential", fits |-> TRUE,
                                                       names |-> proxied.host, needs |-> {}])
                      /\ proxied' = [proxied EXCEPT !.pc = "run", !.token = {host}]
      BY <1>5 DEF FetchCredential
    <2>2. \A named \in proxied.host : Fold[named] = Fold[host]
      BY <2>1 DEF AuthorizeGitCredential, SameHost
    <2> DEFINE x == [proxied EXCEPT !.pc = "run"]
    <2>3. x = [pc |-> "run", host |-> proxied.host, token |-> proxied.token]
      BY <1>1
    <2>4. proxied' = [x EXCEPT !.token = {host}]
      BY <1>1, <2>1
    <2> HIDE DEF x
    <2>5. proxied' = [pc |-> "run", host |-> proxied.host, token |-> {host}]
      BY <2>3, <2>4
    <2> QED
      BY <2>2, <2>5 DEF ProxyInv, TokenFitsHost
  <1>6. CASE RunOriginalGh
    BY <1>3, <1>6 DEF RunOriginalGh
  <1>7. CASE TerminalStep \/ Elsewhere \/ UNCHANGED vars \/ UNCHANGED proxied
    BY <1>2, <1>7 DEF TerminalStep, Elsewhere, vars
  <1> QED
    BY <1>3, <1>4, <1>5, <1>6, <1>7 DEF Next, GhStep

(***************************************************************************)
(* The terminal UI: a command that is awaited is on its way.               *)
(***************************************************************************)
LEMMA BagAdds ==
  ASSUME NEW B, IsABag(B), NEW c
  PROVE  /\ IsABag(B (+) SetToBag({c}))
         /\ BagToSet(B (+) SetToBag({c})) = BagToSet(B) \cup {c}
  BY DEF IsABag, BagToSet, SetToBag, (+)

(* Taking one command out of a bag leaves the others.                      *)
LEMMA BagLoses ==
  ASSUME NEW B, IsABag(B), NEW c \in BagToSet(B)
  PROVE  /\ IsABag(B (-) SetToBag({c}))
         /\ BagToSet(B) \ {c} \subseteq BagToSet(B (-) SetToBag({c}))
         /\ BagToSet(B (-) SetToBag({c})) \subseteq BagToSet(B)
  BY DEF IsABag, BagToSet, SetToBag, (-)

(* The flags of the model, which forms and confirmations leave alone.      *)
FlagsKept ==
  /\ DOMAIN view' = DOMAIN view
  /\ view'.loading = view.loading /\ view'.saving = view.saving /\ view'.crashed = view.crashed

(* Moving about in lists, forms and confirmations.                         *)
LEMMA FormSteps ==
  ASSUME CommandsInv,
         \/ \E to \in {"personas", "projects", "processes"} :
              InList /\ to = "processes" /\ Become([view EXCEPT !.workspace = to])
         \/ \E id \in ProjectIds : OpenProjectEditor(id)
         \/ \E id \in PersonaIds : OpenPersonaEditor(id)
         \/ AbortForm \/ Nudge
         \/ \E persona \in PersonaIds, mode \in Modes : CompleteProjectForm(persona, mode)
         \/ \E entered \in {{}} \cup {{host} : host \in Hosts} : CompletePersonaForm(entered)
         \/ ToggleApprove \/ CancelModal
  PROVE  FlagsKept /\ UNCHANGED commands
  <1>1. {"loading", "saving", "crashed"} \subseteq DOMAIN view
    BY DEF CommandsInv
  <1>2. ASSUME NEW to, Become([view EXCEPT !.workspace = to])
        PROVE  FlagsKept /\ UNCHANGED commands
    BY <1>1, <1>2 DEF Become, FlagsKept
  <1>3. ASSUME NEW editor, Become([view EXCEPT !.editor = editor])
        PROVE  FlagsKept /\ UNCHANGED commands
    BY <1>1, <1>3 DEF Become, FlagsKept
  <1>4. ASSUME NEW editor, NEW modal, Become([view EXCEPT !.editor = editor, !.modal = modal])
        PROVE  FlagsKept /\ UNCHANGED commands
    BY <1>1, <1>4 DEF Become, FlagsKept
  <1>5. ASSUME NEW editor, Completed(editor)
        PROVE  FlagsKept /\ UNCHANGED commands
    BY <1>3, <1>4, <1>5 DEF Completed
  <1>6. CASE ToggleApprove
    BY <1>1, <1>6 DEF ToggleApprove, Become, FlagsKept
  <1>7. CASE CancelModal
    BY <1>1, <1>7 DEF CancelModal, Become, FlagsKept
  <1>8. ASSUME NEW id, OpenProjectEditor(id) \/ OpenPersonaEditor(id)
        PROVE  FlagsKept /\ UNCHANGED commands
    BY <1>3, <1>8 DEF OpenProjectEditor, OpenPersonaEditor
  <1>9. CASE AbortForm
    BY <1>3, <1>9 DEF AbortForm
  <1>10. CASE Nudge
    BY <1>5, <1>10 DEF Nudge
  <1>11. ASSUME NEW persona, NEW mode, CompleteProjectForm(persona, mode)
         PROVE  FlagsKept /\ UNCHANGED commands
    <2>1. \E editor : Completed(editor)
      BY <1>11 DEF CompleteProjectForm
    <2> QED
      BY <1>5, <2>1
  <1>12. ASSUME NEW entered, CompletePersonaForm(entered)
         PROVE  FlagsKept /\ UNCHANGED commands
    <2>1. \E editor : Completed(editor)
      BY <1>12 DEF CompletePersonaForm
    <2> QED
      BY <1>5, <2>1
  <1> QED
    BY <1>2, <1>6, <1>7, <1>8, <1>9, <1>10, <1>11, <1>12

(* Every step keeps a command in flight for every flag that waits for one. *)
LEMMA CommandsKeep ==
  ASSUME CommandsInv, [Next]_vars
  PROVE  CommandsInv'
  <1>1. /\ {"loading", "saving", "crashed"} \subseteq DOMAIN view
        /\ IsABag(commands)
        /\ \A c \in BagToSet(commands) : "kind" \in DOMAIN c
        /\ Unstuck
    BY DEF CommandsInv
  <1>2. CASE FlagsKept /\ UNCHANGED commands
    BY <1>1, <1>2 DEF FlagsKept, CommandsInv, Unstuck, InFlight
  <1>3. CASE UNCHANGED tuiVars
    BY <1>1, <1>3 DEF tuiVars, CommandsInv, Unstuck, InFlight
  <1>4. ASSUME NEW v, NEW command, BecomeAnd(v, command),
               "kind" \in DOMAIN command, command.kind \in {"load", "save"},
               DOMAIN v = DOMAIN view,
               v.crashed = view.crashed,
               command.kind = "save" \/ v.saving = view.saving
        PROVE  CommandsInv'
    <2>1. view' = v /\ commands' = commands (+) SetToBag({command})
      BY <1>4 DEF BecomeAnd, Send
    <2>2. IsABag(commands') /\ BagToSet(commands') = BagToSet(commands) \cup {command}
      BY <1>1, <2>1, BagAdds
    <2>3. InFlight("load")' \/ InFlight("save")'
      BY <1>4, <2>2 DEF InFlight
    <2>4. InFlight("save") => InFlight("save")'
      BY <2>2 DEF InFlight
    <2>5. command.kind = "save" => InFlight("save")'
      BY <2>2 DEF InFlight
    <2>6. Unstuck'
      BY <1>1, <1>4, <2>1, <2>3, <2>4, <2>5 DEF Unstuck
    <2> QED
      BY <1>1, <1>4, <2>1, <2>2, <2>6 DEF CommandsInv
  <1>5. Load.kind = "load" /\ "kind" \in DOMAIN Load
    BY DEF Load
  <1>6. ASSUME NEW to, SwitchWorkspace(to), to # "processes"
        PROVE  CommandsInv'
    <2> DEFINE v == [view EXCEPT !.workspace = to, !.loading = TRUE]
    <2>1. BecomeAnd(v, Load)
      BY <1>6 DEF SwitchWorkspace
    <2>2. DOMAIN v = DOMAIN view /\ v.crashed = view.crashed /\ v.saving = view.saving
      BY <1>1
    <2> HIDE DEF v
    <2> QED
      BY <1>4, <1>5, <2>1, <2>2
  <1>7. CASE Reload
    <2> DEFINE v == [view EXCEPT !.loading = TRUE]
    <2>1. BecomeAnd(v, Load)
      BY <1>7 DEF Reload
    <2>2. DOMAIN v = DOMAIN view /\ v.crashed = view.crashed /\ v.saving = view.saving
      BY <1>1
    <2> HIDE DEF v
    <2> QED
      BY <1>4, <1>5, <2>1, <2>2
  <1>8. CASE Confirm
    <2> DEFINE v == [view EXCEPT !.modal = NoModal, !.loading = TRUE, !.saving = TRUE]
               w == [v EXCEPT !.crashed = TRUE]
    <2>1. DOMAIN v = DOMAIN view /\ v.crashed = view.crashed
      BY <1>1
    <2>2. Become(w) \/ BecomeAnd(v, Save(view.editor))
      BY <1>8 DEF Confirm
    <2> HIDE DEF v
    <2>3. DOMAIN w = DOMAIN view /\ w.crashed
      BY <1>1, <2>1
    <2> HIDE DEF w
    <2>4. CASE Become(w)
      BY <1>1, <2>3, <2>4 DEF Become, CommandsInv, Unstuck
    <2>5. CASE BecomeAnd(v, Save(view.editor))
      <3>1. Save(view.editor).kind = "save" /\ "kind" \in DOMAIN Save(view.editor)
        BY DEF Save, Load
      <3> QED
        BY <1>4, <2>1, <2>5, <3>1
    <2> QED
      BY <2>2, <2>4, <2>5
  <1>9. ASSUME NEW c \in BagToSet(commands), NEW next, UNCHANGED view, Advance(c, next),
               "kind" \in DOMAIN next, next.kind = c.kind
        PROVE  CommandsInv'
    <2> DEFINE B == commands (-) SetToBag({c})
    <2>1. IsABag(B) /\ BagToSet(commands) \ {c} \subseteq BagToSet(B)
          /\ BagToSet(B) \subseteq BagToSet(commands)
      BY <1>1, BagLoses
    <2>2. commands' = B (+) SetToBag({next})
      BY <1>9 DEF Advance
    <2> HIDE DEF B
    <2>3. IsABag(commands') /\ BagToSet(commands') = BagToSet(B) \cup {next}
      BY <2>1, <2>2, BagAdds
    <2>4. \A kind : InFlight(kind) => InFlight(kind)'
      BY <1>9, <2>1, <2>3 DEF InFlight
    <2> QED
      BY <1>1, <1>9, <2>1, <2>3, <2>4 DEF CommandsInv, Unstuck
  <1>10. ASSUME NEW c \in BagToSet(commands), ServeSave(c) \/ ReadSnapshot(c) \/ CommandFails(c)
         PROVE  CommandsInv'
    <2>1. UNCHANGED view
      BY <1>10 DEF ServeSave, ReadSnapshot, CommandFails
    <2>2. \/ Advance(c, [c EXCEPT !.phase = "applied"])
          \/ Advance(c, [c EXCEPT !.phase = "failed"])
          \/ Advance(c, [c EXCEPT !.phase = "answered", !.list = {store}])
      BY <1>10 DEF ServeSave, ReadSnapshot, CommandFails
    <2>3. ASSUME NEW phase, NEW list
          PROVE  LET x == [c EXCEPT !.phase = phase]
                     y == [c EXCEPT !.phase = phase, !.list = list] IN
                 /\ "kind" \in DOMAIN x /\ x.kind = c.kind
                 /\ "kind" \in DOMAIN y /\ y.kind = c.kind
      BY <1>1
    <2> QED
      BY <1>9, <2>1, <2>2, <2>3
  <1>11. ASSUME NEW c \in BagToSet(commands), NEW v, NEW kind, Receive(c, kind, v),
                DOMAIN v = DOMAIN view, v.crashed = view.crashed, ~v.loading,
                ~v.saving \/ (kind = "load" /\ v.saving = view.saving)
         PROVE  CommandsInv'
    <2>1. c.kind = kind /\ commands' = commands (-) SetToBag({c}) /\ view' = v
      BY <1>11 DEF Receive, Done
    <2>2. IsABag(commands') /\ BagToSet(commands) \ {c} \subseteq BagToSet(commands')
          /\ BagToSet(commands') \subseteq BagToSet(commands)
      BY <1>1, <2>1, BagLoses
    <2>3. kind = "load" /\ InFlight("save") => InFlight("save")'
      BY <2>1, <2>2 DEF InFlight
    <2> QED
      BY <1>1, <1>11, <2>1, <2>2, <2>3 DEF CommandsInv, Unstuck
  <1>12. ASSUME NEW c \in BagToSet(commands), Loaded(c)
         PROVE  CommandsInv'
    <2> DEFINE state == IF c.phase = "failed" THEN NewState ELSE CHOOSE x \in c.list : TRUE
               v == [view EXCEPT !.loading = FALSE, !.failed = c.phase = "failed", !.list = state]
    <2>1. Receive(c, "load", v)
      BY <1>12 DEF Loaded
    <2> HIDE DEF state
    <2>2. DOMAIN v = DOMAIN view /\ v.crashed = view.crashed /\ v.saving = view.saving
      BY <1>1
    <2>3. ~v.loading
      BY <1>1
    <2> HIDE DEF v
    <2> QED
      BY <1>11, <2>1, <2>2, <2>3
  <1>13. ASSUME NEW c \in BagToSet(commands), SaveAnswered(c)
         PROVE  CommandsInv'
    <2>1. ASSUME NEW state
          PROVE  LET v == SaveFailed(view)
                     w == SaveSucceeded(view, state) IN
                 /\ DOMAIN v = DOMAIN view /\ v.crashed = view.crashed /\ ~v.loading /\ ~v.saving
                 /\ DOMAIN w = DOMAIN view /\ w.crashed = view.crashed /\ ~w.loading /\ ~w.saving
      BY <1>1 DEF SaveFailed, SaveSucceeded
    <2>2. \/ Receive(c, "save", SaveFailed(view))
          \/ \E state : Receive(c, "save", SaveSucceeded(view, state))
      BY <1>13 DEF SaveAnswered
    <2> QED
      BY <1>11, <2>1, <2>2
  <1>14. CASE TuiStep
    <2>1. CASE \E to \in {"personas", "projects", "processes"} : SwitchWorkspace(to)
      BY <1>2, <1>6, <2>1, FormSteps DEF SwitchWorkspace
    <2>2. CASE \E c \in BagToSet(commands) :
                 ServeSave(c) \/ ReadSnapshot(c) \/ CommandFails(c) \/ Loaded(c) \/ SaveAnswered(c)
      BY <1>10, <1>12, <1>13, <2>2
    <2> QED
      BY <1>2, <1>7, <1>8, <1>14, <2>1, <2>2, FormSteps DEF TuiStep
  <1> QED
    BY <1>3, <1>14 DEF Next, TerminalStep, GhStep, Elsewhere, vars, tuiVars

(***************************************************************************)
(* The theorems.                                                           *)
(***************************************************************************)
LEMMA InitClients ==
  Init => /\ JobInv /\ ProxyInv /\ CommandsInv
          /\ HelperOnlyIfConfigured => HelperInv
  <1> SUFFICES ASSUME Init
               PROVE  /\ JobInv /\ ProxyInv /\ CommandsInv
                      /\ HelperOnlyIfConfigured => HelperInv
    OBVIOUS
  <1>1. JobInv
    <2>1. git \in [name : Authors \cup {NoAuthor}, email : Authors \cup {NoAuthor},
                   helper : Seq(STRING)]
          /\ job = NoJob
      BY GitAssumption DEF Init, GitInit
    <2>2. git = [name |-> git.name, email |-> git.email, helper |-> git.helper]
      BY <2>1
    <2> QED
      BY <2>1, <2>2 DEF JobInv, NoJob
  <1>2. ProxyInv
    BY DEF Init, ProxyInv, TokenFitsHost, NoCall
  <1>3. CommandsInv
    <2>1. /\ {"loading", "saving", "crashed"} \subseteq DOMAIN view /\ ~view.saving
          /\ commands = SetToBag({Load})
      BY DEF Init, TuiInit
    <2>2. IsABag(commands) /\ BagToSet(commands) = {Load}
      BY <2>1 DEF IsABag, SetToBag, BagToSet
    <2>3. Load.kind = "load" /\ "kind" \in DOMAIN Load
      BY DEF Load
    <2> QED
      BY <2>1, <2>2, <2>3 DEF CommandsInv, Unstuck, InFlight
  <1>4. ASSUME HelperOnlyIfConfigured PROVE HelperInv
    <2>1. store = [gh |-> store.gh, personas |-> store.personas, projects |-> store.projects]
      BY ClientsAssumption DEF Init, StateOK
    <2>2. /\ term = NoCommand /\ NoCommand.pc = "idle"
          /\ job.kind = "none" /\ job.previous = {}
      BY DEF Init, GitInit, NoCommand, NoJob
    <2> QED
      BY <1>4, <2>1, <2>2 DEF HelperInv
  <1> QED
    BY <1>1, <1>2, <1>3, <1>4

(* The repository's invariant holds.                                       *)
LEMMA JobAlways == Spec => []JobInv
  <1>1. Init => JobInv
    BY InitClients
  <1>2. JobInv /\ [Next]_vars => JobInv'
    BY JobKeeps
  <1> QED
    BY <1>1, <1>2, PTL DEF Spec

(* A change of the author or of the helper is made in full or leaves the   *)
(* configuration as it was read, when a git command that is reported as    *)
(* failed has had no effect (ApplyGitAuthor, ApplyGitCredentialHelper).    *)
THEOREM GitChangesAreAtomic ==
  ASSUME GitFaults = {}
  PROVE  Spec => AllOrNothing
  <1>1. JobInv /\ [Next]_vars =>
          [job.kind # "none" /\ job.step # "read" /\ job'.kind = "none" =>
             \/ git' \in job.previous
             \/ job.kind = "author" /\ git'.name = job.author /\ git'.email = job.author
             \/ job.kind = "helper" /\ git'.helper = Installed]_gitVars
    BY MadeOrUndone
  <1>2. Spec => [][job.kind # "none" /\ job.step # "read" /\ job'.kind = "none" =>
                     \/ git' \in job.previous
                     \/ job.kind = "author" /\ git'.name = job.author /\ git'.email = job.author
                     \/ job.kind = "helper" /\ git'.helper = Installed]_gitVars
    BY <1>1, JobAlways, PTL DEF Spec
  <1> QED
    BY <1>2, PTL DEF AllOrNothing

(* In a repository where Git is not already sent to Dovik, it never is     *)
(* without the configuration it needs, whatever fails, is refused or is    *)
(* written by others while the questionnaire runs.                         *)
THEOREM HelperNeedsConfiguration ==
  Spec /\ HelperOnlyIfConfigured => []HelperOnlyIfConfigured
  <1>1. Init /\ HelperOnlyIfConfigured => HelperInv
    BY InitClients
  <1>2. HelperInv /\ JobInv /\ [Next]_vars => HelperInv'
    BY HelperKeeps
  <1>3. HelperInv => HelperOnlyIfConfigured
    BY DEF HelperInv
  <1> QED
    BY <1>1, <1>2, <1>3, JobAlways, PTL DEF Spec

(* The original gh is never sent to one host with the token of another,    *)
(* although the configuration may change between the read and the token.   *)
THEOREM TokensFitHosts == Spec => []TokenFitsHost
  <1>1. Init => ProxyInv
    BY InitClients
  <1>2. ProxyInv /\ [Next]_vars => ProxyInv'
    BY ProxyKeeps
  <1>3. ProxyInv => TokenFitsHost
    BY DEF ProxyInv
  <1> QED
    BY <1>1, <1>2, <1>3, PTL DEF Spec

(* "loading" and "saving..." are shown only while a command that ends them *)
(* is on its way, for any number of overlapping loads and saves.           *)
THEOREM NothingStaysStuck == Spec => []Unstuck
  <1>1. Init => CommandsInv
    BY InitClients
  <1>2. CommandsInv /\ [Next]_vars => CommandsInv'
    BY CommandsKeep
  <1>3. CommandsInv => Unstuck
    BY DEF CommandsInv
  <1> QED
    BY <1>1, <1>2, <1>3, PTL DEF Spec
=============================================================================
