----------------------------- MODULE GitConfig ------------------------------
(***************************************************************************)
(* The repository's local Git configuration as Dovik changes it: the author*)
(* (ApplyGitAuthor) and the credential helper (ApplyGitCredentialHelper).  *)
(* Both are several git commands; when one fails the values read before    *)
(* are put back.  The restoring commands have a context of their own and   *)
(* are one step.  One command of Dovik at a time works on a repository.    *)
(*                                                                         *)
(* An author's name and e-mail address are named after the persona.        *)
(* A Bug_ operator is a faulty variant of the definition that follows it.  *)
(***************************************************************************)
EXTENDS Naturals, Sequences

CONSTANTS
  Authors,      \* the personas
  NoAuthor,     \* the key is not set
  Repositories, \* the configurations there may be at first
  MaxFailures,  \* bound on the git commands that fail
  GitFaults     \* "killed": a command fails after it had its effect

ASSUME GitAssumption ==
  /\ NoAuthor \notin Authors
  /\ Repositories \subseteq [name : Authors \cup {NoAuthor}, email : Authors \cup {NoAuthor},
                            helper : Seq(STRING)]
  /\ MaxFailures \in Nat
  /\ GitFaults \subseteq {"killed"}

VARIABLES
  git,      \* the local configuration
  job,      \* the change under way
  failures  \* the git commands that have failed

gitVars == <<git, job, failures>>

(* The empty entry clears inherited helpers.                               *)
Installed == <<"", "!gh auth git-credential">>

NoJob == [kind |-> "none", step |-> "none", author |-> NoAuthor, previous |-> {}]

GitInit ==
  /\ git \in Repositories
  /\ job = NoJob
  /\ failures = 0

BeginAuthor(persona) ==
  /\ job = NoJob
  /\ job' = [NoJob EXCEPT !.kind = "author", !.step = "read", !.author = persona]
  /\ UNCHANGED <<git, failures>>

BeginHelper ==
  /\ job = NoJob
  /\ job' = [NoJob EXCEPT !.kind = "helper", !.step = "read"]
  /\ UNCHANGED <<git, failures>>

(* git config --get, for both keys, and --get-all.  Reading may fail.      *)
ReadPrevious ==
  /\ job.step = "read"
  /\ \/ /\ job' = [job EXCEPT !.previous = {git},
                              !.step = IF job.kind = "author" THEN "name" ELSE "reset"]
        /\ UNCHANGED failures
     \/ /\ failures < MaxFailures
        /\ failures' = failures + 1
        /\ job' = NoJob
  /\ UNCHANGED git

(* The writing commands: what each makes of the configuration, and the step*)
(* after it.                                                               *)
Effect(step) ==
  CASE step = "name"  -> [git EXCEPT !.name = job.author]
    [] step = "email" -> [git EXCEPT !.email = job.author]
    [] step = "reset" -> [git EXCEPT !.helper = <<"">>]
    [] step = "add"   -> [git EXCEPT !.helper = Append(@, "!gh auth git-credential")]

After(step) ==
  CASE step = "name"  -> "email"
    [] step = "reset" -> "add"
    [] OTHER          -> "done"

Bug_RestoreFailed(step, now) ==
  {[now EXCEPT !.name = IF step = "name" THEN old.name ELSE @,
               !.email = IF step = "email" THEN old.email ELSE @,
               !.helper = IF step = "add" THEN old.helper ELSE @] : old \in job.previous}

(* Both author keys, or all helpers, as they were read; a reset that is    *)
(* reported as failed is taken to have changed nothing.                    *)
Restored(step, now) ==
  IF step = "reset" THEN {now}
  ELSE {[now EXCEPT !.name = IF job.kind = "author" THEN old.name ELSE @,
                    !.email = IF job.kind = "author" THEN old.email ELSE @,
                    !.helper = IF job.kind = "helper" THEN old.helper ELSE @] :
          old \in job.previous}

Write ==
  /\ job.step \in {"name", "email", "reset", "add"}
  /\ git' = Effect(job.step)
  /\ job' = IF After(job.step) = "done" THEN NoJob ELSE [job EXCEPT !.step = After(@)]
  /\ UNCHANGED failures

WriteFails ==
  /\ job.step \in {"name", "email", "reset", "add"}
  /\ failures < MaxFailures
  /\ failures' = failures + 1
  /\ \E now \in {git} \cup IF "killed" \in GitFaults THEN {Effect(job.step)} ELSE {} :
       git' \in Restored(job.step, now)
  /\ job' = NoJob

GitStep == ReadPrevious \/ Write \/ WriteFails

(* A change of the author or of the credential helper that ends, by itself *)
(* or because a git command failed, has either been made in full or left   *)
(* the configuration as it found it (ApplyGitAuthor restores both keys,    *)
(* ApplyGitCredentialHelper all values in their order).                    *)
AllOrNothing ==
  [][job.kind # "none" /\ job.step # "read" /\ job'.kind = "none" =>
       \/ git' \in job.previous
       \/ job.kind = "author" /\ git'.name = job.author /\ git'.email = job.author
       \/ job.kind = "helper" /\ git'.helper = Installed]_gitVars

(* The inductive strengthening of AllOrNothing: what was read before the   *)
(* first write is the configuration as it is, but for what was written.    *)
JobInv ==
  /\ git = [name |-> git.name, email |-> git.email, helper |-> git.helper]
  /\ job = [kind |-> job.kind, step |-> job.step, author |-> job.author,
            previous |-> job.previous]
  /\ job.step \in {"none", "read", "name", "email", "reset", "add"}
  /\ job.kind \in {"none", "author", "helper"}
  /\ job.step \in {"name", "email"} => job.kind = "author"
  /\ job.step \in {"reset", "add"} => job.kind = "helper"
  /\ job.step = "none" <=> job.kind = "none"
  /\ job.step \in {"name", "reset"} => job.previous = {git}
  /\ job.step = "email" =>
       /\ git.name = job.author
       /\ \E old \in job.previous :
            job.previous = {old} /\ old = [git EXCEPT !.name = old.name]
  /\ job.step = "add" =>
       /\ git.helper = <<"">>
       /\ \E old \in job.previous :
            job.previous = {old} /\ old = [git EXCEPT !.helper = old.helper]
=============================================================================
