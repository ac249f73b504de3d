----------------------------- MODULE Provisioning -----------------------------
(***************************************************************************)
(* What `agx init` does on GitHub: it creates the control and the contract *)
(* repository (internal/repository) and one Project linked to the control  *)
(* repository (internal/project), and keeps the initialization receipt up  *)
(* to date while it does (internal/activation).                            *)
(*                                                                         *)
(* The steps here are those of one running command.  Each command of gh is *)
(* one step: it succeeds, or it reports an error with or without an effect *)
(* on GitHub.  Initialization composes them with the plugins.              *)
(***************************************************************************)
EXTENDS Integers, FiniteSets, Sequences

CONSTANTS
  Public,      \* whether the deployment is public; gh makes Projects private
  Providers,   \* the providers asked for, in the order of normalizeProviders
  Plugins,     \* the plugins of the profile
  MaxFaults    \* bound on commands, readings and writes that fail

ASSUME ProvisioningAssumption ==
  /\ Public \in BOOLEAN /\ MaxFaults \in Nat
  /\ Providers \in Seq(STRING) /\ Providers # <<>>
  /\ \A i, j \in DOMAIN Providers : Providers[i] = Providers[j] => i = j

VARIABLES
  repo,        \* the repositories on GitHub under the two names
  projects,    \* the Projects on GitHub with the title of this installation
  file,        \* initialization.json
  mem,         \* the receipt the running command works on
  cmd,         \* where the running command is
  faults

Repos   == {"control", "contracts"}
Commits == 1..2
Ids     == 1..3
Phases  == {"provisioning", "needs_resume", "initialized", "needs_manual_cleanup"}

\* A repository AGX did not make, or has made without its commit, has commit 0.
Repo    == [there : BOOLEAN, commit : Commits \cup {0}, issues : BOOLEAN]
NoRepo  == [there |-> FALSE, commit |-> 0, issues |-> FALSE]
Project == [there : BOOLEAN, right : BOOLEAN, linked : BOOLEAN]
GoneProject == [there |-> FALSE, right |-> FALSE, linked |-> FALSE]

\* sure: verification is readback_verified, else it is uncertain.
\* right: the visibility is the one asked for.  0 for what is not recorded.
RepoEntry    == [commit : Commits \cup {0}, sure : BOOLEAN]
NoEntry      == [commit |-> 0, sure |-> FALSE]
ProjectEntry == [id : Ids \cup {0}, right : BOOLEAN, linked : BOOLEAN]
NoProject    == [id |-> 0, right |-> FALSE, linked |-> FALSE]
Ownership    == [market : BOOLEAN, added : SUBSET Plugins]

Receipt == [phase : Phases \cup {"absent"}, repos : [Repos -> RepoEntry],
            project : ProjectEntry,
            providers : UNION {[1..n -> Ownership] : n \in 0..Len(Providers)}]
NoReceipt == [phase |-> "absent", repos |-> [r \in Repos |-> NoEntry],
              project |-> NoProject, providers |-> <<>>]

\* evidenceBindingsMatchReceipt: the receipt names all providers or none.
BindingMatches(receipt) == Len(receipt.providers) \in {0, Len(Providers)}
\* validateReceipt, when it is read and before it is written.
Valid(receipt) ==
  /\ BindingMatches(receipt)
  /\ receipt.phase = "initialized" => \A r \in Repos : receipt.repos[r] # NoEntry
  /\ receipt.providers = <<>> => receipt.phase \in {"provisioning", "needs_resume"}

-----------------------------------------------------------------------------
At(pc)   == cmd.pc = pc
Goto(pc) == cmd' = [cmd EXCEPT !.pc = pc]
Fault    == faults < MaxFaults /\ faults' = faults + 1
Fine     == UNCHANGED faults

\* err: an error is pending.  next: where to go on after the journal.  at, left,
\* retained: see Initialization.
Idle == [pc |-> "idle", err |-> FALSE, next |-> "idle", commit |-> 0, at |-> 0,
         left |-> {}, retained |-> FALSE]
Exit == cmd' = Idle /\ mem' = NoReceipt

GitHubQuiet == UNCHANGED <<repo, projects>>

\* A reading that fails, or one that finds problem.
FailsOr(problem) == Fault \/ (problem /\ Fine)

Fail ==
  /\ mem' = [mem EXCEPT !.phase = "needs_resume"]
  /\ Goto("save_failure")

\* The recovery receipt of a command that has failed.
SaveFailure ==
  /\ At("save_failure") /\ GitHubQuiet
  /\ \/ Valid(mem) /\ file' = mem /\ Fine
     \/ FailsOr(~Valid(mem)) /\ UNCHANGED file
  /\ Exit

-----------------------------------------------------------------------------
(* prepareDeployment, up to the providers.  It writes nothing.             *)

\* queryRepository: NOT_FOUND alone says that there is none.
There(r) == repo[r].there
\* verifyTemplateReadback: the required paths go with the issues.
Template(r) == repo[r].issues
RepoVerifies(r, entry) == There(r) /\ Template(r) /\ repo[r].commit = entry.commit

\* Mistaken: an uncertain repository that is not there is drift too.
VerifyStrictly ==
  LET recorded == {r \in Repos : mem.repos[r] # NoEntry} IN
  /\ At("verify") /\ GitHubQuiet /\ UNCHANGED file
  /\ \/ /\ \A r \in recorded : RepoVerifies(r, mem.repos[r])
        /\ Goto("preflight") /\ Fine /\ UNCHANGED mem
     \/ /\ FailsOr(\E r \in recorded : ~RepoVerifies(r, mem.repos[r]))
        /\ Exit

\* The uncertain repositories that are not there are left out of the memory.
VerifyRepositories ==
  LET recorded == {r \in Repos : mem.repos[r] # NoEntry}
      retry    == {r \in recorded : ~mem.repos[r].sure /\ ~There(r)} IN
  /\ At("verify") /\ GitHubQuiet /\ UNCHANGED file
  /\ \/ /\ \A r \in recorded \ retry : RepoVerifies(r, mem.repos[r])
        /\ mem' = [mem EXCEPT !.repos = [r \in Repos |->
                     IF r \in retry THEN NoEntry ELSE mem.repos[r]]]
        /\ Goto("preflight") /\ Fine
     \/ /\ FailsOr(\E r \in recorded \ retry : ~RepoVerifies(r, mem.repos[r]))
        /\ Exit

Missing == {r \in Repos : mem.repos[r] = NoEntry}

PreflightRepositories ==
  /\ At("preflight") /\ GitHubQuiet /\ UNCHANGED file
  /\ \/ /\ \A r \in Missing : ~There(r)
        /\ Goto("check_project") /\ Fine /\ UNCHANGED mem
     \/ FailsOr(\E r \in Missing : There(r)) /\ Exit

OnGitHub == {i \in Ids : projects[i].there}
Link(entry) == entry.linked /\ There("control") /\ Template("control")

\* Revalidate: the recorded Project is there with the recorded visibility.
ProjectRevalidates(entry) ==
  entry.id \in OnGitHub /\ projects[entry.id].right = entry.right
ProjectVerifies(entry) ==
  ProjectRevalidates(entry) /\ Link(projects[entry.id])

CheckProject ==
  LET fits == \/ mem.project = NoProject /\ OnGitHub = {}
              \/ mem.project.linked /\ ProjectVerifies(mem.project)
              \/ /\ mem.project # NoProject /\ ~mem.project.linked
                 /\ ProjectRevalidates(mem.project) IN
  /\ At("check_project") /\ GitHubQuiet /\ UNCHANGED file
  /\ \/ fits /\ Goto("check_providers") /\ Fine /\ UNCHANGED mem
     \/ FailsOr(~fits) /\ Exit

-----------------------------------------------------------------------------
(* repository.Create, for the first repository that is not recorded.       *)

Current == IF "control" \in Missing THEN "control" ELSE "contracts"

\* Preflight once more, just before the mutation.
NextRepository ==
  /\ At("repositories") /\ GitHubQuiet /\ UNCHANGED file
  /\ \/ Missing = {} /\ Goto("project") /\ Fine /\ UNCHANGED mem
     \/ /\ Missing # {} /\ ~There(Current)
        /\ Goto("create") /\ Fine /\ UNCHANGED mem
     \/ Missing # {} /\ FailsOr(There(Current)) /\ Fail

\* The local commit of this attempt: its hash is new.
NewCommit == CHOOSE c \in Commits : c # file.repos[Current].commit

\* gh repo create --push: it may fail with the repository made and the commit
\* not pushed.
CreateRepository ==
  /\ At("create") /\ UNCHANGED <<projects, file, mem>>
  /\ \/ /\ ~There(Current) /\ Fine
        /\ \E issues \in BOOLEAN : repo' = [repo EXCEPT ![Current] =
             [there |-> TRUE, commit |-> NewCommit, issues |-> issues]]
        /\ cmd' = [cmd EXCEPT !.pc = "enable", !.commit = NewCommit]
     \/ /\ IF There(Current) THEN Fine /\ UNCHANGED repo
           ELSE /\ Fault
                /\ \/ UNCHANGED repo
                   \/ \E c \in {0, NewCommit} : repo' = [repo EXCEPT ![Current] =
                        [there |-> TRUE, commit |-> c, issues |-> TRUE]]
        /\ cmd' = [cmd EXCEPT !.pc = "readback", !.commit = NewCommit, !.err = TRUE]

Record(sure) ==
  [mem EXCEPT !.repos[Current] = [commit |-> cmd.commit, sure |-> sure]]
\* recoveryReceipt: a mutation was attempted, its outcome is not established.
Uncertain ==
  /\ mem' = [Record(FALSE) EXCEPT !.phase = "needs_resume"]
  /\ Goto("save_failure")

\* After an error of gh repo create.
ReadBack ==
  /\ At("readback") /\ GitHubQuiet /\ UNCHANGED file
  /\ \/ /\ FailsOr(There(Current) /\ repo[Current].commit # cmd.commit)
        /\ Uncertain
     \/ ~There(Current) /\ Fine /\ Fail
     \/ /\ There(Current) /\ repo[Current].commit = cmd.commit /\ Fine
        /\ Goto("enable") /\ UNCHANGED mem

\* gh repo edit --enable-issues.
EnableIssues ==
  /\ At("enable") /\ UNCHANGED <<projects, file, mem>>
  /\ \/ /\ There(Current) /\ repo' = [repo EXCEPT ![Current].issues = TRUE]
        /\ Fine /\ Goto("inspect")
     \/ /\ IF There(Current)
             THEN Fault /\ (UNCHANGED repo \/ repo' = [repo EXCEPT ![Current].issues = TRUE])
             ELSE Fine /\ UNCHANGED repo
        /\ cmd' = [cmd EXCEPT !.pc = "inspect", !.err = TRUE]

\* The final readback, after the last mutation, and that of the template.
InspectRepository ==
  LET whole == RepoVerifies(Current, [commit |-> cmd.commit]) IN
  /\ At("inspect") /\ GitHubQuiet /\ UNCHANGED file
  /\ \/ FailsOr(There(Current) /\ ~whole) /\ Uncertain
     \/ ~There(Current) /\ Fine /\ Fail
     \/ /\ whole /\ FailsOr(cmd.err)
        /\ mem' = [Record(TRUE) EXCEPT !.phase = "needs_resume"]
        /\ Goto("save_failure")
     \/ /\ whole /\ ~cmd.err /\ Fine
        /\ mem' = Record(TRUE) /\ Goto("save_repository")

SaveRepository ==
  /\ At("save_repository") /\ GitHubQuiet
  /\ \/ Valid(mem) /\ file' = mem /\ Fine /\ Goto("repositories") /\ UNCHANGED mem
     \/ Fault /\ UNCHANGED file /\ Exit

-----------------------------------------------------------------------------
(* project.Provision.                                                      *)

StartProject ==
  LET fits == IF mem.project = NoProject THEN OnGitHub = {}
              ELSE ProjectRevalidates(mem.project) IN
  /\ At("project") /\ GitHubQuiet /\ UNCHANGED file
  /\ \/ /\ fits /\ Fine /\ UNCHANGED mem
        /\ Goto(IF mem.project = NoProject THEN "create_project" ELSE "edit")
     \/ FailsOr(~fits) /\ Fail

NewId == CHOOSE i \in Ids : i \notin OnGitHub \cup {file.project.id}
NewProject == [projects EXCEPT ![NewId] =
                 [there |-> TRUE, right |-> ~Public, linked |-> FALSE]]
Found(i) == [id |-> i, right |-> projects[i].right, linked |-> FALSE]
\* journal, then go on at next or fail.
Journal(next, err) == cmd' = [cmd EXCEPT !.pc = "journal", !.next = next, !.err = err]

CreateProject ==
  /\ At("create_project") /\ UNCHANGED <<repo, file>>
  /\ \/ /\ projects' = NewProject /\ Fine
        /\ mem' = [mem EXCEPT !.project = [id |-> NewId, right |-> ~Public, linked |-> FALSE]]
        /\ Journal("confirm", FALSE)
     \/ /\ Fault /\ (UNCHANGED projects \/ projects' = NewProject)
        /\ Goto("find_project") /\ UNCHANGED mem

\* recoverCreate: the Project is recorded, and the command fails all the same.
FindProject ==
  /\ At("find_project") /\ GitHubQuiet /\ UNCHANGED file
  /\ \/ FailsOr(Cardinality(OnGitHub) # 1) /\ Fail
     \/ \E i \in OnGitHub :
          /\ OnGitHub = {i} /\ Fine
          /\ mem' = [mem EXCEPT !.project = Found(i)]
          /\ Journal("confirm", TRUE)

\* The callback of initializeDeployment.
WriteJournal ==
  /\ At("journal") /\ GitHubQuiet
  /\ \/ /\ file' = [mem EXCEPT !.phase = "provisioning"] /\ Fine
        /\ IF cmd.err THEN Fail
           ELSE Goto(cmd.next) /\ mem' = [mem EXCEPT !.phase = "provisioning"]
     \/ Fault /\ UNCHANGED file /\ Fail

ConfirmProject ==
  /\ At("confirm") /\ GitHubQuiet /\ UNCHANGED file
  /\ \/ ProjectRevalidates(mem.project) /\ Fine /\ Goto("edit") /\ UNCHANGED mem
     \/ FailsOr(~ProjectRevalidates(mem.project)) /\ Fail

\* gh project edit --visibility.
EditProject ==
  LET i == mem.project.id
      edited == [projects EXCEPT ![i].right = TRUE] IN
  /\ At("edit") /\ UNCHANGED <<repo, file>>
  /\ \/ mem.project.right /\ Goto("link") /\ Fine /\ UNCHANGED <<projects, mem>>
     \/ /\ ~mem.project.right /\ i \in OnGitHub /\ projects' = edited /\ Fine
        /\ mem' = [mem EXCEPT !.project.right = TRUE, !.project.linked = FALSE]
        /\ Journal("link", FALSE)
     \/ /\ ~mem.project.right /\ Goto("read_edit") /\ UNCHANGED mem
        /\ IF i \in OnGitHub THEN Fault /\ (UNCHANGED projects \/ projects' = edited)
           ELSE Fine /\ UNCHANGED projects

ReadEdit ==
  LET i == mem.project.id IN
  /\ At("read_edit") /\ GitHubQuiet /\ UNCHANGED file
  /\ \/ FailsOr(~projects[i].right) /\ Fail
     \/ /\ projects[i].right /\ Fine
        /\ mem' = [mem EXCEPT !.project = Found(i)]
        /\ Journal("link", TRUE)

\* gh project link, unless the receipt says that it is linked.
LinkProject ==
  LET i == mem.project.id
      linked == [projects EXCEPT ![i].linked = TRUE] IN
  /\ At("link") /\ UNCHANGED <<repo, file, mem>>
  /\ \/ /\ mem.project.linked /\ Fine /\ UNCHANGED projects
        /\ cmd' = [cmd EXCEPT !.pc = "read_link", !.err = FALSE]
     \/ /\ ~mem.project.linked /\ i \in OnGitHub /\ There("control")
        /\ projects' = linked /\ Fine
        /\ cmd' = [cmd EXCEPT !.pc = "read_link", !.err = FALSE]
     \/ /\ ~mem.project.linked
        /\ IF i \in OnGitHub /\ There("control")
             THEN Fault /\ (UNCHANGED projects \/ projects' = linked)
             ELSE Fine /\ UNCHANGED projects
        /\ cmd' = [cmd EXCEPT !.pc = "read_link", !.err = TRUE]

\* inspect.  A link command that failed and has had its effect is an error too.
ReadLink ==
  LET i == mem.project.id
      fits == i \in OnGitHub /\ Link(projects[i]) IN
  /\ At("read_link") /\ GitHubQuiet /\ UNCHANGED file
  /\ \/ FailsOr(~fits) /\ Fail
     \/ /\ fits /\ Fine
        /\ mem' = [mem EXCEPT !.project = [Found(i) EXCEPT !.linked = TRUE]]
        /\ Journal("recheck", cmd.err)

-----------------------------------------------------------------------------
OnRepositories == NextRepository \/ CreateRepository \/ ReadBack \/ EnableIssues
                  \/ InspectRepository \/ SaveRepository
OnProject == StartProject \/ CreateProject \/ FindProject \/ WriteJournal
             \/ ConfirmProject \/ EditProject \/ ReadEdit \/ LinkProject \/ ReadLink
Prepare == VerifyRepositories \/ PreflightRepositories \/ CheckProject

GitHubInit ==
  /\ repo = [r \in Repos |-> NoRepo] /\ projects = [i \in Ids |-> GoneProject]
  /\ file = NoReceipt /\ mem = NoReceipt /\ cmd = Idle /\ faults = 0
GitHubStep == Prepare \/ OnRepositories \/ OnProject \/ SaveFailure
=============================================================================
