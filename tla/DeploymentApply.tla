--------------------------- MODULE DeploymentApply ---------------------------
(***************************************************************************)
(* configs init --apply: operating-system processes (Runners) that drive   *)
(* one operation through its steps against GitHub and the provider CLIs,   *)
(* keeping the durable journal of OperationJournal.                        *)
(*                                                                         *)
(* A runner is one process at a time: it plans and applies ("init"),       *)
(* applies an operation that is already prepared ("apply", which is also   *)
(* what recoverDeploymentOperation does) or records what an operator has   *)
(* observed ("resolve").  It may stop at any point (Crash), and everything *)
(* it knew is lost; the journal and the remote objects stay.  Between two  *)
(* statements on the database, and between a statement and a remote        *)
(* command, every other process may take steps.                            *)
(***************************************************************************)
EXTENDS OperationJournal

CONSTANTS
  Runners,          \* processes that may work on the operation
  Entry,            \* the entry points they use
  Reliable,         \* TRUE: every remote command does its work and answers
  Staged,           \* what the commit staged at provision time may be
  Linked,           \* the repository the project is linked to, if the plan
                    \* has it
  Foreign,          \* steps whose resource someone else may create
  MaxCrashes        \* bound on the number of crashes

Entries == {"init", "apply", "resolve"}

ASSUME EntryAssumption == Entry \subseteq Entries
ASSUME FlagAssumption  == Reliable \in BOOLEAN
ASSUME LinkedAssumption == Linked \subseteq {s \in Steps : Kind[s] = RepositoryKind}
ASSUME ForeignAssumption == Foreign \subseteq Steps
ASSUME CrashAssumption == MaxCrashes \in Nat

\* A commit is named by its content and by the second it was made in: the one
\* that is staged and pushed need not be the one the input document names.
Commits == {"planned", "other"}
ASSUME StagedAssumption == Staged \subseteq Commits

VARIABLES
  mine,     \* mine[s]: remote objects this operation has created for step s
  whole,    \* whole[s]: one of them has what a readback looks for: the planned
            \* commit, the link, the plugins
  issues,   \* issues[s]: the issues of repository s are switched on
  foreign,  \* foreign[s]: somebody else's object occupies the resource
  run,      \* run[p]: the local state of runner p
  crashes   \* number of crashes so far

remoteVars == <<mine, whole, issues, foreign>>
vars == <<journalVars, remoteVars, run, crashes>>

Labels == {"idle", "plan", "prepare", "insert", "find", "findSteps",
           "start", "startSteps", "startUpdate", "next", "preflight",
           "create", "recover", "complete", "readback", "append", "appendSteps",
           "appendMax", "appendWrite", "reread", "finish", "finishUpdate",
           "resolve", "resolveSteps", "resolveWrite"}

AllPending == [s \in Steps |-> "pending"]

\* The locals of a runner: the step it is at, the steps its loop ranges over
\* (read once, before the loop), the latest steps it has read, the outcome
\* it is about to record, and the phase and revision appendStep has read.
RunState ==
  [pc: Labels, at: 0..N, loop: [Steps -> StepPhases],
   seen: [Steps -> StepPhases], want: StepPhases \cup Outcomes,
   readPhase: Phases, max: Nat]
IdleRun ==
  [pc |-> "idle", at |-> 0, loop |-> AllPending, seen |-> AllPending,
   want |-> "pending", readPhase |-> "none", max |-> 0]

TypeOK ==
  /\ JournalTypeOK
  /\ mine \in [Steps -> Nat]
  /\ whole \in [Steps -> BOOLEAN]
  /\ issues \in [Steps -> BOOLEAN]
  /\ foreign \in [Steps -> BOOLEAN]
  /\ run \in [Runners -> RunState]
  /\ crashes \in 0..MaxCrashes

Init ==
  /\ JournalInit
  /\ mine = [s \in Steps |-> 0]
  /\ whole = [s \in Steps |-> FALSE]
  /\ issues = [s \in Steps |-> FALSE]
  /\ foreign = [s \in Steps |-> FALSE]
  /\ run = [p \in Runners |-> IdleRun]
  /\ crashes = 0

-----------------------------------------------------------------------------
(* Steps of a runner: locals only.                                         *)

At(p, label)   == run[p].pc = label
Become(p, r)   == run' = [run EXCEPT ![p] = r]
Goto(p, label) == Become(p, [run[p] EXCEPT !.pc = label])

\* The process ends: it has returned its result, thrown, or been killed.
Stop(p) == Become(p, IdleRun)

\* Record an outcome of step s, next.
Record(p, s, outcome) ==
  Become(p, [run[p] EXCEPT !.pc = "append", !.at = s, !.want = outcome])

\* appendFailure: the outcome goes to the first pending step of the record
\* the runner has read last; without one the result is "blocked".
Fail(p, outcome) ==
  \/ NonePending(run[p].seen) /\ Stop(p)
  \/ \E s \in Steps : FirstPending(run[p].seen, s) /\ Record(p, s, outcome)

-----------------------------------------------------------------------------
(* What the adapters see of the remote side.                               *)

\* preflight of the repository: any repository of that name, ours included.
RepositoryTaken(s) == foreign[s] \/ mine[s] > 0

\* A repository that has no commit yet cannot be parsed: inconclusive.  One
\* that holds the planned commit is not empty.
RepositoryEmpty(s) ==
  Kind[s] = RepositoryKind /\ mine[s] > 0 /\ ~whole[s]

\* preflight of the project: any project of that title, ours included.
TitleTaken(s) == foreign[s] \/ mine[s] > 0

\* The readback of a project asks for the issues of the linked repository.
LinkedHasIssues == \A s \in Linked : issues[s]

\* inspect: a marketplace of that name with another source.
OtherMarketplace(s) == foreign[s]

\* Mistaken: only somebody else's object collides.
OccupiedByOthers(s) == foreign[s]

\* What preflight calls a collision.
Occupied(s) ==
  \/ Kind[s] = RepositoryKind /\ RepositoryTaken(s)
  \/ Kind[s] = ProjectKind /\ TitleTaken(s)
  \/ Kind[s] = ProviderKind /\ OtherMarketplace(s)

\* What an operator observes of a step, for a resolution.
Observed(s) ==
  IF whole[s] THEN "matched"
  ELSE IF foreign[s] \/ mine[s] > 0 THEN "drifted" ELSE "absent"

-----------------------------------------------------------------------------
(* runDefaultDeploymentInit and prepareDeploymentPlan: preflight of every  *)
(* resource, then the journal's prepare.                                   *)

BeginInit(p) ==
  /\ "init" \in Entry /\ At(p, "idle")
  /\ Goto(p, "plan")
  /\ UNCHANGED <<journalVars, remoteVars, crashes>>

\* One preflight; a blocker ends the command.
PlanStep(p) ==
  /\ At(p, "plan") /\ run[p].at < N
  /\ LET s == run[p].at + 1 IN
       \/ ~Occupied(s) /\ Become(p, [run[p] EXCEPT !.at = s])
       \/ (Occupied(s) \/ ~Reliable) /\ Stop(p)
  /\ UNCHANGED <<journalVars, remoteVars, crashes>>

PlanReady(p) ==
  /\ At(p, "plan") /\ run[p].at = N
  /\ Become(p, [IdleRun EXCEPT !.pc = "prepare"])
  /\ UNCHANGED <<journalVars, remoteVars, crashes>>

\* prepare returns the record that is there, or goes on to insert one.
Prepare(p) ==
  /\ At(p, "prepare")
  /\ Goto(p, IF phase = "none" THEN "insert" ELSE "find")
  /\ UNCHANGED <<journalVars, remoteVars, crashes>>

PrepareInsert(p) ==
  /\ At(p, "insert")
  /\ \/ InsertPlan /\ Goto(p, "find")
     \/ ~CanInsertPlan /\ Stop(p) /\ UNCHANGED journalVars
  /\ UNCHANGED <<remoteVars, crashes>>

-----------------------------------------------------------------------------
(* applyDeploymentPlan.                                                    *)

BeginApply(p) ==
  /\ "apply" \in Entry /\ At(p, "idle")
  /\ Goto(p, "find")
  /\ UNCHANGED <<journalVars, remoteVars, crashes>>

FindStatus(p) ==
  /\ At(p, "find")
  /\ \/ phase \in Startable /\ Goto(p, "start")
     \/ phase = "applying" /\ Goto(p, "findSteps")
     \/ phase \notin Startable \cup {"applying"} /\ Stop(p)
  /\ UNCHANGED <<journalVars, remoteVars, crashes>>

\* The step rows are a second SELECT.
FindSteps(p) ==
  /\ At(p, "findSteps")
  /\ Become(p, [run[p] EXCEPT !.pc = "next", !.loop = cur, !.seen = cur])
  /\ UNCHANGED <<journalVars, remoteVars, crashes>>

\* start: read status, read steps, update.
StartStatus(p) ==
  /\ At(p, "start")
  /\ IF phase \in Startable THEN Goto(p, "startSteps") ELSE Stop(p)
  /\ UNCHANGED <<journalVars, remoteVars, crashes>>

StartSteps(p) ==
  /\ At(p, "startSteps")
  /\ Become(p, [run[p] EXCEPT !.pc = "startUpdate", !.loop = cur,
                               !.seen = cur])
  /\ UNCHANGED <<journalVars, remoteVars, crashes>>

StartWrite(p) ==
  /\ At(p, "startUpdate")
  /\ \/ StartUpdate /\ Goto(p, "next")
     \/ ~CanStart /\ Stop(p) /\ UNCHANGED journalVars
  /\ UNCHANGED <<remoteVars, crashes>>

\* Mistaken: the loop takes any step that is pending.
NextStepAny(p) ==
  /\ At(p, "next")
  /\ \E s \in Steps :
       /\ s > run[p].at /\ run[p].loop[s] = "pending"
       /\ Become(p, [run[p] EXCEPT !.pc = "preflight", !.at = s])
  /\ UNCHANGED <<journalVars, remoteVars, crashes>>

\* The for loop over the steps read at the start.
NextStep(p) ==
  /\ At(p, "next")
  /\ \E s \in Steps :
       /\ s > run[p].at /\ run[p].loop[s] = "pending"
       /\ \A t \in Steps :
            run[p].at < t /\ t < s => run[p].loop[t] # "pending"
       /\ Become(p, [run[p] EXCEPT !.pc = "preflight", !.at = s])
  /\ UNCHANGED <<journalVars, remoteVars, crashes>>

LoopDone(p) ==
  /\ At(p, "next")
  /\ \A s \in Steps : s > run[p].at => run[p].loop[s] # "pending"
  /\ Goto(p, "finish")
  /\ UNCHANGED <<journalVars, remoteVars, crashes>>

\* provision and activate read the remote side first.
Preflight(p) ==
  /\ At(p, "preflight")
  /\ LET s == run[p].at IN
       \/ ~Occupied(s) /\ Goto(p, "create")
       \/ Occupied(s) /\ Fail(p, "needs-manual-cleanup")
       \/ (RepositoryEmpty(s) \/ ~Reliable) /\ Fail(p, "inconclusive")
  /\ UNCHANGED <<journalVars, remoteVars, crashes>>

\* The command did its work; the answer may be lost on the way.
AnswerTo(p, label) ==
  \/ Goto(p, label)
  \/ ~Reliable /\ Fail(p, "inconclusive")

\* repo create --push, of the commit staged a moment before.
Push(s) == \E commit \in Staged : whole' = [whole EXCEPT ![s] = (commit = "planned")]

\* A name that is taken is refused; a failure may also hide that the
\* repository was created, with the push or without.  A new repository has
\* its issues on or off, as the account has it.
CreateRepository(p) ==
  LET s == run[p].at IN
  /\ At(p, "create") /\ Kind[s] = RepositoryKind
  /\ \/ /\ ~RepositoryTaken(s)
        /\ mine' = [mine EXCEPT ![s] = @ + 1]
        /\ \E on \in BOOLEAN : issues' = [issues EXCEPT ![s] = on]
        /\ \/ Push(s) /\ Goto(p, "complete")
           \/ ~Reliable /\ (Push(s) \/ whole' = whole) /\ Goto(p, "recover")
     \/ /\ RepositoryTaken(s) \/ ~Reliable
        /\ UNCHANGED <<mine, whole, issues>> /\ Goto(p, "recover")
  /\ UNCHANGED <<journalVars, foreign, crashes>>

\* After a failure the repository is read back with the staged commit, and
\* one that is there with it counts as created, without repo edit.  Where the
\* staged commit is not the planned one the caller's readback fails if this
\* one does not, to the same effect.
RecoverRepository(p) ==
  LET s == run[p].at IN
  /\ At(p, "recover")
  /\ \/ whole[s] /\ Goto(p, "readback")
     \/ (~whole[s] \/ "other" \in Staged \/ ~Reliable) /\ Fail(p, "inconclusive")
  /\ UNCHANGED <<journalVars, remoteVars, crashes>>

\* project create.  Titles need not be unique, so it is never refused.
CreateProject(p) ==
  LET s == run[p].at IN
  /\ At(p, "create") /\ Kind[s] = ProjectKind
  /\ \/ /\ mine' = [mine EXCEPT ![s] = @ + 1]
        /\ AnswerTo(p, "complete")
     \/ /\ ~Reliable
        /\ mine' = mine /\ Fail(p, "inconclusive")
  /\ UNCHANGED <<journalVars, whole, issues, foreign, crashes>>

\* marketplace add, unless the marketplace is there already.
AddMarketplace(p) ==
  LET s == run[p].at IN
  /\ At(p, "create") /\ Kind[s] = ProviderKind
  /\ \/ /\ mine[s] = 0 /\ ~OtherMarketplace(s)
        /\ mine' = [mine EXCEPT ![s] = 1]
        /\ AnswerTo(p, "complete")
     \/ /\ mine[s] > 0
        /\ mine' = mine /\ Goto(p, "complete")
     \/ /\ mine[s] = 0 /\ (OtherMarketplace(s) \/ ~Reliable)
        /\ mine' = mine /\ Fail(p, "inconclusive")
  /\ UNCHANGED <<journalVars, whole, issues, foreign, crashes>>

\* repo edit --enable-issues, and the readback of the staged commit.
EnableIssues(p) ==
  LET s == run[p].at IN
  /\ At(p, "complete") /\ Kind[s] = RepositoryKind
  /\ \/ issues' = [issues EXCEPT ![s] = TRUE] /\ AnswerTo(p, "readback")
     \/ ~Reliable /\ issues' = issues /\ Fail(p, "inconclusive")
  /\ UNCHANGED <<journalVars, mine, whole, foreign, crashes>>

\* project edit --visibility, project link and the readback of the project,
\* which fails for a repository without issues.
LinkProject(p) ==
  LET s == run[p].at IN
  /\ At(p, "complete") /\ Kind[s] = ProjectKind
  /\ \/ /\ whole' = [whole EXCEPT ![s] = TRUE]
        /\ \/ LinkedHasIssues /\ Goto(p, "readback")
           \/ (~LinkedHasIssues \/ ~Reliable) /\ Fail(p, "inconclusive")
     \/ ~Reliable /\ whole' = whole /\ Fail(p, "inconclusive")
  /\ UNCHANGED <<journalVars, mine, issues, foreign, crashes>>

\* The plugins that were missing, and the inspection after; the caller does
\* not read a provider back again.
InstallPlugins(p) ==
  LET s == run[p].at IN
  /\ At(p, "complete") /\ Kind[s] = ProviderKind
  /\ \/ /\ whole' = [whole EXCEPT ![s] = TRUE]
        /\ \/ Record(p, s, "succeeded")
           \/ ~Reliable /\ Fail(p, "inconclusive")
     \/ ~Reliable /\ whole' = whole /\ Fail(p, "inconclusive")
  /\ UNCHANGED <<journalVars, mine, issues, foreign, crashes>>

\* Mistaken: a repository is there, whatever was pushed to it.
ReadbackAnyCommit(p) ==
  /\ At(p, "readback") /\ Kind[run[p].at] = RepositoryKind
  /\ \/ Record(p, run[p].at, "succeeded")
     \/ ~Reliable /\ Fail(p, "inconclusive")
  /\ UNCHANGED <<journalVars, remoteVars, crashes>>

\* The readback of applyDeploymentPlan compares the repository with the
\* commit of the input document, not with the one that was staged and pushed.
ReadbackRepository(p) ==
  LET s == run[p].at IN
  /\ At(p, "readback") /\ Kind[s] = RepositoryKind
  /\ \/ whole[s] /\ Record(p, s, "succeeded")
     \/ (~whole[s] \/ ~Reliable) /\ Fail(p, "inconclusive")
  /\ UNCHANGED <<journalVars, remoteVars, crashes>>

ReadbackProject(p) ==
  LET s == run[p].at IN
  /\ At(p, "readback") /\ Kind[s] = ProjectKind
  /\ \/ LinkedHasIssues /\ Record(p, s, "succeeded")
     \/ (~LinkedHasIssues \/ ~Reliable) /\ Fail(p, "inconclusive")
  /\ UNCHANGED <<journalVars, remoteVars, crashes>>

\* appendStep: status, steps and highest revision are read one after the
\* other, outside the transaction that writes.
AppendStatus(p) ==
  /\ At(p, "append")
  /\ Become(p, [run[p] EXCEPT !.pc = "appendSteps", !.readPhase = phase])
  /\ UNCHANGED <<journalVars, remoteVars, crashes>>

AppendSteps(p) ==
  /\ At(p, "appendSteps")
  /\ IF FirstPending(cur, run[p].at) THEN Goto(p, "appendMax") ELSE Stop(p)
  /\ UNCHANGED <<journalVars, remoteVars, crashes>>

AppendMax(p) ==
  /\ At(p, "appendMax")
  /\ Become(p, [run[p] EXCEPT !.pc = "appendWrite",
                               !.max = rev[run[p].at]])
  /\ UNCHANGED <<journalVars, remoteVars, crashes>>

AppendWrite(p) ==
  /\ At(p, "appendWrite")
  /\ LET r == run[p] IN
       \/ /\ AppendRow(r.at, r.want, r.readPhase, r.max)
          /\ IF r.want = "succeeded" THEN Goto(p, "reread") ELSE Stop(p)
       \/ /\ ~CanAppend(r.at, r.want, r.readPhase, r.max)
          /\ Stop(p) /\ UNCHANGED journalVars
  /\ UNCHANGED <<remoteVars, crashes>>

\* appendStep returns a fresh record; the loop goes on over the old one.
Reread(p) ==
  /\ At(p, "reread")
  /\ Become(p, [run[p] EXCEPT !.pc = "next", !.seen = cur,
                               !.want = "pending", !.readPhase = "none",
                               !.max = 0])
  /\ UNCHANGED <<journalVars, remoteVars, crashes>>

FinishStatus(p) ==
  /\ At(p, "finish")
  /\ IF phase = "applying" THEN Goto(p, "finishUpdate") ELSE Stop(p)
  /\ UNCHANGED <<journalVars, remoteVars, crashes>>

FinishWrite(p) ==
  /\ At(p, "finishUpdate") /\ Stop(p)
  /\ FinishUpdate \/ (~CanFinish /\ UNCHANGED journalVars)
  /\ UNCHANGED <<remoteVars, crashes>>

-----------------------------------------------------------------------------
(* resolveDeploymentOperation: an operator observes the remote state of    *)
(* the first unsettled step, and the journal records it (the observation   *)
(* may be up to 15 minutes old by then).                                   *)

BeginResolve(p) ==
  /\ "resolve" \in Entry /\ At(p, "idle") /\ phase = "inconclusive"
  /\ \E s \in Steps :
       /\ FirstUnsettled(cur, s)
       /\ Become(p, [run[p] EXCEPT !.pc = "resolve", !.at = s,
                                  !.want = Observed(s)])
  /\ UNCHANGED <<journalVars, remoteVars, crashes>>

ResolveStatus(p) ==
  /\ At(p, "resolve")
  /\ IF phase = "inconclusive" THEN Goto(p, "resolveSteps") ELSE Stop(p)
  /\ UNCHANGED <<journalVars, remoteVars, crashes>>

ResolveSteps(p) ==
  /\ At(p, "resolveSteps")
  /\ IF FirstUnsettled(cur, run[p].at)
       THEN Goto(p, "resolveWrite") ELSE Stop(p)
  /\ UNCHANGED <<journalVars, remoteVars, crashes>>

ResolveWrite(p) ==
  /\ At(p, "resolveWrite") /\ Stop(p)
  /\ \/ ResolveRow(run[p].at, run[p].want)
     \/ ~CanResolve(run[p].at) /\ UNCHANGED journalVars
  /\ UNCHANGED <<remoteVars, crashes>>

-----------------------------------------------------------------------------
(* The environment.                                                        *)

\* The process dies between two steps.
Crash(p) ==
  /\ ~At(p, "idle") /\ crashes < MaxCrashes
  /\ Stop(p)
  /\ crashes' = crashes + 1
  /\ UNCHANGED <<journalVars, remoteVars>>

\* Somebody else takes the name, the title or the marketplace.  A repository
\* of theirs does not hold a commit that this operation has staged.
Appear(s) ==
  /\ s \in Foreign /\ mine[s] = 0 /\ ~foreign[s]
  /\ foreign' = [foreign EXCEPT ![s] = TRUE]
  /\ UNCHANGED <<journalVars, mine, whole, issues, run, crashes>>

PlanPhase(p)   == PlanStep(p) \/ PlanReady(p) \/ Prepare(p) \/ PrepareInsert(p)
StartPhase(p)  == \/ FindStatus(p) \/ FindSteps(p)
                  \/ StartStatus(p) \/ StartSteps(p) \/ StartWrite(p)
LoopPhase(p)   == NextStep(p) \/ LoopDone(p) \/ Preflight(p)
RemotePhase(p) == \/ CreateRepository(p) \/ CreateProject(p)
                  \/ RecoverRepository(p)
                  \/ AddMarketplace(p) \/ EnableIssues(p)
                  \/ LinkProject(p) \/ InstallPlugins(p)
                  \/ ReadbackRepository(p) \/ ReadbackProject(p)
AppendPhase(p) == \/ AppendStatus(p) \/ AppendSteps(p) \/ AppendMax(p)
                  \/ AppendWrite(p) \/ Reread(p)
FinishPhase(p) == FinishStatus(p) \/ FinishWrite(p)
ResolvePhase(p) == ResolveStatus(p) \/ ResolveSteps(p) \/ ResolveWrite(p)

\* A process that runs goes on.
Work(p) == \/ PlanPhase(p) \/ StartPhase(p) \/ LoopPhase(p)
           \/ RemotePhase(p) \/ AppendPhase(p) \/ FinishPhase(p) \/ ResolvePhase(p)

\* An operator starts one.
Begin(p) == BeginInit(p) \/ BeginApply(p) \/ BeginResolve(p)

Next ==
  \/ \E p \in Runners : Begin(p) \/ Work(p) \/ Crash(p)
  \/ \E s \in Steps : Appear(s)

Spec == Init /\ [][Next]_vars

-----------------------------------------------------------------------------
(* Fairness, for what is expected of "init" alone: a process that runs is  *)
(* scheduled, and somebody gives the command again and again.              *)
Fairness == \A p \in Runners : WF_vars(Work(p)) /\ SF_vars(BeginInit(p))

FairSpec == Spec /\ Fairness

-----------------------------------------------------------------------------
(* Properties of any number of runners.                                    *)

\* No step is recorded, and nothing is created for it, while an earlier step
\* has no recorded outcome: the loop and the append-only check of
\* appendOperationStep keep the plan's order, whoever executes it.
PlanOrder ==
  \A s, t \in Steps : s < t /\ (rev[t] > 0 \/ mine[t] > 0) => rev[s] > 0

\* A step recorded as succeeded has what its readback asks for: a repository
\* the planned commit, whatever was staged and pushed, a project the link to a
\* repository with issues, a provider its plugins.  The object of a repository
\* or a project was created by a process of this operation - perhaps by
\* another one than the process that records it (repository.ts:288): a lost
\* answer, a refused name or another's object never count as success.  Only
\* the repository the project is linked to is known to have issues: one that
\* was read back after a failed create is never edited.
Backed(s) ==
  /\ whole[s]
  /\ Kind[s] # ProviderKind => mine[s] > 0
  /\ Kind[s] = ProjectKind => LinkedHasIssues
SucceededIsBacked == \A s \in Steps : cur[s] = "succeeded" => Backed(s)

\* Nothing is created for an operation that has not been started: the status
\* row says so before the first remote command, also to whoever looks at the
\* journal after a crash.
Started == phase \notin {"none", "prepared"}
StartedBeforeCreated == \A s \in Steps : mine[s] > 0 => Started

\* Why they hold: what a runner knows of the durable state when it is about
\* to use it, however long ago it looked.  Revisions, objects and the start
\* of the operation are never taken back, so the knowledge stays true.
BeforeLoop == {"idle", "prepare", "insert", "find", "findSteps",
               "start", "startSteps", "startUpdate"}
InAppend   == {"append", "appendSteps", "appendMax", "appendWrite"}
InResolve  == {"resolve", "resolveSteps", "resolveWrite"}
AtStep     == {"preflight", "create", "recover", "complete", "readback"}
InLoop     == AtStep \cup InAppend \cup {"reread", "next", "findSteps"}

Knows(r) ==
  /\ r.pc \in BeforeLoop => r.at = 0
  /\ r.pc \in InLoop => Started
  /\ \A s \in Steps : r.loop[s] # "pending" => rev[s] > 0
  /\ \A s \in Steps : r.seen[s] # "pending" => rev[s] > 0
  /\ r.pc \in AtStep \cup InAppend \cup InResolve =>
       r.at \in Steps /\ \A s \in Steps : s < r.at => rev[s] > 0
  /\ r.pc \in {"next", "reread"} => \A s \in Steps : s <= r.at => rev[s] > 0
  /\ r.pc = "complete" => mine[r.at] > 0
  /\ r.pc = "readback" /\ Kind[r.at] = ProjectKind => whole[r.at]
  /\ r.pc \in InAppend => r.want \in StepPhases \ {"pending"}
  /\ r.pc \in InAppend /\ r.want = "succeeded" => Backed(r.at)
  /\ r.pc \in InResolve => r.want \in Outcomes

RunnerKnows(p) == Knows(run[p])

StepsKnown ==
  \A s \in Steps : cur[s] # "pending" => rev[s] > 0

WholeIsOurs == \A s \in Steps : whole[s] \/ issues[s] => mine[s] > 0

Inductive ==
  /\ TypeOK
  /\ \A p \in Runners : RunnerKnows(p)
  /\ StepsKnown
  /\ PlanOrder
  /\ SucceededIsBacked
  /\ StartedBeforeCreated
  /\ WholeIsOurs

-----------------------------------------------------------------------------
(* Properties of one process at a time, with crashes and restarts.         *)

\* The operation is reported as succeeded only if every step is, and every
\* object is there with what its readback asks for (no false success).
NoFalseSuccess ==
  phase = "succeeded" => \A s \in Steps : cur[s] = "succeeded" /\ Backed(s)

\* A retry never creates a second object for a step.
NoDuplicate == \A s \in Steps : mine[s] <= 1

\* One process at a time implements what DeploymentSaga promises.
Saga == INSTANCE DeploymentSaga WITH
  N <- N,
  status <- CASE phase \in {"none", "prepared"}         -> "planned"
              [] phase \in {"applying", "needs-resume"} -> "running"
              [] phase = "inconclusive"                 -> "doubtful"
              [] phase = "needs-manual-cleanup"         -> "stopped"
              [] phase = "succeeded"                    -> "succeeded",
  touched <- {s \in Steps : mine[s] > 0},
  done <- {s \in Steps : cur[s] = "succeeded"}
ImplementsSaga == Saga!SagaSpec

\* Expected, and not so after a crash (README.md, section 5): an operation
\* that was interrupted is taken up again, or gets another outcome, when the
\* command is given again.
InterruptedResumes == phase = "applying" ~> phase # "applying"

\* Expected, and not so when the staged commit is not the planned one
\* (README.md, section 5): a deployment that nothing disturbs is completed.
Completes == [](crashes = 0) => <>(phase = "succeeded")

=============================================================================
