# Verification of agx

TLA+ models of the parts of agx that change durable or remote state, TLC runs
that check them on small instances, and TLAPS proofs of what matters most for
every instance. Paths below are relative to the repository.

## 1. The system

agx is two programs in one repository. The TypeScript **control plane**
(`packages/control-plane`, run as `configs`) keeps workspace configuration and
deployment operations in one SQLite file, and launches agent clients. The Go
**agx CLI** (`cmd/agx`, `internal/`) is the earlier implementation: it publishes
a fleet profile and an installation, activates provider plugins, creates
GitHub repositories and a project, and keeps its receipts in JSON files. Both
are command-line programs: every concurrency is between operating-system
processes that share files, a database, GitHub and the provider CLIs; every
command may be interrupted at any point and run again.

| Component | State | Operations | Hard behaviour | What makes it correct |
|---|---|---|---|---|
| Operation journal (`adapters/sqlite/operation-journal.ts`, `domain/operation-journal.ts`) | rows of `operation_status`, `operation_step`, `operation_resolution` | prepare, start, appendStep, resolveInconclusive, finish, read | reads and writes are separate statements; several processes | status and steps tell the same story, history is append-only, final phases are final |
| Deployment (`application/deployment-apply.ts`, `deployment-preflight.ts`) | locals of one process; remote objects | preflight, apply, recover, resolve | crash between a remote command and its record, lost answers, retries, stale reads | plan order, no false success, nothing adopted, nothing duplicated, every started operation settles |
| GitHub and provider adapters (`adapters/github`, `adapters/providers`) | repositories, projects, marketplaces, plugins | preflight, provision, readback; inspect, activate, revoke | partial work, answers that never come | a collision is never adopted, doubt is never success |
| Migration from the Go installer (`cli/index.ts`, `adapters/migration`, `adapters/state`) | the deployment row, a migration operation in the journal, the single lifecycle row; the old installation | plan, apply | two runs, a run killed between two of its three connections, the old installer replacing what is read | imported once, what is imported was on disk at one moment, success only for the writer of the row |
| Configuration revisions (`adapters/sqlite/connection.ts`, `repository.ts`, `config-revision-writer.ts`, `application/establish.ts`) | journal mode and schema of the database, table of revisions | open, migrate, establish, revise | two processes convert, migrate or supersede at once; lock waits that run out; crash in a migration | a linear history, no race is an error, what is printed is so |
| Reading revisions (`adapters/sqlite/repository.ts`, `application/queries.ts`, `domain/config.ts`) | none | list, show with the chain of predecessors and successors, compare | rows of other schema versions or damaged, some of them in the middle of a chain | one bad row hides no other, what is not known is called unknown |
| Supply of content (`adapters/sources/supply-fs.ts`, `cli/supply-root.ts`, `application/establish.ts`) | none; reads a library that its owner edits | supply, establish | the library changes between two files of one fingerprint | a candidate is complete or there is none |
| Launch plans (`application/launch.ts`, `claude-launch.ts`, `adapters/sqlite/launch-repository.ts`, `adapters/system/claude-invocation-dir.ts`) | table of plans, client processes, invocation directories | use, switch, confirm, launch, observe, status | two commands on the newest plan, crash while the client runs, failures between two saves | stored plans follow the state diagram and tell the truth, nothing is taken from a running client |
| Claude Code adapter (`adapters/clients/claude`) | the content of an invocation directory | probe, manifest, arguments, materialization | the client is replaced after the probe, the library edited after the fingerprint, three groups written at once | what the client is started with is what was recorded, no control is claimed that it does not have |
| Self-update (`adapters/self-update`, `cli/index.ts`) | the binary, check state, lock file | schedule, check, download, replace | stale lock taken over twice, crash between two renames | one worker, there is always a binary to run |
| Fleet profile (`internal/fleet`, `internal/metadatafile`) | one metadata file, its temporary files | apply, status | race of two publishers, crash before a temporary file is removed | write once, never a torn file |
| Initialization of a deployment, Go (`internal/activation`, `project`, `repository`, `provider`) | initialization receipt, repositories and Project on GitHub, inventories of the providers | init, resume, compensate, uninitialize, status | a crash or lost answer at each command of gh and of a provider; the user interferes | what AGX added is always claimed, only that is taken back, running init again completes or says what is in the way |
| Installation (`internal/install`) | installed files, receipt | apply, status, uninstall | crash in the middle, two installers, files changed by the user | nothing foreign is deleted, uninstall can always go on |
| Evidence (`internal/domain/evidence.go`, `domain/evidence.ts`, `domain/status.ts`) | none (pure) | evaluate, project | freshness boundaries, contradicting evidence | verified only with fresh, matching evidence |

`PROJECT.json` lists every component with its status, and every hazard of this
code at the line where it bites with the properties that watch it.

## 2. The modules

### Deployment (control plane)

* `OperationJournal` is the store: `phase` (operation_status), `cur` and `rev`
  (the latest operation_step row of every step), `resolved`
  (operation_resolution). One operator per statement or transaction of
  `SqliteOperationJournal`; the guard of each is the WHERE clause, the primary
  key or the domain function that throws.
* `DeploymentApply` EXTENDS it with processes (`Runners`) and the remote side.
  A runner's record holds what the code has in locals: the loop list read
  once, the record read last, the outcome on its way to `appendStep`, the phase
  and revision `appendStep` has read. Labels separate exactly the points where
  another process can come in between: two SQL statements, or a statement and a
  remote command. `init` is `configs init --apply` (preflight, prepare, apply);
  `apply` is `applyDeploymentPlan` on a prepared operation, which is also what
  `recoverDeploymentOperation` does; `resolve` is `resolveDeploymentOperation`.
  `Crash` ends a process anywhere; a busy database makes a statement throw,
  which has the same effect on the state. `Appear` lets another owner take the
  name, title or marketplace.
* `DeploymentSaga` is what a deployment promises without any of this: steps in
  order, one at a time, nothing after a failure until it is resolved, success
  only when all is done. `ImplementsSaga` is the refinement.
* `MCDeploymentApply` holds the instances, `DeploymentApplyProofs` the proofs.

Abstractions. A step is its position in the plan and its kind; a remote object
is a count (`mine`), whether it is complete (`whole`), for a repository whether
its issues are on (`issues`, which the readback of a Project asks of the one it
is linked to), and whether the place is taken by somebody else (`foreign`).
Every remote command either works and answers, works and the answer is lost, or
does not work (`Reliable = TRUE` leaves only the first). A repository whose
creation failed, or was refused because the name is taken, is read back and
counts as created if it is there with the staged commit (`RecoverRepository`). A
commit is named by the time it is made at as well, so the one that is staged
(`Staged`) may or may not be the planned one. Every verdict "inconclusive" is a
lost answer, a command that did not work or a readback that does not match.
`finish` with failed or cancelled, and the phases observing, degraded, failed
and cancelled, are not written by a deployment. The plan's `deployment_status`
row is always in phase planned when init runs, because nothing else writes it
before. A marketplace of the same source that was there before counts as ours,
as in `sameSource`. Nobody changes our objects after they are created.

### Configuration revisions (control plane)

* `ConfigRevisions` is the database file as `establish` and `revise` use it:
  `journal` and `converting` (enableWalMode), `tables` (0001 and 0004, one
  deferred transaction), `columns` and `index` (0003, statement by statement),
  `rows` (stable_config_revision, in the order of insertion). `run` is a
  process: the mode it has read, the statement of the migration it is at, what
  it has looked up on one connection before it inserts on another.
* `RevisionHistory` is the promise: an append-only list in which nothing is
  superseded twice and what is superseded is earlier and of the same
  configuration. `ImplementsHistory` is the refinement.
  `ConfigRevisionsProofs` holds the proofs, those about the queries included.

Abstractions. A revision is its id, its configuration name and the id it
supersedes; the content, its hash and its children rows are one insert. Whether
the program supports a stored revision is not a part of the rows: the lookup of
`revise` may answer "unsupported" of any. SQLite
serializes statements. A statement that waits for a lock may fail after
busy_timeout (`WaitFails`); `late` remembers that it has happened, because the
code then goes on without the unique index and the history is only promised
while `late` is FALSE. A snapshot upgrade that another commit has overtaken
fails at once, whatever the timeout (answer "locked"). TLC uses two columns of
the real list; the proofs hold for any list.

* `RevisionQueries` EXTENDS it with what list, show and compare make of the
  rows: the strict and the lenient reading of a row, the chain of a revision,
  the comparison of several. Nothing is written and stored rows never change,
  so they are functions of `rows`, evaluated in every state in which no command
  is at work, over every way in which the content of the rows may be found
  (another schema version, no list, a reference with a known, an unknown or no
  category). A row has one list with at most one reference, of one name; the
  comparison looks at names and categories and not at fingerprints, as the code
  does. The chain is read in two statements, which is the same because rows are
  only added.

### Launch plans (control plane)

* `Launch` is the table launch_plan (`plans`, in the order of insertion, with
  the creation time `made` that the newest plan is chosen by), the client
  process of each plan (`child`), the invocation directories (`dirs`), and the
  commands (`run`). `Begin` to `Decide` are runLaunchFlow and
  runClaudeLaunchFlow, `Check` to `Cleanup` are launchOmp and
  launchClaudeFresh, one action per database statement, file-system call or
  wait. OMP plans are saved with a compare on the phase, plans of Claude Code
  without (`Record`).
* `Transitions`, `Accepts` and `After` are transitionLaunchPlan, the state
  diagram that every action goes through. The proofs are in `LaunchProofs`.
* `ChildExits` ends a client at any time after its start, `Withdraw` makes a
  revision unreadable, `Crash` kills a command and leaves its client running.

Abstractions. The manifest, the capability probe and the content groups are
reduced to their verdict: blocked, failed, degraded or complete; `ClaudeContent`
has them in full. Unsupported clients are refused before anything is stored and
are left out, as are exit codes. `StatusOf` is the status projection of a plan
at one moment. Two plans never have the same creation time;
with equal times the order of insertion decides in the code, which is the order
the model gives them. The exit of a client by a signal may reach the program as
a number or as no number. `befell` remembers which plan was hit by which
accident: its command killed, its context not written, its directory not
removed. TLC uses two revisions, one that OMP gets whole and one it gets in
part.

### Metadata files and the fleet profile (Go)

* `MetadataFile` is `internal/metadatafile` on Linux: the inode the name is
  bound to (`target`), the contents of inodes, the locals of WriteFileAtomic in
  each process, the temporary files left behind (`stale`). One action per
  system call. An inode nobody names any more may be given to the next file, so
  the identity check os.SameFile can be deceived.
* `FleetLifecycle` EXTENDS it with `Apply` and `Status` of `internal/fleet`: a
  profile is its digest, `asked`, `stage` and `answer` are the call in each
  process. `Edit` is somebody editing or deleting the file by hand (`edited`).
* `WriteOnce` is the promise: the first profile stays, a caller is told
  whether it was its own, nobody overwrites anything.
* `ReceiptFile` EXTENDS `MetadataFile` in the replacing mode: the receipt of
  `internal/activation` with writeReceipt and RemoveFile.

Abstractions. Contents are equal exactly if their digests are; the .agx
directory and its checks are not modelled, nor Windows, nor power loss. Only
the processes in `Faulty` may see system calls fail for other reasons.

### Supply and the content of a launch (control plane)

* `Supply` is a library of skills and documents, edited at any time (`Edit`),
  and an author: `supply` lists the groups and fingerprints each skill file by
  file, `establish` stores the candidate it prints or one written by hand.
* `ClaudeContent` EXTENDS it with one launch: the two captures of the help of
  the client, the manifest and the arguments that follow from them, and the
  three groups of content, each checking a reference against its fingerprint
  and copying it file by file, interleaved with one another, with edits, with
  an `Upgrade` of the client and with failed writes. `DecideDelivery` is what
  launchClaudeFresh makes of the outcome. `LaunchProofs` has the proofs of both
  modules, beside those of `Launch`: the three describe one command.

Abstractions. A file is a text and a digest is the content it stands for; links
exist inside skill directories only, documents are plain files. Redaction and
the ids of revisions are left out, and so is the preparation of the invocation
directory, which is in `Launch`. A skill whose SKILL.md vanishes between the
listing and the reading is fingerprinted without it; the properties excuse
skills edited during the scan and things edited during the launch, where the
window between the check and the copy stays open. `DeliveredIsRecorded` further
excuses a reference whose directory is also that of another one (`Apart`,
section 5).

### Self-update (control plane)

* `SelfUpdate` has two processes per user, the foreground invocation and the
  detached checker, and one action per call on the lock file, the state file
  and the binary. Time is relative: a lock is fresh, stale or from the future, a
  check is due or not; `Pass` lets time go on, `ClockBack` corrects a clock,
  `Publish` brings a release.

Abstractions. The answers of GitHub, the list of checksums and the names of
assets are reduced to whether a newer, whole release is obtained. A checker does
not outlive the lock it holds, because its own timeouts are shorter. The parent
spawns the checker while it still holds the lock, and nothing orders the release
and the checker's own attempt: both orders are in the model. `stolen`
remembers that a lock which was not stale any more was removed as stale.

### Migration from the Go installer (control plane)

* `Migration` is the files of the old installation, which the Go installer
  replaces (`RemoveOld`, `PlaceNew`) and the user edits, the lifecycle row and
  the journal of each operation, and runs of migrate-agx: stat and read of each
  file, the check of the digests, then the statements on three connections that
  no transaction spans. `ImplementsOnce` maps the lifecycle row to `WriteOnce`.

Abstractions. The digest of a receipt names the migration, its deployment and
its operation, so one version number is all three. A file has an identity (what
lstat shows, different for each time it is placed) and a content; the files in
`Shared` have one content in all versions, so that a digest cannot tell which
version has placed them. `whole` remembers which versions a run could have seen
at one moment, in full and without the shared files, and `late` whether it read
the receipt while an installation was being removed. Creating a table is
idempotent and part of opening; a missing directory is a missing file; a file
that is torn is one changed by hand.

### Initialization of a deployment (Go)

* `Provisioning` is one command of `agx init` on GitHub, one action per command
  of gh: each succeeds, or reports an error with or without an effect. `file`
  is the receipt on the disk and `mem` the one in memory; the readings of the
  preflight, of Verify and of Revalidate are operators on the state of GitHub.
* `Initialization` EXTENDS it with the providers: intent, activation,
  compensation and its readback, uninitialization step by step, the verdict of
  `agx status`, a crash anywhere, and the user on GitHub and at the provider.
* `OwnershipLedger` is the promise of the package: claim durably before adding,
  take back only what is claimed and never what the user had there before, drop
  a claim only when the object is gone. `ImplementsLedger` is the refinement.

Abstractions. One command runs at a time. A plugin or Marketplace is present or
not and belongs to AGX or to the user, or to both (`raced`: the user has added
it while a receipt, on the disk or about to be written, claimed it; the code
cannot tell). `given` are the claims that a failed activation has given up. the
JSON of the providers is reduced to that. A repository is there, has the planned
commit, Issues and the template, or not. A repeated command repeats its options.
Not modelled: a deployment without a GitHub owner (initializeProvidersOnly),
receipts of earlier versions, evidence bindings beyond the list of providers,
and evidence.

### Installation (Go)

* `Installation` is the root directory: its directories, the receipt, the files
  with their content, something else the user has put there. Apply stages next
  to the root and renames; Uninstall inspects every file, checks and removes
  each, then the receipt, the empty directories and the root. Several processes
  run and none takes a lock. `raced` remembers an edit between the last check of
  a file and its removal, `overlap` an apply at work beside an uninstallation,
  `stranded` that the directories have lost the receipt that tells of them.

Abstractions. Download, checksum and extraction are the one step that makes the
private staging directory; a staging directory left by a crash is not looked at
by anybody.

## 3. What is checked

| Run | Instance | Question | States |
|---|---|---|---|
| `serial` | 1 process, repository + project + provider, 3 crashes, staged commits that are or are not the planned one, any place may be taken | do crashes, lost answers and other owners ever make the journal lie, duplicate an object or leave the saga? | @serial@ |
| `concurrent` | 2 processes, repository + project, 1 crash, both kinds of commit, symmetry | is the order of the plan kept, and is what is recorded as succeeded there, with two processes on one operation? | @concurrent@ |
| `rerun` | 1 process, repository + project + provider, `init` alone, 1 crash, every command works, fairness | is an interrupted operation taken up again by the command of the CLI? It is not: `InterruptedResumes` is expected to be violated (section 5) | @rerun@ |
| `fleet` | 2 processes, 2 profiles, 4 inodes, 1 crash, 1 faulty process, symmetry | is the profile written once, and are callers told the truth? | @fleet@ |
| `receipt_file` | the same, replacing | is what is at the path always one whole receipt, changed by successful calls only? | @receipt_file@ |
| `revisions` | 2 processes, 2 names, 3 ids, 2 columns, 1 crash, late lock waits, symmetry | is the history one list, whatever version the database had; and is what list, show and compare say of it whole and true? | @revisions@ |
| `launch` | 2 commands, 2 clients, 2 plans, 2 revisions of which OMP gets one in part, 2 accidents, symmetry | do plans stay legal and true, has all that is left of one its cause, is anything taken from a running client, and does status tell what happened? | @launch@ |
| `content` | 3 skills in 2 groups, 2 documents, 2 files a skill, 3 versions of the client, 1 edit, upgrade, fault and revision each | are candidates complete, is what a client is started with what was recorded, is every claim and refusal backed, does every launch come to a verdict? | @content@ |
| `self_update` | 2 users, 3 versions, 1 published meanwhile, 1 crash, failure or clock correction, fairness | does the binary survive, is it never downgraded, is an update announced once, is a checker started day after day? | @self_update@ |
| `migration` | 2 runs, 2 files of which one is equal in both versions, 1 edit, 1 killed run, 1 failed statement | is the row written once and by the run that says so, was the import on disk at one moment, is every operation settled that is not interrupted? | @migration@ |
| `initialization` | 2 providers, 1 plugin, 2 faults, 1 crash, 1 act of the user, 1 uninstallation | is what AGX added claimed unless it is given up, is success true, is the ledger kept, does running init again complete the deployment? | @initialization@ |
| `installation` | 2 processes, 2 bundles that share a file, 2 applies, 1 edit, 1 crash or failure, fairness | are changed files kept, are reports true, does uninstall take everything away? | @installation@ |

Bounds. A plan always has its kinds in the order repositories, project,
providers, so three or four steps contain every pair of kinds that can follow
each other; a crash per remote step is enough to interrupt and resume each of
them; two processes are enough for every race, because a statement of one
process only ever conflicts with one read of another. Four inodes are the name,
two temporary files and one to recycle. Three ids are a revision and two that
try to supersede it; two columns are one already there and one not, in every
combination; the content of rows is every assignment of the kinds of content to
them. Two launch plans are one to retire and one that takes its place, by two
commands that race to do so; two accidents are a launch that is damaged and a
second command, or a second damage, that finds it so. Three skills are two of
one group and one of another, which is the least that has an order between
files, between skills and between groups. Two versions of the old installation
are the one that is read and the one that replaces it; two files the one that is
already read and the one that is not; one of them is equal in both versions, the
other tells them apart. Two faults in `initialization` are the one that starts a
compensation and the one that disturbs it; two providers are all the program
has, with one plugin there are a Marketplace and a plugin at each. `MaxCrashes`
bounds crashes, `MaxAccidents` and `MaxMishaps` crashes, faults and clocks
together, `MaxPlans`, `MaxApplies`, `MaxUninits` and `MaxRevisions` commands,
`MaxEdits` and `MaxMeddles` what users do, `MaxUpgrades` and `MaxPublished`
other programs; everything else is bounded by what the code does.
`CHECK_DEADLOCK FALSE` where commands, ids or plans run out.

Fairness. `rerun`, `content`, `self_update`, `migration`, `initialization` and
`installation` assume some. A running process goes on: it is scheduled, and each
of its calls returns (weak fairness of its steps; in `migration` written without
ENABLED, as: a run is at rest again and again, or it moves again and again).
Where a property is about a command that is given again, so is the command:
`BeginInit` in `rerun`, `Run` in `initialization`, `BeginUninstall` in
`installation`, and in `self_update` `Invoke`, as long as the binary is there.
This is the user who wants the command to succeed, and the property says that
the code then gets somewhere. All four are entry points of the CLI. Of `apply`,
`recover` and `resolve` of a deployment no fairness is assumed, because no
command reaches them; so nothing is claimed to complete or to resume there, and
`rerun` shows what the one command that exists makes of an interrupted
operation. `self_update` moreover has, again and again, a moment at which none
of its processes is at work, and lets days pass in such moments; this is how
short a process lives. Nothing orders the checker and its parent. Nothing is
assumed about remote commands: the choice between work and failure inside an
action is never fair, only bounded. Symmetry is only used with safety.

Operators whose comment starts with "Mistaken" are plausible bugs that no
specification uses: each run is repeated with one of them in place of the real
definition, to see that its property notices.

## 4. What is proved

Every safety property that a run checks is also a theorem, for all values of the
constants; three of these theorems, on the deployment, are about one process
only, for the reason given below. `PROJECT.json` lists the theorems. Each module
has an inductive invariant (`Inductive`; `Serial` and `ContentInductive` beside
it) that TLC has checked on the module's instance before it was proved. This
section says what the invariants add to the properties, and why they are needed.

**Deployment** (`DeploymentApplyProofs`). For any number of runners, steps,
crashes and places taken, `Inductive` says what a runner knows about the durable
state at each label (`Knows`), although it looked long ago. This is inductive
because revisions only grow, objects are never removed and an operation never
becomes unstarted (lemma `KnowledgeStays`), so the knowledge of the runners that
do not move survives every step, and each action is looked at for the runner
that moves only. `PlanOrder`, `SucceededIsBacked` and `StartedBeforeCreated`
follow. The second half assumes `OneProcess`: a runner that is alone, as the CLI
is unless a user starts two. `Serial` then says that the runner's copy of the
journal is the journal, that the steps are a row of succeeded ones, at most one
that is being done or in doubt, and pending ones (`Shape`), and that a step has
made at most one object (`Objects`), whatever crashes and lost answers there
have been. It gives `NoDuplicate`, `NoFalseSuccess` and, action by action, the
refinement of `DeploymentSaga`. With two processes these are not promised: both
may create before either records.

**Fleet profile** (`FleetLifecycleProofs`). For any number of processes, inodes,
profiles and crashes, answers are true, losing the race is no error, nothing is
overwritten, and the module implements `WriteOnce`. The strengthening says which
inode belongs to whom: a temporary file is private to the process that created
it until the link, so nobody else writes what is about to be published, and
whatever the name is bound to is whole. The same module proves the replacing
mode, as an instance of `ReceiptFile` (the two assume opposite values of
`RequireAbsent`, so one module cannot extend both): the receipt is never torn
(`NeverTorn`) and changes only by a rename of a whole one
(`OnlyWholeReplacements`).

**Configuration revisions** (`ConfigRevisionsProofs`). For any number of
processes, names, columns and revisions, the history is linear and grounded,
answers are true, races to convert and migrate are no errors, and the store
implements `RevisionHistory`, step by step. The strengthening ties the ids in use
to the processes and rows they belong to, and says that a process is past the
migration only if the columns and the index are there or `late` is TRUE: this is
what makes the lookup on another connection safe, since the unique index judges
again at the insert. On top of it are the queries. `ComparisonIsHonest` holds of
any store, any set of revisions compared and any damage. `ChainIsWhole` is about
two walks, each a recursive function of the number of steps. The proof shows, by
the least number of steps at which it would fail, that such a function exists,
that the walk is always a part of the history in order (`Line`), and that every
step of it that is not its end goes to a row strictly nearer to the first row,
or to the last one. So both walks have come to their ends after as many steps as
there are rows, and a revision that they missed would supersede one that already
has a successor.

**Launch plans** (`LaunchProofs`, first part). The rows of a plan are written by
several commands, not all of them comparing with what is there. What makes that
safe is `OwnerInv`: from `Save` to its end the command that made a plan is the
only one to work on it, because `switch` takes up only plans of OMP whose client
has ended well. So what a command knows of its row, client and directory stays
true (`OwnerOK`), a row that is unfinished has a command at work on it or a
accident to blame (`RowInv`, which says which accident leaves what: a killed
command any phase in the middle, a context that could not be written the phase
applying, without a client), and no two plans have the same creation time
(`TimeInv`). `Truthful`, `DirWhileRunning`, `NothingLeftBehind`, `StatusIsTrue`
and the action property `LegalSteps` follow for any commands, revisions and
bounds.

**Supply and the content of a launch** (`LaunchProofs`, second part). A
fingerprint is read file by file from a library that may change between two
files, and so is the copy. `ContentInductive` says of every step between two
files what has been read or copied so far: exactly the thing as it is now
without the files still to come, if nobody has edited it since. An edit makes
that vacuous for one thing and leaves it alone for the others. From this,
`CandidateIsComplete`, `DeliveredIsRecorded`, `ClaimsAreTrue` and
`BlamedForCause`, for any library, declarations, candidates and versions of the
client. `ClaimsAreTrue` says of every option that is passed that the probed
client has it, but for the two the code passes regardless (section 5), and says
in which launches those are.

**Self-update** (`SelfUpdateProofs`). Until a lock that was not stale any more
has been removed (`stolen`), one process at most is past `Open` and it has the
lock (`ExclusionInv`); therefore a checker's knowledge of the binary, its
backups and the temporary file stays true (`BinaryInv`, `CheckerOK`), which gives
`BinarySurvives` and `NeverDowngrades`. `AnnouncedOnce` needs a second layer
that holds while there is no mishap (`CalmInv`): no lock goes stale, one checker
runs at a time, and the notice of an update is in exactly one place, the state
file, the memory of one process or the terminal.

**Migration** (`MigrationProofs`). A run reads the receipt and then the files it
lists, while the old installer may replace all of them. `Honest` says why the
digests are enough for the files that tell the versions apart: once a run has
seen the receipt of version v, these have been on disk together, or one the run
has still to look at has left v for good, and the run will refuse it. About the
shared files this says nothing, since a later version satisfies their digest. A
second layer (`EntireInv`, on top of `Inductive`) has them too, unless the
receipt was read during a removal: at any other time a readable receipt is that
of the installed version, of which everything is there but what the user has
changed, and the installer removes nothing while something is changed, so that
the run meets the change (`Doubt`). Together they give `WholeAtOnce`.
`OutcomesAreTrue` and the refinement of `WriteOnce` by the lifecycle row come
from `RecordInv`: what the row and the journal of an operation are at each
statement of a run, and that an operation nobody has started has left no trace.

**Initialization** (`InitializationProofs`). `ClaimsInv` says at which points of
a command the claims in memory are those on disk, and at which they contain or
are contained in them, for what AGX has added and not given up (`Kept`); a
failure at a provider moves the claims on the providers after it from the one to
the other (`given`), which is why nothing of the first is ever among them.
`PhaseInv` and `PlaceInv` say where the receipt and the command are; `WorldInv`
says that what was read remains so while the user keeps away from it (`calm`),
which begins anew with each command. `NothingLost`, `SuccessIsTrue` and the
refinement of `OwnershipLedger` are proved for any number of providers and
plugins, failures, crashes and acts of the user.

**Installation** (`InstallationProofs`). The files of a receipt are all that apply
has made (`ReceiptInv`); no apply is at work beside an uninstallation unless
`overlap` says otherwise (`ApartInv`), while uninstallations may meet each
other; what is about to be removed is not the user's unless `raced`
(`UsersInv`); and what a command has looked at is as it was found, as long as it
has not been disturbed (`ExamineOK`, `RemoveOK`). `KeepsTheUsers` and
`ReportsAreTrue` follow for any bundles, files, commands and edits.

The proofs rest on the named assumptions of the modules and on nothing else:
that special values are none of the ordinary ones, that bounds are natural
numbers, that a plan has a step and a migration a last column, that every bundle
owns a file, that the names of providers differ and no plugin has the tag under
which a Marketplace is claimed, that a library holds files for what it lists,
that a candidate that parses names what can be a reference, and that the help
shows no values for an option that takes none.

Model-checked only: liveness (`Resumes`, `ChecksGoOn`, `CleansUp`, the two
`Settles`, and that `InterruptedResumes` is violated), which is beyond the
prover. Induction over data is as well, but for what can be
said with the least element of a set of numbers: the walks of a chain are the
one place where a proof goes through a recursive definition. Type invariants
that no run lists document the state of their module, and are proved.

## 5. Where the code and its words disagree

Each of these was met while modelling. The first entry is a run of its own; the
rest of the first group is reproduced with the property and the constants given
here in a copy of the configuration of the module's run; the second group can be
read off the code, and the properties named there say so in their formulas.

* `InterruptedResumes` of `DeploymentApply` (run `rerun`): init runs its preflight
  before it looks at the journal, so a second init collides with what the first
  created, and the operation stays `applying` for ever, against
  `openspec/changes/configs-primary-migration/design.md:137`.
* `OneSpawn` of `SelfUpdate`, with two users, one version and one mishap: two
  invocations find the lock of a killed process stale; the second removes the
  lock the first has just taken (check-state.ts:99), and both start a checker,
  against check-state.ts:14.
* `Completes` of `DeploymentApply`, with `Staged = {"other"}`, `Reliable = TRUE`,
  no crash and the fairness of `rerun`: provisioning stages and pushes a commit
  of its own, whose name contains the time (github/repository.ts:203), and the
  readback compares with the commit of the input document, so a repository step
  ends as inconclusive. git runs with PATH and GH_HOST of the environment only
  (command-port.ts), so the time cannot be set from outside.
* `UpgradeWaits` of `ConfigRevisions`, with `MaxCrashes = 0` and
  `MayBeLate = FALSE`: two processes open a database from before the deployment
  tables; the migration reads before it writes in one deferred transaction, and
  the one that is overtaken fails at once instead of waiting.
* `RefusedOnlyWhileRunning` of `Launch`, with two plans and no accidents: a plan
  is `succeeded` or `degraded` only after its Claude Code has ended, yet such a
  plan is taken for one that is running, and the next `use` is refused.

* Deployment: a step can be resolved once; if it becomes inconclusive again the
  primary key of `operation_resolution` refuses the second resolution
  (operation-journal.ts:79). A repository that was read back after a failed
  create never gets `--enable-issues` (github/repository.ts:287-289): it counts
  as created, and a Project linked to it is never confirmed.
* Migration: `openspec/changes/configs-primary-migration/design.md:88` has "one
  transactional migration run"; the code uses three connections and no
  transaction. A run killed between the row and the journal leaves the row
  written and the operation applying for ever, and a new run is refused. A
  readback that fails marks a migration that is stored as needing cleanup. A
  receipt that is read while its installation is removed, and a file that the
  next installation has placed but that is equal in both, pass the digests
  (receipt-importer.ts:106-110): what is imported was then never on disk at one
  moment, although nothing in it is of another version (`WholeAtOnce`, `late`).
* Status of a deployment:
  `openspec/changes/configs-primary-migration/specs/configs-primary-migration/spec.md:97`
  has `configs status` present the operation stage and the next action.
  `prepare` writes `last_operation_id` as NULL (operation-journal.ts:52) and
  nothing sets it later, so projectStatus (domain/status.ts) calls every
  deployment of `init` preflight-blocked, whatever its operation has come to;
  and so every migration, whose revision id is that of its operation and names
  no stored revision.
* Launch: a context that cannot be written (claude-launch.ts:573) leaves the
  plan applying for ever, without a client, although every failure path "returns
  (never throws)" a valid phase (claude-launch.ts:385). A plan that is shown
  only, because its revision has become unreadable (cli/index.ts:802-811), stays
  awaiting a confirmation that nobody is asked for. `NothingLeftBehind` names
  both.
* Self-update: the checker compares with the version that runs, so a withdrawn
  release or a clock put back installs and announces one twice. A release of the
  lock unlinks whatever lock is there. A lock with a time in the future blocks
  until that time. With two checkers (`stolen`) a torn binary can land. The
  checker is spawned under the lock it needs itself (cli/index.ts:1706, released
  at :1709): one that is faster than its parent gives up, the cooldown is
  already written, and the check of the day is lost; nothing keeps this from
  happening every day. `ChecksGoOn` therefore ends with the checker's start.
* Installation: an uninstallation that overlaps an apply can remove the receipt
  of the new installation (install.go:347). A crash between the removal of the
  receipt and of the root leaves a root that both apply and uninstall refuse
  (`CleansUp`: `overlap`, `stranded`).
* Initialization, success: a contracts repository that was created without its
  answer and kept as uncertain, and that the user then removes, is dropped by
  the next init (activation.go:429-432), which reports success (:618-622) while
  status reports drift. A visibility of the Project that the user changes while
  a command links it is recorded as read (project.go:206-231, 444-452), not as
  asked for, and confirmed ever after. `SuccessIsTrue` names both.
* Initialization, claims: after a failure at the first provider the receipt keeps
  the providers up to that one (activation.go:720-725), so what an interrupted
  run has added to the second is claimed by nobody once the compensation has
  succeeded, although "an interrupted command can then be reconciled or safely
  uninitialized" (activation.go:702). `NothingLost` and the ledger say exactly
  this (`given`). A receipt with the first of two providers is no valid receipt,
  so a manual cleanup at one that is not the last is not recorded.
* Initialization, otherwise: a Project created without its answer, with an
  inventory that cannot be read, is a collision until the user removes it. The
  compensation does not look at the source of a Marketplace again
  (activation.go:1356). What the user adds between the inventory (:691) and the
  write of the intent (:716) is claimed, and may be removed. Two `agx init` at
  once are not kept apart.
* Content: two skills whose names differ only in a first "." or "_" are copied
  into one directory, although content-materializer.ts:68 calls the mapping
  collision-safe; the run has names that differ otherwise. `--strict-mcp-config`
  is passed to a client whose help lacks it when the scope alone matched; the
  launch is then called degraded. The probe does not look for `--mcp-config`
  at all. `ClaimsAreTrue` names both. Two
  MCP servers of one name in a candidate written by hand overwrite one another.
* Revisions: after a lock wait that ran out the unique index may be missing, two
  revisions may then supersede one, and the chain shows one of the branches.

## 6. Not modelled

`recover` and `resolve` are reached by tests and by no command; they are
modelled as the functions they are, and nothing about their being called is
assumed. Parsing and
rendering, i18n, colours, option parsing and the JSON of command output carry
no state. Reads of the control plane that project stored operations
(`readonly-status.ts`, `diagnose.ts`) write nothing. The decisions of first use
and bootstrap have no caller outside tests, nor have `cap-fs.ts`,
`repository.Provision` and `revoke`. `PROJECT.json` gives the reason for every
component left out and, for each hazard no property covers, the reason for that.

## 7. Plan

Done: the deployment with its journal and saga; metadata files, the fleet
profile and the receipt file; configuration revisions, their history and the
queries; launch plans; supply and the content of a launch; self-update;
migration; initialization with its ledger; installation. The safety properties
of all of them are proved.

Next, in this order:

1. The deployment with two processes: what is left of `Serial`, stated as the
   number of objects a step can have at most, and its proof.
2. `Decisions`: evidence of the Go installer (verdict, freshness, ambiguity) as
   operators checked against reference definitions over bounded inputs.
