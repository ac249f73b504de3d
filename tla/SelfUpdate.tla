------------------------------ MODULE SelfUpdate ------------------------------
(***************************************************************************)
(* The self-update of `configs` (adapters/self-update, cli/index.ts): each *)
(* foreground invocation announces an update that has landed, and once per *)
(* cooldown starts a detached checker, which downloads a newer release and *)
(* puts it in the place of the binary.  They share a lock file, a state    *)
(* file and the binary; every file-system call is a step.                  *)
(*                                                                         *)
(* Time is relative: the age of the lock and that of the last check.       *)
(***************************************************************************)
EXTENDS Integers, FiniteSets

CONSTANTS
  Users,        \* foreground invocations at one time
  MaxVersion,   \* releases are 1..MaxVersion
  MaxPublished, \* bound on new releases
  MaxMishaps    \* bound on crashes, failures and clock corrections together

ASSUME SelfUpdateAssumption ==
  MaxVersion \in Nat \ {0} /\ MaxPublished \in Nat /\ MaxMishaps \in Nat

VARIABLES
  lock,      \* self-update.json.lock: "none", or its age
  state,     \* self-update.json
  exec,      \* the binary at execPath
  bak,       \* execPath.<version>.bak
  temp,      \* execPath.download
  latest,    \* the latest release
  agent,     \* per user its foreground process and the checker it started
  spawned,   \* checkers started since the last check became due
  announced, \* the versions announced, and how often
  stolen,    \* a lock that was not stale any more has been removed as stale
  published, crashes, faults, clockBacks

binary == <<exec, bak, temp>>
story  == <<spawned, announced, stolen>>
bounds == <<published, crashes, faults, clockBacks>>
vars   == <<lock, state, binary, latest, agent, story, bounds>>

Agents   == Users \X {"foreground", "checker"}
Versions == 1..MaxVersion
None     == 0
Torn     == MaxVersion + 1                \* a file cut short
Files    == Versions \cup {None, Torn}
LockAges  == {"none", "fresh", "stale", "future"}
CheckAges == {"never", "recent", "due", "future"}

\* notice: pendingNoticeVersion.  A file that cannot be parsed reads as Empty.
States == [checked : CheckAges, notice : Versions \cup {None}]
Empty  == [checked |-> "never", notice |-> None]

\* version: of the running code.  seen: the state that was read.  got: the
\* version that was downloaded, then the one that was put in place.
Idle == [pc |-> "idle", goal |-> "none", version |-> None, seen |-> Empty, got |-> None]

Init ==
  /\ lock = "none" /\ state = Empty /\ exec \in Versions /\ latest = 1
  /\ bak = [v \in Versions |-> None] /\ temp = None
  /\ agent = [a \in Agents |-> Idle]
  /\ spawned = 0 /\ announced = [v \in Versions |-> 0] /\ stolen = FALSE
  /\ published = 0 /\ crashes = 0 /\ faults = 0 /\ clockBacks = 0

-----------------------------------------------------------------------------
At(a, pc)    == agent[a].pc = pc
Goal(a)      == agent[a].goal
Version(a)   == agent[a].version
Becomes(a, to) == agent' = [agent EXCEPT ![a] = to]
Goto(a, pc)  == Becomes(a, [agent[a] EXCEPT !.pc = pc])
Mishap       == crashes + faults + clockBacks < MaxMishaps
Fault        == Mishap /\ faults' = faults + 1
Fine         == UNCHANGED faults
\* What an agent's step may change besides lock, state and binary.
Rest == UNCHANGED <<latest, published, crashes, clockBacks>>

\* A foreground process goes on to scheduleSelfUpdateCheck after the notice.
Leave(a) == Becomes(a, IF Goal(a) = "notice" THEN [Idle EXCEPT !.pc = "stat", !.goal = "check"]
                       ELSE Idle)
\* At the end of the critical section nothing that was read is used any more.
End(a) == Becomes(a, [Idle EXCEPT !.pc = "release", !.goal = Goal(a)])

\* The user runs configs.  `--version` announces nothing.
Invoke(u) ==
  LET a == <<u, "foreground">> IN
  /\ At(a, "idle") /\ exec \in Versions
  /\ \/ Becomes(a, [Idle EXCEPT !.pc = "stat", !.goal = "notice", !.version = exec])
     \/ Becomes(a, [Idle EXCEPT !.pc = "stat", !.goal = "check"])
  /\ UNCHANGED <<lock, state, binary, story, faults>> /\ Rest

-----------------------------------------------------------------------------
(* acquireSelfUpdateLock: stat, unlink if it is stale, open exclusively.   *)

\* Mistaken: a lock never goes stale.
StatForever(a) ==
  /\ At(a, "stat")
  /\ IF lock = "none" THEN Goto(a, "open") ELSE Leave(a)
  /\ UNCHANGED <<lock, state, binary, story, faults>> /\ Rest

Stat(a) ==
  /\ At(a, "stat")
  /\ CASE lock = "none"  -> Goto(a, "open")
       [] lock = "stale" -> Goto(a, "unlink")
       [] OTHER          -> Leave(a)
  /\ UNCHANGED <<lock, state, binary, story, faults>> /\ Rest

\* Whatever lock is there now.
UnlinkStale(a) ==
  /\ At(a, "unlink") /\ lock' = "none" /\ Goto(a, "open")
  /\ stolen' = (stolen \/ lock \in {"fresh", "future"})
  /\ UNCHANGED <<state, binary, spawned, announced, faults>> /\ Rest

Open(a) ==
  /\ At(a, "open")
  /\ \/ /\ lock = "none" /\ lock' = "fresh" /\ Fine
        /\ Goto(a, IF Goal(a) = "update" THEN "fetch" ELSE "read")
     \/ (IF lock = "none" THEN Fault ELSE Fine) /\ Leave(a) /\ UNCHANGED lock
  /\ UNCHANGED <<state, binary, story>> /\ Rest

Release(a) ==
  /\ At(a, "release") /\ lock' = "none" /\ Leave(a)
  /\ UNCHANGED <<state, binary, story, faults>> /\ Rest

-----------------------------------------------------------------------------
(* self-update.json: read, then truncated and written.                     *)

\* isCheckDue: a time in the future counts as due.
Due(s) == s.checked # "recent"

Read(a) ==
  /\ At(a, "read") /\ Fine
  /\ LET wanted == CASE Goal(a) = "notice" -> state.notice # None /\ state.notice = Version(a)
                     [] Goal(a) = "check"  -> Due(state)
                     [] OTHER              -> TRUE IN
     IF wanted THEN Becomes(a, [agent[a] EXCEPT !.seen = state, !.pc = "truncate"])
     ELSE End(a)
  /\ UNCHANGED <<lock, state, binary, story>> /\ Rest

Announce(a) == announced' = [announced EXCEPT ![Version(a)] = IF @ = 2 THEN 2 ELSE @ + 1]

\* A failed write is passed over: the notice is printed all the same, and no
\* checker is started that could not be throttled.
Truncate(a) ==
  /\ At(a, "truncate") /\ UNCHANGED <<lock, binary, spawned, stolen>> /\ Rest
  /\ \/ state' = Empty /\ Goto(a, "write") /\ Fine /\ UNCHANGED announced
     \/ /\ Fault /\ state' \in {state, Empty} /\ End(a)
        /\ IF Goal(a) = "notice" THEN Announce(a) ELSE UNCHANGED announced

\* Mistaken: the notice of an earlier update is not kept.
WrittenFresh(a) ==
  LET seen == agent[a].seen IN
  CASE Goal(a) = "notice" -> [seen EXCEPT !.notice = None]
    [] Goal(a) = "check"  -> [seen EXCEPT !.checked = "recent", !.notice = None]
    [] OTHER -> [checked |-> "recent", notice |-> agent[a].got]

\* What is written: the other field is the one that was read.
Written(a) ==
  LET seen == agent[a].seen IN
  CASE Goal(a) = "notice" -> [seen EXCEPT !.notice = None]
    [] Goal(a) = "check"  -> [seen EXCEPT !.checked = "recent"]
    [] OTHER -> [checked |-> "recent",
                 notice |-> IF agent[a].got # None THEN agent[a].got ELSE seen.notice]

Write(a) ==
  /\ At(a, "write") /\ UNCHANGED <<lock, binary, spawned, stolen, faults>> /\ Rest
  /\ state' = Written(a)
  /\ IF Goal(a) = "check" THEN Becomes(a, [Idle EXCEPT !.pc = "spawn", !.goal = "check"])
     ELSE End(a)
  /\ IF Goal(a) = "notice" THEN Announce(a) ELSE UNCHANGED announced

\* spawnSelfUpdateWorker, under the lock: it runs the file that is there now.
Spawn(a) ==
  LET checker == <<a[1], "checker">> IN
  /\ At(a, "spawn") /\ At(checker, "idle")
  /\ spawned' = IF spawned = 2 THEN 2 ELSE spawned + 1
  /\ agent' = [agent EXCEPT
       ![a].pc = "release",
       ![checker] = IF exec \in Versions
                      THEN [Idle EXCEPT !.pc = "stat", !.goal = "update", !.version = exec]
                      ELSE Idle]
  /\ UNCHANGED <<lock, state, binary, announced, stolen, faults>> /\ Rest

-----------------------------------------------------------------------------
(* checkAndApply: every failure ends in null, and the state is updated.    *)

Failed(a, pc) == Becomes(a, [agent[a] EXCEPT !.pc = pc, !.got = None])
Updating == UNCHANGED <<lock, state, story>> /\ Rest

\* Mistaken: any other version is an update.
FetchAny(a) ==
  /\ At(a, "fetch") /\ Updating /\ UNCHANGED binary /\ Fine
  /\ IF latest # Version(a)
       THEN Becomes(a, [agent[a] EXCEPT !.pc = "create_temp", !.got = latest])
       ELSE Failed(a, "read")

\* fetchReleaseMetadata, isNewerVersion, the downloads and their checksum.
Fetch(a) ==
  /\ At(a, "fetch") /\ Updating /\ UNCHANGED binary
  /\ \/ /\ latest > Version(a) /\ Fine
        /\ Becomes(a, [agent[a] EXCEPT !.pc = "create_temp", !.got = latest])
     \/ (IF latest > Version(a) THEN Fault ELSE Fine) /\ Failed(a, "read")

\* replaceBinary: the temporary file comes first.
CreateTemp(a) ==
  /\ At(a, "create_temp") /\ Updating /\ UNCHANGED <<exec, bak>>
  /\ \/ temp' = Torn /\ Fine /\ Goto(a, "write_temp")
     \/ Fault /\ UNCHANGED temp /\ Failed(a, "read")

\* Another checker may have moved the open file to the path of the binary.
WriteTemp(a) ==
  /\ At(a, "write_temp") /\ Updating /\ UNCHANGED bak
  /\ \/ /\ Fine /\ Goto(a, "backup")
        /\ IF temp = None /\ exec = Torn THEN exec' = agent[a].got /\ UNCHANGED temp
           ELSE temp' = agent[a].got /\ UNCHANGED exec
     \/ Fault /\ UNCHANGED <<exec, temp>> /\ Failed(a, "read")

Backup(a) ==
  /\ At(a, "backup") /\ Updating /\ UNCHANGED temp
  /\ \/ /\ exec # None /\ Fine /\ Goto(a, "replace")
        /\ bak' = [bak EXCEPT ![Version(a)] = exec] /\ exec' = None
     \/ /\ (IF exec # None THEN Fault ELSE Fine)
        /\ UNCHANGED <<exec, bak>> /\ Failed(a, "clean")

Replace(a) ==
  /\ At(a, "replace") /\ Updating /\ UNCHANGED bak
  /\ \/ /\ temp # None /\ Fine /\ Goto(a, "clean")
        /\ exec' = temp /\ temp' = None
     \/ /\ (IF temp # None THEN Fault ELSE Fine)
        /\ UNCHANGED <<exec, temp>> /\ Failed(a, "restore")

\* Mistaken: a failed replacement is not undone.
RestoreNothing(a) ==
  At(a, "restore") /\ Updating /\ UNCHANGED binary /\ Fine /\ Failed(a, "clean")

Restore(a) ==
  /\ At(a, "restore") /\ Updating /\ UNCHANGED temp
  /\ LET saved == bak[Version(a)] IN
     \/ /\ saved # None /\ Fine
        /\ exec' = saved /\ bak' = [bak EXCEPT ![Version(a)] = None]
     \/ (IF saved # None THEN Fault ELSE Fine) /\ UNCHANGED <<exec, bak>>
  /\ Failed(a, "clean")

Clean(a) ==
  /\ At(a, "clean") /\ Updating /\ UNCHANGED <<exec, bak>>
  /\ temp' = None /\ Fine /\ Goto(a, "read")

-----------------------------------------------------------------------------
(* The world: releases, time, the clock, and the end of a process.         *)

Publish ==
  /\ published < MaxPublished /\ published' = published + 1
  /\ latest' \in {v \in Versions : v > latest}
  /\ UNCHANGED <<lock, state, binary, agent, story, crashes, faults, clockBacks>>

Resting == \A a \in Agents : At(a, "idle")
\* More than ten minutes go by, or a day.  No process takes that long: the
\* timeouts of a checker are five and twice thirty seconds.
Pass(day) ==
  /\ Resting
  /\ lock' = IF lock = "none" THEN "none" ELSE "stale"
  /\ state' = IF day /\ state.checked # "never" THEN [state EXCEPT !.checked = "due"] ELSE state
  /\ spawned' = IF day THEN 0 ELSE spawned
  /\ UNCHANGED <<binary, latest, agent, announced, stolen, bounds>>

\* The clock is set back: what was stamped lies in the future.
ClockBack ==
  /\ Mishap /\ clockBacks' = clockBacks + 1
  /\ lock' = IF lock = "none" THEN "none" ELSE "future"
  /\ state' = IF state.checked = "never" THEN state ELSE [state EXCEPT !.checked = "future"]
  /\ UNCHANGED <<binary, latest, agent, story, published, crashes, faults>>

Crash(a) ==
  /\ ~At(a, "idle") /\ Mishap /\ crashes' = crashes + 1 /\ Becomes(a, Idle)
  /\ UNCHANGED <<lock, state, binary, latest, story, published, faults, clockBacks>>

-----------------------------------------------------------------------------
Step(a) ==
  Stat(a) \/ UnlinkStale(a) \/ Open(a) \/ Release(a) \/ Read(a) \/ Truncate(a)
  \/ Write(a) \/ Spawn(a) \/ Fetch(a) \/ CreateTemp(a) \/ WriteTemp(a)
  \/ Backup(a) \/ Replace(a) \/ Restore(a) \/ Clean(a)

Next ==
  \/ \E a \in Agents : Step(a) \/ Crash(a)
  \/ \E u \in Users : Invoke(u)
  \/ \E day \in BOOLEAN : Pass(day)
  \/ Publish \/ ClockBack

Spec == Init /\ [][Next]_vars
\* Every process goes on; configs is run again and again, as long as its binary
\* is there; and again and again none of its processes is at work here (which
\* takes them moments, a checker a minute), and then days go by.
FairSpec ==
  /\ Spec /\ \A a \in Agents : WF_vars(Step(a))
  /\ SF_vars(\E u \in Users : Invoke(u))
  /\ []<>Resting /\ SF_vars(Pass(TRUE))

-----------------------------------------------------------------------------
(* Properties.                                                             *)

Pcs == {"idle", "stat", "unlink", "open", "release", "read", "truncate",
        "write", "spawn", "fetch", "create_temp", "write_temp", "backup", "replace",
        "restore", "clean"}

Processes == [pc : Pcs, goal : {"none", "notice", "check", "update"},
              version : Versions \cup {None}, seen : States,
              got : Versions \cup {None}]

TypeOK ==
  /\ lock \in LockAges /\ state \in States /\ latest \in Versions
  /\ exec \in Files /\ bak \in [Versions -> Files] /\ temp \in Files
  /\ agent \in [Agents -> Processes]
  /\ spawned \in 0..2 /\ announced \in [Versions -> 0..2] /\ stolen \in BOOLEAN
  /\ published \in 0..MaxPublished /\ {crashes, faults, clockBacks} \subseteq Nat
  /\ crashes + faults + clockBacks <= MaxMishaps

Undisturbed == crashes = 0 /\ faults = 0 /\ clockBacks = 0

\* A process killed or a rename that fails never costs the binary: what is at
\* its path is whole, or it is not there and a backup is; and that it is not
\* there outlives the checker only after a crash or two failures in one run.
BinarySurvives == ~stolen =>
  /\ exec # Torn
  /\ exec = None => /\ \E v \in Versions : bak[v] \in Versions
                    /\ \/ \E a \in Agents : agent[a].pc \in {"replace", "restore"}
                       \/ crashes > 0 \/ faults > 1

\* "Missing a real update because of an unparsable version string is an
\* acceptable failure mode; silently downgrading is not"
\* (version-compare.ts:18): the binary is never older than one it has replaced,
\* also when it was newer than the latest release.
NeverDowngrades ==
  ~stolen /\ exec \in Versions => \A v \in Versions : bak[v] <= exec

\* Expected, and not so once a lock is stale (README.md, section 5):
\* "two `configs` invocations racing at the cooldown boundary must not both
\* spawn a checker" (check-state.ts:14).
OneSpawn == faults = 0 /\ clockBacks = 0 => spawned <= 1

\* An update that has landed is announced once: until then its notice is in the
\* state file, or in the hands of the process that is writing it.
AnnouncedOnce ==
  Undisturbed =>
    /\ \A v \in Versions :
         \/ announced[v] = 0
         \/ announced[v] = 1 /\ \E w \in Versions : bak[w] \in 1..(v - 1)
    /\ exec \in Versions /\ (\E w \in Versions : bak[w] # None) =>
         \/ announced[exec] = 1 \/ state.notice = exec
         \/ \E a \in Agents :
              \/ agent[a].got = exec
              \/ At(a, "write") /\ agent[a].seen.notice = exec

\* Crashes, failures and clock corrections being finite, a checker is started day
\* after day, unless a crash has left no whole binary: no lock of a killed process
\* stands in the way for ever, and invocations that find the lock taken by one
\* another do not all miss the check.  (Whether the checker gets the lock is
\* another matter: README.md, section 5.)
ChecksGoOn == <>[](exec \notin Versions) \/ []<>(spawned > 0)
=============================================================================
