---------------------------- MODULE FleetLifecycle ----------------------------
(***************************************************************************)
(* internal/fleet: Apply publishes a Deployment Profile once, below a root *)
(* that several processes may use at the same time.  A profile is its      *)
(* content digest; every process may apply any of Contents, and Garbage is *)
(* what does not parse.                                                    *)
(***************************************************************************)
EXTENDS MetadataFile

CONSTANTS
  Profiles,   \* profiles that are applied
  Garbage     \* contents that do not parse as a profile

ASSUME ProfileAssumption ==
  /\ Profiles \subseteq Contents
  /\ Garbage \notin Profiles
  /\ NoInode \notin Contents
  /\ RequireAbsent = TRUE

VARIABLES
  asked,   \* asked[p]: the profile of the last call of Apply in p
  stage,   \* stage[p]: where that call is
  answer,  \* answer[p]: what it has returned
  edited   \* somebody has edited or deleted the file by hand

applyVars == <<asked, stage, answer, edited>>
vars == <<fileVars, applyVars>>

Stages  == {"idle", "resolve", "publish", "again"}
Answers == {"none", "ok", "drift", "error"}

TypeOK ==
  /\ FileTypeOK
  /\ asked \in [Processes -> Profiles \cup {Garbage}]
  /\ stage \in [Processes -> Stages]
  /\ answer \in [Processes -> Answers]
  /\ edited \in BOOLEAN

Init ==
  /\ FileInit
  /\ asked = [p \in Processes |-> Garbage]   \* the zero profile
  /\ stage = [p \in Processes |-> "idle"]
  /\ answer = [p \in Processes |-> "none"]
  /\ edited = FALSE

\* Apply returns.
Return(p, a) ==
  /\ stage' = [stage EXCEPT ![p] = "idle"]
  /\ answer' = [answer EXCEPT ![p] = a]
  /\ UNCHANGED <<asked, edited>>

\* Apply is called with a profile that ValidateProfile accepts.
BeginApply(p, v) ==
  /\ stage[p] = "idle"
  /\ asked' = [asked EXCEPT ![p] = v]
  /\ stage' = [stage EXCEPT ![p] = "resolve"]
  /\ answer' = [answer EXCEPT ![p] = "none"]
  /\ UNCHANGED <<fileVars, edited>>

\* resolveAgainstExisting with a profile that is there.
AgainstExisting(p) ==
  /\ ~Absent
  /\ \/ Holds(asked[p]) /\ Return(p, "ok")
     \/ /\ \E v \in Profiles \ {asked[p]} : Holds(v)
        /\ Return(p, "drift")
     \/ ~(\E v \in Profiles : Holds(v)) /\ Return(p, "error")
  /\ UNCHANGED fileVars

ReadFails(p) == p \in Faulty /\ Return(p, "error") /\ UNCHANGED fileVars

Resolve(p) ==
  /\ stage[p] = "resolve"
  /\ \/ AgainstExisting(p)
     \/ ReadFails(p)
     \/ /\ Absent
        /\ BeginWrite(p, asked[p])
        /\ stage' = [stage EXCEPT ![p] = "publish"]
        /\ UNCHANGED <<asked, answer, edited>>

\* publishProfile: WriteFileAtomic with requireAbsent.
Publish(p) ==
  /\ stage[p] = "publish"
  /\ WriteStep(p)
  /\ UNCHANGED applyVars

\* Mistaken: a lost race counts as an idempotent success.
PublishedAnyway(p) ==
  /\ stage[p] = "publish" /\ w[p].pc = "done"
  /\ Writes(p, IdleWrite)
  /\ Return(p, IF w[p].result = "error" THEN "error" ELSE "ok")
  /\ UNCHANGED <<target, data, stale, crashes>>

\* It has returned: a lost race means looking again.
Published(p) ==
  /\ stage[p] = "publish" /\ w[p].pc = "done"
  /\ Writes(p, IdleWrite)
  /\ \/ w[p].result = "ok" /\ Return(p, "ok")
     \/ w[p].result = "error" /\ Return(p, "error")
     \/ /\ w[p].result \in {"exists", "changed"}
        /\ stage' = [stage EXCEPT ![p] = "again"]
        /\ UNCHANGED <<asked, answer, edited>>
  /\ UNCHANGED <<target, data, stale, crashes>>

\* The winner's profile decides; it cannot be read back if it is gone.
ResolveAgain(p) ==
  /\ stage[p] = "again"
  /\ \/ AgainstExisting(p)
     \/ ReadFails(p)
     \/ Absent /\ Return(p, "error") /\ UNCHANGED fileVars

Crash(p) ==
  /\ stage[p] # "idle"
  /\ CrashWrite(p)
  /\ stage' = [stage EXCEPT ![p] = "idle"]
  /\ UNCHANGED <<asked, answer, edited>>

\* An editor saves over the file, or the user deletes it.
HandEdit ==
  /\ ~Absent
  /\ edited' = TRUE
  /\ \/ target' = NoInode /\ data' = data
     \/ target' = target /\ \E c \in Contents : data' = [data EXCEPT ![target] = c]
  /\ UNCHANGED <<w, stale, crashes, asked, stage, answer>>

Step(p) ==
  \/ \E v \in Profiles : BeginApply(p, v)
  \/ Resolve(p) \/ Publish(p) \/ Published(p) \/ ResolveAgain(p) \/ Crash(p)

Next == HandEdit \/ \E p \in Processes : Step(p)

Spec == Init /\ [][Next]_vars

-----------------------------------------------------------------------------
\* Status: what a reader reports of the persisted profile.
StatusAbsent     == Absent
StatusConfigured == \E v \in Profiles : Holds(v)
StatusDrifted    == ~StatusAbsent /\ ~StatusConfigured

\* An Apply that returns a receipt has the profile it was asked for in
\* place, and Status says so; one that reports drift has met another
\* profile.  Both stay true for as long as nobody edits the file.
Truthful ==
  ~edited =>
    \A p \in Processes :
      /\ answer[p] = "ok" => Holds(asked[p]) /\ StatusConfigured
      /\ answer[p] = "drift" => StatusConfigured /\ ~Holds(asked[p])

\* Losing a race is not an error: unless its own system calls fail or the
\* file is edited, a call ends with a receipt or a drift.
LostRaceIsNoError ==
  ~edited => \A p \in Processes \ Faulty : answer[p] # "error"

\* Whatever has the name, published by another process or edited by hand,
\* is never overwritten or removed by a process that applies a profile.
NeverOverwritten ==
  [][~Absent =>
       (HandEdit \/ (target' = target /\ data'[target] = data[target]))]_vars

\* Why they hold.  A temporary file has one owner, who has filled it before
\* the name is looked at for the second time, and nothing but the link of
\* its owner makes it the profile; a process that has seen the name taken
\* finds it taken ever after.
OwnTemp(p) ==
  LET r == w[p] IN
  /\ r.pc \in {"idle", "inspect", "create"} => r.temp = NoInode
  /\ r.pc \in {"fill", "check", "publish"} => r.temp \in Inodes \ {target}
  /\ r.temp \in Inodes => r.temp \notin stale
  /\ r.pc \in {"check", "publish"} => data[r.temp] = r.want
  /\ r.temp \in Inodes =>
       \A q \in Processes \ {p} : w[q].temp # r.temp

InCall(p) ==
  LET r == w[p] IN
  /\ stage[p] = "publish" <=> r.pc # "idle"
  /\ r.pc # "idle" => r.want = asked[p]
  /\ stage[p] # "idle" => asked[p] \in Profiles /\ answer[p] = "none"
  /\ answer[p] \in {"ok", "drift"} => asked[p] \in Profiles
  /\ r.seen = NoInode
  /\ r.pc \notin {"cleanup", "done"} => r.result = "none"
  /\ r.pc \in {"cleanup", "done"} => r.result # "none"

Settled(p) ==
  /\ w[p].result = "ok" => Holds(asked[p])
  /\ w[p].result \in {"exists", "changed"} => ~Absent
  /\ w[p].result = "error" => p \in Faulty
  /\ stage[p] = "again" => ~Absent

Inductive ==
  /\ TypeOK
  /\ NeverTorn
  /\ \A p \in Processes : OwnTemp(p) /\ InCall(p)
  /\ ~edited =>
       /\ target \in Inodes => data[target] \in Profiles
       /\ \A p \in Processes : Settled(p)
  /\ Truthful
  /\ LostRaceIsNoError

\* What Apply promises as a whole: a register that is written once.
Register == IF Absent THEN NoInode ELSE data[target]
Once == INSTANCE WriteOnce WITH
  None <- NoInode, Values <- Profiles, value <- Register
ImplementsWriteOnce == Once!OnceSpec
=============================================================================
