------------------------------- MODULE Migration -------------------------------
(***************************************************************************)
(* configs migrate-agx (runMigrateAgx): the import of an installation that *)
(* the Go installer made.  A run reads the old receipt and every file it   *)
(* lists, and records the result over three connections to one database:   *)
(* the row of the deployment, the journal of the operation and the single  *)
(* lifecycle row.  No transaction spans them, and several runs, the old    *)
(* installer and the user's editor may be at work at the same time.        *)
(*                                                                         *)
(* A receipt of version v lists the digests of the files of version v; the *)
(* digest of the receipt names the migration, its deployment and its       *)
(* operation, so all three are v here.  Shared files have one content in   *)
(* all versions, and one digest.  A process is one invocation of the       *)
(* command: running the command again is another process.                  *)
(***************************************************************************)
EXTENDS Integers, FiniteSets

CONSTANTS
  Runs,         \* invocations of migrate-agx
  Files,        \* what the receipt lists
  Shared,       \* the files whose content does not depend on the version
  MaxVersion,   \* bound: installations the Go installer makes
  MaxEdits,     \* bound: files the user changes by hand
  MaxDeaths,    \* bound: invocations that are killed or stop on an exception
  MaxFaults     \* bound: statements on the lifecycle row that fail

Receipt  == "receipt"

ASSUME MigrationAssumption ==
  /\ Receipt \notin Files /\ Shared \subseteq Files
  /\ MaxVersion \in Nat \ {0}
  /\ MaxEdits \in Nat /\ MaxDeaths \in Nat /\ MaxFaults \in Nat

Targets  == Files \cup {Receipt}
Versions == 1..MaxVersion
Gone     == -1        \* no regular file at the path
ByHand   == 0         \* what no receipt lists

VARIABLES
  file,     \* file[t]: the version that placed it, the identity lstat shows
  legacy,   \* "idle", "removing" or "placing": the Go installer
  current,  \* the version it has placed last
  row,      \* the lifecycle row: NoRow, OldRow or the migration in it
  opPhase,  \* operation_status.phase of each migration
  step,     \* the phase of its only step
  planned,  \* migrations with a deployment_status row
  proc,     \* what each invocation is doing
  answer,   \* what it has printed
  whole,    \* history: versions that were on disk at once while it was reading
  budget    \* edits, deaths and faults that may still happen

disk == <<file, legacy, current>>
database == <<row, opPhase, step, planned>>
vars == <<disk, database, proc, answer, whole, budget>>

NoRow   == 0
OldRow  == -1         \* written before the metadata columns existed
OpPhases   == {"none", "prepared", "applying", "succeeded", "needs-manual-cleanup"}
StepPhases == {"pending", "succeeded", "needs-manual-cleanup"}
Answers == {"none", "planned", "imported", "not-importable", "already-present",
            "invalid", "io-failure", "error"}
Labels == {"idle", "stat", "read", "verify", "imported", "prepare", "insert",
           "start", "lookup", "upsert", "readback", "cleanup", "written",
           "finish", "done"}

\* The file it looks at with the identity lstat showed, the files that are
\* left, the version of the receipt, whether it was read in the midst of a
\* removal (history), the version it records, the rejection.
RunState == [pc : Labels, at : Targets, left : SUBSET Files, id : Nat,
             v : {0} \cup Versions, late : BOOLEAN,
             asked : {0} \cup Versions, why : Answers]
Idle == [pc |-> "idle", at |-> Receipt, left |-> Files, id |-> 0, v |-> 0,
         late |-> FALSE, asked |-> 0, why |-> "none"]

\* A content with the digest that the receipt of version v has for t.
Same(t, content, v) == content = v \/ (t \in Shared /\ content \in Versions)

\* All that version v consists of, and what tells it from the others.
Whole(v) == \A t \in Targets : Same(t, file[t].v, v)
Own(v) == \A t \in Targets \ Shared : file[t].v = v

TypeOK ==
  /\ file \in [Targets -> [id : Nat, v : {Gone, ByHand} \cup Versions]]
  /\ legacy \in {"idle", "removing", "placing"} /\ current \in Versions
  /\ row \in {NoRow, OldRow} \cup Versions
  /\ opPhase \in [Versions -> OpPhases] /\ step \in [Versions -> StepPhases]
  /\ planned \subseteq Versions
  /\ proc \in [Runs -> RunState]
  /\ answer \in [Runs -> Answers]
  /\ whole \in [all : [Runs -> SUBSET Versions], own : [Runs -> SUBSET Versions]]
  /\ budget \in [edits : 0..MaxEdits, deaths : 0..MaxDeaths, faults : 0..MaxFaults]

Init ==
  /\ file = [t \in Targets |-> [id |-> 1, v |-> 1]]
  /\ legacy = "idle" /\ current = 1
  /\ row \in {NoRow, OldRow}
  /\ opPhase = [v \in Versions |-> "none"]
  /\ step = [v \in Versions |-> "pending"]
  /\ planned = {}
  /\ proc = [p \in Runs |-> Idle]
  /\ answer = [p \in Runs |-> "none"]
  /\ whole = [all |-> [p \in Runs |-> {}], own |-> [p \in Runs |-> {}]]
  /\ budget = [edits |-> MaxEdits, deaths |-> MaxDeaths, faults |-> MaxFaults]

-----------------------------------------------------------------------------
(* The old installation.  The Go installer removes the files and then the  *)
(* receipt, and places files before the receipt that lists them.           *)

\* Every invocation that is still reading notes what is on disk now.
Reading == {"stat", "read", "verify"}
Note ==
  whole' = [all |-> [p \in Runs |-> IF proc'[p].pc \in Reading
                       THEN whole.all[p] \cup {v \in Versions : Whole(v)'}
                       ELSE whole.all[p]],
            own |-> [p \in Runs |-> IF proc'[p].pc \in Reading
                       THEN whole.own[p] \cup {v \in Versions : Own(v)'}
                       ELSE whole.own[p]]]

\* No two files at a path have the same identity: version v is placed once,
\* with identity v, and a file that is edited becomes another.
Put(t, id, v) == file' = [file EXCEPT ![t] = [id |-> id, v |-> v]]

RemoveOld(t) ==
  /\ legacy = "idle" => Whole(current) /\ current < MaxVersion
  /\ legacy \in {"idle", "removing"} /\ file[t].v # Gone
  /\ t = Receipt => \A f \in Files : file[f].v = Gone
  /\ Put(t, 0, Gone)
  /\ legacy' = IF t = Receipt THEN "placing" ELSE "removing"
  /\ UNCHANGED current

PlaceNew(t) ==
  /\ legacy = "placing" /\ file[t].v = Gone
  /\ t = Receipt => \A f \in Files : file[f].v # Gone
  /\ Put(t, current + 1, current + 1)
  /\ IF t = Receipt THEN legacy' = "idle" /\ current' = current + 1
                    ELSE UNCHANGED <<legacy, current>>

Installer ==
  /\ \E t \in Targets : RemoveOld(t) \/ PlaceNew(t)
  /\ UNCHANGED <<database, proc, answer, budget>>
  /\ Note

Edit(t) ==
  /\ budget.edits > 0 /\ file[t].v # Gone
  /\ Put(t, file[t].id + MaxVersion, ByHand)
  /\ budget' = [budget EXCEPT !.edits = @ - 1]
  /\ UNCHANGED <<legacy, current, database, proc, answer>>
  /\ Note

-----------------------------------------------------------------------------
(* importLegacyReceipt: readStableFile on the receipt and then on every    *)
(* file it lists.                                                          *)

At(p, pc) == proc[p].pc = pc
Goto(p, pc) == proc' = [proc EXCEPT ![p].pc = pc]
Tell(p, a) ==
  /\ answer' = [answer EXCEPT ![p] = a]
  /\ Goto(p, "done")
Silent == UNCHANGED <<answer, whole, budget>>
Refuse(p) == Tell(p, "not-importable") /\ UNCHANGED <<disk, database, whole, budget>>

Begin(p) ==
  /\ At(p, "idle") /\ Goto(p, "stat")
  /\ UNCHANGED <<disk, database, answer, budget>>
  /\ Note

\* lstat: the identity the file has now.
Stat(p) ==
  LET now == file[proc[p].at] IN
  /\ At(p, "stat")
  /\ IF now.v = Gone THEN Refuse(p)
     ELSE /\ proc' = [proc EXCEPT ![p].pc = "read", ![p].id = now.id]
          /\ UNCHANGED <<disk, database>> /\ Silent

\* open, compare the identity, read.
Read(p) ==
  LET now == file[proc[p].at] IN
  /\ At(p, "read")
  /\ IF now.v = Gone \/ now.id # proc[p].id THEN Refuse(p)
     ELSE /\ Goto(p, "verify")
          /\ UNCHANGED <<disk, database>> /\ Silent

\* Mistaken: the receipt is believed without its files.
FitsUnread(p, content) ==
  IF proc[p].at = Receipt THEN content \in Versions ELSE content # ByHand

\* assessLegacyReceipt and the comparison of digests: what was read is a
\* receipt, or has the digest the receipt lists.
Fits(p, content) ==
  IF proc[p].at = Receipt THEN content \in Versions
                          ELSE Same(proc[p].at, content, proc[p].v)

\* The second lstat: if nothing changed, the content that was read counts.
\* The files are looked at in one order, that of the receipt.
Verify(p) ==
  LET t == proc[p].at  now == file[t] IN
  /\ At(p, "verify")
  /\ IF now.id # proc[p].id \/ ~Fits(p, now.v) THEN Refuse(p)
     ELSE LET left == IF t = Receipt THEN Files ELSE proc[p].left \ {t}
              me   == [proc[p] EXCEPT !.left = left,
                                      !.v = IF t = Receipt THEN now.v ELSE @,
                                      !.late = IF t = Receipt
                                                 THEN legacy = "removing" ELSE @]
          IN  /\ IF left = {}
                   THEN proc' = [proc EXCEPT ![p] = [me EXCEPT !.pc = "imported"]]
                   ELSE proc' = [proc EXCEPT ![p] =
                          [me EXCEPT !.pc = "stat", !.at = CHOOSE f \in left : TRUE]]
              /\ UNCHANGED <<disk, database>> /\ Silent

\* migrate-agx plan: print the checkpoint.
Plan(p) ==
  /\ At(p, "imported") /\ Tell(p, "planned")
  /\ UNCHANGED <<disk, database, whole, budget>>

-----------------------------------------------------------------------------
(* migrate-agx apply: three connections are opened, and the outcome is     *)
(* recorded.                                                               *)

Keep == UNCHANGED <<disk, whole>>

\* The connections are opened (what creates the tables may be run any number
\* of times, and by several processes at once); saveDeployment.
SaveDeployment(p) ==
  /\ At(p, "imported")
  /\ planned' = planned \cup {proc[p].v}
  /\ proc' = [proc EXCEPT ![p].pc = "prepare", ![p].asked = proc[p].v]
  /\ UNCHANGED <<row, opPhase, step, answer, budget>> /\ Keep

\* prepare: a plan that is there already is returned as it is.
Prepare(p) ==
  /\ At(p, "prepare")
  /\ Goto(p, IF opPhase[proc[p].v] = "none" THEN "insert" ELSE "start")
  /\ UNCHANGED <<database, answer, budget>> /\ Keep

\* The insertion fails if another run has inserted the plan since.
InsertPlan(p) ==
  /\ At(p, "insert")
  /\ IF opPhase[proc[p].v] = "none"
       THEN /\ opPhase' = [opPhase EXCEPT ![proc[p].v] = "prepared"]
            /\ Goto(p, "start") /\ UNCHANGED answer
       ELSE Tell(p, "error") /\ UNCHANGED opPhase
  /\ UNCHANGED <<row, step, planned, budget>> /\ Keep

\* start throws unless the operation is prepared or needs-resume.
Startable(v) == opPhase[v] = "prepared"

Start(p) ==
  /\ At(p, "start")
  /\ IF Startable(proc[p].v)
       THEN /\ opPhase' = [opPhase EXCEPT ![proc[p].v] = "applying"]
            /\ Goto(p, "lookup") /\ UNCHANGED answer
       ELSE Tell(p, "error") /\ UNCHANGED opPhase
  /\ UNCHANGED <<row, step, planned, budget>> /\ Keep

\* Mistaken: a rejection is printed without a word in the journal.
RejectUnrecorded(p, why) ==
  proc' = [proc EXCEPT ![p].pc = "done", ![p].why = why]

\* writeMigration.  A rejection is remembered until it has been recorded.
Reject(p, why) ==
  proc' = [proc EXCEPT ![p].pc = "cleanup", ![p].why = why]

Fault == budget.faults > 0 /\ budget' = [budget EXCEPT !.faults = @ - 1]

\* read: a row without the metadata of its migration is invalid.
Lookup(p) ==
  /\ At(p, "lookup")
  /\ \/ /\ \/ row = NoRow /\ Goto(p, "upsert")
           \/ row = OldRow /\ Reject(p, "invalid")
           \/ row \in Versions /\ Reject(p, "already-present")
        /\ UNCHANGED budget
     \/ Fault /\ Reject(p, "io-failure")
  /\ UNCHANGED <<database, answer>> /\ Keep

\* Mistaken: the condition of the upsert is dropped.
MayOverwrite == TRUE

\* INSERT ... ON CONFLICT DO UPDATE ... WHERE migration_json IS NULL.
MayWrite == row = NoRow

Upsert(p) ==
  /\ At(p, "upsert")
  /\ \/ /\ IF MayWrite THEN row' = proc[p].v /\ Goto(p, "readback")
                       ELSE Reject(p, "already-present") /\ UNCHANGED row
        /\ UNCHANGED budget
     \/ Fault /\ Reject(p, "io-failure") /\ UNCHANGED row
  /\ UNCHANGED <<opPhase, step, planned, answer>> /\ Keep

Readback(p) ==
  /\ At(p, "readback")
  /\ \/ Goto(p, "written") /\ UNCHANGED budget
     \/ Fault /\ Reject(p, "io-failure")
  /\ UNCHANGED <<database, answer>> /\ Keep

\* appendStep: the step, and for a rejection the phase, in one transaction.
\* It throws if the step is not pending any more.
RecordRejection(p) ==
  LET v == proc[p].v IN
  /\ At(p, "cleanup")
  /\ IF step[v] = "pending"
       THEN /\ step' = [step EXCEPT ![v] = "needs-manual-cleanup"]
            /\ opPhase' = [opPhase EXCEPT ![v] = "needs-manual-cleanup"]
            /\ Tell(p, proc[p].why)
       ELSE Tell(p, "error") /\ UNCHANGED <<step, opPhase>>
  /\ UNCHANGED <<row, planned, budget>> /\ Keep

RecordStep(p) ==
  LET v == proc[p].v IN
  /\ At(p, "written")
  /\ IF step[v] = "pending"
       THEN /\ step' = [step EXCEPT ![v] = "succeeded"]
            /\ Goto(p, "finish") /\ UNCHANGED answer
       ELSE Tell(p, "error") /\ UNCHANGED step
  /\ UNCHANGED <<row, opPhase, planned, budget>> /\ Keep

\* finish throws unless the operation is applying.
Finish(p) ==
  LET v == proc[p].v IN
  /\ At(p, "finish")
  /\ IF opPhase[v] = "applying"
       THEN /\ opPhase' = [opPhase EXCEPT ![v] = "succeeded"]
            /\ Tell(p, "imported")
       ELSE Tell(p, "error") /\ UNCHANGED opPhase
  /\ UNCHANGED <<row, step, planned, budget>> /\ Keep

\* The process is killed, or a statement of another connection throws: what
\* it has read, if it has asked for nothing yet, is gone with it.
Die(p) ==
  /\ ~At(p, "idle") /\ ~At(p, "done") /\ budget.deaths > 0
  /\ budget' = [budget EXCEPT !.deaths = @ - 1]
  /\ LET kept == IF proc[p].asked = 0 THEN Idle ELSE proc[p] IN
     proc' = [proc EXCEPT ![p] = [kept EXCEPT !.pc = "done"]]
  /\ UNCHANGED <<disk, database, answer, whole>>

Import(p) == Stat(p) \/ Read(p) \/ Verify(p)
Write(p) == Lookup(p) \/ Upsert(p) \/ Readback(p)
Journal(p) ==
  SaveDeployment(p) \/ Prepare(p) \/ InsertPlan(p) \/ Start(p)
    \/ RecordRejection(p) \/ RecordStep(p) \/ Finish(p)
Run(p) == Import(p) \/ Plan(p) \/ Write(p) \/ Journal(p)

Next ==
  \/ Installer \/ \E t \in Targets : Edit(t)
  \/ \E p \in Runs : Begin(p) \/ Run(p) \/ Die(p)

Spec == Init /\ [][Next]_vars

\* A command that has been started goes on: weak fairness of Run(p), which is
\* enabled until the command is done.
AtRest(p) == proc[p].pc \in {"idle", "done"}
FairSpec ==
  Spec /\ \A p \in Runs : []<>AtRest(p) \/ []<><<proc[p]' # proc[p]>>_vars

-----------------------------------------------------------------------------
(* Properties.                                                             *)

Applying == {"prepare", "insert", "start", "lookup", "upsert", "readback",
             "cleanup", "written", "finish"}

\* A run says that the import is done, and the journal says so, only if the
\* lifecycle row holds that very migration; and a migration is marked for
\* manual cleanup only if it does not, unless a statement on the row failed.
OutcomesAreTrue ==
  /\ \A p \in Runs : answer[p] = "imported" => opPhase[proc[p].v] = "succeeded"
  /\ \A v \in Versions :
       /\ opPhase[v] = "succeeded" => row = v /\ step[v] = "succeeded"
       /\ opPhase[v] = "needs-manual-cleanup" /\ row = v =>
            budget.faults < MaxFaults

\* The receipt and the files are read one after another while they may change,
\* yet a checkpoint is only made of what was on disk all at the same moment.
\* This is so of the receipt and the files that tell its version from others.
\* It is so of the shared files too, unless the receipt was read while it was
\* being removed: a later version may then have brought a file that was gone.
WholeAtOnce ==
  \A p \in Runs : proc[p].asked # 0 \/ answer[p] = "planned" =>
    /\ proc[p].v \in whole.own[p]
    /\ proc[p].late \/ proc[p].v \in whole.all[p]

\* The lifecycle row is written once, and every run is told whether the
\* migration in it is its own.
Register == IF row = OldRow THEN NoRow ELSE row
Stage(p) == IF proc[p].pc \in Applying THEN "applying" ELSE "idle"
Told(p) ==
  CASE answer[p] = "imported" -> "ok"
    [] answer[p] = "already-present" -> "drift"
    [] answer[p] \in {"invalid", "io-failure", "error"} -> "error"
    [] OTHER -> "none"

Once == INSTANCE WriteOnce WITH
  Processes <- Runs, Values <- Versions, None <- NoRow,
  value  <- Register,
  asked  <- [p \in Runs |-> proc[p].asked],
  stage  <- [p \in Runs |-> Stage(p)],
  answer <- [p \in Runs |-> Told(p)],
  edited <- FALSE
ImplementsOnce == Once!OnceSpec

\* Unless its run is interrupted, an operation that was started is settled.
Settles ==
  \A v \in Versions :
    opPhase[v] = "applying" ~>
      \/ opPhase[v] \in {"succeeded", "needs-manual-cleanup"}
      \/ budget.deaths < MaxDeaths
=============================================================================
