--------------------------- MODULE OperationJournal ---------------------------
(***************************************************************************)
(* The durable operation journal of the control plane, for one operation   *)
(* identity: the operation_status row, the operation_step rows and the     *)
(* operation_resolution rows of the SQLite store, and one operator per     *)
(* statement or transaction that the journal runs on them.                 *)
(*                                                                         *)
(* operation_step keeps one row per (sequence, revision).  A reader only   *)
(* ever looks at the row of the highest revision, and revisions of a step  *)
(* are contiguous from 0, so a step is its highest revision rev[s] and the *)
(* phase cur[s] stored there.  The primary key of the table is what makes  *)
(* an insertion at an already used revision fail.                          *)
(***************************************************************************)
EXTENDS Naturals

CONSTANTS
  N,      \* number of planned steps
  Kind    \* Kind[s] is the kind of step s

RepositoryKind == "github-repository"
ProjectKind    == "github-project"
ProviderKind   == "provider-activation"
Kinds == {RepositoryKind, ProjectKind, ProviderKind}

Steps == 1..N

\* createOperationJournal rejects an empty plan.
ASSUME NAssumption    == N \in Nat \ {0}
ASSUME KindAssumption == Kind \in [Steps -> Kinds]

VARIABLES
  phase,    \* operation_status.phase, "none" before the row exists
  cur,      \* cur[s]: phase of the latest revision of step s
  rev,      \* rev[s]: the latest revision of step s
  resolved  \* resolved[s]: outcome of the resolution row of step s, if any

journalVars == <<phase, cur, rev, resolved>>

StepPhases == {"pending", "succeeded", "inconclusive", "needs-manual-cleanup"}
Phases == {"none", "prepared", "applying", "succeeded", "inconclusive",
           "needs-resume", "needs-manual-cleanup"}
Outcomes == {"matched", "absent", "drifted"}

Startable == {"prepared", "needs-resume"}

JournalTypeOK ==
  /\ phase \in Phases
  /\ cur \in [Steps -> StepPhases]
  /\ rev \in [Steps -> Nat]
  /\ resolved \in [Steps -> Outcomes \cup {"none"}]

JournalInit ==
  /\ phase = "none"
  /\ cur = [s \in Steps |-> "pending"]
  /\ rev = [s \in Steps |-> 0]
  /\ resolved = [s \in Steps |-> "none"]

-----------------------------------------------------------------------------
(* What a reader makes of a snapshot of the steps.                         *)

\* The step the domain calls "pending": the first one still to be done.
FirstPending(steps, s) ==
  /\ steps[s] = "pending"
  /\ \A t \in Steps : t < s => steps[t] # "pending"

NonePending(steps) == \A s \in Steps : steps[s] # "pending"

\* The step a resolution must name: the first one not settled.
FirstUnsettled(steps, s) ==
  /\ steps[s] \in {"inconclusive", "pending"}
  /\ \A t \in Steps : t < s => steps[t] \notin {"inconclusive", "pending"}

\* Mistaken: a doubtful step leaves the operation applying.
PhaseAfterDoubt(readPhase, outcome) ==
  IF outcome = "needs-manual-cleanup" THEN outcome ELSE readPhase

\* appendOperationStep: the phase of the operation after a step outcome.
PhaseAfter(readPhase, outcome) ==
  IF outcome = "succeeded" THEN readPhase ELSE outcome

-----------------------------------------------------------------------------
(* The statements and transactions.  Each is a guarded action; the caller  *)
(* decides what happens when the guard is false (the code throws).         *)

\* prepare: insert the status row and revision 0 of every step.
CanInsertPlan == phase = "none"
InsertPlan ==
  /\ CanInsertPlan
  /\ phase' = "prepared"
  /\ UNCHANGED <<cur, rev, resolved>>

\* start: UPDATE ... WHERE phase IN ('prepared', 'needs-resume').
CanStart == phase \in Startable
StartUpdate ==
  /\ CanStart
  /\ phase' = "applying"
  /\ UNCHANGED <<cur, rev, resolved>>

\* finish: UPDATE ... WHERE phase IN ('applying', 'observing').
CanFinish == phase = "applying"
FinishUpdate ==
  /\ CanFinish
  /\ phase' = "succeeded"
  /\ UNCHANGED <<cur, rev, resolved>>

\* appendStep: one transaction that inserts revision max + 1 of step s and,
\* only if the phase changes, updates the status row guarded by the phase
\* that was read before the transaction.
CanAppend(s, outcome, readPhase, max) ==
  /\ max = rev[s]
  /\ PhaseAfter(readPhase, outcome) # readPhase => phase = readPhase
AppendRow(s, outcome, readPhase, max) ==
  /\ CanAppend(s, outcome, readPhase, max)
  /\ cur' = [cur EXCEPT ![s] = outcome]
  /\ rev' = [rev EXCEPT ![s] = max + 1]
  /\ phase' = IF PhaseAfter(readPhase, outcome) = readPhase
                THEN phase ELSE outcome
  /\ UNCHANGED resolved

\* Mistaken: an absent object lets the operation go on, too.
ResolveRowAbsent(s, outcome) ==
  /\ resolved[s] = "none" /\ phase = "inconclusive"
  /\ resolved' = [resolved EXCEPT ![s] = outcome]
  /\ cur' = [cur EXCEPT ![s] = "pending"]
  /\ rev' = [rev EXCEPT ![s] = @ + 1]
  /\ phase' = IF outcome = "drifted" THEN "needs-manual-cleanup"
                                    ELSE "needs-resume"

\* resolveInconclusive: one transaction that inserts the resolution row
\* (primary key: operation and sequence), resets a matched step to pending
\* and moves the phase, guarded by phase = 'inconclusive'.
CanResolve(s) == resolved[s] = "none" /\ phase = "inconclusive"
ResolveRow(s, outcome) ==
  /\ CanResolve(s)
  /\ resolved' = [resolved EXCEPT ![s] = outcome]
  /\ IF outcome = "matched"
       THEN /\ cur' = [cur EXCEPT ![s] = "pending"]
            /\ rev' = [rev EXCEPT ![s] = @ + 1]
            /\ phase' = "needs-resume"
       ELSE /\ phase' = "needs-manual-cleanup"
            /\ UNCHANGED <<cur, rev>>
=============================================================================
