------------------------ MODULE DeploymentApplyProofs ------------------------
(***************************************************************************)
(* Proofs about DeploymentApply for every plan, every number of processes  *)
(* and every number of crashes.  The inductive invariant is Inductive; the *)
(* argument is that a runner acts on knowledge that other processes cannot *)
(* make false, because revisions, remote objects and the start of the      *)
(* operation only ever grow.                                               *)
(***************************************************************************)
EXTENDS DeploymentApply, TLAPS

-----------------------------------------------------------------------------
(* Constants.                                                              *)

LEMMA StepsAreNat == /\ Steps \subseteq Nat
                     /\ \A s \in Steps : s > 0 /\ s \in 0..N
BY NAssumption DEF Steps

LEMMA IdleRunType == IdleRun \in RunState /\ IdleRun.pc = "idle" /\ IdleRun.at = 0
BY NAssumption DEF IdleRun, RunState, Labels, AllPending, StepPhases, Phases,
                   Steps

-----------------------------------------------------------------------------
(* Knowledge is stable.                                                    *)

Grows ==
  /\ \A s \in Steps : rev'[s] >= rev[s]
  /\ \A s \in Steps : mine'[s] >= mine[s]
  /\ \A s \in Steps : whole[s] => whole'[s]
  /\ \A s \in Steps : issues[s] => issues'[s]
  /\ Started => Started'

LEMMA KnowledgeStays ==
  ASSUME TypeOK, TypeOK', Grows, NEW q \in Runners, NEW r \in RunState,
         run'[q] = r, Knows(r)
  PROVE  RunnerKnows(q)'
<1>1. \A s \in Steps : rev[s] \in Nat /\ rev'[s] \in Nat /\ rev'[s] >= rev[s]
  BY DEF TypeOK, JournalTypeOK, Grows
<1>2. \A s \in Steps : mine[s] \in Nat /\ mine'[s] \in Nat /\ mine'[s] >= mine[s]
  BY DEF TypeOK, Grows
<1>3. \A s \in Steps : rev[s] > 0 => rev'[s] > 0
  BY <1>1
<1>4. \A s \in Steps : mine[s] > 0 => mine'[s] > 0
  BY <1>2
<1>5. \A s \in Steps : Backed(s) => Backed(s)'
  BY <1>4, LinkedAssumption DEF Backed, Grows, LinkedHasIssues
<1>6. Started => Started'
  BY DEF Grows
<1>7. \A s \in Steps : whole[s] => whole'[s]
  BY DEF Grows
<1>8. r.pc \in {"complete", "readback"} \cup InAppend => r.at \in Steps
  BY DEF Knows, AtStep, InAppend
<1> QED
  BY <1>3, <1>4, <1>5, <1>6, <1>7, <1>8 DEF RunnerKnows, Knows

\* A step of runner p that touches neither the journal nor the remote side
\* keeps the invariant, if what p knows afterwards is true.
LEMMA LocalStep ==
  ASSUME Inductive, NEW p \in Runners, NEW r \in RunState,
         UNCHANGED <<journalVars, remoteVars>>,
         crashes' \in 0..MaxCrashes,
         Become(p, r), Knows(r)
  PROVE  Inductive'
<1>1. run' \in [Runners -> RunState] /\ run'[p] = r
      /\ \A q \in Runners \ {p} : run'[q] = run[q]
  BY DEF Become, Inductive, TypeOK
<1>2. TypeOK'
  BY <1>1 DEF Inductive, TypeOK, JournalTypeOK, journalVars, remoteVars
<1>3. \A q \in Runners : RunnerKnows(q)'
  <2> SUFFICES ASSUME NEW q \in Runners PROVE RunnerKnows(q)'
    OBVIOUS
  <2>1. CASE q = p
    BY <1>1, <2>1 DEF RunnerKnows, Knows, Started, Backed, LinkedHasIssues, journalVars, remoteVars
  <2>2. CASE q # p
    BY <1>1, <2>2 DEF Inductive, RunnerKnows, Knows, Started, Backed, LinkedHasIssues,
       journalVars, remoteVars
  <2> QED BY <2>1, <2>2
<1> QED
  BY <1>2, <1>3 DEF Inductive, StepsKnown, PlanOrder, SucceededIsBacked,
     StartedBeforeCreated, Started, Backed, LinkedHasIssues, WholeIsOurs, journalVars,
     remoteVars

LEMMA IdleKnows == Knows(IdleRun)
BY IdleRunType DEF Knows, IdleRun, AllPending, InLoop, AtStep, InAppend,
                   InResolve

LEMMA StopStep ==
  ASSUME Inductive, NEW p \in Runners, UNCHANGED <<journalVars, remoteVars>>,
         crashes' \in 0..MaxCrashes, Stop(p)
  PROVE  Inductive'
BY IdleRunType, IdleKnows, LocalStep DEF Stop

\* A runner that works on a step may record a failure.
LEMMA FailKnows ==
  ASSUME Inductive, NEW p \in Runners, run[p].pc \in AtStep,
         NEW o \in {"inconclusive", "needs-manual-cleanup"}, Fail(p, o)
  PROVE  \E r \in RunState : Become(p, r) /\ Knows(r)
<1>1. CASE Stop(p)
  BY <1>1, IdleRunType, IdleKnows DEF Stop
<1>2. ASSUME NEW s \in Steps, FirstPending(run[p].seen, s), Record(p, s, o)
      PROVE  \E r \in RunState : Become(p, r) /\ Knows(r)
  <2> DEFINE r == [run[p] EXCEPT !.pc = "append", !.at = s, !.want = o]
  <2>1. run[p] \in RunState /\ Knows(run[p])
    BY DEF Inductive, TypeOK, RunnerKnows
  <2>2. r \in RunState
    BY <2>1, StepsAreNat DEF RunState, Labels, StepPhases
  <2>3. \A t \in Steps : t < s => rev[t] > 0
    BY <1>2, <2>1 DEF FirstPending, Knows
  <2>4. Started
    BY <2>1 DEF Knows, InLoop
  <2>5. Knows(r)
    BY <2>1, <2>3, <2>4 DEF RunState, Knows, BeforeLoop, InLoop, AtStep,
       InAppend, InResolve, StepPhases
  <2> QED
    BY <1>2, <2>2, <2>5 DEF Record
<1> QED
  BY <1>1, <1>2 DEF Fail

LEMMA FailStep ==
  ASSUME Inductive, NEW p \in Runners, UNCHANGED <<journalVars, remoteVars>>,
         crashes' = crashes, run[p].pc \in AtStep,
         NEW o \in {"inconclusive", "needs-manual-cleanup"}, Fail(p, o)
  PROVE  Inductive'
BY FailKnows, LocalStep DEF Inductive, TypeOK

-----------------------------------------------------------------------------
(* Steps before the loop.                                                  *)

LEMMA GotoStep ==
  ASSUME Inductive, NEW p \in Runners, UNCHANGED <<journalVars, remoteVars>>,
         crashes' = crashes, NEW l \in Labels, Goto(p, l),
         Knows([run[p] EXCEPT !.pc = l])
  PROVE  Inductive'
<1>1. run[p] \in RunState /\ crashes' \in 0..MaxCrashes
  BY DEF Inductive, TypeOK
<1>2. [run[p] EXCEPT !.pc = l] \in RunState
  BY <1>1 DEF RunState
<1> QED
  BY <1>1, <1>2, LocalStep DEF Goto

LEMMA BeginInitStep ==
  ASSUME Inductive, NEW p \in Runners, BeginInit(p) PROVE Inductive'
<1>1. run[p] \in RunState /\ Knows(run[p]) /\ crashes' \in 0..MaxCrashes
  BY DEF Inductive, TypeOK, RunnerKnows, BeginInit
<1>2. CASE Goto(p, "plan")
  <2>1. Knows([run[p] EXCEPT !.pc = "plan"])
    BY <1>1 DEF BeginInit, At, RunState, Knows, BeforeLoop, InLoop, AtStep,
       InAppend, InResolve, Started, Startable
  <2> QED
    BY <1>2, <2>1, GotoStep DEF BeginInit, Labels
<1> QED
  BY <1>2 DEF BeginInit

LEMMA PrepareStep ==
  ASSUME Inductive, NEW p \in Runners, Prepare(p) PROVE Inductive'
<1>1. run[p] \in RunState /\ Knows(run[p]) /\ crashes' \in 0..MaxCrashes
  BY DEF Inductive, TypeOK, RunnerKnows, Prepare
<1>2. CASE Goto(p, "insert")
  <2>1. Knows([run[p] EXCEPT !.pc = "insert"])
    BY <1>1 DEF Prepare, At, RunState, Knows, BeforeLoop, InLoop, AtStep,
       InAppend, InResolve, Started, Startable
  <2> QED
    BY <1>2, <2>1, GotoStep DEF Prepare, Labels
<1>3. CASE Goto(p, "find")
  <2>1. Knows([run[p] EXCEPT !.pc = "find"])
    BY <1>1 DEF Prepare, At, RunState, Knows, BeforeLoop, InLoop, AtStep,
       InAppend, InResolve, Started, Startable
  <2> QED
    BY <1>3, <2>1, GotoStep DEF Prepare, Labels
<1> QED
  BY <1>2, <1>3 DEF Prepare

LEMMA BeginApplyStep ==
  ASSUME Inductive, NEW p \in Runners, BeginApply(p) PROVE Inductive'
<1>1. run[p] \in RunState /\ Knows(run[p]) /\ crashes' \in 0..MaxCrashes
  BY DEF Inductive, TypeOK, RunnerKnows, BeginApply
<1>2. CASE Goto(p, "find")
  <2>1. Knows([run[p] EXCEPT !.pc = "find"])
    BY <1>1 DEF BeginApply, At, RunState, Knows, BeforeLoop, InLoop, AtStep,
       InAppend, InResolve, Started, Startable
  <2> QED
    BY <1>2, <2>1, GotoStep DEF BeginApply, Labels
<1> QED
  BY <1>2 DEF BeginApply

LEMMA FindStatusStep ==
  ASSUME Inductive, NEW p \in Runners, FindStatus(p) PROVE Inductive'
<1>1. run[p] \in RunState /\ Knows(run[p]) /\ crashes' \in 0..MaxCrashes
  BY DEF Inductive, TypeOK, RunnerKnows, FindStatus
<1>2. CASE Goto(p, "start")
  <2>1. Knows([run[p] EXCEPT !.pc = "start"])
    BY <1>1 DEF FindStatus, At, RunState, Knows, BeforeLoop, InLoop, AtStep,
       InAppend, InResolve, Started, Startable
  <2> QED
    BY <1>2, <2>1, GotoStep DEF FindStatus, Labels
<1>3. CASE phase = "applying" /\ Goto(p, "findSteps")
  <2>1. Knows([run[p] EXCEPT !.pc = "findSteps"])
    BY <1>1, <1>3 DEF FindStatus, At, RunState, Knows, BeforeLoop, InLoop, AtStep,
       InAppend, InResolve, Started, Startable
  <2> QED
    BY <1>3, <2>1, GotoStep DEF FindStatus, Labels
<1>4. CASE Stop(p)
  BY <1>1, <1>4, StopStep DEF FindStatus
<1> QED
  BY <1>2, <1>3, <1>4 DEF FindStatus

LEMMA StartStatusStep ==
  ASSUME Inductive, NEW p \in Runners, StartStatus(p) PROVE Inductive'
<1>1. run[p] \in RunState /\ Knows(run[p]) /\ crashes' \in 0..MaxCrashes
  BY DEF Inductive, TypeOK, RunnerKnows, StartStatus
<1>2. CASE Goto(p, "startSteps")
  <2>1. Knows([run[p] EXCEPT !.pc = "startSteps"])
    BY <1>1 DEF StartStatus, At, RunState, Knows, BeforeLoop, InLoop, AtStep,
       InAppend, InResolve, Started, Startable
  <2> QED
    BY <1>2, <2>1, GotoStep DEF StartStatus, Labels
<1>3. CASE Stop(p)
  BY <1>1, <1>3, StopStep DEF StartStatus
<1> QED
  BY <1>2, <1>3 DEF StartStatus

LEMMA LoopDoneStep ==
  ASSUME Inductive, NEW p \in Runners, LoopDone(p) PROVE Inductive'
<1>1. run[p] \in RunState /\ Knows(run[p]) /\ crashes' \in 0..MaxCrashes
  BY DEF Inductive, TypeOK, RunnerKnows, LoopDone
<1>2. CASE Goto(p, "finish")
  <2>1. Knows([run[p] EXCEPT !.pc = "finish"])
    BY <1>1 DEF LoopDone, At, RunState, Knows, BeforeLoop, InLoop, AtStep,
       InAppend, InResolve, Started, Startable
  <2> QED
    BY <1>2, <2>1, GotoStep DEF LoopDone, Labels
<1> QED
  BY <1>2 DEF LoopDone

LEMMA FinishStatusStep ==
  ASSUME Inductive, NEW p \in Runners, FinishStatus(p) PROVE Inductive'
<1>1. run[p] \in RunState /\ Knows(run[p]) /\ crashes' \in 0..MaxCrashes
  BY DEF Inductive, TypeOK, RunnerKnows, FinishStatus
<1>2. CASE Goto(p, "finishUpdate")
  <2>1. Knows([run[p] EXCEPT !.pc = "finishUpdate"])
    BY <1>1 DEF FinishStatus, At, RunState, Knows, BeforeLoop, InLoop, AtStep,
       InAppend, InResolve, Started, Startable
  <2> QED
    BY <1>2, <2>1, GotoStep DEF FinishStatus, Labels
<1>3. CASE Stop(p)
  BY <1>1, <1>3, StopStep DEF FinishStatus
<1> QED
  BY <1>2, <1>3 DEF FinishStatus

LEMMA ResolveStatusStep ==
  ASSUME Inductive, NEW p \in Runners, ResolveStatus(p) PROVE Inductive'
<1>1. run[p] \in RunState /\ Knows(run[p]) /\ crashes' \in 0..MaxCrashes
  BY DEF Inductive, TypeOK, RunnerKnows, ResolveStatus
<1>2. CASE Goto(p, "resolveSteps")
  <2>1. Knows([run[p] EXCEPT !.pc = "resolveSteps"])
    BY <1>1 DEF ResolveStatus, At, RunState, Knows, BeforeLoop, InLoop, AtStep,
       InAppend, InResolve, Started, Startable
  <2> QED
    BY <1>2, <2>1, GotoStep DEF ResolveStatus, Labels
<1>3. CASE Stop(p)
  BY <1>1, <1>3, StopStep DEF ResolveStatus
<1> QED
  BY <1>2, <1>3 DEF ResolveStatus

LEMMA ResolveStepsStep ==
  ASSUME Inductive, NEW p \in Runners, ResolveSteps(p) PROVE Inductive'
<1>1. run[p] \in RunState /\ Knows(run[p]) /\ crashes' \in 0..MaxCrashes
  BY DEF Inductive, TypeOK, RunnerKnows, ResolveSteps
<1>2. CASE Goto(p, "resolveWrite")
  <2>1. Knows([run[p] EXCEPT !.pc = "resolveWrite"])
    BY <1>1 DEF ResolveSteps, At, RunState, Knows, BeforeLoop, InLoop, AtStep,
       InAppend, InResolve, Started, Startable
  <2> QED
    BY <1>2, <2>1, GotoStep DEF ResolveSteps, Labels
<1>3. CASE Stop(p)
  BY <1>1, <1>3, StopStep DEF ResolveSteps
<1> QED
  BY <1>2, <1>3 DEF ResolveSteps

LEMMA AppendStepsStep ==
  ASSUME Inductive, NEW p \in Runners, AppendSteps(p) PROVE Inductive'
<1>1. run[p] \in RunState /\ Knows(run[p]) /\ crashes' \in 0..MaxCrashes
  BY DEF Inductive, TypeOK, RunnerKnows, AppendSteps
<1>2. CASE Goto(p, "appendMax")
  <2>1. Knows([run[p] EXCEPT !.pc = "appendMax"])
    BY <1>1 DEF AppendSteps, At, RunState, Knows, BeforeLoop, InLoop, AtStep,
       InAppend, InResolve, Started, Startable
  <2> QED
    BY <1>2, <2>1, GotoStep DEF AppendSteps, Labels
<1>3. CASE Stop(p)
  BY <1>1, <1>3, StopStep DEF AppendSteps
<1> QED
  BY <1>2, <1>3 DEF AppendSteps

LEMMA FindStepsStep ==
  ASSUME Inductive, NEW p \in Runners, FindSteps(p) PROVE Inductive'
<1> DEFINE r == [run[p] EXCEPT !.pc = "next", !.loop = cur, !.seen = cur]
<1>1. run[p] \in RunState /\ Knows(run[p]) /\ crashes' \in 0..MaxCrashes
  BY DEF Inductive, TypeOK, RunnerKnows, FindSteps
<1>2. r \in RunState
  BY <1>1, StepsAreNat DEF FindSteps, Inductive, TypeOK, JournalTypeOK, RunState,
     Labels, StepPhases, Phases, Outcomes
<1>3. Knows(r)
  BY <1>1, StepsAreNat DEF FindSteps, At, Inductive, StepsKnown, RunState, Knows, BeforeLoop,
     InLoop, AtStep, InAppend, InResolve, Started
<1> QED
  BY <1>1, <1>2, <1>3, LocalStep DEF FindSteps

LEMMA StartStepsStep ==
  ASSUME Inductive, NEW p \in Runners, StartSteps(p) PROVE Inductive'
<1> DEFINE r == [run[p] EXCEPT !.pc = "startUpdate", !.loop = cur, !.seen = cur]
<1>1. run[p] \in RunState /\ Knows(run[p]) /\ crashes' \in 0..MaxCrashes
  BY DEF Inductive, TypeOK, RunnerKnows, StartSteps
<1>2. r \in RunState
  BY <1>1, StepsAreNat DEF StartSteps, Inductive, TypeOK, JournalTypeOK, RunState,
     Labels, StepPhases, Phases, Outcomes
<1>3. Knows(r)
  BY <1>1 DEF StartSteps, At, Inductive, StepsKnown, RunState, Knows, BeforeLoop,
     InLoop, AtStep, InAppend, InResolve, Started
<1> QED
  BY <1>1, <1>2, <1>3, LocalStep DEF StartSteps

LEMMA AppendStatusStep ==
  ASSUME Inductive, NEW p \in Runners, AppendStatus(p) PROVE Inductive'
<1> DEFINE r == [run[p] EXCEPT !.pc = "appendSteps", !.readPhase = phase]
<1>1. run[p] \in RunState /\ Knows(run[p]) /\ crashes' \in 0..MaxCrashes
  BY DEF Inductive, TypeOK, RunnerKnows, AppendStatus
<1>2. r \in RunState
  BY <1>1, StepsAreNat DEF AppendStatus, Inductive, TypeOK, JournalTypeOK, RunState,
     Labels, StepPhases, Phases, Outcomes
<1>3. Knows(r)
  BY <1>1 DEF AppendStatus, At, Inductive, StepsKnown, RunState, Knows, BeforeLoop,
     InLoop, AtStep, InAppend, InResolve, Started
<1> QED
  BY <1>1, <1>2, <1>3, LocalStep DEF AppendStatus

LEMMA RereadStep ==
  ASSUME Inductive, NEW p \in Runners, Reread(p) PROVE Inductive'
<1> DEFINE r == [run[p] EXCEPT !.pc = "next", !.seen = cur,
                                !.want = "pending", !.readPhase = "none",
                                !.max = 0]
<1>1. run[p] \in RunState /\ Knows(run[p]) /\ crashes' \in 0..MaxCrashes
  BY DEF Inductive, TypeOK, RunnerKnows, Reread
<1>2. r \in RunState
  BY <1>1, StepsAreNat DEF Reread, Inductive, TypeOK, JournalTypeOK, RunState,
     Labels, StepPhases, Phases, Outcomes
<1>3. Knows(r)
  BY <1>1 DEF Reread, At, Inductive, StepsKnown, RunState, Knows, BeforeLoop,
     InLoop, AtStep, InAppend, InResolve, Started
<1> QED
  BY <1>1, <1>2, <1>3, LocalStep DEF Reread

LEMMA AppendMaxStep ==
  ASSUME Inductive, NEW p \in Runners, AppendMax(p) PROVE Inductive'
<1> DEFINE r == [run[p] EXCEPT !.pc = "appendWrite",
                                !.max = rev[run[p].at]]
<1>1. run[p] \in RunState /\ Knows(run[p]) /\ crashes' \in 0..MaxCrashes
  BY DEF Inductive, TypeOK, RunnerKnows, AppendMax
<1>2. r \in RunState
  <2>1. run[p].at \in Steps
    BY <1>1 DEF AppendMax, At, Knows, InAppend
  <2>2. rev[run[p].at] \in Nat
    BY <2>1 DEF Inductive, TypeOK, JournalTypeOK
  <2> QED
    BY <1>1, <2>2 DEF RunState, Labels
<1>3. Knows(r)
  BY <1>1 DEF AppendMax, At, Inductive, StepsKnown, RunState, Knows, BeforeLoop,
     InLoop, AtStep, InAppend, InResolve, Started
<1> QED
  BY <1>1, <1>2, <1>3, LocalStep DEF AppendMax

LEMMA PlanStepStep ==
  ASSUME Inductive, NEW p \in Runners, PlanStep(p) PROVE Inductive'
<1> DEFINE r == [run[p] EXCEPT !.at = run[p].at + 1]
<1>1. run[p] \in RunState /\ Knows(run[p]) /\ crashes' \in 0..MaxCrashes
  BY DEF Inductive, TypeOK, RunnerKnows, PlanStep
<1>2. run[p].pc = "plan" /\ run[p].at < N
  BY DEF PlanStep, At
<1>3. r \in RunState
  BY <1>1, <1>2, NAssumption DEF RunState
<1>4. Knows(r)
  BY <1>1, <1>2 DEF RunState, Knows, BeforeLoop, InLoop, AtStep, InAppend,
     InResolve
<1>5. CASE Stop(p)
  BY <1>1, <1>5, StopStep DEF PlanStep
<1>6. CASE Become(p, r)
  BY <1>1, <1>3, <1>4, <1>6, LocalStep DEF PlanStep
<1> QED
  BY <1>5, <1>6 DEF PlanStep

LEMMA PlanReadyStep ==
  ASSUME Inductive, NEW p \in Runners, PlanReady(p) PROVE Inductive'
<1> DEFINE r == [IdleRun EXCEPT !.pc = "prepare"]
<1>1. crashes' \in 0..MaxCrashes
  BY DEF Inductive, TypeOK, PlanReady
<1>2. r \in RunState
  BY IdleRunType DEF RunState, Labels
<1>3. Knows(r)
  BY IdleRunType, IdleKnows DEF RunState, Knows, InLoop, AtStep, InAppend,
     InResolve
<1> QED
  BY <1>1, <1>2, <1>3, LocalStep DEF PlanReady

LEMMA NextStepStep ==
  ASSUME Inductive, NEW p \in Runners, NextStep(p) PROVE Inductive'
<1>1. run[p] \in RunState /\ Knows(run[p]) /\ crashes' \in 0..MaxCrashes
  BY DEF Inductive, TypeOK, RunnerKnows, NextStep
<1>2. PICK s \in Steps :
        /\ s > run[p].at /\ run[p].loop[s] = "pending"
        /\ \A t \in Steps :
             run[p].at < t /\ t < s => run[p].loop[t] # "pending"
        /\ Become(p, [run[p] EXCEPT !.pc = "preflight", !.at = s])
  BY DEF NextStep
<1> DEFINE r == [run[p] EXCEPT !.pc = "preflight", !.at = s]
<1>3. r \in RunState
  BY <1>1, StepsAreNat DEF RunState, Labels
<1>4. \A t \in Steps : t < s => rev[t] > 0
  <2> SUFFICES ASSUME NEW t \in Steps, t < s PROVE rev[t] > 0
    OBVIOUS
  <2>1. run[p].pc = "next"
    BY DEF NextStep, At
  <2>2. CASE t <= run[p].at
    BY <1>1, <2>1, <2>2 DEF Knows
  <2>3. CASE run[p].at < t
    BY <1>1, <1>2, <2>3 DEF Knows
  <2> QED
    BY <1>1, <2>2, <2>3, StepsAreNat DEF RunState
<1>5. Knows(r)
  BY <1>1, <1>4 DEF NextStep, At, RunState, Knows, BeforeLoop, InLoop, AtStep,
     InAppend, InResolve
<1> QED
  BY <1>1, <1>2, <1>3, <1>5, LocalStep DEF NextStep

LEMMA PreflightStep ==
  ASSUME Inductive, NEW p \in Runners, Preflight(p) PROVE Inductive'
<1>1. run[p] \in RunState /\ Knows(run[p]) /\ crashes' \in 0..MaxCrashes
  BY DEF Inductive, TypeOK, RunnerKnows, Preflight
<1>2. CASE Goto(p, "create")
  <2>1. Knows([run[p] EXCEPT !.pc = "create"])
    BY <1>1 DEF Preflight, At, RunState, Knows, BeforeLoop, InLoop, AtStep,
       InAppend, InResolve
  <2> QED
    BY <1>2, <2>1, GotoStep DEF Preflight, Labels
<1>3. CASE Fail(p, "needs-manual-cleanup")
  BY <1>3, FailStep DEF Preflight, At, AtStep
<1>4. CASE Fail(p, "inconclusive")
  BY <1>4, FailStep DEF Preflight, At, AtStep
<1> QED
  BY <1>2, <1>3, <1>4 DEF Preflight

LEMMA ReadbackSucceeds ==
  ASSUME Inductive, NEW p \in Runners, At(p, "readback"),
         Record(p, run[p].at, "succeeded"), Backed(run[p].at),
         UNCHANGED <<journalVars, remoteVars>>, crashes' = crashes
  PROVE  Inductive'
<1> DEFINE s == run[p].at
           r == [run[p] EXCEPT !.pc = "append", !.at = s,
                               !.want = "succeeded"]
<1>1. run[p] \in RunState /\ Knows(run[p]) /\ crashes' \in 0..MaxCrashes
  BY DEF Inductive, TypeOK, RunnerKnows
<1>2. run[p].pc = "readback"
  BY DEF At
<1>3. r \in RunState
  BY <1>1 DEF RunState, Labels, StepPhases
<1>4. Knows(r)
  BY <1>1, <1>2 DEF RunState, Knows, BeforeLoop, InLoop, AtStep, InAppend,
     InResolve, StepPhases, Backed
<1> QED
  BY <1>1, <1>3, <1>4, LocalStep DEF Record

LEMMA ReadbackStep ==
  ASSUME Inductive, NEW p \in Runners,
         ReadbackRepository(p) \/ ReadbackProject(p)
  PROVE  Inductive'
<1>1. CASE Fail(p, "inconclusive")
  BY <1>1, FailStep DEF ReadbackRepository, ReadbackProject, At, AtStep
<1>2. CASE Record(p, run[p].at, "succeeded")
  <2>1. run[p].pc = "readback" /\ run[p].at \in Steps /\ Knows(run[p])
    BY DEF ReadbackRepository, ReadbackProject, At, Inductive, RunnerKnows, Knows, AtStep
  <2>2. \/ Kind[run[p].at] = RepositoryKind /\ whole[run[p].at]
        \/ Kind[run[p].at] = ProjectKind /\ LinkedHasIssues
        \/ Fail(p, "inconclusive")
    BY DEF ReadbackRepository, ReadbackProject
  <2>3. CASE Fail(p, "inconclusive")
    BY <1>1, <2>3
  <2>4. ASSUME ~Fail(p, "inconclusive") PROVE Backed(run[p].at)
    BY <2>1, <2>2, <2>4 DEF Knows, Backed, Inductive, WholeIsOurs, RepositoryKind, ProjectKind
  <2> QED
    BY <1>2, <2>3, <2>4, ReadbackSucceeds DEF ReadbackRepository, ReadbackProject
<1> QED
  BY <1>1, <1>2 DEF ReadbackRepository, ReadbackProject

LEMMA RecoverStep ==
  ASSUME Inductive, NEW p \in Runners, RecoverRepository(p) PROVE Inductive'
<1>1. run[p] \in RunState /\ Knows(run[p]) /\ run[p].pc = "recover"
  BY DEF Inductive, TypeOK, RunnerKnows, RecoverRepository, At
<1>2. CASE Fail(p, "inconclusive")
  BY <1>1, <1>2, FailStep DEF RecoverRepository, AtStep
<1>3. CASE whole[run[p].at] /\ Goto(p, "readback")
  <2>1. Knows([run[p] EXCEPT !.pc = "readback"])
    BY <1>1, <1>3 DEF RunState, Knows, BeforeLoop, InLoop, AtStep, InAppend, InResolve
  <2> QED
    BY <1>3, <2>1, GotoStep DEF RecoverRepository, Labels
<1> QED
  BY <1>2, <1>3 DEF RecoverRepository

LEMMA BeginResolveStep ==
  ASSUME Inductive, NEW p \in Runners, BeginResolve(p) PROVE Inductive'
<1>1. run[p] \in RunState /\ Knows(run[p]) /\ crashes' \in 0..MaxCrashes
  BY DEF Inductive, TypeOK, RunnerKnows, BeginResolve
<1>2. PICK s \in Steps :
        /\ FirstUnsettled(cur, s)
        /\ Become(p, [run[p] EXCEPT !.pc = "resolve", !.at = s,
                                    !.want = Observed(s)])
  BY DEF BeginResolve
<1> DEFINE r == [run[p] EXCEPT !.pc = "resolve", !.at = s,
                               !.want = Observed(s)]
<1>3. Observed(s) \in Outcomes
  BY DEF Observed, Outcomes
<1>4. r \in RunState
  BY <1>1, <1>3, StepsAreNat DEF RunState, Labels
<1>5. \A t \in Steps : t < s => rev[t] > 0
  BY <1>2 DEF FirstUnsettled, Inductive, StepsKnown
<1>6. Knows(r)
  BY <1>1, <1>3, <1>5 DEF BeginResolve, At, RunState, Knows, BeforeLoop,
     InLoop, AtStep, InAppend, InResolve
<1> QED
  BY <1>1, <1>2, <1>4, <1>6, LocalStep DEF BeginResolve

LEMMA CrashStep ==
  ASSUME Inductive, NEW p \in Runners, Crash(p) PROVE Inductive'
<1>1. crashes' \in 0..MaxCrashes
  BY CrashAssumption DEF Inductive, TypeOK, Crash
<1> QED
  BY <1>1, StopStep DEF Crash

-----------------------------------------------------------------------------
(* Steps that write to the journal or to the remote side.                  *)

LEMMA WriteStep ==
  ASSUME Inductive, NEW p \in Runners, NEW r \in RunState, Become(p, r),
         TypeOK', Grows, RunnerKnows(p)', StepsKnown', PlanOrder',
         SucceededIsBacked', StartedBeforeCreated', WholeIsOurs'
  PROVE  Inductive'
<1>1. ASSUME NEW q \in Runners, q # p PROVE RunnerKnows(q)'
  <2>1. run'[q] = run[q] /\ run[q] \in RunState
    BY <1>1 DEF Become, Inductive, TypeOK
  <2>2. Knows(run[q])
    BY DEF Inductive, RunnerKnows
  <2> QED
    BY <2>1, <2>2, KnowledgeStays DEF Inductive
<1> QED
  BY <1>1 DEF Inductive

\* What a write does to the type invariant.
LEMMA WriteType ==
  ASSUME TypeOK, NEW p \in Runners, NEW r \in RunState, Become(p, r)
  PROVE  run' \in [Runners -> RunState] /\ run'[p] = r
BY DEF TypeOK, Become

LEMMA PrepareInsertStep ==
  ASSUME Inductive, NEW p \in Runners, PrepareInsert(p) PROVE Inductive'
<1> DEFINE r == [run[p] EXCEPT !.pc = "find"]
<1>1. run[p] \in RunState /\ Knows(run[p]) /\ crashes' \in 0..MaxCrashes
  BY DEF Inductive, TypeOK, RunnerKnows, PrepareInsert
<1>2. CASE Stop(p) /\ UNCHANGED journalVars
  BY <1>1, <1>2, StopStep DEF PrepareInsert
<1>3. CASE InsertPlan /\ Goto(p, "find")
  <2>1. r \in RunState
    BY <1>1 DEF RunState, Labels
  <2>2. Knows(r)
    BY <1>1 DEF PrepareInsert, At, RunState, Knows, BeforeLoop, InLoop,
       AtStep, InAppend, InResolve
  <2>3. run' \in [Runners -> RunState] /\ run'[p] = r /\ Become(p, r)
    BY <1>3, <2>1, WriteType DEF Goto, Inductive
  <2>4. TypeOK'
    BY <1>1, <1>3, <2>3 DEF Inductive, TypeOK, JournalTypeOK, Phases,
       InsertPlan, PrepareInsert, remoteVars
  <2>5. Grows
    BY <1>3 DEF Grows, Inductive, TypeOK, JournalTypeOK, InsertPlan,
       CanInsertPlan, Started, PrepareInsert, remoteVars
  <2>6. RunnerKnows(p)'
    BY <2>1, <2>2, <2>3, <2>4, <2>5, KnowledgeStays DEF Inductive
  <2>7. StepsKnown' /\ PlanOrder' /\ SucceededIsBacked' /\ StartedBeforeCreated'
        /\ WholeIsOurs'
    BY <1>3 DEF Inductive, StepsKnown, PlanOrder, SucceededIsBacked, WholeIsOurs,
       LinkedHasIssues, Backed,
       StartedBeforeCreated, Started, InsertPlan, CanInsertPlan,
       PrepareInsert, remoteVars
  <2> QED
    BY <2>1, <2>3, <2>4, <2>5, <2>6, <2>7, WriteStep
<1> QED
  BY <1>2, <1>3 DEF PrepareInsert

LEMMA StartWriteStep ==
  ASSUME Inductive, NEW p \in Runners, StartWrite(p) PROVE Inductive'
<1> DEFINE r == [run[p] EXCEPT !.pc = "next"]
<1>1. run[p] \in RunState /\ Knows(run[p]) /\ crashes' \in 0..MaxCrashes
  BY DEF Inductive, TypeOK, RunnerKnows, StartWrite
<1>2. CASE Stop(p) /\ UNCHANGED journalVars
  BY <1>1, <1>2, StopStep DEF StartWrite
<1>3. CASE StartUpdate /\ Goto(p, "next")
  <2>1. r \in RunState
    BY <1>1 DEF RunState, Labels
  <2>2. run' \in [Runners -> RunState] /\ run'[p] = r /\ Become(p, r)
    BY <1>3, <2>1, WriteType DEF Goto, Inductive
  <2>3. Started'
    BY <1>3 DEF StartUpdate, Started
  <2>4. TypeOK'
    BY <1>1, <1>3, <2>2 DEF Inductive, TypeOK, JournalTypeOK, Phases,
       StartUpdate, StartWrite, remoteVars
  <2>5. Grows
    BY <1>3, <2>3 DEF Grows, Inductive, TypeOK, JournalTypeOK, StartUpdate,
       StartWrite, remoteVars
  <2>6. RunnerKnows(p)'
    BY <1>1, <1>3, <2>2, <2>3, StepsAreNat DEF StartWrite, At, RunState,
       RunnerKnows, Knows, BeforeLoop, InLoop, AtStep, InAppend, InResolve,
       StartUpdate
  <2>7. StepsKnown' /\ PlanOrder' /\ SucceededIsBacked' /\ StartedBeforeCreated'
        /\ WholeIsOurs'
    BY <1>3, <2>3 DEF Inductive, StepsKnown, PlanOrder, SucceededIsBacked, WholeIsOurs,
       LinkedHasIssues,
       Backed, StartedBeforeCreated, StartUpdate, StartWrite, remoteVars
  <2> QED
    BY <2>1, <2>2, <2>4, <2>5, <2>6, <2>7, WriteStep
<1> QED
  BY <1>2, <1>3 DEF StartWrite

LEMMA FinishWriteStep ==
  ASSUME Inductive, NEW p \in Runners, FinishWrite(p) PROVE Inductive'
<1>1. crashes' \in 0..MaxCrashes
  BY DEF Inductive, TypeOK, FinishWrite
<1>2. CASE UNCHANGED journalVars
  BY <1>1, <1>2, StopStep DEF FinishWrite
<1>3. CASE FinishUpdate
  <2>1. run' \in [Runners -> RunState] /\ run'[p] = IdleRun
        /\ Become(p, IdleRun)
    BY IdleRunType, WriteType DEF FinishWrite, Stop, Inductive
  <2>2. TypeOK'
    BY <1>1, <1>3, <2>1 DEF Inductive, TypeOK, JournalTypeOK, Phases,
       FinishUpdate, FinishWrite, remoteVars
  <2>3. Grows
    BY <1>3 DEF Grows, Inductive, TypeOK, JournalTypeOK, FinishUpdate,
       Started, FinishWrite, remoteVars
  <2>4. RunnerKnows(p)'
    BY IdleRunType, IdleKnows, <2>1, <2>2, <2>3, KnowledgeStays DEF Inductive
  <2>5. StepsKnown' /\ PlanOrder' /\ SucceededIsBacked' /\ StartedBeforeCreated'
        /\ WholeIsOurs'
    BY <1>3 DEF Inductive, StepsKnown, PlanOrder, SucceededIsBacked, WholeIsOurs,
       LinkedHasIssues, Backed,
       StartedBeforeCreated, Started, FinishUpdate, FinishWrite, remoteVars
  <2> QED
    BY IdleRunType, <2>1, <2>2, <2>3, <2>4, <2>5, WriteStep
<1> QED
  BY <1>2, <1>3 DEF FinishWrite

\* The object of the step a runner is at is created or changed.
LEMMA RemoteWrite ==
  ASSUME Inductive, NEW p \in Runners, run[p].pc \in AtStep,
         mine' \in [Steps -> Nat], whole' \in [Steps -> BOOLEAN],
         issues' \in [Steps -> BOOLEAN],
         \A t \in Steps : /\ mine'[t] >= mine[t]
                          /\ whole[t] => whole'[t]
                          /\ issues[t] => issues'[t]
                          /\ whole'[t] \/ issues'[t] => mine'[t] > 0,
         \A t \in Steps \ {run[p].at} : mine'[t] = mine[t],
         UNCHANGED <<journalVars, foreign, crashes>>,
         NEW r \in RunState, Become(p, r), Knows(r) \/ Knows(r)'
  PROVE  Inductive'
<1> DEFINE s == run[p].at
<1>1. run[p] \in RunState /\ Knows(run[p])
  BY DEF Inductive, TypeOK, RunnerKnows
<1>2. s \in Steps /\ Started /\ \A t \in Steps : t < s => rev[t] > 0
  BY <1>1 DEF Knows, AtStep, InLoop
<1>3. run' \in [Runners -> RunState] /\ run'[p] = r
  BY WriteType DEF Inductive
<1>4. TypeOK'
  BY <1>3 DEF Inductive, TypeOK, JournalTypeOK, journalVars
<1>5. Grows
  BY DEF Grows, Inductive, TypeOK, JournalTypeOK, Started, journalVars
<1>6. RunnerKnows(p)'
  <2>1. CASE Knows(r)
    BY <1>3, <1>4, <1>5, <2>1, KnowledgeStays DEF Inductive
  <2>2. CASE Knows(r)'
    BY <1>3, <2>2 DEF RunnerKnows
  <2> QED
    BY <2>1, <2>2
<1>7. StepsKnown' /\ StartedBeforeCreated' /\ WholeIsOurs'
  BY <1>2 DEF Inductive, StepsKnown, StartedBeforeCreated, Started, WholeIsOurs,
     journalVars
<1>8. PlanOrder'
  BY <1>2 DEF Inductive, PlanOrder, journalVars
<1>9. SucceededIsBacked'
  <2>1. \A t \in Steps : Backed(t) => Backed(t)'
    BY LinkedAssumption DEF Backed, LinkedHasIssues, Inductive, TypeOK
  <2> QED
    BY <2>1 DEF Inductive, SucceededIsBacked, journalVars
<1> QED
  BY <1>4, <1>5, <1>6, <1>7, <1>8, <1>9, WriteStep

\* What a runner knows as it goes on with the step it is at.
LEMMA GoesOn ==
  ASSUME Inductive, NEW p \in Runners, run[p].pc \in AtStep, UNCHANGED journalVars,
         NEW l \in {"recover", "complete", "readback"}, Goto(p, l),
         l = "complete" => mine'[run[p].at] > 0,
         l = "readback" /\ Kind[run[p].at] = ProjectKind => whole'[run[p].at]
  PROVE  \E r \in RunState : Become(p, r) /\ (Knows(r) \/ Knows(r)')
<1>0. PICK r : r = [run[p] EXCEPT !.pc = l]
  OBVIOUS
<1>1. run[p] \in RunState /\ Knows(run[p])
  BY DEF Inductive, TypeOK, RunnerKnows
<1>2. r \in RunState /\ r.pc = l /\ r.at = run[p].at /\ r.loop = run[p].loop
      /\ r.seen = run[p].seen
  BY <1>0, <1>1 DEF RunState, Labels
<1>3. Knows(r)'
  BY <1>1, <1>2 DEF Knows, Started, BeforeLoop, InLoop, AtStep, InAppend, InResolve,
     journalVars
<1> QED
  BY <1>0, <1>2, <1>3 DEF Goto

LEMMA RecordsIt ==
  ASSUME Inductive, NEW p \in Runners, run[p].pc \in AtStep, UNCHANGED journalVars,
         NEW s \in Steps, s = run[p].at, Record(p, s, "succeeded"), Backed(s)'
  PROVE  \E r \in RunState : Become(p, r) /\ (Knows(r) \/ Knows(r)')
<1>0. PICK r : r = [run[p] EXCEPT !.pc = "append", !.at = s, !.want = "succeeded"]
  OBVIOUS
<1>1. run[p] \in RunState /\ Knows(run[p])
  BY DEF Inductive, TypeOK, RunnerKnows
<1>2. r \in RunState /\ r.pc = "append" /\ r.at = s /\ r.loop = run[p].loop
      /\ r.seen = run[p].seen /\ r.want = "succeeded"
  BY <1>0, <1>1 DEF RunState, Labels, StepPhases
<1>3. Knows(r)'
  BY <1>1, <1>2 DEF Knows, Started, BeforeLoop, InLoop, AtStep, InAppend, InResolve,
     StepPhases, journalVars
<1> QED
  BY <1>0, <1>2, <1>3 DEF Record

LEMMA CreateStep ==
  ASSUME Inductive, NEW p \in Runners,
         CreateRepository(p) \/ CreateProject(p) \/ AddMarketplace(p)
  PROVE  Inductive'
<1> DEFINE s == run[p].at
<1>1. run[p].pc = "create" /\ UNCHANGED <<journalVars, foreign, crashes>>
  BY DEF CreateRepository, CreateProject, AddMarketplace, At
<1>2. s \in Steps
  BY <1>1 DEF Inductive, RunnerKnows, Knows, AtStep
<1>3. /\ mine \in [Steps -> Nat] /\ whole \in [Steps -> BOOLEAN]
      /\ issues \in [Steps -> BOOLEAN]
      /\ \A t \in Steps : whole[t] => mine[t] > 0
  BY DEF Inductive, TypeOK, WholeIsOurs
<1>4. PICK r \in RunState : Become(p, r) /\ (Knows(r) \/ Knows(r)')
  <2>1. \/ Fail(p, "inconclusive") \/ Goto(p, "recover")
        \/ Goto(p, "complete") /\ mine'[s] > 0
    BY <1>2, <1>3 DEF CreateRepository, CreateProject, AddMarketplace, AnswerTo
  <2>2. CASE Fail(p, "inconclusive")
    BY <1>1, <2>2, FailKnows DEF AtStep
  <2> QED
    BY <1>1, <2>1, <2>2, GoesOn DEF AtStep
<1>5. CASE UNCHANGED <<mine, whole, issues>>
  BY <1>1, <1>3, <1>4, <1>5, RemoteWrite DEF AtStep, Inductive, WholeIsOurs
<1>6. CASE /\ \E k \in Nat : k > mine[s] /\ mine' = [mine EXCEPT ![s] = k]
           /\ UNCHANGED <<whole, issues>>
  BY <1>1, <1>2, <1>3, <1>4, <1>6, RemoteWrite DEF AtStep, Inductive, WholeIsOurs
<1>7. CASE CreateRepository(p) /\ ~RepositoryTaken(s) /\ mine' = [mine EXCEPT ![s] = mine[s] + 1]
  <2>1. ~whole[s] /\ ~issues[s]
    BY <1>2, <1>7 DEF RepositoryTaken, Inductive, WholeIsOurs
  <2>2. \E b \in BOOLEAN : whole' = [whole EXCEPT ![s] = b]
    BY <1>2, <1>3, <1>7 DEF CreateRepository, Push, RepositoryTaken, AnswerTo
  <2>3. \E b \in BOOLEAN : issues' = [issues EXCEPT ![s] = b]
    BY <1>2, <1>3, <1>7 DEF CreateRepository
  <2> QED
    BY <1>1, <1>2, <1>3, <1>4, <1>7, <2>1, <2>2, <2>3, RemoteWrite
       DEF AtStep, Inductive, WholeIsOurs
<1>8. CASE CreateRepository(p)
  <2>1. \/ UNCHANGED <<mine, whole, issues>>
        \/ ~RepositoryTaken(s) /\ mine' = [mine EXCEPT ![s] = mine[s] + 1]
    BY <1>8 DEF CreateRepository
  <2> QED
    BY <1>5, <1>7, <1>8, <2>1
<1>9. CASE CreateProject(p)
  <2>1. \/ UNCHANGED <<mine, whole, issues>>
        \/ mine' = [mine EXCEPT ![s] = mine[s] + 1] /\ UNCHANGED <<whole, issues>>
    BY <1>9 DEF CreateProject
  <2>2. mine[s] \in Nat /\ mine[s] + 1 \in Nat /\ mine[s] + 1 > mine[s]
    BY <1>2, <1>3
  <2> QED
    BY <1>5, <1>6, <2>1, <2>2
<1>10. CASE AddMarketplace(p)
  <2>1. \/ UNCHANGED <<mine, whole, issues>>
        \/ /\ mine[s] = 0 /\ mine' = [mine EXCEPT ![s] = 1]
           /\ UNCHANGED <<whole, issues>>
    BY <1>10 DEF AddMarketplace
  <2> QED
    BY <1>5, <1>6, <2>1
<1> QED
  BY <1>8, <1>9, <1>10

LEMMA CompleteStep ==
  ASSUME Inductive, NEW p \in Runners,
         EnableIssues(p) \/ LinkProject(p) \/ InstallPlugins(p)
  PROVE  Inductive'
<1> DEFINE s == run[p].at
<1>1. /\ run[p].pc = "complete" /\ UNCHANGED <<journalVars, mine, foreign, crashes>>
      /\ Knows(run[p])
  BY DEF EnableIssues, LinkProject, InstallPlugins, At, Inductive, RunnerKnows
<1>2. s \in Steps /\ mine[s] > 0
  BY <1>1 DEF Knows, AtStep
<1>3. /\ mine \in [Steps -> Nat] /\ whole \in [Steps -> BOOLEAN]
      /\ issues \in [Steps -> BOOLEAN]
  BY DEF Inductive, TypeOK
<1>4. /\ whole' = whole \/ whole' = [whole EXCEPT ![s] = TRUE]
      /\ issues' = issues \/ issues' = [issues EXCEPT ![s] = TRUE]
  BY DEF EnableIssues, LinkProject, InstallPlugins
<1>5. PICK r \in RunState : Become(p, r) /\ (Knows(r) \/ Knows(r)')
  <2>1. \/ Fail(p, "inconclusive")
        \/ Goto(p, "readback") /\ (Kind[s] = ProjectKind => whole'[s])
        \/ Record(p, s, "succeeded") /\ Kind[s] = ProviderKind /\ whole'[s]
    BY <1>2, <1>3 DEF EnableIssues, LinkProject, InstallPlugins, AnswerTo, RepositoryKind,
       ProjectKind
  <2>2. CASE Fail(p, "inconclusive")
    BY <1>1, <2>2, FailKnows DEF AtStep
  <2>3. CASE Record(p, s, "succeeded") /\ Kind[s] = ProviderKind /\ whole'[s]
    <3>1. PICK t \in Steps : t = s
      BY <1>2
    <3>2. Backed(t)'
      BY <2>3, <3>1 DEF Backed, ProviderKind, ProjectKind
    <3> QED BY <1>1, <2>3, <3>1, <3>2, RecordsIt DEF AtStep
  <2>4. CASE Goto(p, "readback") /\ (Kind[s] = ProjectKind => whole'[s])
    BY <1>1, <2>4, GoesOn DEF AtStep
  <2> QED BY <2>1, <2>2, <2>3, <2>4
<1>6. /\ whole' \in [Steps -> BOOLEAN] /\ issues' \in [Steps -> BOOLEAN]
      /\ \A t \in Steps : /\ mine'[t] >= mine[t]
                          /\ whole[t] => whole'[t]
                          /\ issues[t] => issues'[t]
                          /\ whole'[t] \/ issues'[t] => mine'[t] > 0
  <2>1. /\ \A t \in Steps : whole[t] \/ issues[t] => mine[t] > 0
        /\ mine' = mine
    BY <1>1 DEF Inductive, WholeIsOurs
  <2>2. \A t \in Steps : mine[t] >= mine[t]
    BY <1>3
  <2> HIDE DEF s
  <2>3. whole' \in [Steps -> BOOLEAN] /\ \A t \in Steps : whole[t] => whole'[t]
    BY <1>2, <1>3, <1>4
  <2>4. issues' \in [Steps -> BOOLEAN] /\ \A t \in Steps : issues[t] => issues'[t]
    BY <1>2, <1>3, <1>4
  <2>5. \A t \in Steps : whole'[t] \/ issues'[t] => mine[t] > 0
    BY <1>2, <1>3, <1>4, <2>1
  <2> QED BY <2>1, <2>2, <2>3, <2>4, <2>5
<1> QED
  BY <1>1, <1>3, <1>5, <1>6, RemoteWrite DEF AtStep

LEMMA AppearStep ==
  ASSUME Inductive, NEW s \in Steps, Appear(s) PROVE Inductive'
<1>1. TypeOK'
  BY DEF Inductive, TypeOK, JournalTypeOK, Appear, journalVars
<1>2. \A q \in Runners : RunnerKnows(q)'
  BY DEF Inductive, RunnerKnows, Knows, Started, Backed, LinkedHasIssues,
     Appear, journalVars
<1> QED
  BY <1>1, <1>2 DEF Inductive, StepsKnown, PlanOrder, SucceededIsBacked,
     Backed, LinkedHasIssues, WholeIsOurs, StartedBeforeCreated, Started, Appear, journalVars

LEMMA AppendWriteStep ==
  ASSUME Inductive, NEW p \in Runners, AppendWrite(p) PROVE Inductive'
<1> DEFINE s == run[p].at
           o == run[p].want
           rr == [run[p] EXCEPT !.pc = "reread"]
<1>1. run[p] \in RunState /\ Knows(run[p]) /\ run[p].pc = "appendWrite"
      /\ crashes' \in 0..MaxCrashes
  BY DEF Inductive, TypeOK, RunnerKnows, AppendWrite, At
<1>2. /\ s \in Steps /\ Started
      /\ \A t \in Steps : t < s => rev[t] > 0
      /\ o \in StepPhases \ {"pending"}
      /\ o = "succeeded" => Backed(s)
  BY <1>1 DEF Knows, InAppend, InLoop
<1>3. CASE Stop(p) /\ UNCHANGED journalVars
  BY <1>1, <1>3, StopStep DEF AppendWrite
<1>4. CASE /\ AppendRow(s, o, run[p].readPhase, run[p].max)
           /\ IF o = "succeeded" THEN Goto(p, "reread") ELSE Stop(p)
  <2>1. /\ cur' \in [Steps -> StepPhases]
        /\ rev' \in [Steps -> Nat]
        /\ rev'[s] > 0
        /\ \A t \in Steps : rev'[t] >= rev[t]
        /\ cur'[s] = o
        /\ \A t \in Steps \ {s} : cur'[t] = cur[t] /\ rev'[t] = rev[t]
    BY <1>1, <1>2, <1>4 DEF AppendRow, CanAppend, Inductive, TypeOK,
       JournalTypeOK, RunState
  <2>2. phase' = phase \/ (phase' = o /\ o # "succeeded")
    BY <1>4 DEF AppendRow, PhaseAfter
  <2>3. Started' /\ phase' \in Phases
    BY <1>2, <2>2 DEF Started, Inductive, TypeOK, JournalTypeOK, Phases,
       StepPhases
  <2>4. rr \in RunState
    BY <1>1 DEF RunState, Labels
  <2>5. PICK r \in RunState : Become(p, r) /\ (Knows(r) \/ r = rr)
    BY <1>4, <2>4, IdleRunType, IdleKnows DEF Goto, Stop
  <2>6. run' \in [Runners -> RunState] /\ run'[p] = r
    BY <2>5, WriteType DEF Inductive
  <2>7. TypeOK'
    BY <1>1, <1>4, <2>1, <2>3, <2>6 DEF Inductive, TypeOK, JournalTypeOK,
       AppendRow, AppendWrite, remoteVars
  <2>8. Grows
    BY <2>1, <2>3 DEF Grows, Inductive, TypeOK, AppendWrite, remoteVars
  <2>9. RunnerKnows(p)'
    <3>1. CASE Knows(r)
      BY <2>5, <2>6, <2>7, <2>8, <3>1, KnowledgeStays DEF Inductive
    <3>2. CASE r = rr
      <4>1. \A t \in Steps : rev[t] > 0 => rev'[t] > 0
        BY <2>1 DEF Inductive, TypeOK, JournalTypeOK
      <4>2. \A t \in Steps : t <= s => rev'[t] > 0
        <5> SUFFICES ASSUME NEW t \in Steps, t <= s PROVE rev'[t] > 0
          OBVIOUS
        <5>0. t \in Nat /\ s \in Nat
          BY <1>2, StepsAreNat
        <5>1. t = s \/ t < s
          BY <5>0
        <5> QED
          BY <1>2, <2>1, <4>1, <5>1
      <4> QED
        BY <1>1, <2>3, <2>6, <3>2, <4>1, <4>2 DEF RunState, RunnerKnows,
           Knows, BeforeLoop, InLoop, AtStep, InAppend, InResolve
    <3> QED
      BY <2>5, <3>1, <3>2
  <2>10. \A t \in Steps : rev[t] > 0 => rev'[t] > 0
    BY <2>1 DEF Inductive, TypeOK, JournalTypeOK
  <2>11. StepsKnown'
    BY <2>1, <2>10 DEF Inductive, StepsKnown
  <2>12. StartedBeforeCreated'
    BY <2>3 DEF StartedBeforeCreated
  <2>13. PlanOrder'
    BY <1>2, <2>1, <2>10 DEF Inductive, PlanOrder, AppendWrite, remoteVars
  <2>14. SucceededIsBacked'
    BY <1>2, <2>1 DEF Inductive, SucceededIsBacked, Backed, LinkedHasIssues, AppendWrite,
       remoteVars
  <2>15. WholeIsOurs'
    BY DEF Inductive, WholeIsOurs, AppendWrite, remoteVars
  <2> QED
    BY <2>5, <2>7, <2>8, <2>9, <2>11, <2>12, <2>13, <2>14, <2>15, WriteStep
<1> QED
  BY <1>3, <1>4 DEF AppendWrite

LEMMA ResolveWriteStep ==
  ASSUME Inductive, NEW p \in Runners, ResolveWrite(p) PROVE Inductive'
<1> DEFINE s == run[p].at
           o == run[p].want
<1>1. run[p] \in RunState /\ Knows(run[p]) /\ run[p].pc = "resolveWrite"
      /\ crashes' \in 0..MaxCrashes
  BY DEF Inductive, TypeOK, RunnerKnows, ResolveWrite, At
<1>2. /\ s \in Steps /\ o \in Outcomes
      /\ \A t \in Steps : t < s => rev[t] > 0
  BY <1>1 DEF Knows, InResolve
<1>3. CASE UNCHANGED journalVars
  BY <1>1, <1>3, StopStep DEF ResolveWrite
<1>4. CASE ResolveRow(s, o)
  <2>1. /\ cur' \in [Steps -> StepPhases]
        /\ rev' \in [Steps -> Nat]
        /\ resolved' \in [Steps -> Outcomes \cup {"none"}]
        /\ \A t \in Steps : rev'[t] >= rev[t]
        /\ \A t \in Steps : cur'[t] = cur[t] \/ cur'[t] = "pending"
        /\ \A t \in Steps \ {s} : rev'[t] = rev[t]
    BY <1>2, <1>4 DEF ResolveRow, Inductive, TypeOK, JournalTypeOK, StepPhases
  <2>2. Started' /\ phase' \in Phases
    BY <1>4 DEF ResolveRow, Started, Phases
  <2>3. run' \in [Runners -> RunState] /\ run'[p] = IdleRun
        /\ Become(p, IdleRun)
    BY IdleRunType, WriteType DEF ResolveWrite, Stop, Inductive
  <2>4. TypeOK'
    BY <1>1, <2>1, <2>2, <2>3 DEF Inductive, TypeOK, JournalTypeOK,
       ResolveWrite, remoteVars
  <2>5. Grows
    BY <2>1, <2>2 DEF Grows, Inductive, TypeOK, ResolveWrite, remoteVars
  <2>6. RunnerKnows(p)'
    BY IdleRunType, IdleKnows, <2>3, <2>4, <2>5, KnowledgeStays DEF Inductive
  <2>7. \A t \in Steps : rev[t] > 0 => rev'[t] > 0
    BY <2>1 DEF Inductive, TypeOK, JournalTypeOK
  <2>8. StepsKnown' /\ StartedBeforeCreated'
    BY <2>1, <2>2, <2>7 DEF Inductive, StepsKnown, StartedBeforeCreated
  <2>9. PlanOrder'
    BY <1>2, <2>1, <2>7 DEF Inductive, PlanOrder, ResolveWrite, remoteVars
  <2>10. SucceededIsBacked'
    BY <2>1 DEF Inductive, SucceededIsBacked, Backed, LinkedHasIssues, ResolveWrite,
       remoteVars
  <2>11. WholeIsOurs'
    BY DEF Inductive, WholeIsOurs, ResolveWrite, remoteVars
  <2> QED
    BY IdleRunType, <2>3, <2>4, <2>5, <2>6, <2>8, <2>9, <2>10, <2>11, WriteStep
<1> QED
  BY <1>3, <1>4 DEF ResolveWrite

-----------------------------------------------------------------------------
(* The invariant.                                                          *)

LEMMA InitInductive == Init => Inductive
<1> SUFFICES ASSUME Init PROVE Inductive
  OBVIOUS
<1>1. TypeOK
  BY IdleRunType, CrashAssumption DEF Init, JournalInit, TypeOK,
     JournalTypeOK, Phases, StepPhases
<1>2. \A p \in Runners : RunnerKnows(p)
  BY IdleKnows DEF Init, RunnerKnows
<1> QED
  BY <1>1, <1>2 DEF Init, JournalInit, Inductive, StepsKnown, PlanOrder,
     SucceededIsBacked, StartedBeforeCreated, WholeIsOurs

LEMMA NextInductive == Inductive /\ [Next]_vars => Inductive'
<1> SUFFICES ASSUME Inductive, [Next]_vars PROVE Inductive'
  OBVIOUS
<1>1. CASE UNCHANGED vars
  BY <1>1 DEF vars, journalVars, remoteVars, Inductive, TypeOK, JournalTypeOK,
     RunnerKnows, Knows, StepsKnown, PlanOrder, SucceededIsBacked, Backed,
     LinkedHasIssues, WholeIsOurs, StartedBeforeCreated, Started
<1>2. ASSUME NEW p \in Runners, Begin(p) PROVE Inductive'
  BY <1>2, BeginInitStep, BeginApplyStep, BeginResolveStep DEF Begin
<1>3. ASSUME NEW p \in Runners, PlanPhase(p) PROVE Inductive'
  BY <1>3, PlanStepStep, PlanReadyStep, PrepareStep, PrepareInsertStep
     DEF PlanPhase
<1>4. ASSUME NEW p \in Runners, StartPhase(p) PROVE Inductive'
  BY <1>4, FindStatusStep, FindStepsStep, StartStatusStep, StartStepsStep,
     StartWriteStep DEF StartPhase
<1>5. ASSUME NEW p \in Runners, LoopPhase(p) PROVE Inductive'
  BY <1>5, NextStepStep, LoopDoneStep, PreflightStep DEF LoopPhase
<1>11. ASSUME NEW p \in Runners, RemotePhase(p) PROVE Inductive'
  BY <1>11, CreateStep, RecoverStep, CompleteStep, ReadbackStep DEF RemotePhase
<1>6. ASSUME NEW p \in Runners, AppendPhase(p) PROVE Inductive'
  BY <1>6, AppendStatusStep, AppendStepsStep, AppendMaxStep, AppendWriteStep,
     RereadStep DEF AppendPhase
<1>7. ASSUME NEW p \in Runners, FinishPhase(p) PROVE Inductive'
  BY <1>7, FinishStatusStep, FinishWriteStep DEF FinishPhase
<1>8. ASSUME NEW p \in Runners, ResolvePhase(p) PROVE Inductive'
  BY <1>8, ResolveStatusStep, ResolveStepsStep, ResolveWriteStep
     DEF ResolvePhase
<1>9. ASSUME NEW p \in Runners, Crash(p) PROVE Inductive'
  BY <1>9, CrashStep
<1>10. ASSUME NEW s \in Steps, Appear(s) PROVE Inductive'
  BY <1>10, AppearStep
<1> QED
  BY <1>1, <1>2, <1>3, <1>4, <1>5, <1>6, <1>7, <1>8, <1>9, <1>10,
     <1>11 DEF Next, Work

\* The invariant holds, whatever the plan, the number of processes and their
\* crashes: a runner's knowledge of the journal is never wrong.
THEOREM InductiveInvariance == Spec => []Inductive
<1>1. Init => Inductive
  BY InitInductive
<1>2. Inductive /\ [Next]_vars => Inductive'
  BY NextInductive
<1> QED
  BY <1>1, <1>2, PTL DEF Spec

\* Every variable keeps to its type.
THEOREM TypeCorrect == Spec => []TypeOK
<1>1. Inductive => TypeOK
  BY DEF Inductive
<1> QED
  BY <1>1, InductiveInvariance, PTL

\* applyDeploymentPlan and the append-only check of appendOperationStep keep
\* the order of the plan, also between concurrent processes.
THEOREM PlanOrderKept == Spec => []PlanOrder
<1>1. Inductive => PlanOrder
  BY DEF Inductive
<1> QED
  BY <1>1, InductiveInvariance, PTL

\* A step that the journal says has succeeded has what its readback asks for,
\* on an object that a process of this operation created, also between
\* concurrent processes and after the readback of a failed create.
THEOREM SuccessIsBacked == Spec => []SucceededIsBacked
<1>1. Inductive => SucceededIsBacked
  BY DEF Inductive
<1> QED
  BY <1>1, InductiveInvariance, PTL

\* The journal shows that an operation was started before anything remote is
\* created for it.
THEOREM NothingBeforeStart == Spec => []StartedBeforeCreated
<1>1. Inductive => StartedBeforeCreated
  BY DEF Inductive
<1> QED
  BY <1>1, InductiveInvariance, PTL

-----------------------------------------------------------------------------
(* One process at a time.  What it has read of the journal is then what    *)
(* the journal says, until it writes itself.                               *)

OneProcess == \E p : Runners = {p}

InSteps == AtStep \cup InAppend
Looping == InSteps \cup {"findSteps", "next", "reread", "finish", "finishUpdate"}

Holds(r) ==
  /\ r.pc \in Looping => phase = "applying"
  /\ r.pc \in AtStep \cup {"startUpdate", "next"} => r.seen = cur
  /\ r.pc \in InSteps \cup {"startUpdate", "next", "reread"} =>
       \A s \in Steps : s > r.at => r.loop[s] = cur[s]
  /\ r.pc \in {"next", "reread"} => \A s \in Steps : s <= r.at => cur[s] = "succeeded"
  /\ r.pc \in InSteps => FirstPending(cur, r.at)
  /\ r.pc \in InAppend \ {"append"} => r.readPhase = "applying"
  /\ r.pc = "create" /\ Kind[r.at] # ProviderKind => mine[r.at] = 0
  /\ r.pc \in {"finish", "finishUpdate"} => \A s \in Steps : cur[s] = "succeeded"
  /\ r.pc \in InResolve => /\ phase = "inconclusive" /\ FirstUnsettled(cur, r.at)
                           /\ r.want = "matched" => whole[r.at]

\* The steps are done in order, and the phase says how far.
Shape ==
  /\ \A s, t \in Steps : s < t /\ cur[t] # "pending" => cur[s] = "succeeded"
  /\ phase \in {"none", "prepared", "applying", "needs-resume"} =>
       \A s \in Steps : cur[s] \in {"pending", "succeeded"}
  /\ phase = "inconclusive" => \E s \in Steps : cur[s] = "inconclusive"
  /\ phase = "succeeded" => \A s \in Steps : cur[s] = "succeeded"

Objects == \A s \in Steps : mine[s] <= 1 /\ (whole[s] => mine[s] > 0)

Serial == Inductive /\ Shape /\ Objects /\ \A p \in Runners : Holds(run[p])

LEMMA Alone ==
  ASSUME OneProcess, Serial, Inductive', NEW p \in Runners, NEW r, Become(p, r),
         Shape', Objects', Holds(r)'
  PROVE  Serial'
<1>1. run'[p] = r /\ \A q \in Runners : q = p
  BY DEF OneProcess, Become, Serial, Inductive, TypeOK
<1> QED BY <1>1 DEF Serial

LEMMA IdleHolds == Holds(IdleRun)
BY IdleRunType DEF Holds, Looping, InSteps, AtStep, InAppend, InResolve

\* A step that touches neither the journal nor the remote side.
LEMMA QuietStep ==
  ASSUME OneProcess, Serial, Inductive', NEW p \in Runners, NEW r, Become(p, r), Holds(r),
         UNCHANGED <<journalVars, mine, whole>>
  PROVE  Serial'
<1>1. Shape' /\ Objects'
  BY DEF Serial, Shape, Objects, journalVars
<1>2. Holds(r)'
  BY DEF Holds, journalVars
<1> QED BY <1>1, <1>2, Alone

LEMMA StopQuietly ==
  ASSUME OneProcess, Serial, Inductive', NEW p \in Runners, Stop(p),
         UNCHANGED <<journalVars, mine, whole>>
  PROVE  Serial'
BY IdleHolds, QuietStep DEF Stop

LEMMA GotoQuietly ==
  ASSUME OneProcess, Serial, Inductive', NEW p \in Runners, NEW l, Goto(p, l),
         Holds([run[p] EXCEPT !.pc = l]), UNCHANGED <<journalVars, mine, whole>>
  PROVE  Serial'
<1>1. PICK r : r = [run[p] EXCEPT !.pc = l]
  OBVIOUS
<1> QED BY <1>1, QuietStep DEF Goto

\* There is one step to record a failure of: the one the runner is at.
LEMMA FirstIsOne ==
  ASSUME NEW s \in Steps, NEW t \in Steps, FirstPending(cur, s), FirstPending(cur, t)
  PROVE  s = t
BY StepsAreNat DEF FirstPending

LEMMA RecordHolds ==
  ASSUME Serial, NEW p \in Runners, run[p].pc \in AtStep, NEW o,
         Record(p, run[p].at, o) \/ Fail(p, o)
  PROVE  \E r : /\ Become(p, r) /\ r.pc = "append"
                /\ Holds(r)
<1>1. run[p] \in RunState /\ Holds(run[p]) /\ run[p].at \in Steps
  BY DEF Serial, Inductive, TypeOK, RunnerKnows, Knows, AtStep
<1>2. FirstPending(cur, run[p].at) /\ run[p].seen = cur /\ phase = "applying"
  BY <1>1 DEF Holds, InSteps, Looping
<1>3. Record(p, run[p].at, o)
  BY <1>1, <1>2, FirstIsOne DEF Fail, NonePending, FirstPending
<1>4. PICK r : r = [run[p] EXCEPT !.pc = "append", !.at = run[p].at, !.want = o]
  OBVIOUS
<1>5. r.pc = "append" /\ r.at = run[p].at /\ r.loop = run[p].loop
  BY <1>1, <1>4 DEF RunState
<1>6. Holds(r)
  BY <1>1, <1>2, <1>5 DEF Holds, InSteps, Looping, AtStep, InAppend, InResolve
<1> QED BY <1>3, <1>4, <1>5, <1>6 DEF Record

LEMMA RecordStep ==
  ASSUME OneProcess, Serial, Inductive', NEW p \in Runners, run[p].pc \in AtStep, NEW o,
         Record(p, run[p].at, o) \/ Fail(p, o), UNCHANGED journalVars, Objects'
  PROVE  Serial'
<1>1. PICK r : Become(p, r) /\ r.pc = "append" /\ Holds(r)
  BY RecordHolds
<1>2. Shape'
  BY DEF Serial, Shape, journalVars
<1>3. Holds(r)'
  BY <1>1 DEF Holds, journalVars, InResolve
<1> QED BY <1>1, <1>2, <1>3, Alone

LEMMA RunIs ==
  ASSUME Serial, NEW p \in Runners
  PROVE  /\ run[p] \in RunState /\ Holds(run[p]) /\ Knows(run[p])
         /\ cur \in [Steps -> StepPhases] /\ mine \in [Steps -> Nat]
         /\ phase \in Phases
BY DEF Serial, Inductive, TypeOK, JournalTypeOK, RunnerKnows

LEMMA BeginSerial ==
  ASSUME OneProcess, Serial, Inductive', NEW p \in Runners, Begin(p) PROVE Serial'
<1>1. UNCHANGED <<journalVars, mine, whole>> /\ run[p].pc = "idle"
  BY DEF Begin, BeginInit, BeginApply, BeginResolve, remoteVars, At
<1>2. ASSUME NEW l \in {"plan", "find"}, Goto(p, l) PROVE Serial'
  <2>1. Holds([run[p] EXCEPT !.pc = l])
    BY RunIs DEF RunState, Holds, Looping, InSteps, AtStep, InAppend, InResolve
  <2> QED BY <1>1, <1>2, <2>1, GotoQuietly
<1>3. CASE BeginResolve(p)
  <2>1. PICK s \in Steps : /\ FirstUnsettled(cur, s)
                           /\ Become(p, [run[p] EXCEPT !.pc = "resolve", !.at = s,
                                                       !.want = Observed(s)])
    BY <1>3 DEF BeginResolve
  <2>2. PICK r : r = [run[p] EXCEPT !.pc = "resolve", !.at = s, !.want = Observed(s)]
    OBVIOUS
  <2>3. r.pc = "resolve" /\ r.at = s /\ r.want = Observed(s)
    BY <2>2, RunIs DEF RunState
  <2>4. Observed(s) = "matched" => whole[s]
    BY DEF Observed
  <2>5. Holds(r)
    BY <1>3, <2>1, <2>3, <2>4 DEF BeginResolve, Holds, Looping, InSteps, AtStep, InAppend,
       InResolve
  <2> QED BY <1>1, <2>1, <2>2, <2>5, QuietStep
<1> QED BY <1>2, <1>3 DEF Begin, BeginInit, BeginApply

LEMMA PlanSerial ==
  ASSUME OneProcess, Serial, Inductive', NEW p \in Runners, PlanPhase(p) PROVE Serial'
<1>1. UNCHANGED <<mine, whole>>
  BY DEF PlanPhase, PlanStep, PlanReady, Prepare, PrepareInsert, remoteVars
<1>2. run[p].pc \in {"plan", "prepare", "insert"} /\ run[p] \in RunState
  BY RunIs DEF PlanPhase, PlanStep, PlanReady, Prepare, PrepareInsert, At
<1>3. CASE Stop(p) /\ UNCHANGED journalVars
  BY <1>1, <1>3, StopQuietly
<1>4. ASSUME NEW r \in RunState, r.pc \in {"plan", "prepare", "insert", "find"}, Become(p, r),
             UNCHANGED journalVars
      PROVE  Serial'
  <2>1. Holds(r)
    BY <1>4 DEF Holds, Looping, InSteps, AtStep, InAppend, InResolve
  <2> QED BY <1>1, <1>4, <2>1, QuietStep
<1>5. CASE PlanStep(p)
  <2>1. UNCHANGED journalVars
    BY <1>5 DEF PlanStep
  <2>2. PICK r : r = [run[p] EXCEPT !.at = run[p].at + 1]
    OBVIOUS
  <2>3. run[p].at < N => r \in RunState /\ r.pc = run[p].pc
    BY <1>2, <2>2, NAssumption DEF RunState
  <2> QED BY <1>2, <1>3, <1>4, <1>5, <2>1, <2>2, <2>3 DEF PlanStep
<1>6. CASE PlanReady(p)
  <2>1. UNCHANGED journalVars
    BY <1>6 DEF PlanReady
  <2>2. PICK r : r = [IdleRun EXCEPT !.pc = "prepare"]
    OBVIOUS
  <2>3. r \in RunState /\ r.pc = "prepare"
    BY <2>2, IdleRunType DEF RunState, Labels
  <2> QED BY <1>4, <1>6, <2>1, <2>2, <2>3 DEF PlanReady
<1>7. CASE Prepare(p)
  <2>1. PICK l \in {"insert", "find"} : Goto(p, l) /\ UNCHANGED journalVars
    BY <1>7 DEF Prepare
  <2>2. PICK r : r = [run[p] EXCEPT !.pc = l]
    OBVIOUS
  <2>3. r \in RunState /\ r.pc = l
    BY <1>2, <2>2 DEF RunState, Labels
  <2> QED BY <1>4, <2>1, <2>2, <2>3 DEF Goto
<1>8. CASE InsertPlan /\ Goto(p, "find")
  <2>1. PICK r : r = [run[p] EXCEPT !.pc = "find"]
    OBVIOUS
  <2>2. r \in RunState /\ r.pc = "find" /\ Become(p, r)
    BY <1>2, <1>8, <2>1 DEF RunState, Labels, Goto
  <2>3. Holds(r)'
    BY <2>2 DEF Holds, Looping, InSteps, AtStep, InAppend, InResolve
  <2>4. Shape' /\ Objects'
    BY <1>1, <1>8 DEF Serial, Shape, Objects, InsertPlan, CanInsertPlan
  <2> QED BY <2>2, <2>3, <2>4, Alone
<1> QED BY <1>3, <1>5, <1>6, <1>7, <1>8 DEF PlanPhase, PrepareInsert

LEMMA StartSerial ==
  ASSUME OneProcess, Serial, Inductive', NEW p \in Runners, StartPhase(p) PROVE Serial'
<1>1. UNCHANGED <<mine, whole>>
  BY DEF StartPhase, FindStatus, FindSteps, StartStatus, StartSteps, StartWrite, remoteVars
<1>2. run[p] \in RunState /\ Holds(run[p]) /\ run[p].pc \in BeforeLoop /\ run[p].at = 0
  BY RunIs DEF StartPhase, FindStatus, FindSteps, StartStatus, StartSteps, StartWrite, At, Knows,
     BeforeLoop
<1>3. CASE Stop(p) /\ UNCHANGED journalVars
  BY <1>1, <1>3, StopQuietly
<1>4. CASE (FindStatus(p) \/ StartStatus(p)) /\ ~Stop(p)
  <2>1. PICK l \in {"start", "findSteps", "startSteps"} :
          /\ Goto(p, l) /\ UNCHANGED journalVars
          /\ l = "findSteps" => phase = "applying"
    BY <1>4 DEF FindStatus, StartStatus
  <2>2. PICK r : r = [run[p] EXCEPT !.pc = l]
    OBVIOUS
  <2>3. r.pc = l
    BY <1>2, <2>2 DEF RunState
  <2>4. Holds(r)
    BY <2>1, <2>3 DEF Holds, Looping, InSteps, AtStep, InAppend, InResolve
  <2> QED BY <1>1, <2>1, <2>2, <2>4, QuietStep DEF Goto
<1>5. CASE FindSteps(p) \/ StartSteps(p)
  <2>1. PICK l \in {"next", "startUpdate"} :
          /\ UNCHANGED journalVars
          /\ l = "next" => phase = "applying"
          /\ Become(p, [run[p] EXCEPT !.pc = l, !.loop = cur, !.seen = cur])
    BY <1>2, <1>5 DEF FindSteps, StartSteps, Holds, Looping, At
  <2>2. PICK r : r = [run[p] EXCEPT !.pc = l, !.loop = cur, !.seen = cur]
    OBVIOUS
  <2>3. r.pc = l /\ r.at = 0 /\ r.loop = cur /\ r.seen = cur
    BY <1>2, <2>2 DEF RunState
  <2>4. Holds(r)
    BY <2>1, <2>3, StepsAreNat DEF Holds, Looping, InSteps, AtStep, InAppend, InResolve
  <2> QED BY <1>1, <2>1, <2>2, <2>4, QuietStep
<1>6. CASE StartWrite(p) /\ ~(Stop(p) /\ UNCHANGED journalVars)
  <2>1. StartUpdate /\ Goto(p, "next") /\ run[p].pc = "startUpdate"
    BY <1>6 DEF StartWrite, At
  <2>2. PICK r : r = [run[p] EXCEPT !.pc = "next"]
    OBVIOUS
  <2>3. r.pc = "next" /\ r.at = 0 /\ r.loop = run[p].loop /\ r.seen = run[p].seen
    BY <1>2, <2>2 DEF RunState
  <2>4. Holds(r)'
    BY <1>2, <2>1, <2>3, StepsAreNat
       DEF StartUpdate, Holds, Looping, InSteps, AtStep, InAppend, InResolve
  <2>5. Shape' /\ Objects'
    BY <1>1, <2>1 DEF Serial, Shape, Objects, StartUpdate, CanStart, Startable
  <2> QED BY <2>1, <2>2, <2>4, <2>5, Alone DEF Goto
<1> QED BY <1>3, <1>4, <1>5, <1>6 DEF StartPhase, FindStatus, StartStatus

LEMMA LoopSerial ==
  ASSUME OneProcess, Serial, Inductive', NEW p \in Runners, LoopPhase(p) PROVE Serial'
<1>1. UNCHANGED <<journalVars, mine, whole>>
  BY DEF LoopPhase, NextStep, LoopDone, Preflight, remoteVars
<1>2. run[p] \in RunState /\ Holds(run[p])
  BY RunIs
<1>3. CASE NextStep(p)
  <2>1. PICK s \in Steps :
          /\ s > run[p].at /\ run[p].loop[s] = "pending"
          /\ \A t \in Steps : run[p].at < t /\ t < s => run[p].loop[t] # "pending"
          /\ Become(p, [run[p] EXCEPT !.pc = "preflight", !.at = s])
    BY <1>3 DEF NextStep
  <2>2. PICK r : r = [run[p] EXCEPT !.pc = "preflight", !.at = s]
    OBVIOUS
  <2>3. r.pc = "preflight" /\ r.at = s /\ r.loop = run[p].loop /\ r.seen = run[p].seen
    BY <1>2, <2>2 DEF RunState
  <2>4. run[p].pc = "next" /\ run[p].at \in 0..N
    BY <1>2, <1>3 DEF NextStep, At, RunState
  <2>5. /\ phase = "applying" /\ run[p].seen = cur
        /\ \A t \in Steps : t > run[p].at => run[p].loop[t] = cur[t]
        /\ \A t \in Steps : t <= run[p].at => cur[t] = "succeeded"
    BY <1>2, <2>4 DEF Holds, Looping
  <2>6. cur[s] = "pending" /\ \A t \in Steps : t < s => cur[t] # "pending"
    BY <2>1, <2>4, <2>5, StepsAreNat
  <2>7. \A t \in Steps : t > s => r.loop[t] = cur[t]
    BY <2>1, <2>3, <2>4, <2>5, StepsAreNat
  <2>8. Holds(r)
    BY <2>3, <2>5, <2>6, <2>7 DEF FirstPending, Holds, Looping, InSteps, AtStep, InAppend, InResolve
  <2> QED BY <1>1, <2>1, <2>2, <2>8, QuietStep
<1>4. CASE LoopDone(p)
  <2>1. run[p].pc = "next" /\ run[p].at \in 0..N
    BY <1>2, <1>4 DEF LoopDone, At, RunState
  <2>2. /\ phase = "applying"
        /\ \A t \in Steps : t > run[p].at => run[p].loop[t] = cur[t]
        /\ \A t \in Steps : t <= run[p].at => cur[t] = "succeeded"
    BY <1>2, <2>1 DEF Holds, Looping
  <2>3. \A t \in Steps : cur[t] # "pending"
    BY <1>4, <2>1, <2>2, StepsAreNat DEF LoopDone
  <2>4. \A t \in Steps : cur[t] = "succeeded"
    BY <2>2, <2>3 DEF Serial, Shape
  <2>5. Holds([run[p] EXCEPT !.pc = "finish"])
    BY <1>2, <2>2, <2>4 DEF RunState, Holds, Looping, InSteps, AtStep, InAppend, InResolve
  <2> QED BY <1>1, <1>4, <2>5, GotoQuietly DEF LoopDone
<1>5. CASE Preflight(p)
  <2>1. run[p].pc = "preflight"
    BY <1>5 DEF Preflight, At
  <2>2. CASE ~Occupied(run[p].at) /\ Goto(p, "create")
    <3>1. run[p].at \in Steps /\ mine[run[p].at] \in Nat
      BY <2>1, RunIs DEF Knows, AtStep
    <3>2. Kind[run[p].at] # ProviderKind => mine[run[p].at] = 0
      BY <2>2, <3>1, KindAssumption DEF Occupied, RepositoryTaken, TitleTaken, Kinds
    <3>3. Holds([run[p] EXCEPT !.pc = "create"])
      BY <1>2, <2>1, <3>2 DEF RunState, Holds, Looping, InSteps, AtStep, InAppend, InResolve
    <3> QED BY <1>1, <2>2, <3>3, GotoQuietly
  <2>3. Objects'
    BY <1>1 DEF Serial, Objects
  <2>4. CASE \E o : Fail(p, o)
    BY <1>1, <2>1, <2>3, <2>4, RecordStep DEF AtStep
  <2> QED BY <1>5, <2>2, <2>4 DEF Preflight
<1> QED BY <1>3, <1>4, <1>5 DEF LoopPhase

\* A step on the remote side that leaves the journal alone.
LEMMA MoveOn ==
  ASSUME OneProcess, Serial, Inductive', NEW p \in Runners, run[p].pc \in AtStep,
         NEW l \in {"recover", "complete", "readback"}, Goto(p, l),
         UNCHANGED journalVars, Objects'
  PROVE  Serial'
<1>1. PICK r : r = [run[p] EXCEPT !.pc = l]
  OBVIOUS
<1>2. r.pc = l /\ r.at = run[p].at /\ r.loop = run[p].loop /\ r.seen = run[p].seen
  BY <1>1, RunIs DEF RunState
<1>3. Holds(r)'
  BY <1>2, RunIs DEF Holds, Looping, InSteps, AtStep, InAppend, InResolve, journalVars
<1>4. Shape'
  BY DEF Serial, Shape, journalVars
<1> QED BY <1>1, <1>3, <1>4, Alone DEF Goto

\* The object of a step is created, if there is none yet.
LEMMA CreateSerial ==
  ASSUME OneProcess, Serial, Inductive', NEW p \in Runners,
         CreateRepository(p) \/ CreateProject(p) \/ AddMarketplace(p)
  PROVE  Serial'
<1> DEFINE s == run[p].at
<1>1. UNCHANGED journalVars /\ run[p].pc = "create"
  BY DEF CreateRepository, CreateProject, AddMarketplace, At
<1>2. Holds(run[p]) /\ s \in Steps /\ mine \in [Steps -> Nat]
  BY <1>1, RunIs DEF Knows, AtStep
<1>3. mine' = mine \/ (mine[s] = 0 /\ mine' = [mine EXCEPT ![s] = 1])
  <2>1. CASE CreateRepository(p) \/ CreateProject(p)
    <3>1. mine[s] = 0
      BY <1>1, <1>2, <2>1 DEF CreateRepository, CreateProject, Holds, RepositoryKind,
         ProjectKind, ProviderKind
    <3> QED BY <2>1, <3>1 DEF CreateRepository, CreateProject
  <2> QED BY <2>1 DEF AddMarketplace
<1>4. Objects'
  <2>1. \A t \in Steps : mine'[t] <= 1
    BY <1>2, <1>3 DEF Serial, Objects
  <2> QED BY <2>1 DEF Objects, Inductive, WholeIsOurs
<1>5. \/ Goto(p, "recover") \/ Goto(p, "complete") \/ Fail(p, "inconclusive")
  BY DEF CreateRepository, CreateProject, AddMarketplace, AnswerTo
<1>6. CASE Fail(p, "inconclusive")
  BY <1>1, <1>4, <1>6, RecordStep DEF AtStep
<1> QED BY <1>1, <1>4, <1>5, <1>6, MoveOn DEF AtStep

LEMMA CompleteSerial ==
  ASSUME OneProcess, Serial, Inductive', NEW p \in Runners,
         EnableIssues(p) \/ LinkProject(p) \/ InstallPlugins(p) \/ RecoverRepository(p)
  PROVE  Serial'
<1>1. UNCHANGED <<journalVars, mine>> /\ run[p].pc \in AtStep
  BY DEF EnableIssues, LinkProject, InstallPlugins, RecoverRepository, At, AtStep, remoteVars
<1>2. Objects'
  BY <1>1 DEF Serial, Objects, Inductive, WholeIsOurs
<1>3. CASE Record(p, run[p].at, "succeeded") \/ Fail(p, "inconclusive")
  BY <1>1, <1>2, <1>3, RecordStep
<1> QED BY <1>1, <1>2, <1>3, MoveOn
        DEF EnableIssues, LinkProject, InstallPlugins, RecoverRepository, AnswerTo

LEMMA RemoteSerial ==
  ASSUME OneProcess, Serial, Inductive', NEW p \in Runners, RemotePhase(p) PROVE Serial'
<1>1. CASE ReadbackRepository(p) \/ ReadbackProject(p)
  <2>1. UNCHANGED <<journalVars, mine, whole>> /\ run[p].pc = "readback"
    BY <1>1 DEF ReadbackRepository, ReadbackProject, remoteVars, At
  <2>2. Objects'
    BY <2>1 DEF Serial, Objects
  <2>3. Record(p, run[p].at, "succeeded") \/ Fail(p, "inconclusive")
    BY <1>1 DEF ReadbackRepository, ReadbackProject
  <2> QED BY <2>1, <2>2, <2>3, RecordStep DEF AtStep
<1> QED BY <1>1, CreateSerial, CompleteSerial DEF RemotePhase

\* Only the step between those that are done and those that are not changes.
LEMMA Advance ==
  ASSUME NEW s \in Steps, NEW o \in StepPhases, cur \in [Steps -> StepPhases],
         \A t \in Steps : t < s => cur[t] = "succeeded",
         \A t \in Steps : t > s => cur[t] = "pending",
         cur' = [cur EXCEPT ![s] = o]
  PROVE  /\ cur'[s] = o
         /\ \A t \in Steps : t < s => cur'[t] = "succeeded"
         /\ \A t \in Steps : t > s => cur'[t] = "pending" /\ cur'[t] = cur[t]
         /\ \A t, u \in Steps : t < u /\ cur'[u] # "pending" => cur'[t] = "succeeded"
         /\ \A t \in Steps : t # s => cur'[t] \in {"pending", "succeeded"}
<1>1. s \in Nat /\ \A t \in Steps : t \in Nat
  BY StepsAreNat
<1>2. \A t \in Steps : t < s => t # s
  BY <1>1
<1>3. \A t \in Steps : t > s => t # s
  BY <1>1
<1>4. \A t \in Steps : t # s => t < s \/ t > s
  BY <1>1
<1>5. cur'[s] = o /\ \A t \in Steps : t # s => cur'[t] = cur[t]
  OBVIOUS
<1>6. \A t \in Steps : t < s => cur'[t] = "succeeded"
  BY <1>2, <1>5
<1>7. \A t \in Steps : t > s => cur'[t] = "pending" /\ cur'[t] = cur[t]
  BY <1>3, <1>5
<1>8. ASSUME NEW t \in Steps, NEW u \in Steps, t < u, cur'[u] # "pending"
      PROVE  cur'[t] = "succeeded"
  <2>1. ~(u > s)
    BY <1>7, <1>8
  <2>2. t < s
    BY <1>1, <1>8, <2>1
  <2> QED BY <1>6, <2>2
<1>9. \A t \in Steps : t # s => cur'[t] \in {"pending", "succeeded"}
  BY <1>4, <1>6, <1>7
<1> QED BY <1>5, <1>6, <1>7, <1>8, <1>9

LEMMA AppendSerial ==
  ASSUME OneProcess, Serial, Inductive', NEW p \in Runners, AppendPhase(p) PROVE Serial'
<1> DEFINE s == run[p].at
<1>1. UNCHANGED <<mine, whole>>
  BY DEF AppendPhase, AppendStatus, AppendSteps, AppendMax, AppendWrite, Reread, remoteVars
<1>2. run[p] \in RunState /\ Holds(run[p])
  BY RunIs
<1>3. CASE Stop(p) /\ UNCHANGED journalVars
  BY <1>1, <1>3, StopQuietly
<1>4. CASE AppendStatus(p) \/ AppendMax(p) \/ (AppendSteps(p) /\ ~Stop(p))
  <2>1. UNCHANGED journalVars /\ run[p].pc \in InAppend
    BY <1>4 DEF AppendStatus, AppendMax, AppendSteps, At, InAppend
  <2>2. PICK r : /\ Become(p, r) /\ r.pc \in InAppend \ {"append"}
                 /\ r.at = s /\ r.loop = run[p].loop /\ r.readPhase = "applying"
    <3>1. phase = "applying" /\ (run[p].pc # "append" => run[p].readPhase = "applying")
      BY <1>2, <2>1 DEF Holds, Looping, InSteps
    <3>2. CASE AppendStatus(p)
      <4>1. PICK r : r = [run[p] EXCEPT !.pc = "appendSteps", !.readPhase = phase]
        OBVIOUS
      <4>2. r.pc = "appendSteps" /\ r.at = s /\ r.loop = run[p].loop /\ r.readPhase = phase
        BY <1>2, <4>1 DEF RunState
      <4> QED BY <3>1, <3>2, <4>1, <4>2 DEF AppendStatus, InAppend
    <3>3. CASE AppendSteps(p) /\ ~Stop(p)
      <4>1. PICK r : r = [run[p] EXCEPT !.pc = "appendMax"]
        OBVIOUS
      <4>2. r.pc = "appendMax" /\ r.at = s /\ r.loop = run[p].loop
            /\ r.readPhase = run[p].readPhase
        BY <1>2, <4>1 DEF RunState
      <4> QED BY <3>1, <3>3, <4>1, <4>2 DEF AppendSteps, InAppend, At, Goto
    <3>4. CASE AppendMax(p)
      <4>1. PICK r : r = [run[p] EXCEPT !.pc = "appendWrite", !.max = rev[s]]
        OBVIOUS
      <4>2. r.pc = "appendWrite" /\ r.at = s /\ r.loop = run[p].loop
            /\ r.readPhase = run[p].readPhase
        BY <1>2, <4>1 DEF RunState
      <4> QED BY <3>1, <3>4, <4>1, <4>2 DEF AppendMax, InAppend, At
    <3> QED BY <1>4, <3>2, <3>3, <3>4
  <2>3. Holds(r)
    BY <1>2, <2>1, <2>2 DEF Holds, Looping, InSteps, AtStep, InAppend, InResolve
  <2> QED BY <1>1, <2>1, <2>2, <2>3, QuietStep
<1>5. CASE Reread(p)
  <2>1. UNCHANGED journalVars /\ run[p].pc = "reread"
    BY <1>5 DEF Reread, At
  <2>2. PICK r : r = [run[p] EXCEPT !.pc = "next", !.seen = cur, !.want = "pending",
                                    !.readPhase = "none", !.max = 0]
    OBVIOUS
  <2>3. r.pc = "next" /\ r.at = s /\ r.loop = run[p].loop /\ r.seen = cur
    BY <1>2, <2>2 DEF RunState
  <2>4. Holds(r)
    BY <1>2, <2>1, <2>3 DEF Holds, Looping, InSteps, AtStep, InAppend, InResolve
  <2> QED BY <1>1, <1>5, <2>1, <2>2, <2>4, QuietStep DEF Reread
<1>6. CASE /\ AppendRow(s, run[p].want, run[p].readPhase, run[p].max)
           /\ IF run[p].want = "succeeded" THEN Goto(p, "reread") ELSE Stop(p)
           /\ run[p].pc = "appendWrite"
  <2>1. /\ phase = "applying" /\ run[p].readPhase = "applying" /\ FirstPending(cur, s)
        /\ \A t \in Steps : t > s => run[p].loop[t] = cur[t]
    BY <1>2, <1>6 DEF Holds, Looping, InSteps, InAppend
  <2>2. s \in Steps /\ run[p].want \in StepPhases \ {"pending"} /\ cur \in [Steps -> StepPhases]
    BY <1>6, RunIs DEF Knows, InAppend
  <2>3. \A t \in Steps : t < s => cur[t] = "succeeded"
    BY <2>1, <2>2, RunIs DEF FirstPending, Serial, Shape
  <2>4. \A t \in Steps : t > s => cur[t] = "pending"
    BY <2>1, <2>2, RunIs DEF FirstPending, Serial, Shape
  <2>5. cur' = [cur EXCEPT ![s] = run[p].want]
        /\ phase' = IF run[p].want = "succeeded" THEN "applying" ELSE run[p].want
    BY <1>6, <2>1, <2>2 DEF AppendRow, PhaseAfter, StepPhases
  <2> HIDE DEF s
  <2>6. /\ cur'[s] = run[p].want
        /\ \A t \in Steps : t < s => cur'[t] = "succeeded"
        /\ \A t \in Steps : t > s => cur'[t] = "pending" /\ cur'[t] = cur[t]
        /\ \A t, u \in Steps : t < u /\ cur'[u] # "pending" => cur'[t] = "succeeded"
        /\ \A t \in Steps : t # s => cur'[t] \in {"pending", "succeeded"}
    <3> DEFINE want == run[p].want
    <3>1. /\ s \in Steps /\ want \in StepPhases /\ cur \in [Steps -> StepPhases]
          /\ cur' = [cur EXCEPT ![s] = want]
      BY <2>2, <2>5
    <3> HIDE DEF want
    <3>2. /\ cur'[s] = want
          /\ \A t \in Steps : t < s => cur'[t] = "succeeded"
          /\ \A t \in Steps : t > s => cur'[t] = "pending" /\ cur'[t] = cur[t]
          /\ \A t, u \in Steps : t < u /\ cur'[u] # "pending" => cur'[t] = "succeeded"
          /\ \A t \in Steps : t # s => cur'[t] \in {"pending", "succeeded"}
      BY <2>3, <2>4, <3>1, Advance
    <3> QED BY <3>2 DEF want
  <2>7. Shape'
    <3>1. phase' \in {"applying", "inconclusive", "needs-manual-cleanup"}
          /\ (phase' = "applying" => cur'[s] = "succeeded")
          /\ (phase' = "inconclusive" => cur'[s] = "inconclusive")
      BY <2>2, <2>5 DEF StepPhases
    <3> QED BY <2>2, <2>6, <3>1 DEF Shape
  <2>8. Objects'
    BY <1>1 DEF Serial, Objects
  <2>9. CASE Stop(p)
    <3>1. Holds(IdleRun)'
      BY IdleRunType DEF Holds, Looping, InSteps, AtStep, InAppend, InResolve
    <3> QED BY <2>7, <2>8, <2>9, <3>1, Alone DEF Stop
  <2>10. CASE run[p].want = "succeeded" /\ Goto(p, "reread")
    <3>1. PICK r : r = [run[p] EXCEPT !.pc = "reread"]
      OBVIOUS
    <3>2. r.pc = "reread" /\ r.at = s /\ r.loop = run[p].loop
      BY <1>2, <3>1 DEF RunState, s
    <3>3. /\ \A t \in Steps : t <= s => cur'[t] = "succeeded"
          /\ \A t \in Steps : t > s => cur'[t] = cur[t]
      <4>1. s \in Nat /\ \A t \in Steps : t \in Nat
        BY <2>2, StepsAreNat
      <4>2. \A t \in Steps : t <= s => t < s \/ t = s
        BY <4>1
      <4> QED BY <2>10, <2>6, <4>2
    <3>4. Holds(r)'
      BY <2>1, <2>5, <2>10, <3>2, <3>3 DEF Holds, Looping, InSteps, AtStep, InAppend, InResolve
    <3> QED BY <2>7, <2>8, <2>10, <3>1, <3>4, Alone DEF Goto
  <2> QED BY <1>6, <2>9, <2>10
<1> QED BY <1>3, <1>4, <1>5, <1>6 DEF AppendPhase, AppendSteps, AppendWrite, At

LEMMA FinishSerial ==
  ASSUME OneProcess, Serial, Inductive', NEW p \in Runners, FinishPhase(p) PROVE Serial'
<1>1. UNCHANGED <<mine, whole>> /\ run[p].pc \in {"finish", "finishUpdate"}
  BY DEF FinishPhase, FinishStatus, FinishWrite, remoteVars, At
<1>2. run[p] \in RunState /\ Holds(run[p])
  BY RunIs
<1>3. CASE Stop(p) /\ UNCHANGED journalVars
  BY <1>1, <1>3, StopQuietly
<1>4. CASE Goto(p, "finishUpdate") /\ UNCHANGED journalVars
  <2>1. Holds([run[p] EXCEPT !.pc = "finishUpdate"])
    BY <1>1, <1>2 DEF RunState, Holds, Looping, InSteps, AtStep, InAppend, InResolve
  <2> QED BY <1>1, <1>4, <2>1, GotoQuietly
<1>5. CASE Stop(p) /\ FinishUpdate
  <2>1. \A s \in Steps : cur[s] = "succeeded"
    BY <1>1, <1>2 DEF Holds
  <2>2. Shape' /\ Objects'
    BY <1>1, <1>5, <2>1 DEF FinishUpdate, Serial, Shape, Objects
  <2>3. Holds(IdleRun)'
    BY IdleRunType DEF Holds, Looping, InSteps, AtStep, InAppend, InResolve
  <2> QED BY <1>5, <2>2, <2>3, Alone DEF Stop
<1> QED BY <1>3, <1>4, <1>5 DEF FinishPhase, FinishStatus, FinishWrite

\* The first unsettled step of an inconclusive operation is the one in doubt.
LEMMA DoubtIsOne ==
  ASSUME Serial, phase = "inconclusive", NEW s \in Steps, FirstUnsettled(cur, s)
  PROVE  /\ cur[s] = "inconclusive"
         /\ \A t \in Steps : t < s => cur[t] = "succeeded"
         /\ \A t \in Steps : t > s => cur[t] = "pending"
<1>1. PICK u \in Steps : cur[u] = "inconclusive"
  BY DEF Serial, Shape
<1>2. \A t \in Steps : t < u => cur[t] = "succeeded"
  BY <1>1 DEF Serial, Shape
<1>3. u = s
  <2>1. ~(s < u)
    BY <1>2 DEF FirstUnsettled
  <2>2. ~(u < s)
    BY <1>1 DEF FirstUnsettled
  <2> QED BY <2>1, <2>2, StepsAreNat
<1>4. \A t \in Steps : t > s => cur[t] = "pending"
  BY <1>1, <1>3, StepsAreNat DEF Serial, Shape
<1> QED BY <1>1, <1>2, <1>3, <1>4

LEMMA ResolveSerial ==
  ASSUME OneProcess, Serial, Inductive', NEW p \in Runners, ResolvePhase(p) PROVE Serial'
<1> DEFINE s == run[p].at
<1>1. UNCHANGED <<mine, whole>> /\ run[p].pc \in InResolve
  BY DEF ResolvePhase, ResolveStatus, ResolveSteps, ResolveWrite, remoteVars, At, InResolve
<1>2. run[p] \in RunState /\ Holds(run[p])
  BY RunIs
<1>3. CASE Stop(p) /\ UNCHANGED journalVars
  BY <1>1, <1>3, StopQuietly
<1>4. ASSUME NEW l \in InResolve, Goto(p, l), UNCHANGED journalVars PROVE Serial'
  <2>1. Holds([run[p] EXCEPT !.pc = l])
    BY <1>1, <1>2 DEF RunState, Holds, Looping, InSteps, AtStep, InAppend, InResolve
  <2> QED BY <1>1, <1>4, <2>1, GotoQuietly
<1>5. CASE Stop(p) /\ ResolveRow(s, run[p].want)
  <2>1. s \in Steps /\ phase = "inconclusive" /\ FirstUnsettled(cur, s)
        /\ cur \in [Steps -> StepPhases]
    BY <1>1, <1>2, RunIs DEF Holds, Knows
  <2>2. /\ cur[s] = "inconclusive"
        /\ \A t \in Steps : t < s => cur[t] = "succeeded"
        /\ \A t \in Steps : t > s => cur[t] = "pending"
    BY <2>1, DoubtIsOne
  <2>3. Shape'
    <3>1. CASE phase' = "needs-resume" /\ cur' = [cur EXCEPT ![s] = "pending"]
      <4>1. "pending" \in StepPhases
        BY DEF StepPhases
      <4>2. /\ cur'[s] = "pending"
            /\ \A t, u \in Steps : t < u /\ cur'[u] # "pending" => cur'[t] = "succeeded"
            /\ \A t \in Steps : t # s => cur'[t] \in {"pending", "succeeded"}
        BY <2>1, <2>2, <3>1, <4>1, Advance
      <4> QED BY <3>1, <4>2 DEF Shape
    <3>2. CASE phase' = "needs-manual-cleanup" /\ cur' = cur
      BY <3>2 DEF Serial, Shape
    <3> QED BY <1>5, <3>1, <3>2 DEF ResolveRow
  <2>4. Objects'
    BY <1>1 DEF Serial, Objects
  <2>5. Holds(IdleRun)'
    BY IdleRunType DEF Holds, Looping, InSteps, AtStep, InAppend, InResolve
  <2> QED BY <1>5, <2>3, <2>4, <2>5, Alone DEF Stop
<1> QED BY <1>3, <1>4, <1>5 DEF ResolvePhase, ResolveStatus, ResolveSteps, ResolveWrite, InResolve

LEMMA SerialInitial == ASSUME Init PROVE Serial
<1>1. Inductive
  BY InitInductive
<1>2. Shape /\ Objects
  BY DEF Init, JournalInit, Shape, Objects
<1> QED BY <1>1, <1>2, IdleHolds DEF Init, Serial

LEMMA SerialNext == ASSUME OneProcess, Serial, [Next]_vars PROVE Serial'
<1>1. Inductive'
  BY NextInductive DEF Serial
<1>2. ASSUME NEW p \in Runners, Begin(p) \/ Work(p) \/ Crash(p) PROVE Serial'
  <2>1. CASE Crash(p)
    BY <1>1, <2>1, StopQuietly DEF Crash, remoteVars
  <2> QED BY <1>1, <1>2, <2>1, BeginSerial, PlanSerial, StartSerial, LoopSerial, RemoteSerial,
             AppendSerial, FinishSerial, ResolveSerial DEF Work
<1>3. CASE UNCHANGED <<journalVars, mine, whole, run>>
  <2>1. Shape' /\ Objects' /\ \A p \in Runners : Holds(run[p])'
    BY <1>3 DEF Serial, Shape, Objects, Holds, journalVars
  <2> QED BY <1>1, <2>1 DEF Serial
<1>4. CASE \E s \in Steps : Appear(s)
  BY <1>3, <1>4 DEF Appear
<1>5. CASE UNCHANGED vars
  BY <1>3, <1>5 DEF vars, remoteVars
<1> QED BY <1>2, <1>4, <1>5 DEF Next

\* One process at a time, and what the journal and the remote side then are.
THEOREM SerialInvariance == ASSUME OneProcess PROVE Spec => []Serial
<1>1. Init => Serial
  BY SerialInitial
<1>2. Serial /\ [Next]_vars => Serial'
  BY SerialNext
<1> QED BY <1>1, <1>2, PTL DEF Spec

\* Whatever is lost, fails or crashes, a retry of the deployment by the one
\* process never creates a second object for a step.
THEOREM NoSecondObject == ASSUME OneProcess PROVE Spec => []NoDuplicate
<1>1. Serial => NoDuplicate
  BY DEF Serial, Objects, NoDuplicate
<1> QED BY <1>1, SerialInvariance, PTL

\* An operation reported as succeeded has every step done and every object
\* complete.
THEOREM SuccessIsTrue == ASSUME OneProcess PROVE Spec => []NoFalseSuccess
<1>1. Serial => NoFalseSuccess
  BY DEF Serial, Inductive, Shape, SucceededIsBacked, NoFalseSuccess
<1> QED BY <1>1, SerialInvariance, PTL

-----------------------------------------------------------------------------
(* The saga of DeploymentSaga.                                             *)

Status == CASE phase \in {"none", "prepared"}         -> "planned"
            [] phase \in {"applying", "needs-resume"} -> "running"
            [] phase = "inconclusive"                 -> "doubtful"
            [] phase = "needs-manual-cleanup"         -> "stopped"
            [] phase = "succeeded"                    -> "succeeded"
Touched == {s \in Steps : mine[s] > 0}
Finished == {s \in Steps : cur[s] = "succeeded"}

SagaStep == Saga!SagaNext \/ UNCHANGED <<Status, Touched, Finished>>

LEMMA StatusIs ==
  ASSUME phase \in Phases
  PROVE  /\ phase \in {"none", "prepared"} => Status = "planned"
         /\ phase \in {"applying", "needs-resume"} => Status = "running"
         /\ phase = "inconclusive" => Status = "doubtful"
         /\ phase = "needs-manual-cleanup" => Status = "stopped"
         /\ phase = "succeeded" => Status = "succeeded"
BY DEF Status, Phases

LEMMA StatusBecomes ==
  ASSUME phase' \in Phases
  PROVE  /\ phase' \in {"none", "prepared"} => Status' = "planned"
         /\ phase' \in {"applying", "needs-resume"} => Status' = "running"
         /\ phase' = "inconclusive" => Status' = "doubtful"
         /\ phase' = "needs-manual-cleanup" => Status' = "stopped"
         /\ phase' = "succeeded" => Status' = "succeeded"
BY DEF Status, Phases

LEMMA StatusesAre ==
  ASSUME Serial, Serial'
  PROVE  /\ phase \in Phases /\ phase' \in Phases
         /\ cur \in [Steps -> StepPhases] /\ mine \in [Steps -> Nat]
BY DEF Serial, Inductive, TypeOK, JournalTypeOK

\* The first step that is pending is due.
LEMMA FirstIsDue ==
  ASSUME Serial, phase = "applying", NEW s \in Steps, FirstPending(cur, s) PROVE Saga!Due(s)
<1>1. cur[s] = "pending" /\ \A t \in Steps : t < s => cur[t] # "pending"
  BY DEF FirstPending
<1>2. \A t \in Steps : cur[t] \in {"pending", "succeeded"}
  BY DEF Serial, Shape
<1>3. Finished = {t \in Steps : cur[t] = "succeeded"}
  BY DEF Finished
<1> QED BY <1>1, <1>2, <1>3 DEF Saga!Due, Saga!Steps, Steps

\* A step of the saga on one step of the operation.
LEMMA SagaMoves ==
  ASSUME NEW s \in Steps, Saga!Touch(s) \/ Saga!CompleteStep(s) PROVE SagaStep
BY DEF SagaStep, Saga!SagaNext, Saga!Steps, Steps

LEMMA ObjectStep ==
  ASSUME Serial, Serial', NEW p \in Runners,
         CreateRepository(p) \/ CreateProject(p) \/ AddMarketplace(p)
  PROVE  SagaStep
<1>0. PICK s : s = run[p].at
  OBVIOUS
<1>1. run[p].pc = "create" /\ UNCHANGED <<phase, cur>>
  BY DEF CreateRepository, CreateProject, AddMarketplace, At, journalVars
<1>2. s \in Steps /\ phase = "applying" /\ FirstPending(cur, s)
  BY <1>0, <1>1, RunIs DEF Knows, Holds, AtStep, InSteps, Looping
<1>3. mine' = mine \/ \E k \in Nat : k > 0 /\ mine' = [mine EXCEPT ![s] = k]
  BY <1>0, <1>2, StatusesAre DEF CreateRepository, CreateProject, AddMarketplace
<1>4. CASE mine' = mine
  BY <1>1, <1>4 DEF SagaStep, Status, Touched, Finished
<1>5. CASE \E k \in Nat : k > 0 /\ mine' = [mine EXCEPT ![s] = k]
  <2>1. Touched' = Touched \cup {s} /\ Status' = Status /\ Finished' = Finished
    BY <1>1, <1>2, <1>5, StatusesAre DEF Touched, Status, Finished
  <2>2. Status = "running" /\ Saga!Due(s)
    BY <1>2, StatusesAre, StatusIs, FirstIsDue
  <2>3. Saga!Touch(s)
    BY <2>1, <2>2 DEF Saga!Touch, Status, Touched, Finished
  <2> QED BY <1>2, <2>3, SagaMoves
<1> QED BY <1>3, <1>4, <1>5

LEMMA OutcomeStep ==
  ASSUME Serial, Serial', NEW p \in Runners, AppendWrite(p) PROVE SagaStep
<1>0. PICK s : s = run[p].at
  OBVIOUS
<1>1. run[p].pc = "appendWrite" /\ UNCHANGED mine
  BY DEF AppendWrite, At, remoteVars
<1>2. /\ s \in Steps /\ phase = "applying" /\ FirstPending(cur, s)
      /\ run[p].readPhase = "applying" /\ run[p].want \in StepPhases \ {"pending"}
      /\ run[p].want = "succeeded" => whole[s]
  BY <1>0, <1>1, RunIs DEF Knows, Holds, InAppend, InSteps, Looping, Backed
<1>3. Status = "running" /\ Saga!Due(s) /\ cur \in [Steps -> StepPhases] /\ phase' \in Phases
  BY <1>2, StatusesAre, StatusIs, FirstIsDue
<1>4. CASE UNCHANGED journalVars
  BY <1>1, <1>4 DEF SagaStep, Status, Touched, Finished, journalVars
<1>5. CASE AppendRow(s, run[p].want, run[p].readPhase, run[p].max)
  <2>1. /\ cur' = [cur EXCEPT ![s] = run[p].want]
        /\ phase' = IF run[p].want = "succeeded" THEN "applying" ELSE run[p].want
    BY <1>2, <1>5 DEF AppendRow, PhaseAfter, StepPhases
  <2>2. Touched' = Touched
    BY <1>1 DEF Touched
  <2>3. CASE run[p].want = "succeeded"
    <3>1. Finished' = Finished \cup {s} /\ Status' = Status
      BY <1>2, <1>3, <2>1, <2>3 DEF Finished, Status
    <3>2. s \in Touched
      BY <1>2, <2>3 DEF Serial, Objects, Touched
    <3>3. Saga!CompleteStep(s)
      BY <1>3, <2>2, <3>1, <3>2 DEF Saga!CompleteStep, Status, Touched, Finished
    <3> QED BY <1>2, <3>3, SagaMoves
  <2>4. CASE run[p].want \in {"inconclusive", "needs-manual-cleanup"}
    <3>1. Finished' = Finished
      BY <1>2, <1>3, <2>1, <2>4 DEF Finished, FirstPending
    <3>2. Status' \in {"doubtful", "stopped"}
      BY <1>3, <2>1, <2>4, StatusBecomes
    <3>3. Saga!Halt
      BY <1>2, <1>3, <2>2, <3>1, <3>2
         DEF Saga!Halt, Status, Touched, Finished, Saga!Steps, Steps
    <3> QED BY <3>3 DEF SagaStep, Saga!SagaNext
  <2> QED BY <1>2, <2>3, <2>4 DEF StepPhases
<1> QED BY <1>0, <1>4, <1>5 DEF AppendWrite

LEMMA ResolutionStep ==
  ASSUME Serial, Serial', NEW p \in Runners, ResolveWrite(p) PROVE SagaStep
<1> DEFINE s == run[p].at
<1>1. run[p].pc = "resolveWrite" /\ UNCHANGED mine
  BY DEF ResolveWrite, At, remoteVars
<1>2. /\ s \in Steps /\ phase = "inconclusive" /\ FirstUnsettled(cur, s)
      /\ run[p].want = "matched" => whole[s]
  BY <1>1, RunIs DEF Knows, Holds, InResolve
<1>3. Status = "doubtful" /\ cur \in [Steps -> StepPhases] /\ phase' \in Phases
  BY <1>2, StatusesAre, StatusIs
<1>4. CASE UNCHANGED journalVars
  BY <1>1, <1>4 DEF SagaStep, Status, Touched, Finished, journalVars
<1>5. CASE ResolveRow(s, run[p].want)
  <2>1. /\ cur[s] = "inconclusive" /\ \A t \in Steps : t < s => cur[t] = "succeeded"
    BY <1>2, DoubtIsOne
  <2>2. Saga!Due(s)
    BY <1>2, <2>1 DEF Saga!Due, Saga!Steps, Steps
  <2>3. Touched' = Touched /\ Finished' = Finished
    BY <1>1, <1>2, <1>3, <1>5, <2>1 DEF ResolveRow, Touched, Finished
  <2>4. CASE run[p].want = "matched"
    <3>1. s \in Touched /\ Status' = "running"
      BY <1>2, <1>3, <1>5, <2>4, StatusBecomes DEF ResolveRow, Serial, Objects, Touched
    <3>2. Saga!Resolve
      BY <1>3, <2>2, <2>3, <3>1 DEF Saga!Resolve, Status, Touched, Finished
    <3> QED BY <3>2 DEF SagaStep, Saga!SagaNext
  <2>5. CASE run[p].want # "matched"
    <3>1. Status' = "stopped"
      BY <1>3, <1>5, <2>5, StatusBecomes DEF ResolveRow
    <3>2. Saga!Resolve
      BY <1>3, <2>3, <3>1 DEF Saga!Resolve, Status, Touched, Finished
    <3> QED BY <3>2 DEF SagaStep, Saga!SagaNext
  <2> QED BY <2>4, <2>5
<1> QED BY <1>4, <1>5 DEF ResolveWrite

LEMMA PhaseStep ==
  ASSUME Serial, Serial', NEW p \in Runners,
         PrepareInsert(p) \/ StartWrite(p) \/ FinishWrite(p)
  PROVE  SagaStep
<1>1. UNCHANGED mine
  BY DEF PrepareInsert, StartWrite, FinishWrite, remoteVars
<1>2. CASE UNCHANGED journalVars
  BY <1>1, <1>2 DEF SagaStep, Status, Touched, Finished, journalVars
<1>3. CASE UNCHANGED cur
  <2>1. Touched' = Touched /\ Finished' = Finished
    BY <1>1, <1>3 DEF Touched, Finished
  <2>2. CASE InsertPlan
    <3>1. Status' = Status
      BY <2>2 DEF InsertPlan, CanInsertPlan, Status
    <3> QED BY <2>1, <3>1 DEF SagaStep
  <2>3. CASE StartUpdate /\ phase = "needs-resume"
    <3>1. Status' = Status
      BY <2>3 DEF StartUpdate, Status
    <3> QED BY <2>1, <3>1 DEF SagaStep
  <2>4. CASE StartUpdate /\ phase = "prepared"
    <3>1. Status = "planned" /\ Status' = "running"
      BY <2>4, StatusesAre, StatusIs, StatusBecomes DEF StartUpdate
    <3>2. Saga!Start
      BY <2>1, <3>1 DEF Saga!Start, Status, Touched, Finished
    <3> QED BY <3>2 DEF SagaStep, Saga!SagaNext
  <2>5. CASE FinishUpdate /\ run[p].pc = "finishUpdate"
    <3>1. Status = "running" /\ Status' = "succeeded"
      BY <2>5, StatusesAre, StatusIs, StatusBecomes DEF FinishUpdate, CanFinish
    <3>2. Finished = Steps
      BY <2>5, RunIs DEF Holds, Finished
    <3>3. Saga!Succeed
      BY <2>1, <3>1, <3>2 DEF Saga!Succeed, Status, Touched, Finished, Saga!Steps, Steps
    <3> QED BY <3>3 DEF SagaStep, Saga!SagaNext
  <2>6. \/ UNCHANGED journalVars \/ InsertPlan \/ StartUpdate
        \/ FinishUpdate /\ run[p].pc = "finishUpdate"
    BY DEF PrepareInsert, StartWrite, FinishWrite, At
  <2> QED BY <1>2, <2>2, <2>3, <2>4, <2>5, <2>6 DEF StartUpdate, CanStart, Startable
<1> QED BY <1>2, <1>3 DEF PrepareInsert, StartWrite, FinishWrite, InsertPlan, StartUpdate,
           FinishUpdate

LEMMA SagaKept == ASSUME Serial, Serial', [Next]_vars PROVE SagaStep
<1>1. CASE UNCHANGED <<phase, cur, mine>>
  BY <1>1 DEF SagaStep, Status, Touched, Finished
<1>2. ASSUME NEW p \in Runners, RemotePhase(p) PROVE SagaStep
  <2>1. CASE EnableIssues(p) \/ LinkProject(p) \/ InstallPlugins(p)
             \/ RecoverRepository(p) \/ ReadbackRepository(p) \/ ReadbackProject(p)
    BY <1>1, <2>1 DEF EnableIssues, LinkProject, InstallPlugins, RecoverRepository,
       ReadbackRepository, ReadbackProject, journalVars, remoteVars
  <2> QED BY <1>2, <2>1, ObjectStep DEF RemotePhase
<1>3. ASSUME NEW p \in Runners, PlanPhase(p) \/ StartPhase(p) \/ FinishPhase(p) PROVE SagaStep
  <2>1. \/ UNCHANGED <<journalVars, remoteVars>>
        \/ PrepareInsert(p) \/ StartWrite(p) \/ FinishWrite(p)
    BY <1>3 DEF PlanPhase, StartPhase, FinishPhase, PlanStep, PlanReady, Prepare, FindStatus,
       FindSteps, StartStatus, StartSteps, FinishStatus
  <2> QED BY <1>1, <2>1, PhaseStep DEF journalVars, remoteVars
<1>4. ASSUME NEW p \in Runners, AppendPhase(p) \/ ResolvePhase(p) PROVE SagaStep
  <2>1. UNCHANGED <<journalVars, remoteVars>> \/ AppendWrite(p) \/ ResolveWrite(p)
    BY <1>4 DEF AppendPhase, ResolvePhase, AppendStatus, AppendSteps, AppendMax, Reread,
       ResolveStatus, ResolveSteps
  <2> QED BY <1>1, <2>1, OutcomeStep, ResolutionStep DEF journalVars, remoteVars
<1>5. ASSUME NEW p \in Runners, Begin(p) \/ LoopPhase(p) \/ Crash(p) PROVE SagaStep
  BY <1>1, <1>5 DEF Begin, BeginInit, BeginApply, BeginResolve, LoopPhase, NextStep, LoopDone,
     Preflight, Crash, journalVars, remoteVars
<1>6. CASE UNCHANGED vars \/ \E s \in Steps : Appear(s)
  BY <1>1, <1>6 DEF vars, Appear, journalVars, remoteVars
<1> QED BY <1>2, <1>3, <1>4, <1>5, <1>6 DEF Next, Work

\* One process at a time, however often it crashes, does what a saga promises:
\* steps in order, none before the last is complete, no step past a doubtful
\* one and success only at the end.
THEOREM RefinesSaga == ASSUME OneProcess PROVE Spec => ImplementsSaga
<1>1. Init => Saga!SagaInit
  BY DEF Init, JournalInit, Saga!SagaInit
<1>2. Serial /\ Serial' /\ [Next]_vars => [Saga!SagaNext]_(Saga!sagaVars)
  BY SagaKept DEF SagaStep, Saga!sagaVars, Status, Touched, Finished
<1> QED BY <1>1, <1>2, SerialInvariance, PTL DEF Spec, ImplementsSaga, Saga!SagaSpec
=============================================================================
