-------------------------------- MODULE Launch --------------------------------
(***************************************************************************)
(* Launch plans: what `configs use` and `configs switch` do with the table *)
(* launch_plan, with the client process they start and with its invocation *)
(* directory (cli/index.ts, application/launch.ts and claude-launch.ts,    *)
(* domain/activation.ts, adapters/sqlite/launch-repository.ts).            *)
(*                                                                         *)
(* Several commands run at the same time on one database.  A command may   *)
(* be killed at any point; the client it has started goes on.              *)
(***************************************************************************)
EXTENDS Integers, Sequences, FiniteSets

CONSTANTS
  Procs,        \* processes of the command line
  Revisions, NoRevision,
  Partial,      \* revisions with content that is not delivered to OMP
  MaxPlans, MaxAccidents  \* bounds on commands, and on crashes and faults

ASSUME LaunchAssumption ==
  /\ Partial \subseteq Revisions /\ NoRevision \notin Revisions
  /\ MaxPlans \in Nat /\ MaxAccidents \in Nat

VARIABLES
  plans,        \* launch_plan, in the order of insertion
  child,        \* the client process of each plan, and how it ended
  dirs,         \* the plans that have an invocation directory
  available,    \* the revisions that can be read
  clock,        \* the last creation time given to a plan
  run,          \* where each command is
  accidents,      \* how many commands were killed and file operations failed,
  befell        \* and what befell which plan by it

vars == <<plans, child, dirs, available, clock, run, accidents, befell>>

Clients  == {"omp", "claude-code"}
Outcomes == {"succeeded", "degraded", "failed", "incomplete"}
\* "prepared" is never stored.
Phases   == Outcomes \cup {"awaiting-confirmation", "applying", "observing",
                           "cancelled", "requires-restart"}
Children == {"none", "running", "zero", "nonzero", "signalled"}
Plan     == [client : Clients, rev : Revisions, made : Nat,
             phase : Phases, outcome : Outcomes \cup {"none"}]

Pcs == {"idle", "find", "reread", "mark", "prepare", "save", "show", "ask",
        "launch", "dir", "materialize", "context", "spawn", "wait",
        "started", "observed", "fail", "cleanup"}

\* transitionLaunchPlan: phase, event, next phase.  Every other event is
\* refused, and the plan stays as it is.
Transitions ==
  {<<"prepared", "prepared-ok", "awaiting-confirmation">>,
   <<"prepared", "prepared-failed", "failed">>,
   <<"prepared", "target-requires-restart", "requires-restart">>,
   <<"awaiting-confirmation", "confirmed", "applying">>,
   <<"awaiting-confirmation", "rejected", "cancelled">>,
   <<"applying", "process-started", "observing">>,
   <<"applying", "apply-failed", "failed">>}
  \cup {<<"observing", outcome, outcome>> : outcome \in Outcomes}
  \cup {<<phase, "switch-requested", "requires-restart">> : phase \in {"succeeded", "degraded"}}
Accepts(phase, event) == \E next \in Phases : <<phase, event, next>> \in Transitions
After(phase, event)   == CHOOSE next \in Phases : <<phase, event, next>> \in Transitions

\* plan: the plan the command works on, 0 if none.  found: its revision could
\* be read.  alive: another plan says that Claude Code is running.  threw: the
\* last command ended in an exception.  Exit codes are left out.
Runs == [pc : Pcs, client : Clients, rev : Revisions \cup {NoRevision},
         plan : Nat, made : Nat,
         found : BOOLEAN, alive : BOOLEAN,
         threw : BOOLEAN]

NoRun == [pc |-> "idle", client |-> "omp", rev |-> NoRevision, plan |-> 0,
          made |-> 0, found |-> FALSE, alive |-> FALSE, threw |-> FALSE]

Init ==
  /\ plans = <<>> /\ child = <<>> /\ dirs = {}
  /\ available = Revisions
  /\ clock = 0
  /\ run = [p \in Procs |-> NoRun]
  /\ accidents = 0 /\ befell = {}

-----------------------------------------------------------------------------
Set(p, r)     == run' = [run EXCEPT ![p] = r]
Goto(p, pc)   == Set(p, [run[p] EXCEPT !.pc = pc])
Exit(p)       == Set(p, NoRun)
Throw(p)      == Set(p, [NoRun EXCEPT !.threw = TRUE])

\* The finally block of launchClaudeFresh.
Leave(p, threw) ==
  IF run[p].plan \in dirs
    THEN Set(p, [run[p] EXCEPT !.pc = "cleanup", !.threw = threw])
    ELSE Set(p, [NoRun EXCEPT !.threw = threw])

\* Something befalls the plans: their command is killed, their context cannot
\* be written or their directory cannot be removed.  The bound is on these.
Damages == {"killed", "unwritten", "unremoved"}
Befalls(what, these) ==
  /\ accidents < MaxAccidents /\ accidents' = accidents + 1
  /\ befell' = befell \cup ({what} \X these)
NoAccident == UNCHANGED <<accidents, befell>>
Befell(what, i) == <<what, i>> \in befell

At(p, pc) == run[p].pc = pc
Quiet == UNCHANGED <<plans, child, dirs, available, clock, accidents, befell>>

\* SELECT ... ORDER BY created_at DESC, rowid DESC LIMIT 1.
Newest(client) ==
  LET of == {i \in DOMAIN plans : plans[i].client = client} IN
  IF of = {} THEN 0
  ELSE CHOOSE i \in of : \A j \in of \ {i} : plans[j].made < plans[i].made

\* saveIfPhase for OMP, save for Claude.
Record(p, expected, phase, outcome) ==
  LET i == run[p].plan IN
  /\ plans[i].client = "claude-code" \/ plans[i].phase = expected
  /\ plans' = [plans EXCEPT ![i].phase = phase, ![i].outcome = outcome]
Refused(p, expected) ==
  LET i == run[p].plan IN
  plans[i].client = "omp" /\ plans[i].phase # expected

\* The bound: commands that have made no plan yet count as one.
Preparing == {p \in Procs : run[p].pc \in {"find", "reread", "mark", "prepare"}}

Begin(p) ==
  /\ At(p, "idle") /\ clock + Cardinality(Preparing) < MaxPlans
  /\ \E client \in Clients, rev \in Revisions, switch \in BOOLEAN :
       Set(p, [NoRun EXCEPT !.client = client, !.rev = rev,
                 !.pc = IF client = "omp" /\ ~switch THEN "prepare" ELSE "find"])
  /\ Quiet

\* findActiveForClient: the newest plan, whatever its phase.
Find(p) ==
  /\ At(p, "find")
  /\ LET i == Newest(run[p].client) IN
     \/ run[p].client = "omp" /\ i # 0 /\ Set(p, [run[p] EXCEPT !.pc = "reread", !.plan = i])
     \/ run[p].client = "omp" /\ i = 0 /\ Goto(p, "prepare")
     \/ /\ run[p].client = "claude-code"
        /\ Set(p, [run[p] EXCEPT !.pc = "prepare", !.alive =
                     i # 0 /\ plans[i].phase \in {"succeeded", "degraded"}])
  /\ Quiet

\* Mistaken: whatever the newest plan is, it is switched from.
RereadNothing(p) ==
  /\ At(p, "reread")
  /\ Goto(p, "mark")
  /\ Quiet

\* requestConfigSwitch, up to the transition.
Reread(p) ==
  /\ At(p, "reread")
  /\ IF Accepts(plans[run[p].plan].phase, "switch-requested")
       THEN Goto(p, "mark")
       ELSE Set(p, [run[p] EXCEPT !.pc = "prepare", !.plan = 0])
  /\ Quiet

\* It saves the plan as it has read it, with the new phase.
Mark(p) ==
  /\ At(p, "mark")
  /\ plans' = [plans EXCEPT ![run[p].plan].phase = "requires-restart"]
  /\ Set(p, [run[p] EXCEPT !.pc = "prepare", !.plan = 0])
  /\ UNCHANGED <<child, dirs, available, clock, accidents, befell>>

\* prepareLaunchPlan and its two counterparts for Claude: first the creation
\* time and the revision, then the plan.
Prepare(p) ==
  /\ At(p, "prepare")
  /\ clock' = clock + 1
  /\ Set(p, [run[p] EXCEPT !.pc = "save", !.made = clock + 1,
               !.found = run[p].rev \in available])
  /\ UNCHANGED <<plans, child, dirs, available, accidents, befell>>

Save(p) ==
  /\ At(p, "save")
  /\ LET r == run[p]
         event == IF r.alive THEN "target-requires-restart"
                  ELSE IF r.found THEN "prepared-ok" ELSE "prepared-failed"
         phase == After("prepared", event)
     IN
     /\ plans' = Append(plans, [client |-> r.client, rev |-> r.rev, made |-> r.made,
                                phase |-> phase, outcome |-> "none"])
     /\ child' = Append(child, "none")
     /\ IF phase = "awaiting-confirmation"
          THEN Set(p, [r EXCEPT !.pc = "show", !.plan = Len(plans) + 1])
          ELSE Exit(p)
  /\ UNCHANGED <<dirs, available, clock, accidents, befell>>

\* The confirmation needs the revision's details.
Show(p) ==
  /\ At(p, "show")
  /\ IF run[p].rev \in available THEN Goto(p, "ask") ELSE Exit(p)
  /\ Quiet

\* confirmLaunchPlan or rejectLaunchPlan, compare-and-swap for both clients.
Decide(p) ==
  /\ At(p, "ask")
  /\ LET i == run[p].plan IN
     \E event \in {"confirmed", "rejected"} :
       IF Accepts(plans[i].phase, event)
         THEN /\ plans' = [plans EXCEPT ![i].phase = After(@, event)]
              /\ IF event = "confirmed" THEN Goto(p, "launch") ELSE Exit(p)
         ELSE Throw(p) /\ UNCHANGED plans
  /\ UNCHANGED <<child, dirs, available, clock, accidents, befell>>

-----------------------------------------------------------------------------
(* launchOmp and launchClaudeFresh.                                        *)

\* The phase, the revision once more, and the capability probe.
Check(p) ==
  /\ At(p, "launch")
  /\ \/ plans[run[p].plan].phase # "applying" /\ Throw(p)
     \/ /\ plans[run[p].plan].phase = "applying"
        /\ \/ Goto(p, "fail")
           \/ /\ run[p].rev \in available
              /\ Goto(p, IF run[p].client = "omp" THEN "context" ELSE "dir")
  /\ Quiet

MakeDir(p) ==
  /\ At(p, "dir")
  /\ \/ Goto(p, "fail") /\ UNCHANGED dirs
     \/ Goto(p, "materialize") /\ dirs' = dirs \cup {run[p].plan}
  /\ UNCHANGED <<plans, child, available, clock, accidents, befell>>

Materialize(p) ==
  /\ At(p, "materialize")
  /\ Goto(p, "fail") \/ Goto(p, "context")
  /\ Quiet

\* No error of the context writer is caught.
WriteContext(p) ==
  /\ At(p, "context")
  /\ \/ Goto(p, "spawn") /\ NoAccident
     \/ Leave(p, TRUE) /\ Befalls("unwritten", {run[p].plan})
  /\ UNCHANGED <<plans, child, dirs, available, clock>>

\* Mistaken: the directory is removed as soon as the client has started.
SpawnAndClean(p) ==
  /\ At(p, "spawn")
  /\ Goto(p, "wait") /\ child' = [child EXCEPT ![run[p].plan] = "running"]
  /\ dirs' = dirs \ {run[p].plan}
  /\ UNCHANGED <<plans, available, clock, accidents, befell>>

Spawn(p) ==
  /\ At(p, "spawn")
  /\ \/ Goto(p, "fail") /\ UNCHANGED child
     \/ Goto(p, "wait") /\ child' = [child EXCEPT ![run[p].plan] = "running"]
  /\ UNCHANGED <<plans, dirs, available, clock, accidents, befell>>

\* Mistaken: the start of the client is taken for its end.
WaitNot(p) ==
  /\ At(p, "wait")
  /\ Goto(p, "started")
  /\ Quiet

\* proc.exited.
Wait(p) ==
  /\ At(p, "wait") /\ child[run[p].plan] # "running"
  /\ Goto(p, "started")
  /\ Quiet

Started(p) ==
  /\ At(p, "started")
  /\ \/ Record(p, "applying", After("applying", "process-started"), "none") /\ Goto(p, "observed")
     \/ Refused(p, "applying") /\ Throw(p) /\ UNCHANGED plans
  /\ UNCHANGED <<child, dirs, available, clock, accidents, befell>>

\* Mistaken: the probe of Claude's version decides for OMP too.
OutcomesProbed(p) ==
  CASE child[run[p].plan] = "nonzero"   -> {"failed"}
    [] child[run[p].plan] = "signalled" -> {"failed", "incomplete"}
    [] OTHER -> {"succeeded", "degraded"}

\* deriveOutcome: OMP is degraded by what of the revision is not delivered to
\* it, Claude by what its version cannot do, which is not modelled.  For a
\* client killed by a signal the runtime may report 128 + n or no exit code.
OutcomesOf(p) ==
  CASE child[run[p].plan] = "nonzero"   -> {"failed"}
    [] child[run[p].plan] = "signalled" -> {"failed", "incomplete"}
    [] OTHER -> {o \in {"succeeded", "degraded"} :
                   run[p].client = "omp" => (o = "degraded" <=> run[p].rev \in Partial)}

Observe(p) ==
  /\ At(p, "observed")
  /\ \E outcome \in OutcomesOf(p) :
       \/ /\ Record(p, "observing", After("observing", outcome), outcome)
          /\ Leave(p, FALSE)
       \/ Refused(p, "observing") /\ Throw(p) /\ UNCHANGED plans
  /\ UNCHANGED <<child, dirs, available, clock, accidents, befell>>

\* Mistaken: the plan that has failed is not saved.
FailUnsaved(p) ==
  /\ At(p, "fail")
  /\ Leave(p, FALSE)
  /\ UNCHANGED <<plans, child, dirs, available, clock, accidents, befell>>

\* apply-failed.
Fail(p) ==
  /\ At(p, "fail")
  /\ \/ Record(p, "applying", After("applying", "apply-failed"), "none") /\ Leave(p, FALSE)
     \/ Refused(p, "applying") /\ Throw(p) /\ UNCHANGED plans
  /\ UNCHANGED <<child, dirs, available, clock, accidents, befell>>

\* rmSync, whose errors are swallowed.
Cleanup(p) ==
  /\ At(p, "cleanup")
  /\ \/ dirs' = dirs \ {run[p].plan} /\ NoAccident
     \/ UNCHANGED dirs /\ Befalls("unremoved", {run[p].plan})
  /\ Set(p, [NoRun EXCEPT !.threw = run[p].threw])
  /\ UNCHANGED <<plans, child, available, clock>>

-----------------------------------------------------------------------------
ChildExits ==
  /\ \E i \in DOMAIN child, how \in {"zero", "nonzero", "signalled"} :
       child[i] = "running" /\ child' = [child EXCEPT ![i] = how]
  /\ UNCHANGED <<plans, dirs, available, clock, run, accidents, befell>>

\* A revision is deleted, or made unreadable, behind the program's back.
Withdraw ==
  /\ \E rev \in available : available' = available \ {rev}
  /\ UNCHANGED <<plans, child, dirs, clock, run, accidents, befell>>

\* A command that switches from a plan does not work on it.
WorksOn(p, i) == run[p].plan = i /\ run[p].pc \notin {"idle", "reread", "mark"}

Crash(p) ==
  /\ ~At(p, "idle")
  /\ Befalls("killed", {i \in DOMAIN plans : WorksOn(p, i)})
  /\ Exit(p)
  /\ UNCHANGED <<plans, child, dirs, available, clock>>

LaunchOmp(p) ==
  /\ run[p].client = "omp"
  /\ \/ Check(p) \/ WriteContext(p) \/ Spawn(p) \/ Wait(p) \/ Started(p)
     \/ Observe(p) \/ Fail(p)

LaunchClaudeFresh(p) ==
  /\ run[p].client = "claude-code"
  /\ \/ Check(p) \/ MakeDir(p) \/ Materialize(p) \/ WriteContext(p) \/ Spawn(p)
     \/ Wait(p) \/ Started(p) \/ Observe(p) \/ Fail(p) \/ Cleanup(p)

Step(p) ==
  \/ Begin(p) \/ Find(p) \/ Reread(p) \/ Mark(p) \/ Prepare(p) \/ Save(p)
  \/ Show(p) \/ Decide(p) \/ LaunchOmp(p) \/ LaunchClaudeFresh(p) \/ Crash(p)

Next == ChildExits \/ Withdraw \/ \E p \in Procs : Step(p)

Spec == Init /\ [][Next]_vars

-----------------------------------------------------------------------------
(* configs status.  It writes nothing; the revision is read after the plan. *)

ApplyResult(row) ==
  CASE row.outcome = "succeeded" -> "applied"
    [] row.outcome = "degraded"  -> "degraded"
    [] OTHER                     -> "unknown"

KnownDifferences(rev) == IF rev \in Partial THEN "some" ELSE "none"

\* Only those of OMP are derived again, from the revision if it is readable.
StatusOf(i) ==
  LET row == plans[i] IN
  [rev |-> row.rev, phase |-> row.phase, apply |-> ApplyResult(row),
   differences |-> IF row.client # "omp" THEN "notRecomputed"
                   ELSE IF row.rev \in available THEN KnownDifferences(row.rev)
                   ELSE "unavailable"]

-----------------------------------------------------------------------------
\* Plans are stored in the phases above, one client process for each, and
\* directories only exist for stored plans.
TypeOK ==
  /\ plans \in Seq(Plan)
  /\ child \in Seq(Children) /\ Len(child) = Len(plans)
  /\ dirs \subseteq DOMAIN plans /\ available \subseteq Revisions
  /\ clock \in Nat /\ run \in [Procs -> Runs]
  /\ accidents \in Nat /\ befell \subseteq Damages \X DOMAIN plans

\* The state diagram of domain/activation.ts, seen in the table: whichever
\* commands run at the same time, no stored plan leaves it, changes its
\* revision or disappears, and no plan starts its client twice.
Diagram ==
  {<<"awaiting-confirmation", "applying">>, <<"awaiting-confirmation", "cancelled">>,
   <<"applying", "observing">>, <<"applying", "failed">>}
  \cup ({"observing"} \X Outcomes)
  \cup ({"succeeded", "degraded"} \X {"requires-restart"})

LegalMove(i) ==
  /\ plans'[i].rev = plans[i].rev /\ plans'[i].client = plans[i].client
  /\ plans'[i].phase # plans[i].phase =>
       <<plans[i].phase, plans'[i].phase>> \in Diagram
  /\ plans[i].outcome # "none" => plans'[i].outcome = plans[i].outcome
  /\ child'[i] = "running" /\ child[i] # "running" =>
       child[i] = "none" /\ plans[i].phase = "applying"

LegalSteps ==
  [][Len(plans') >= Len(plans) /\ \A i \in DOMAIN plans : LegalMove(i)]_vars

\* What a plan says happened is what happened to its client: it says how it
\* ended if it ran, and without an outcome it never ran, except in the two
\* phases in which nothing is known.
Truthful ==
  \A i \in DOMAIN plans :
    LET row == plans[i] IN
    /\ row.outcome \in {"succeeded", "degraded"} => child[i] = "zero"
    /\ row.outcome = "failed" => child[i] \in {"nonzero", "signalled"}
    /\ row.outcome = "incomplete" => child[i] = "signalled"
    /\ row.outcome = "none" /\ row.phase \notin {"applying", "observing"} => child[i] = "none"
    /\ row.phase = "observing" => child[i] \notin {"none", "running"}

\* The configuration of a running Claude Code is not taken away from it, even
\* if the command that started it is killed.
DirWhileRunning ==
  \A i \in DOMAIN plans :
    plans[i].client = "claude-code" /\ child[i] = "running" => i \in dirs

\* What is left of a plan once no command works on it has a cause of its own.
\* A phase in the middle of a launch: its command was killed, or its context
\* could not be written, which leaves it applying for ever though its client
\* was never started.  A confirmation nobody is asked for: its command was
\* killed, or its revision had gone before it was shown.  A directory: its
\* command was killed, or the directory could not be removed.
NothingLeftBehind ==
  \A i \in DOMAIN plans :
    (\A p \in Procs : ~WorksOn(p, i)) =>
      /\ plans[i].phase = "applying" => Befell("killed", i) \/ Befell("unwritten", i)
      /\ plans[i].phase = "observing" => Befell("killed", i)
      /\ plans[i].phase = "awaiting-confirmation" =>
           Befell("killed", i) \/ plans[i].rev \notin available
      /\ i \in dirs => Befell("killed", i) \/ Befell("unremoved", i)
      /\ Befell("unwritten", i) => plans[i].phase = "applying" /\ child[i] = "none"

\* What status says of a plan, from what is stored of it and what it derives
\* again, agrees with itself and with what happened to the client: applied and
\* degraded are said of a client that ended well, applied never with known
\* differences, degraded never without.
StatusIsTrue ==
  \A i \in DOMAIN plans :
    LET s == StatusOf(i) IN
    /\ s.apply # "unknown" => /\ child[i] = "zero"
                             /\ s.phase \in {"succeeded", "degraded", "requires-restart"}
    /\ s.apply = "applied" => s.differences # "some"
    /\ s.apply = "degraded" => s.differences # "none"

\* Expected, and not so (README.md, section 5): Claude Code is only said to be
\* running while it is.
RefusedOnlyWhileRunning ==
  [][\A p \in Procs :
       ~run[p].alive /\ run'[p].alive =>
         \E i \in DOMAIN plans : plans[i].client = "claude-code" /\ child[i] = "running"]_vars
=============================================================================
