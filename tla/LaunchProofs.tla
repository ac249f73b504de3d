------------------------------ MODULE LaunchProofs ------------------------------
(***************************************************************************)
(* Proofs about Launch, for any commands, revisions and bounds, and about  *)
(* Supply and ClaudeContent, for any library and any client.               *)
(***************************************************************************)
EXTENDS Launch, ClaudeContent, TLAPS, SequenceTheorems, WellFoundedInduction

-----------------------------------------------------------------------------
(* Why a plan can be trusted although its rows are written by several      *)
(* commands.  From Save until its end, the command that made a plan is the *)
(* only one to work on it: `switch` only touches plans of OMP whose client *)
(* has ended well, and no command takes up the plan of another.  What the  *)
(* command knows of its row, of the client and of the directory therefore  *)
(* stays true.                                                             *)

Unspawned == {"show", "ask", "launch", "dir", "materialize", "context", "spawn", "fail"}
AtWork   == Unspawned \cup {"wait", "started", "observed", "cleanup"}

Worked(i) == \E p \in Procs : run[p].pc \in AtWork /\ run[p].plan = i

\* Its context could not be written; bf is what befell the plans.
Broken(bf, i) == <<"unwritten", i>> \in bf

\* A row, how its client ended, whether it has a directory, and whether its
\* context could not be written.
RowOK(row, c, in, broken) ==
  /\ broken => row.phase = "applying" /\ c = "none"
  /\ row.outcome \in {"succeeded", "degraded"} =>
       c = "zero" /\ row.phase \in {row.outcome, "requires-restart"}
  /\ row.phase \in {"succeeded", "degraded"} => row.outcome = row.phase
  /\ row.outcome = "succeeded" /\ row.client = "omp" => row.rev \notin Partial
  /\ row.outcome = "degraded" /\ row.client = "omp" => row.rev \in Partial
  /\ row.outcome = "failed" => c \in {"nonzero", "signalled"}
  /\ row.outcome = "incomplete" => c = "signalled"
  /\ row.outcome = "none" /\ row.phase \notin {"applying", "observing"} => c = "none"
  /\ row.phase = "observing" => c \notin {"none", "running"}
  /\ row.client = "claude-code" /\ c = "running" => in
  /\ in => row.client = "claude-code"

\* What is left of a row has a cause; av are the revisions that can be read.
Explained(row, in, i, bf, av) ==
  /\ row.phase = "applying" => <<"killed", i>> \in bf \/ Broken(bf, i)
  /\ row.phase = "observing" => <<"killed", i>> \in bf
  /\ row.phase = "awaiting-confirmation" => <<"killed", i>> \in bf \/ row.rev \notin av
  /\ in => <<"killed", i>> \in bf \/ <<"unremoved", i>> \in bf

RowInv(i) ==
  /\ RowOK(plans[i], child[i], i \in dirs, Broken(befell, i))
  /\ Worked(i) \/ Explained(plans[i], i \in dirs, i, befell, available)

\* What a command knows that works on its plan.
OwnerOK(r, row, c, in, broken) ==
  /\ row.client = r.client /\ row.rev = r.rev
  /\ r.pc \in {"show", "ask"} => row.phase = "awaiting-confirmation"
  /\ r.pc \in AtWork \ {"show", "ask", "observed", "cleanup"} => row.phase = "applying"
  /\ r.pc = "observed" => row.phase = "observing"
  /\ r.pc # "cleanup" => row.outcome = "none"
  /\ r.pc \in Unspawned => c = "none"
  /\ r.pc = "wait" => c # "none"
  /\ r.pc \in {"started", "observed"} => c \notin {"none", "running"}
  /\ r.pc \in {"dir", "materialize"} => r.client = "claude-code"
  /\ r.pc \in {"show", "ask", "launch", "dir"} => ~in
  /\ r.pc \in {"materialize", "context", "spawn", "wait", "started", "observed"} =>
       (r.client = "claude-code" => in)
  /\ r.pc = "cleanup" =>
       /\ r.client = "claude-code" /\ c # "running"
       /\ row.phase \notin {"observing", "awaiting-confirmation"}
       /\ row.phase = "applying" => broken
  /\ broken => r.pc = "cleanup"

OwnerInv(p) ==
  LET i == run[p].plan IN
  /\ i \in DOMAIN plans
  /\ \A q \in Procs \ {p} : run[q].pc \in AtWork => run[q].plan # i
  /\ OwnerOK(run[p], plans[i], child[i], i \in dirs, Broken(befell, i))

CommandInv(p) ==
  LET r == run[p] IN
  /\ r.pc # "idle" => r.rev \in Revisions
  /\ r.pc \in {"reread", "mark"} => r.plan \in DOMAIN plans /\ plans[r.plan].client = "omp"
  /\ r.pc = "mark" => /\ plans[r.plan].phase \in {"succeeded", "degraded", "requires-restart"}
                      /\ plans[r.plan].outcome \in {"succeeded", "degraded"}
  /\ r.pc \in AtWork => OwnerInv(p)

\* No two plans, made or about to be saved, have the same creation time.
TimeInv ==
  /\ \A i \in DOMAIN plans : plans[i].made <= clock
  /\ \A i, j \in DOMAIN plans : i # j => plans[i].made # plans[j].made
  /\ \A p \in Procs : run[p].pc = "save" =>
       /\ run[p].made <= clock
       /\ \A i \in DOMAIN plans : plans[i].made # run[p].made
       /\ \A q \in Procs \ {p} : run[q].pc = "save" => run[q].made # run[p].made

PlansInv == (\A i \in DOMAIN plans : RowInv(i)) /\ (\A p \in Procs : CommandInv(p))

Inductive == TypeOK /\ TimeInv /\ PlansInv

-----------------------------------------------------------------------------
(* What a step of one command on the plan i leaves of the others.          *)

\* Only the plan i, its client and its directory change, or it is new.
Separate(i) ==
  /\ DOMAIN plans \subseteq DOMAIN plans' /\ DOMAIN plans' \subseteq DOMAIN plans \cup {i}
  /\ i \in DOMAIN plans => plans'[i].client = plans[i].client
  /\ \A j \in DOMAIN plans \ {i} :
       plans'[j] = plans[j] /\ child'[j] = child[j] /\ (j \in dirs' <=> j \in dirs)
  /\ available' \subseteq available /\ befell \subseteq befell'
  /\ \A j \in DOMAIN plans \ {i} : Broken(befell', j) => Broken(befell, j)

\* No other command works on the plan i, or is about to switch from it.
Alone(p, i) ==
  \A q \in Procs \ {p} :
    /\ run[q].pc \in AtWork => run[q].plan # i
    /\ run[q].pc = "mark" /\ run[q].plan = i =>
         /\ plans'[i].phase \in {"succeeded", "degraded", "requires-restart"}
         /\ plans'[i].outcome \in {"succeeded", "degraded"}

LEMMA Elsewhere ==
  ASSUME TypeOK, PlansInv, NEW p \in Procs, NEW r \in Runs, NEW i \in Nat,
         run' = [run EXCEPT ![p] = r],
         run[p].pc \in AtWork => run[p].plan = i,
         r.pc \in AtWork => r.plan = i,
         Separate(i), Alone(p, i),
         i \in DOMAIN plans' => RowInv(i)',
         CommandInv(p)'
  PROVE  PlansInv'
<1> USE DEF PlansInv
<1>1. run \in [Procs -> Runs] /\ run'[p] = r /\ \A q \in Procs \ {p} : run'[q] = run[q]
  BY DEF TypeOK
<1>2. ASSUME NEW j \in DOMAIN plans' PROVE RowInv(j)'
  <2>1. CASE j = i
    BY <2>1
  <2>2. CASE j # i
    <3>1. /\ j \in DOMAIN plans /\ plans'[j] = plans[j] /\ child'[j] = child[j]
          /\ j \in dirs' <=> j \in dirs
      BY <2>2 DEF Separate
    <3>2. Worked(j) => Worked(j)'
      BY <1>1, <2>2 DEF Worked
    <3>3. RowInv(j)
      BY <3>1
    <3>4. /\ Broken(befell', j) <=> Broken(befell, j)
          /\ befell \subseteq befell' /\ available' \subseteq available
      BY <2>2, <3>1 DEF Separate, Broken
    <3>5. RowOK(plans'[j], child'[j], j \in dirs', Broken(befell', j))
      BY <3>1, <3>3, <3>4 DEF RowInv, RowOK
    <3>6. Explained(plans[j], j \in dirs, j, befell, available)
            => Explained(plans'[j], j \in dirs', j, befell', available')
      BY <3>1, <3>4 DEF Explained
    <3> QED BY <3>2, <3>3, <3>5, <3>6 DEF RowInv
  <2> QED BY <2>1, <2>2
<1>3. ASSUME NEW q \in Procs PROVE CommandInv(q)'
  <2>1. CASE q = p
    BY <2>1
  <2>2. CASE q # p
    <3>1. run'[q] = run[q] /\ CommandInv(q)
      BY <1>1, <2>2
    <3> DEFINE k == run[q].plan
    <3>2. k \in DOMAIN plans => /\ k \in DOMAIN plans' /\ plans'[k].client = plans[k].client
                                /\ k # i => plans'[k] = plans[k] /\ child'[k] = child[k]
                                            /\ (k \in dirs' <=> k \in dirs)
      BY DEF Separate
    <3>3. run[q].pc = "mark" => /\ plans'[k].phase \in {"succeeded", "degraded", "requires-restart"}
                                /\ plans'[k].outcome \in {"succeeded", "degraded"}
      BY <2>2, <3>1, <3>2 DEF Alone, CommandInv
    <3>4. ASSUME run[q].pc \in AtWork PROVE OwnerInv(q)'
      <4>1. OwnerInv(q) /\ k # i
        BY <2>2, <3>1, <3>4 DEF CommandInv, Alone
      <4>2. /\ plans'[k] = plans[k] /\ child'[k] = child[k] /\ (k \in dirs' <=> k \in dirs)
            /\ k \in DOMAIN plans'
        BY <3>2, <4>1 DEF OwnerInv
      <4>3. \A x \in Procs \ {q} : run'[x].pc \in AtWork => run'[x].plan # k
        BY <1>1, <4>1 DEF OwnerInv
      <4>4. k \in DOMAIN plans \ {i} /\ (Broken(befell', k) <=> Broken(befell, k))
        BY <4>1 DEF Separate, Broken, OwnerInv
      <4> QED BY <3>1, <4>1, <4>2, <4>3, <4>4 DEF OwnerInv, OwnerOK
    <3> QED BY <3>1, <3>2, <3>3, <3>4 DEF CommandInv
  <2> QED BY <2>1, <2>2
<1> QED BY <1>2, <1>3

\* NoAccident but the end of commands befalls the plans.
OnlyKilled ==
  befell \subseteq befell' /\ befell' \subseteq befell \cup ({"killed"} \X DOMAIN plans)

\* A step that leaves every plan as it is.
LEMMA Idly ==
  ASSUME TypeOK, PlansInv, NEW p \in Procs, NEW r \in Runs,
         run' = [run EXCEPT ![p] = r],
         run[p].pc \notin AtWork, r.pc \notin AtWork,
         UNCHANGED <<plans, child, dirs, available>>, OnlyKilled,
         CommandInv(p)'
  PROVE  PlansInv'
<1>1. Separate(0) /\ 0 \notin DOMAIN plans'
  <2>1. \A j \in DOMAIN plans : Broken(befell', j) => Broken(befell, j)
    BY DEF OnlyKilled, Broken
  <2> QED BY <2>1 DEF Separate, TypeOK, OnlyKilled
<1>2. Alone(p, 0)
  BY DEF Alone, PlansInv, CommandInv, OwnerInv, TypeOK
<1> QED BY <1>1, <1>2, Elsewhere

\* Something may befall the plan i.
Worse(i) == befell \subseteq befell' /\ befell' \subseteq befell \cup (Damages \X {i})

\* A step of a command on its own plan.
OwnStep(p, r, row, c) ==
  LET i == run[p].plan IN
  /\ run' = [run EXCEPT ![p] = r]
  /\ plans' = [plans EXCEPT ![i] = row]
  /\ child' = [child EXCEPT ![i] = c]
  /\ dirs' \in {dirs, dirs \cup {i}, dirs \ {i}}
  /\ UNCHANGED <<available, clock>>
  /\ accidents' \in Nat /\ Worse(i)

LEMMA OnItsPlan ==
  ASSUME Inductive, NEW p \in Procs, run[p].pc \in AtWork,
         NEW r \in Runs, NEW row \in Plan, NEW c \in Children,
         OwnStep(p, r, row, c),
         r.pc \in AtWork \cup {"idle"},
         r.pc \in AtWork => r.plan = run[p].plan /\ r.rev \in Revisions,
         row.client = plans[run[p].plan].client /\ row.made = plans[run[p].plan].made,
         RowOK(row, c, run[p].plan \in dirs', Broken(befell', run[p].plan)),
         r.pc \in AtWork
           \/ Explained(row, run[p].plan \in dirs', run[p].plan, befell', available),
         r.pc \in AtWork =>
           OwnerOK(r, row, c, run[p].plan \in dirs', Broken(befell', run[p].plan))
  PROVE  Inductive'
<1> USE DEF OwnStep
<1>0. PICK i \in Nat : i = run[p].plan
  BY DEF Inductive, TypeOK, Runs
<1> USE <1>0
<1>1. OwnerInv(p)
  BY DEF Inductive, PlansInv, CommandInv
<1>2. i \in DOMAIN plans
  BY <1>1 DEF OwnerInv
<1>3. plans \in Seq(Plan) /\ child \in Seq(Children) /\ DOMAIN child = DOMAIN plans
  BY DEF Inductive, TypeOK
<1>4. /\ plans' \in Seq(Plan) /\ Len(plans') = Len(plans)
      /\ child' \in Seq(Children) /\ Len(child') = Len(child)
  BY <1>2, <1>3, ExceptSeq
<1>5. /\ plans'[i] = row /\ child'[i] = c /\ DOMAIN plans' = DOMAIN plans
      /\ \A j \in DOMAIN plans \ {i} : plans'[j] = plans[j] /\ child'[j] = child[j]
  BY <1>2, <1>3
<1>6. /\ run \in [Procs -> Runs] /\ run' \in [Procs -> Runs] /\ run'[p] = r
      /\ \A q \in Procs \ {p} : run'[q] = run[q]
  BY DEF Inductive, TypeOK
<1>7. TypeOK'
  <2>1. dirs' \subseteq DOMAIN plans'
    BY <1>2, <1>5 DEF Inductive, TypeOK
  <2>2. accidents' \in Nat /\ befell' \subseteq Damages \X DOMAIN plans'
    BY <1>2, <1>5 DEF Inductive, TypeOK, Worse
  <2> QED BY <1>4, <1>6, <2>1, <2>2 DEF Inductive, TypeOK
<1>8. TimeInv'
  <2>1. \A j \in DOMAIN plans : plans'[j].made = plans[j].made
    BY <1>5
  <2>2. r.pc # "save"
    BY DEF AtWork, Unspawned
  <2> QED BY <1>5, <1>6, <2>1, <2>2 DEF Inductive, TimeInv
<1>9. PlansInv'
  <2>1. Separate(i)
    <3>1. \A j \in DOMAIN plans \ {i} : j \in dirs' <=> j \in dirs
      OBVIOUS
    <3>2. /\ row.client = plans[i].client /\ available' = available
          /\ befell \subseteq befell'
          /\ \A j \in DOMAIN plans \ {i} : Broken(befell', j) => Broken(befell, j)
      BY DEF Worse, Broken
    <3> HIDE DEF OwnStep
    <3> QED BY <1>5, <3>1, <3>2 DEF Separate
  <2>2. Alone(p, i)
    <3>1. ASSUME NEW q \in Procs, run[q].pc = "mark", run[q].plan = i PROVE FALSE
      <4>1. plans[i].client = "omp" /\ plans[i].outcome \in {"succeeded", "degraded"}
        BY <3>1 DEF Inductive, PlansInv, CommandInv
      <4> QED BY <1>1, <4>1 DEF OwnerInv, OwnerOK
    <3> QED BY <1>1, <3>1 DEF Alone, OwnerInv
  <2>3. RowInv(i)'
    <3>1. r.pc \in AtWork => Worked(i)'
      BY <1>6 DEF Worked
    <3>2. Worked(i)' \/ Explained(row, i \in dirs', i, befell', available')
      BY <3>1
    <3>3. RowOK(row, c, i \in dirs', Broken(befell', i))
      OBVIOUS
    <3> HIDE DEF OwnStep
    <3> QED BY <1>5, <3>2, <3>3 DEF RowInv
  <2>4. CommandInv(p)'
    <3>1. ASSUME r.pc \in AtWork PROVE OwnerInv(p)'
      <4>1. \A q \in Procs \ {p} : run'[q].pc \in AtWork => run'[q].plan # i
        BY <1>1, <1>6 DEF OwnerInv
      <4>2. run'[p].plan = i /\ OwnerOK(run'[p], plans'[i], child'[i], i \in dirs', Broken(befell', i))
        BY <1>5, <1>6, <3>1
      <4> QED BY <1>2, <1>5, <4>1, <4>2 DEF OwnerInv
    <3> QED BY <1>6, <3>1 DEF CommandInv, AtWork, Unspawned
  <2>5. r.pc \in AtWork => r.plan = i
    OBVIOUS
  <2> QED BY <1>2, <2>1, <2>2, <2>3, <2>4, <2>5, Elsewhere DEF Inductive
<1> QED BY <1>7, <1>8, <1>9 DEF Inductive

\* The same, for a step that only moves the command.
LEMMA Advance ==
  ASSUME Inductive, NEW p \in Procs, run[p].pc \in AtWork,
         NEW r \in Runs, run' = [run EXCEPT ![p] = r], Quiet,
         r.pc \in AtWork, r.plan = run[p].plan, r.rev \in Revisions,
         OwnerOK(r, plans[run[p].plan], child[run[p].plan], run[p].plan \in dirs, Broken(befell, run[p].plan))
  PROVE  Inductive'
<1>0. PICK i \in Nat : i = run[p].plan
  BY DEF Inductive, TypeOK, Runs
<1> USE <1>0
<1>1. i \in DOMAIN plans /\ RowInv(i)
  BY DEF Inductive, PlansInv, CommandInv, OwnerInv
<1>2. plans[i] \in Plan /\ child[i] \in Children
  BY <1>1 DEF Inductive, TypeOK
<1>3. OwnStep(p, r, plans[i], child[i])
  BY <1>1 DEF OwnStep, Quiet, Worse, Inductive, TypeOK
<1>4. dirs' = dirs /\ befell' = befell
  BY DEF Quiet
<1>5. RowOK(plans[i], child[i], i \in dirs', Broken(befell', i))
  BY <1>1, <1>4 DEF RowInv
<1>6. OwnerOK(r, plans[i], child[i], i \in dirs', Broken(befell', i))
  BY <1>4 DEF OwnerOK
<1> QED BY <1>2, <1>3, <1>5, <1>6, OnItsPlan

\* The command ends, and leaves its plan as it is.
LEMMA Stop ==
  ASSUME Inductive, NEW p \in Procs, run[p].pc \in AtWork,
         NEW r \in Runs, run' = [run EXCEPT ![p] = r], r.pc = "idle",
         UNCHANGED <<plans, child, available, clock>>,
         dirs' \in {dirs, dirs \ {run[p].plan}},
         accidents' \in Nat, Worse(run[p].plan),
         Broken(befell', run[p].plan) => Broken(befell, run[p].plan),
         run[p].plan \notin dirs' => child[run[p].plan] # "running" \/ run[p].client = "omp",
         Explained(plans[run[p].plan], run[p].plan \in dirs', run[p].plan, befell', available)
  PROVE  Inductive'
<1>0. PICK i \in Nat : i = run[p].plan
  BY DEF Inductive, TypeOK, Runs
<1> USE <1>0
<1>1. i \in DOMAIN plans /\ RowInv(i) /\ plans[i].client = run[p].client
  BY DEF Inductive, PlansInv, CommandInv, OwnerInv, OwnerOK
<1>2. plans[i] \in Plan /\ child[i] \in Children
  BY <1>1 DEF Inductive, TypeOK
<1>3. OwnStep(p, r, plans[i], child[i])
  BY <1>1 DEF OwnStep, Inductive, TypeOK
<1>4. RowOK(plans[i], child[i], i \in dirs', Broken(befell', i))
  BY <1>1 DEF RowInv, RowOK
<1>5. r.pc \notin AtWork
  BY DEF AtWork, Unspawned
<1> QED BY <1>2, <1>3, <1>4, <1>5, OnItsPlan

\* A step of a command that has no plan of its own.
LEMMA OffPlans ==
  ASSUME Inductive, NEW p \in Procs, NEW r \in Runs,
         run' = [run EXCEPT ![p] = r],
         run[p].pc \notin AtWork, r.pc \notin AtWork,
         UNCHANGED <<plans, child, dirs, available>>,
         accidents' \in Nat, OnlyKilled,
         IF r.pc = "save" THEN clock' = clock + 1 /\ r.made = clock + 1
         ELSE clock' = clock,
         r.pc # "idle" => r.rev \in Revisions,
         r.pc \in {"reread", "mark"} =>
           r.plan \in DOMAIN plans /\ plans[r.plan].client = "omp",
         r.pc = "mark" => plans[r.plan].phase \in {"succeeded", "degraded"}
  PROVE  Inductive'
<1>1. /\ run \in [Procs -> Runs] /\ run' \in [Procs -> Runs] /\ run'[p] = r
      /\ \A q \in Procs \ {p} : run'[q] = run[q]
  BY DEF Inductive, TypeOK
<1>2. TypeOK'
  <2>1. befell' \subseteq Damages \X DOMAIN plans'
    BY DEF Inductive, TypeOK, OnlyKilled, Damages
  <2> QED BY <1>1, <2>1 DEF Inductive, TypeOK
<1>3. TimeInv'
  <2>1. /\ \A i \in DOMAIN plans : plans[i].made \in Nat
        /\ \A q \in Procs : run[q].made \in Nat
        /\ clock \in Nat /\ clock' \in Nat /\ clock <= clock'
        /\ r.pc = "save" => clock < r.made /\ r.made = clock'
    <3>1. \A i \in DOMAIN plans : plans[i] \in Plan
      BY DEF Inductive, TypeOK
    <3>2. clock \in Nat
      BY DEF Inductive, TypeOK
    <3> QED BY <1>1, <3>1, <3>2 DEF Plan, Runs
  <2>2. \A i \in DOMAIN plans' : plans'[i].made <= clock'
    BY <2>1 DEF Inductive, TimeInv
  <2>3. \A i, j \in DOMAIN plans' : i # j => plans'[i].made # plans'[j].made
    BY DEF Inductive, TimeInv
  <2>4. ASSUME NEW q \in Procs, run'[q].pc = "save"
        PROVE  /\ run'[q].made <= clock'
               /\ \A i \in DOMAIN plans' : plans'[i].made # run'[q].made
               /\ \A x \in Procs \ {q} : run'[x].pc = "save" => run'[x].made # run'[q].made
    <3>1. CASE q = p
      BY <1>1, <2>1, <2>4, <3>1 DEF Inductive, TimeInv
    <3>2. CASE q # p
      BY <1>1, <2>1, <2>4, <3>2 DEF Inductive, TimeInv
    <3> QED BY <3>1, <3>2
  <2> QED BY <2>2, <2>3, <2>4 DEF TimeInv
<1>4. CommandInv(p)'
  <2>1. r.pc = "mark" => plans[r.plan].outcome \in {"succeeded", "degraded"}
    BY DEF Inductive, PlansInv, RowInv, RowOK
  <2> QED BY <1>1, <2>1 DEF CommandInv
<1> QED BY <1>2, <1>3, <1>4, Idly DEF Inductive

-----------------------------------------------------------------------------
(* The operators.                                                          *)

\* The moves of the state diagram that the commands make.
LEMMA Moves ==
  /\ After("awaiting-confirmation", "confirmed") = "applying"
  /\ After("awaiting-confirmation", "rejected") = "cancelled"
  /\ After("applying", "process-started") = "observing"
  /\ After("applying", "apply-failed") = "failed"
  /\ \A outcome \in Outcomes : After("observing", outcome) = outcome
  /\ After("prepared", "prepared-ok") = "awaiting-confirmation"
  /\ After("prepared", "prepared-failed") = "failed"
  /\ After("prepared", "target-requires-restart") = "requires-restart"
  /\ \A phase \in Phases :
       Accepts(phase, "switch-requested") => phase \in {"succeeded", "degraded"}
  /\ \A event \in {"confirmed", "rejected"} : Accepts("awaiting-confirmation", event)
BY DEF After, Accepts, Transitions, Phases, Outcomes

\* A bounded set of numbers has a largest one.
LEMMA Largest ==
  ASSUME NEW S \in SUBSET Nat, S # {}, NEW B \in Nat, \A x \in S : x <= B
  PROVE  \E m \in S : \A x \in S : x <= m
<1> DEFINE T == {n \in Nat : \E x \in S : n = B - x}
           R == {e \in Nat \X Nat : e[1] < e[2]}
<1>1. T \subseteq Nat /\ T # {}
  <2>1. PICK x \in S : TRUE
    OBVIOUS
  <2>2. B - x \in Nat
    OBVIOUS
  <2> QED BY <2>2
<1>2. IsWellFoundedOn(R, Nat)
  BY NatLessThanWellFounded DEF OpToRel
<1> HIDE DEF T
<1>3. PICK t \in T : \A y \in T : ~(<<y, t>> \in R)
  BY <1>1, <1>2, WFMin
<1>4. PICK m \in S : t = B - m
  BY DEF T
<1>5. ASSUME NEW x \in S PROVE x <= m
  <2>1. B - x \in T
    BY DEF T
  <2>2. ~(B - x < B - m)
    BY <1>1, <1>3, <1>4, <2>1
  <2> QED BY <2>2
<1> QED BY <1>5

\* The newest plan of a client is there, and no plan of that client is newer.
LEMMA NewestIsNewest ==
  ASSUME TypeOK, TimeInv, NEW cl \in Clients
  PROVE  LET i == Newest(cl) IN
         /\ i # 0 => i \in DOMAIN plans /\ plans[i].client = cl
         /\ \A j \in DOMAIN plans :
              plans[j].client = cl => i # 0 /\ plans[j].made <= plans[i].made
<1> DEFINE of == {i \in DOMAIN plans : plans[i].client = cl}
           S  == {plans[i].made : i \in of}
<1>1. /\ \A i \in DOMAIN plans : i \in Nat /\ i # 0 /\ plans[i].made \in Nat
      /\ clock \in Nat
  <2>1. \A i \in DOMAIN plans : i \in Nat /\ i # 0 /\ plans[i] \in Plan
    BY DEF TypeOK
  <2> QED BY <2>1 DEF TypeOK, Plan
<1>2. CASE of = {}
  BY <1>2 DEF Newest
<1>3. CASE of # {}
  <2>1. PICK m \in S : \A x \in S : x <= m
    <3>1. S \in SUBSET Nat /\ S # {} /\ \A x \in S : x <= clock
      BY <1>1, <1>3 DEF TimeInv
    <3> HIDE DEF S
    <3> QED BY <1>1, <3>1, Largest
  <2>2. PICK i \in of : plans[i].made = m
    OBVIOUS
  <2>3. \A j \in of \ {i} : plans[j].made < plans[i].made
    BY <1>1, <2>1, <2>2 DEF TimeInv
  <2> DEFINE n == CHOOSE k \in of : \A j \in of \ {k} : plans[j].made < plans[k].made
  <2>4. n \in of /\ \A j \in of \ {n} : plans[j].made < plans[n].made
    BY <2>3
  <2>5. Newest(cl) = n
    BY <1>3 DEF Newest
  <2> HIDE DEF n
  <2> QED BY <1>1, <2>4, <2>5
<1> QED BY <1>2, <1>3

-----------------------------------------------------------------------------
(* One lemma for each action.                                              *)

LEMMA InitInductive == Init => Inductive
<1> SUFFICES ASSUME Init PROVE Inductive
  OBVIOUS
<1> USE DEF Init
<1>1. NoRun \in Runs
  BY DEF NoRun, Runs, Pcs, Clients
<1>2. TypeOK
  <2>1. <<>> \in Seq(Plan) /\ <<>> \in Seq(Children)
    BY EmptySeq
  <2> QED BY <1>1, <2>1 DEF TypeOK
<1>3. TimeInv
  BY DEF TimeInv, NoRun
<1>4. PlansInv
  BY DEF PlansInv, CommandInv, NoRun, AtWork, Unspawned
<1> QED BY <1>2, <1>3, <1>4 DEF Inductive

\* What there is to know of a command and its plan, in one place.
LEMMA Knows ==
  ASSUME Inductive, NEW p \in Procs
  PROVE  /\ run[p] \in Runs /\ NoRun \in Runs
         /\ run[p].pc # "idle" => run[p].rev \in Revisions
         /\ run[p].pc \in AtWork =>
              LET i == run[p].plan IN
              /\ i \in DOMAIN plans /\ plans[i] \in Plan /\ child[i] \in Children
              /\ OwnerOK(run[p], plans[i], child[i], i \in dirs, Broken(befell, i))
              /\ RowOK(plans[i], child[i], i \in dirs, Broken(befell, i))
<1>1. run[p] \in Runs /\ NoRun \in Runs
  BY DEF Inductive, TypeOK, NoRun, Runs, Pcs, Clients
<1>2. CommandInv(p)
  BY DEF Inductive, PlansInv
<1>3. ASSUME run[p].pc \in AtWork
      PROVE  LET i == run[p].plan IN
             /\ i \in DOMAIN plans /\ plans[i] \in Plan /\ child[i] \in Children
             /\ OwnerOK(run[p], plans[i], child[i], i \in dirs, Broken(befell, i))
             /\ RowOK(plans[i], child[i], i \in dirs, Broken(befell, i))
  BY <1>2, <1>3 DEF CommandInv, OwnerInv, Inductive, PlansInv, RowInv, TypeOK
<1> QED BY <1>1, <1>2, <1>3 DEF CommandInv

LEMMA BeginKeeps == ASSUME Inductive, NEW p \in Procs, Begin(p) PROVE Inductive'
<1>1. PICK cl \in Clients, rev \in Revisions, switch \in BOOLEAN :
        run' = [run EXCEPT ![p] = [NoRun EXCEPT !.client = cl, !.rev = rev,
                 !.pc = IF cl = "omp" /\ ~switch THEN "prepare" ELSE "find"]]
  BY DEF Begin, Set
<1> DEFINE r == [NoRun EXCEPT !.client = cl, !.rev = rev,
                 !.pc = IF cl = "omp" /\ ~switch THEN "prepare" ELSE "find"]
<1>2. r \in Runs /\ r.pc \in {"prepare", "find"} /\ r.rev \in Revisions
  BY DEF NoRun, Runs, Pcs, Clients
<1>3. run' = [run EXCEPT ![p] = r] /\ run[p].pc = "idle" /\ Quiet
  BY <1>1 DEF Begin, At
<1> HIDE DEF r
<1>4. accidents' \in Nat /\ OnlyKilled /\ run[p].pc \notin AtWork /\ r.pc \notin AtWork
  BY <1>2, <1>3 DEF Quiet, OnlyKilled, Inductive, TypeOK, AtWork, Unspawned
<1> QED BY <1>2, <1>3, <1>4, OffPlans DEF Quiet

LEMMA FindKeeps == ASSUME Inductive, NEW p \in Procs, Find(p) PROVE Inductive'
<1> DEFINE i == Newest(run[p].client)
<1>1. run[p] \in Runs /\ run[p].pc = "find" /\ run[p].rev \in Revisions
  BY Knows DEF Find, At
<1>2. i # 0 => i \in DOMAIN plans /\ plans[i].client = run[p].client
  BY <1>1, NewestIsNewest DEF Inductive, Runs
<1>3. i # 0 => i \in Nat
  BY <1>2 DEF Inductive, TypeOK
<1> HIDE DEF i
<1>4. PICK r \in Runs :
        /\ run' = [run EXCEPT ![p] = r]
        /\ r.pc \in {"prepare", "reread"} /\ r.rev = run[p].rev
        /\ r.pc = "reread" => i # 0 /\ r.plan = i /\ run[p].client = "omp"
  <2>1. CASE run[p].client = "omp" /\ i # 0 /\ Set(p, [run[p] EXCEPT !.pc = "reread", !.plan = i])
    <3> DEFINE r == [run[p] EXCEPT !.pc = "reread", !.plan = i]
    <3>1. r \in Runs /\ r.pc = "reread" /\ r.rev = run[p].rev /\ r.plan = i
      BY <1>1, <1>3, <2>1 DEF Runs, Pcs
    <3> QED BY <2>1, <3>1 DEF Set
  <2>2. CASE Goto(p, "prepare")
    <3> DEFINE r == [run[p] EXCEPT !.pc = "prepare"]
    <3>1. r \in Runs /\ r.pc = "prepare" /\ r.rev = run[p].rev
      BY <1>1 DEF Runs, Pcs
    <3> QED BY <2>2, <3>1 DEF Goto, Set
  <2>3. CASE Set(p, [run[p] EXCEPT !.pc = "prepare", !.alive =
                     i # 0 /\ plans[i].phase \in {"succeeded", "degraded"}])
    <3> DEFINE r == [run[p] EXCEPT !.pc = "prepare", !.alive =
                     i # 0 /\ plans[i].phase \in {"succeeded", "degraded"}]
    <3>1. r \in Runs /\ r.pc = "prepare" /\ r.rev = run[p].rev
      BY <1>1 DEF Runs, Pcs
    <3> QED BY <2>3, <3>1 DEF Set
  <2> QED BY <2>1, <2>2, <2>3 DEF Find, i
<1>5. /\ Quiet /\ accidents' \in Nat /\ OnlyKilled
      /\ run[p].pc \notin AtWork /\ r.pc \notin AtWork
  BY <1>1, <1>4 DEF Find, Quiet, OnlyKilled, Inductive, TypeOK, AtWork, Unspawned
<1> QED BY <1>1, <1>2, <1>4, <1>5, OffPlans DEF Quiet

LEMMA RereadKeeps == ASSUME Inductive, NEW p \in Procs, Reread(p) PROVE Inductive'
<1>1. /\ run[p] \in Runs /\ run[p].pc = "reread" /\ run[p].rev \in Revisions
      /\ run[p].plan \in DOMAIN plans /\ plans[run[p].plan].client = "omp"
  BY Knows DEF Reread, At, Inductive, PlansInv, CommandInv
<1>2. PICK r \in Runs :
        /\ run' = [run EXCEPT ![p] = r]
        /\ r.pc \in {"mark", "prepare"} /\ r.rev = run[p].rev
        /\ r.pc = "mark" => /\ r.plan = run[p].plan
                            /\ plans[run[p].plan].phase \in {"succeeded", "degraded"}
  <2>1. CASE Accepts(plans[run[p].plan].phase, "switch-requested") /\ Goto(p, "mark")
    <3> DEFINE r == [run[p] EXCEPT !.pc = "mark"]
    <3>1. r \in Runs /\ r.pc = "mark" /\ r.rev = run[p].rev /\ r.plan = run[p].plan
      BY <1>1 DEF Runs, Pcs
    <3>2. plans[run[p].plan].phase \in Phases
      <4>1. plans[run[p].plan] \in Plan
        BY <1>1 DEF Inductive, TypeOK
      <4> QED BY <4>1 DEF Plan
    <3>3. plans[run[p].plan].phase \in {"succeeded", "degraded"}
      BY <2>1, <3>2, Moves
    <3> QED BY <2>1, <3>1, <3>3 DEF Goto, Set
  <2>2. CASE Set(p, [run[p] EXCEPT !.pc = "prepare", !.plan = 0])
    <3> DEFINE r == [run[p] EXCEPT !.pc = "prepare", !.plan = 0]
    <3>1. r \in Runs /\ r.pc = "prepare" /\ r.rev = run[p].rev
      BY <1>1 DEF Runs, Pcs
    <3> QED BY <2>2, <3>1 DEF Set
  <2> QED BY <2>1, <2>2 DEF Reread
<1>3. /\ Quiet /\ accidents' \in Nat /\ OnlyKilled
      /\ run[p].pc \notin AtWork /\ r.pc \notin AtWork
  BY <1>1, <1>2 DEF Reread, Quiet, OnlyKilled, Inductive, TypeOK, AtWork, Unspawned
<1> QED BY <1>1, <1>2, <1>3, OffPlans DEF Quiet

LEMMA PrepareKeeps == ASSUME Inductive, NEW p \in Procs, Prepare(p) PROVE Inductive'
<1>0. PICK found \in BOOLEAN : found = (run[p].rev \in available)
  <2>1. (run[p].rev \in available) \in BOOLEAN
    OBVIOUS
  <2> QED BY <2>1, Zenon
<1> DEFINE r == [run[p] EXCEPT !.pc = "save", !.made = clock + 1, !.found = found]
<1>1. run[p] \in Runs /\ run[p].pc = "prepare" /\ run[p].rev \in Revisions
  BY Knows DEF Prepare, At
<1>2. /\ r \in Runs /\ r.pc = "save" /\ r.rev = run[p].rev /\ r.made = clock + 1
      /\ run' = [run EXCEPT ![p] = r]
  <2>1. clock + 1 \in Nat
    BY DEF Inductive, TypeOK
  <2>2. r \in Runs /\ r.pc = "save" /\ r.rev = run[p].rev /\ r.made = clock + 1
    BY <1>1, <2>1 DEF Runs, Pcs
  <2>3. run' = [run EXCEPT ![p] = r]
    BY <1>0 DEF Prepare, Set
  <2> QED BY <2>2, <2>3
<1> HIDE DEF r
<1>3. /\ UNCHANGED <<plans, child, dirs, available>>
      /\ accidents' \in Nat /\ OnlyKilled /\ clock' = clock + 1
      /\ run[p].pc \notin AtWork /\ r.pc \notin AtWork
  BY <1>1, <1>2 DEF Prepare, OnlyKilled, Inductive, TypeOK, AtWork, Unspawned
<1> QED BY <1>1, <1>2, <1>3, OffPlans

LEMMA MarkKeeps == ASSUME Inductive, NEW p \in Procs, Mark(p) PROVE Inductive'
<1>1. PICK i \in Nat : i = run[p].plan
  BY DEF Inductive, TypeOK, Runs
<1> USE <1>1
<1>2. /\ run[p] \in Runs /\ run[p].pc = "mark" /\ run[p].rev \in Revisions
      /\ i \in DOMAIN plans /\ plans[i].client = "omp"
      /\ plans[i].phase \in {"succeeded", "degraded", "requires-restart"}
      /\ plans[i].outcome \in {"succeeded", "degraded"}
  BY Knows DEF Mark, At, Inductive, PlansInv, CommandInv
<1> DEFINE row == [plans[i] EXCEPT !.phase = "requires-restart"]
           r   == [run[p] EXCEPT !.pc = "prepare", !.plan = 0]
<1>3. /\ plans \in Seq(Plan) /\ plans[i] \in Plan
  BY <1>2 DEF Inductive, TypeOK
<1>4. /\ row \in Plan /\ row.client = plans[i].client /\ row.made = plans[i].made
      /\ row.rev = plans[i].rev /\ row.outcome = plans[i].outcome
      /\ row.phase = "requires-restart"
  BY <1>3 DEF Plan, Phases, Outcomes
<1>5. /\ plans' = [plans EXCEPT ![i] = row]
      /\ run' = [run EXCEPT ![p] = r]
      /\ UNCHANGED <<child, dirs, available, clock, accidents, befell>>
  BY DEF Mark, Set
<1>6. r \in Runs /\ r.pc = "prepare" /\ r.rev = run[p].rev
  BY <1>2 DEF Runs, Pcs
<1> HIDE DEF row, r
<1>7. /\ plans' \in Seq(Plan) /\ Len(plans') = Len(plans) /\ DOMAIN plans' = DOMAIN plans
      /\ plans'[i] = row /\ \A j \in DOMAIN plans \ {i} : plans'[j] = plans[j]
  BY <1>2, <1>3, <1>4, <1>5, ExceptSeq
<1>8. /\ run \in [Procs -> Runs] /\ run' \in [Procs -> Runs] /\ run'[p] = r
      /\ \A q \in Procs \ {p} : run'[q] = run[q]
  BY <1>5, <1>6 DEF Inductive, TypeOK
<1>9. TypeOK'
  BY <1>5, <1>7, <1>8 DEF Inductive, TypeOK
<1>10. TimeInv'
  <2>1. \A j \in DOMAIN plans : plans'[j].made = plans[j].made
    BY <1>4, <1>7
  <2> QED BY <1>5, <1>6, <1>7, <1>8, <2>1 DEF Inductive, TimeInv
<1>11. PlansInv'
  <2>1. Separate(i)
    <3>1. befell' = befell /\ available' = available /\ child' = child /\ dirs' = dirs
      BY <1>5
    <3> QED BY <1>4, <1>7, <3>1 DEF Separate
  <2>2. RowInv(i) /\ RowOK(plans[i], child[i], i \in dirs, Broken(befell, i))
    BY <1>2 DEF Inductive, PlansInv, RowInv
  <2>3. Alone(p, i)
    <3>1. ASSUME NEW q \in Procs \ {p}, run[q].pc \in AtWork, run[q].plan = i PROVE FALSE
      BY <1>2, <2>2, <3>1, Knows DEF OwnerOK, RowOK, AtWork, Unspawned
    <3> QED BY <1>4, <1>7, <1>2, <3>1 DEF Alone
  <2>4. RowInv(i)'
    <3>1. RowOK(row, child[i], i \in dirs, Broken(befell, i))
      BY <1>2, <1>4, <2>2 DEF RowOK
    <3>2. Explained(row, i \in dirs, i, befell, available)
      BY <1>2, <1>4, <2>2 DEF Explained, RowOK
    <3> QED BY <1>5, <1>7, <3>1, <3>2 DEF RowInv
  <2>5. CommandInv(p)'
    BY <1>2, <1>6, <1>8 DEF CommandInv, AtWork, Unspawned
  <2>6. run[p].pc \notin AtWork /\ r.pc \notin AtWork
    BY <1>2, <1>6 DEF AtWork, Unspawned
  <2> QED BY <1>5, <1>6, <2>1, <2>3, <2>4, <2>5, <2>6, Elsewhere DEF Inductive
<1> QED BY <1>9, <1>10, <1>11 DEF Inductive

LEMMA SaveKeeps == ASSUME Inductive, NEW p \in Procs, Save(p) PROVE Inductive'
<1> DEFINE n == Len(plans) + 1
<1>1. run[p] \in Runs /\ run[p].pc = "save" /\ run[p].rev \in Revisions /\ NoRun \in Runs
  BY Knows DEF Save, At
<1>2. PICK row \in Plan, r \in Runs :
        /\ plans' = Append(plans, row) /\ run' = [run EXCEPT ![p] = r]
        /\ row.client = run[p].client /\ row.rev = run[p].rev /\ row.made = run[p].made
        /\ row.phase \in {"awaiting-confirmation", "failed", "requires-restart"}
        /\ row.outcome = "none"
        /\ \/ r.pc = "idle" /\ row.phase # "awaiting-confirmation"
           \/ /\ row.phase = "awaiting-confirmation"
              /\ r.pc = "show" /\ r.plan = n /\ r.client = run[p].client /\ r.rev = run[p].rev
  <2> DEFINE event == IF run[p].alive THEN "target-requires-restart"
                      ELSE IF run[p].found THEN "prepared-ok" ELSE "prepared-failed"
             row == [client |-> run[p].client, rev |-> run[p].rev, made |-> run[p].made,
                     phase |-> After("prepared", event), outcome |-> "none"]
             r == [run[p] EXCEPT !.pc = "show", !.plan = n]
  <2>1. row.phase \in {"awaiting-confirmation", "failed", "requires-restart"}
    BY Moves
  <2>2. row \in Plan
    BY <1>1, <2>1 DEF Plan, Phases, Outcomes, Runs
  <2>3. n \in Nat
    BY DEF Inductive, TypeOK
  <2>4. r \in Runs /\ r.pc = "show" /\ r.plan = n /\ r.client = run[p].client /\ r.rev = run[p].rev
    <3> HIDE DEF n
    <3> QED BY <1>1, <2>3 DEF Runs, Pcs
  <2>5. plans' = Append(plans, row)
    BY DEF Save
  <2>6. IF row.phase = "awaiting-confirmation" THEN run' = [run EXCEPT ![p] = r]
        ELSE run' = [run EXCEPT ![p] = NoRun]
    BY DEF Save, Set, Exit
  <2>7. NoRun.pc = "idle"
    BY DEF NoRun
  <2>8. /\ row.client = run[p].client /\ row.rev = run[p].rev /\ row.made = run[p].made
        /\ row.outcome = "none"
    OBVIOUS
  <2> HIDE DEF row, r
  <2>9. CASE row.phase = "awaiting-confirmation"
    BY <2>1, <2>2, <2>4, <2>5, <2>6, <2>8, <2>9
  <2>10. CASE row.phase # "awaiting-confirmation"
    BY <1>1, <2>1, <2>2, <2>5, <2>6, <2>7, <2>8, <2>10
  <2> QED BY <2>9, <2>10
<1>3. /\ child' = Append(child, "none")
      /\ UNCHANGED <<dirs, available, clock, accidents, befell>>
  BY DEF Save
<1>4. /\ plans \in Seq(Plan) /\ child \in Seq(Children) /\ Len(child) = Len(plans)
      /\ n \in Nat /\ n \notin DOMAIN plans /\ n \notin dirs /\ ~Broken(befell, n)
  BY DEF Inductive, TypeOK, Broken
<1>5. "none" \in Children
  BY DEF Children
<1>6. /\ plans' \in Seq(Plan) /\ Len(plans') = n
      /\ child' \in Seq(Children) /\ Len(child') = n
  BY <1>2, <1>3, <1>4, <1>5, AppendProperties
<1>7. /\ DOMAIN plans' = DOMAIN plans \cup {n}
      /\ plans'[n] = row /\ child'[n] = "none"
      /\ \A j \in DOMAIN plans : plans'[j] = plans[j] /\ child'[j] = child[j]
  BY <1>2, <1>3, <1>4
<1>8. /\ run \in [Procs -> Runs] /\ run' \in [Procs -> Runs] /\ run'[p] = r
      /\ \A q \in Procs \ {p} : run'[q] = run[q]
  BY <1>2 DEF Inductive, TypeOK
<1>9. PICK i \in Nat : i = n
  BY <1>4
<1> HIDE DEF n
<1>10. TypeOK'
  BY <1>3, <1>6, <1>7, <1>8 DEF Inductive, TypeOK
<1>11. TimeInv'
  <2>1. run[p].made <= clock /\ \A j \in DOMAIN plans : plans[j].made # run[p].made
    BY <1>1 DEF Inductive, TimeInv
  <2>2. \A j \in DOMAIN plans : plans'[j].made = plans[j].made
    BY <1>7
  <2>3. \A j \in DOMAIN plans' : plans'[j].made <= clock'
    BY <1>2, <1>3, <1>7, <2>1 DEF Inductive, TimeInv
  <2>4. \A j, k \in DOMAIN plans' : j # k => plans'[j].made # plans'[k].made
    BY <1>2, <1>7, <2>1 DEF Inductive, TimeInv
  <2>5. ASSUME NEW q \in Procs, run'[q].pc = "save"
        PROVE  /\ run'[q].made <= clock'
               /\ \A j \in DOMAIN plans' : plans'[j].made # run'[q].made
               /\ \A x \in Procs \ {q} : run'[x].pc = "save" => run'[x].made # run'[q].made
    <3>1. q # p /\ run'[q] = run[q]
      BY <1>2, <1>8, <2>5
    <3>2. run[q].made # run[p].made
      BY <1>1, <2>5, <3>1 DEF Inductive, TimeInv
    <3>3. \A x \in Procs \ {q} : run'[x].pc = "save" => x # p /\ run'[x] = run[x]
      BY <1>2, <1>8
    <3>4. \A j \in DOMAIN plans' : plans'[j].made # run'[q].made
      BY <1>2, <1>7, <2>5, <3>1, <3>2 DEF Inductive, TimeInv
    <3> QED BY <1>3, <2>5, <3>1, <3>3, <3>4 DEF Inductive, TimeInv
  <2> QED BY <2>3, <2>4, <2>5 DEF TimeInv
<1>12. PlansInv'
  <2> USE <1>9
  <2>1. Separate(i)
    <3>1. befell' = befell /\ available' = available /\ dirs' = dirs
      BY <1>3
    <3> QED BY <1>4, <1>7, <3>1 DEF Separate
  <2>2. \A q \in Procs : /\ run[q].pc \in AtWork => run[q].plan # i
                         /\ run[q].pc = "mark" => run[q].plan # i
    BY <1>4, Knows DEF Inductive, PlansInv, CommandInv
  <2>3. Alone(p, i)
    BY <2>2 DEF Alone
  <2>4. RowInv(i)'
    <3>1. RowOK(row, "none", FALSE, FALSE)
      BY <1>2 DEF RowOK
    <3>2. RowOK(plans'[i], child'[i], i \in dirs', Broken(befell', i))
      BY <1>3, <1>4, <1>7, <3>1 DEF RowOK
    <3>3. CASE r.pc = "idle"
      <4>1. row.phase # "awaiting-confirmation" \/ row.rev \notin available
        BY <1>2, <3>3
      <4>2. Explained(row, FALSE, i, befell, available)
        BY <1>2, <4>1 DEF Explained
      <4> QED BY <1>3, <1>4, <1>7, <3>2, <4>2 DEF RowInv, Explained
    <3>4. CASE r.pc = "show" /\ r.plan = i
      <4>1. Worked(i)'
        BY <1>8, <3>4 DEF Worked, AtWork, Unspawned
      <4> QED BY <3>2, <4>1 DEF RowInv
    <3> QED BY <1>2, <3>3, <3>4
  <2>5. CommandInv(p)'
    <3>1. CASE r.pc = "idle"
      BY <1>8, <3>1 DEF CommandInv, AtWork, Unspawned
    <3>2. CASE /\ row.phase = "awaiting-confirmation"
               /\ r.pc = "show" /\ r.plan = n /\ r.client = run[p].client /\ r.rev = run[p].rev
      <4>1. OwnerOK(r, row, "none", FALSE, FALSE)
        BY <1>2, <3>2 DEF OwnerOK, AtWork, Unspawned
      <4>2. OwnerOK(r, plans'[n], child'[n], n \in dirs', Broken(befell', n))
        BY <1>3, <1>4, <1>7, <4>1 DEF OwnerOK
      <4>3. \A q \in Procs \ {p} : run'[q].pc \in AtWork => run'[q].plan # n
        BY <1>8, <2>2
      <4>4. OwnerInv(p)'
        BY <1>7, <1>8, <3>2, <4>2, <4>3 DEF OwnerInv
      <4> QED BY <1>1, <1>8, <3>2, <4>4 DEF CommandInv
    <3> QED BY <1>2, <3>1, <3>2
  <2>6. run[p].pc \notin AtWork /\ (r.pc \in AtWork => r.plan = i)
    BY <1>1, <1>2 DEF AtWork, Unspawned
  <2> QED BY <1>2, <2>1, <2>3, <2>4, <2>5, <2>6, Elsewhere DEF Inductive
<1> QED BY <1>10, <1>11, <1>12 DEF Inductive

\* A command that works on its plan moves on.
LEMMA GotoKeeps ==
  ASSUME Inductive, NEW p \in Procs, run[p].pc \in AtWork,
         NEW pc \in AtWork, Goto(p, pc), Quiet,
         LET i == run[p].plan IN
         \A r \in Runs : r.pc = pc /\ r.client = run[p].client /\ r.rev = run[p].rev =>
                   OwnerOK(r, plans[i], child[i], i \in dirs, Broken(befell, i))
  PROVE  Inductive'
<1> DEFINE r == [run[p] EXCEPT !.pc = pc]
<1>1. run[p] \in Runs /\ run[p].rev \in Revisions
  BY Knows DEF AtWork, Unspawned
<1>2. /\ r \in Runs /\ r.pc = pc /\ r.plan = run[p].plan /\ r.rev = run[p].rev
      /\ r.client = run[p].client
  BY <1>1 DEF Runs, Pcs, AtWork, Unspawned
<1>3. run' = [run EXCEPT ![p] = r]
  BY DEF Goto, Set
<1> HIDE DEF r
<1>4. OwnerOK(r, plans[run[p].plan], child[run[p].plan], run[p].plan \in dirs, Broken(befell, run[p].plan))
  BY <1>2
<1> QED BY <1>1, <1>2, <1>3, <1>4, Advance

\* It ends, having changed its row or not, and removes its directory first.
LEMMA LeaveKeeps ==
  ASSUME Inductive, NEW p \in Procs, run[p].pc \in AtWork \ {"cleanup"},
         NEW threw \in BOOLEAN, Leave(p, threw), NEW row \in Plan,
         plans' = [plans EXCEPT ![run[p].plan] = row],
         row.client = plans[run[p].plan].client, row.made = plans[run[p].plan].made,
         row.rev = plans[run[p].plan].rev,
         UNCHANGED <<child, dirs, available, clock>>,
         accidents' \in Nat, Worse(run[p].plan),
         child[run[p].plan] # "running",
         RowOK(row, child[run[p].plan], run[p].plan \in dirs, Broken(befell', run[p].plan)),
         row.phase \notin {"observing", "awaiting-confirmation"},
         row.phase = "applying" => Broken(befell', run[p].plan)
  PROVE  Inductive'
<1> DEFINE i == run[p].plan
<1>1. /\ run[p] \in Runs /\ NoRun \in Runs /\ run[p].rev \in Revisions
      /\ i \in DOMAIN plans /\ plans[i] \in Plan /\ child[i] \in Children
      /\ OwnerOK(run[p], plans[i], child[i], i \in dirs, Broken(befell, i))
  BY Knows DEF AtWork, Unspawned
<1>2. /\ child' = [child EXCEPT ![i] = child[i]]
      /\ dirs' = dirs
  BY <1>1 DEF Inductive, TypeOK
<1>3. CASE i \in dirs
  <2> DEFINE r == [run[p] EXCEPT !.pc = "cleanup", !.threw = threw]
  <2>1. /\ r \in Runs /\ r.pc = "cleanup" /\ r.plan = i /\ r.rev = run[p].rev
        /\ r.client = run[p].client
    BY <1>1 DEF Runs, Pcs
  <2>2. run' = [run EXCEPT ![p] = r]
    BY <1>3 DEF Leave, Set
  <2> HIDE DEF r
  <2>3. row.client = "claude-code"
    BY <1>3 DEF RowOK
  <2>4. OwnerOK(r, row, child[i], i \in dirs', Broken(befell', i))
    BY <1>1, <2>1, <2>3 DEF OwnerOK, AtWork, Unspawned
  <2>5. RowOK(row, child[i], i \in dirs', Broken(befell', i))
    BY <1>2
  <2>6. OwnStep(p, r, row, child[i])
    BY <1>2, <2>2 DEF OwnStep
  <2>7. r.pc \in AtWork
    BY <2>1 DEF AtWork
  <2> QED BY <1>1, <2>1, <2>4, <2>5, <2>6, <2>7, OnItsPlan DEF AtWork
<1>4. CASE i \notin dirs
  <2> DEFINE r == [NoRun EXCEPT !.threw = threw]
  <2>1. r \in Runs /\ r.pc = "idle"
    BY DEF NoRun, Runs, Pcs, Clients
  <2>2. run' = [run EXCEPT ![p] = r]
    BY <1>4 DEF Leave, Set
  <2> HIDE DEF r
  <2>3. RowOK(row, child[i], i \in dirs', Broken(befell', i))
    BY <1>2
  <2>4. OwnStep(p, r, row, child[i])
    BY <1>2, <2>2 DEF OwnStep
  <2>5. r.pc \notin AtWork
    BY <2>1 DEF AtWork, Unspawned
  <2>6. Explained(row, i \in dirs', i, befell', available)
    BY <1>2, <1>4 DEF Explained
  <2> QED BY <1>1, <2>1, <2>3, <2>4, <2>5, <2>6, OnItsPlan
<1> QED BY <1>3, <1>4

LEMMA ShowKeeps == ASSUME Inductive, NEW p \in Procs, Show(p) PROVE Inductive'
<1>1. run[p].pc = "show" /\ Quiet /\ run[p].pc \in AtWork
  BY DEF Show, At, AtWork, Unspawned
<1>2. CASE Goto(p, "ask")
  <2>1. LET i == run[p].plan IN
        \A r \in Runs : r.pc = "ask" /\ r.client = run[p].client /\ r.rev = run[p].rev =>
          OwnerOK(r, plans[i], child[i], i \in dirs, Broken(befell, i))
    BY <1>1, Knows DEF OwnerOK, Unspawned
  <2>2. "ask" \in AtWork
    BY DEF AtWork, Unspawned
  <2> QED BY <1>1, <1>2, <2>1, <2>2, GotoKeeps
<1>3. CASE Exit(p) /\ run[p].rev \notin available
  <2>1. NoRun \in Runs /\ NoRun.pc = "idle" /\ run' = [run EXCEPT ![p] = NoRun]
    BY <1>3, Knows DEF NoRun, Exit, Set
  <2>2. /\ run[p].plan \notin dirs /\ child[run[p].plan] = "none"
        /\ plans[run[p].plan].phase = "awaiting-confirmation"
        /\ plans[run[p].plan].rev = run[p].rev
    BY <1>1, Knows DEF OwnerOK, Unspawned
  <2>3. /\ dirs' = dirs /\ accidents' \in Nat /\ befell' = befell /\ Worse(run[p].plan)
    BY <1>1 DEF Quiet, Worse, Inductive, TypeOK
  <2>4. Explained(plans[run[p].plan], run[p].plan \in dirs', run[p].plan, befell', available)
    BY <1>3, <2>2, <2>3 DEF Explained
  <2> QED BY <1>1, <2>1, <2>2, <2>3, <2>4, Stop DEF Quiet
<1> QED BY <1>2, <1>3 DEF Show

LEMMA DecideKeeps == ASSUME Inductive, NEW p \in Procs, Decide(p) PROVE Inductive'
<1> DEFINE i == run[p].plan
<1>1. run[p].pc = "ask" /\ run[p].pc \in AtWork
  BY DEF Decide, At, AtWork, Unspawned
<1>2. /\ run[p] \in Runs /\ NoRun \in Runs /\ run[p].rev \in Revisions
      /\ i \in DOMAIN plans /\ plans[i] \in Plan /\ child[i] \in Children
      /\ OwnerOK(run[p], plans[i], child[i], i \in dirs, Broken(befell, i))
      /\ RowOK(plans[i], child[i], i \in dirs, Broken(befell, i))
  BY <1>1, Knows
<1>3. /\ plans[i].phase = "awaiting-confirmation" /\ plans[i].outcome = "none"
      /\ child[i] = "none" /\ i \notin dirs
  BY <1>1, <1>2 DEF OwnerOK, Unspawned
<1>4. PICK event \in {"confirmed", "rejected"} :
        /\ plans' = [plans EXCEPT ![i].phase = After(@, event)]
        /\ IF event = "confirmed" THEN Goto(p, "launch") ELSE Exit(p)
  BY <1>3, Moves DEF Decide
<1> DEFINE row == [plans[i] EXCEPT !.phase = After("awaiting-confirmation", event)]
<1>5. After("awaiting-confirmation", event) = IF event = "confirmed" THEN "applying" ELSE "cancelled"
  BY Moves
<1>6. /\ row \in Plan /\ row.client = plans[i].client /\ row.made = plans[i].made
      /\ row.rev = plans[i].rev /\ row.outcome = "none"
      /\ row.phase = IF event = "confirmed" THEN "applying" ELSE "cancelled"
  BY <1>2, <1>3, <1>5 DEF Plan, Phases, Outcomes
<1>7. plans' = [plans EXCEPT ![i] = row]
  BY <1>2, <1>3, <1>4
<1> HIDE DEF row
<1>8. /\ child' = [child EXCEPT ![i] = child[i]] /\ dirs' = dirs
      /\ accidents' \in Nat /\ befell' = befell /\ Worse(i) /\ UNCHANGED <<available, clock>>
  BY <1>2 DEF Decide, Worse, Inductive, TypeOK
<1>9. RowOK(row, child[i], i \in dirs', Broken(befell', i))
  BY <1>1, <1>2, <1>3, <1>6, <1>8 DEF RowOK, OwnerOK
<1>10. CASE event = "confirmed"
  <2> DEFINE r == [run[p] EXCEPT !.pc = "launch"]
  <2>1. /\ r \in Runs /\ r.pc = "launch" /\ r.plan = i /\ r.rev = run[p].rev
        /\ r.client = run[p].client /\ run' = [run EXCEPT ![p] = r]
    BY <1>2, <1>4, <1>10 DEF Runs, Pcs, Goto, Set
  <2> HIDE DEF r
  <2>2. OwnerOK(r, row, child[i], i \in dirs', Broken(befell', i))
    BY <1>1, <1>2, <1>3, <1>6, <1>8, <1>10, <2>1 DEF OwnerOK, AtWork, Unspawned
  <2>3. OwnStep(p, r, row, child[i])
    BY <1>7, <1>8, <2>1 DEF OwnStep
  <2>4. r.pc \in AtWork
    BY <2>1 DEF AtWork, Unspawned
  <2> QED BY <1>1, <1>2, <1>6, <1>9, <2>1, <2>2, <2>3, <2>4, OnItsPlan
<1>11. CASE event = "rejected"
  <2>1. NoRun \in Runs /\ NoRun.pc = "idle" /\ run' = [run EXCEPT ![p] = NoRun]
    BY <1>4, <1>11, Knows DEF NoRun, Exit, Set
  <2>2. Explained(row, i \in dirs', i, befell', available) /\ NoRun.pc \notin AtWork
    BY <1>3, <1>6, <1>8, <1>11, <2>1 DEF Explained, AtWork, Unspawned
  <2>3. OwnStep(p, NoRun, row, child[i])
    BY <1>7, <1>8, <2>1 DEF OwnStep
  <2> QED BY <1>1, <1>2, <1>6, <1>9, <2>1, <2>2, <2>3, OnItsPlan
<1> QED BY <1>10, <1>11

\* What the steps of a launch that fail and leave it to Fail have in common.
LEMMA GotoFailKeeps ==
  ASSUME Inductive, NEW p \in Procs,
         run[p].pc \in {"launch", "dir", "materialize", "context", "spawn"},
         Goto(p, "fail"), Quiet
  PROVE  Inductive'
<1>1. run[p].pc \in AtWork /\ "fail" \in AtWork
  BY DEF AtWork, Unspawned
<1>2. LET i == run[p].plan IN
      \A r \in Runs : r.pc = "fail" /\ r.client = run[p].client /\ r.rev = run[p].rev =>
        OwnerOK(r, plans[i], child[i], i \in dirs, Broken(befell, i))
  BY <1>1, Knows DEF OwnerOK, AtWork, Unspawned
<1> QED BY <1>1, <1>2, GotoKeeps

LEMMA CheckKeeps == ASSUME Inductive, NEW p \in Procs, Check(p) PROVE Inductive'
<1>1. run[p].pc = "launch" /\ Quiet /\ run[p].pc \in AtWork
  BY DEF Check, At, AtWork, Unspawned
<1>2. plans[run[p].plan].phase = "applying" /\ run[p].client \in Clients
  BY <1>1, Knows DEF OwnerOK, Runs
<1>3. CASE Goto(p, "fail")
  BY <1>1, <1>3, GotoFailKeeps
<1>4. CASE Goto(p, IF run[p].client = "omp" THEN "context" ELSE "dir")
  <2> DEFINE pc == IF run[p].client = "omp" THEN "context" ELSE "dir"
  <2>1. pc \in AtWork
    BY DEF AtWork, Unspawned
  <2>2. LET i == run[p].plan IN
        \A r \in Runs : r.pc = pc /\ r.client = run[p].client /\ r.rev = run[p].rev =>
          OwnerOK(r, plans[i], child[i], i \in dirs, Broken(befell, i))
    BY <1>1, <1>2, Knows DEF OwnerOK, AtWork, Unspawned, Clients
  <2> QED BY <1>1, <1>4, <2>1, <2>2, GotoKeeps
<1> QED BY <1>2, <1>3, <1>4 DEF Check

LEMMA MakeDirKeeps ==
  ASSUME Inductive, NEW p \in Procs, MakeDir(p) PROVE Inductive'
<1> DEFINE i == run[p].plan
<1>1. run[p].pc = "dir" /\ run[p].pc \in AtWork
  BY DEF MakeDir, At, AtWork, Unspawned
<1>2. CASE Goto(p, "fail") /\ UNCHANGED dirs
  BY <1>1, <1>2, GotoFailKeeps DEF MakeDir, Quiet
<1>3. CASE Goto(p, "materialize") /\ dirs' = dirs \cup {i}
  <2>1. /\ run[p] \in Runs /\ run[p].rev \in Revisions
        /\ i \in DOMAIN plans /\ plans[i] \in Plan /\ child[i] \in Children
        /\ OwnerOK(run[p], plans[i], child[i], i \in dirs, Broken(befell, i))
        /\ RowOK(plans[i], child[i], i \in dirs, Broken(befell, i))
    BY <1>1, Knows
  <2> DEFINE r == [run[p] EXCEPT !.pc = "materialize"]
  <2>2. /\ r \in Runs /\ r.pc = "materialize" /\ r.plan = i /\ r.rev = run[p].rev
        /\ r.client = run[p].client /\ run' = [run EXCEPT ![p] = r]
    BY <1>3, <2>1 DEF Runs, Pcs, Goto, Set
  <2> HIDE DEF r
  <2>3. OwnStep(p, r, plans[i], child[i])
    BY <1>3, <2>1, <2>2 DEF OwnStep, Worse, MakeDir, Inductive, TypeOK
  <2>4. i \in dirs' /\ befell' = befell /\ r.pc \in AtWork
    BY <1>3, <2>2 DEF MakeDir, AtWork, Unspawned
  <2>5. RowOK(plans[i], child[i], i \in dirs', Broken(befell', i))
    BY <1>1, <2>1, <2>4 DEF RowOK, OwnerOK
  <2>6. OwnerOK(r, plans[i], child[i], i \in dirs', Broken(befell', i))
    BY <1>1, <2>1, <2>2, <2>4 DEF OwnerOK, AtWork, Unspawned
  <2> QED BY <1>1, <2>1, <2>2, <2>3, <2>4, <2>5, <2>6, OnItsPlan
<1> QED BY <1>2, <1>3 DEF MakeDir

LEMMA MaterializeKeeps ==
  ASSUME Inductive, NEW p \in Procs, Materialize(p) PROVE Inductive'
<1>1. run[p].pc = "materialize" /\ Quiet /\ run[p].pc \in AtWork /\ "context" \in AtWork
  BY DEF Materialize, At, AtWork, Unspawned
<1>2. CASE Goto(p, "fail")
  BY <1>1, <1>2, GotoFailKeeps
<1>3. CASE Goto(p, "context")
  <2>1. LET i == run[p].plan IN
        \A r \in Runs : r.pc = "context" /\ r.client = run[p].client /\ r.rev = run[p].rev =>
          OwnerOK(r, plans[i], child[i], i \in dirs, Broken(befell, i))
    BY <1>1, Knows DEF OwnerOK, AtWork, Unspawned
  <2> QED BY <1>1, <1>3, <2>1, GotoKeeps
<1> QED BY <1>2, <1>3 DEF Materialize

LEMMA WriteContextKeeps ==
  ASSUME Inductive, NEW p \in Procs, WriteContext(p) PROVE Inductive'
<1>1. run[p].pc = "context" /\ run[p].pc \in AtWork /\ "spawn" \in AtWork
  BY DEF WriteContext, At, AtWork, Unspawned
<1>2. CASE Goto(p, "spawn") /\ NoAccident
  <2>1. LET i == run[p].plan IN
        \A r \in Runs : r.pc = "spawn" /\ r.client = run[p].client /\ r.rev = run[p].rev =>
          OwnerOK(r, plans[i], child[i], i \in dirs, Broken(befell, i))
    BY <1>1, Knows DEF OwnerOK, AtWork, Unspawned
  <2>2. Quiet
    BY <1>2 DEF WriteContext, Quiet, NoAccident
  <2> QED BY <1>1, <1>2, <2>1, <2>2, GotoKeeps
<1>3. CASE Leave(p, TRUE) /\ Befalls("unwritten", {run[p].plan})
  <2>0. PICK i \in Nat : i = run[p].plan
    BY DEF Inductive, TypeOK, Runs
  <2>1. /\ i \in DOMAIN plans /\ plans[i] \in Plan /\ child[i] = "none"
        /\ plans[i].phase = "applying"
        /\ RowOK(plans[i], child[i], i \in dirs, Broken(befell, i))
    BY <1>1, <2>0, Knows DEF OwnerOK, AtWork, Unspawned
  <2>2. plans' = [plans EXCEPT ![i] = plans[i]]
    BY <2>1 DEF WriteContext, Inductive, TypeOK
  <2>3. UNCHANGED <<child, dirs, available, clock>>
    BY DEF WriteContext
  <2>4. accidents' \in Nat /\ Worse(i) /\ Broken(befell', i)
    BY <1>3, <2>0 DEF Befalls, Worse, Broken, Damages, Inductive, TypeOK
  <2>5. RowOK(plans[i], child[i], i \in dirs, Broken(befell', i))
    BY <2>1 DEF RowOK
  <2> QED BY <1>1, <1>3, <2>0, <2>1, <2>2, <2>3, <2>4, <2>5, LeaveKeeps
<1> QED BY <1>2, <1>3 DEF WriteContext

LEMMA SpawnKeeps == ASSUME Inductive, NEW p \in Procs, Spawn(p) PROVE Inductive'
<1> DEFINE i == run[p].plan
<1>1. run[p].pc = "spawn" /\ run[p].pc \in AtWork
  BY DEF Spawn, At, AtWork, Unspawned
<1>2. CASE Goto(p, "fail") /\ UNCHANGED child
  BY <1>1, <1>2, GotoFailKeeps DEF Spawn, Quiet
<1>3. CASE Goto(p, "wait") /\ child' = [child EXCEPT ![i] = "running"]
  <2>1. /\ run[p] \in Runs /\ run[p].rev \in Revisions
        /\ i \in DOMAIN plans /\ plans[i] \in Plan
        /\ OwnerOK(run[p], plans[i], child[i], i \in dirs, Broken(befell, i))
        /\ RowOK(plans[i], child[i], i \in dirs, Broken(befell, i))
    BY <1>1, Knows
  <2> DEFINE r == [run[p] EXCEPT !.pc = "wait"]
  <2>2. /\ r \in Runs /\ r.pc = "wait" /\ r.plan = i /\ r.rev = run[p].rev
        /\ r.client = run[p].client /\ run' = [run EXCEPT ![p] = r]
    BY <1>3, <2>1 DEF Runs, Pcs, Goto, Set
  <2> HIDE DEF r
  <2>3. OwnStep(p, r, plans[i], "running")
    BY <1>3, <2>1, <2>2 DEF OwnStep, Worse, Spawn, Inductive, TypeOK
  <2>4. dirs' = dirs /\ befell' = befell /\ r.pc \in AtWork /\ "running" \in Children
    BY <1>3, <2>2 DEF Spawn, AtWork, Children
  <2>5. RowOK(plans[i], "running", i \in dirs', Broken(befell', i))
    BY <1>1, <2>1, <2>4 DEF RowOK, OwnerOK, AtWork, Unspawned
  <2>6. OwnerOK(r, plans[i], "running", i \in dirs', Broken(befell', i))
    BY <1>1, <2>1, <2>2, <2>4 DEF OwnerOK, AtWork, Unspawned
  <2> QED BY <1>1, <2>1, <2>2, <2>3, <2>4, <2>5, <2>6, OnItsPlan
<1> QED BY <1>2, <1>3 DEF Spawn

LEMMA WaitKeeps == ASSUME Inductive, NEW p \in Procs, Wait(p) PROVE Inductive'
<1>1. /\ run[p].pc = "wait" /\ Quiet /\ run[p].pc \in AtWork /\ "started" \in AtWork
      /\ Goto(p, "started") /\ child[run[p].plan] # "running"
  BY DEF Wait, At, AtWork, Unspawned
<1>2. LET i == run[p].plan IN
      \A r \in Runs : r.pc = "started" /\ r.client = run[p].client /\ r.rev = run[p].rev =>
        OwnerOK(r, plans[i], child[i], i \in dirs, Broken(befell, i))
  BY <1>1, Knows DEF OwnerOK, AtWork, Unspawned
<1> QED BY <1>1, <1>2, GotoKeeps

\* The row that Record writes.
LEMMA Recorded ==
  ASSUME Inductive, NEW p \in Procs, run[p].pc \in AtWork, NEW expected,
         NEW phase \in Phases, NEW outcome \in Outcomes \cup {"none"},
         Record(p, expected, phase, outcome)
  PROVE  LET i == run[p].plan IN
         \E row \in Plan :
           /\ plans' = [plans EXCEPT ![i] = row]
           /\ row.client = plans[i].client /\ row.made = plans[i].made
           /\ row.rev = plans[i].rev /\ row.phase = phase /\ row.outcome = outcome
<1> DEFINE i == run[p].plan
           row == [plans[i] EXCEPT !.phase = phase, !.outcome = outcome]
<1>1. i \in DOMAIN plans /\ plans[i] \in Plan
  BY Knows
<1>2. /\ row \in Plan /\ row.client = plans[i].client /\ row.made = plans[i].made
      /\ row.rev = plans[i].rev /\ row.phase = phase /\ row.outcome = outcome
  BY <1>1 DEF Plan
<1>3. plans' = [plans EXCEPT ![i] = row]
  BY <1>1 DEF Record, Inductive, TypeOK
<1> HIDE DEF row
<1> QED BY <1>2, <1>3

LEMMA StartedKeeps == ASSUME Inductive, NEW p \in Procs, Started(p) PROVE Inductive'
<1> DEFINE i == run[p].plan
<1>1. run[p].pc = "started" /\ run[p].pc \in AtWork
  BY DEF Started, At, AtWork
<1>2. /\ run[p] \in Runs /\ run[p].rev \in Revisions
      /\ i \in DOMAIN plans /\ plans[i] \in Plan /\ child[i] \in Children
      /\ OwnerOK(run[p], plans[i], child[i], i \in dirs, Broken(befell, i))
      /\ RowOK(plans[i], child[i], i \in dirs, Broken(befell, i))
  BY <1>1, Knows
<1>3. /\ Record(p, "applying", "observing", "none") /\ Goto(p, "observed")
      /\ UNCHANGED <<child, dirs, available, clock, accidents, befell>>
  BY <1>1, <1>2, Moves DEF Started, Refused, OwnerOK, AtWork
<1>4. PICK row \in Plan :
        /\ plans' = [plans EXCEPT ![i] = row]
        /\ row.client = plans[i].client /\ row.made = plans[i].made
        /\ row.rev = plans[i].rev /\ row.phase = "observing" /\ row.outcome = "none"
  BY <1>1, <1>3, Recorded DEF Phases
<1> DEFINE r == [run[p] EXCEPT !.pc = "observed"]
<1>5. /\ r \in Runs /\ r.pc = "observed" /\ r.plan = i /\ r.rev = run[p].rev
      /\ r.client = run[p].client /\ run' = [run EXCEPT ![p] = r]
  BY <1>2, <1>3 DEF Runs, Pcs, Goto, Set
<1> HIDE DEF r
<1>6. OwnStep(p, r, row, child[i])
  BY <1>2, <1>3, <1>4, <1>5 DEF OwnStep, Worse, Inductive, TypeOK
<1>7. dirs' = dirs /\ befell' = befell /\ r.pc \in AtWork
  BY <1>3, <1>5 DEF AtWork
<1>8. RowOK(row, child[i], i \in dirs', Broken(befell', i))
  BY <1>1, <1>2, <1>4, <1>7 DEF RowOK, OwnerOK, AtWork, Unspawned
<1>9. OwnerOK(r, row, child[i], i \in dirs', Broken(befell', i))
  BY <1>1, <1>2, <1>4, <1>5, <1>7 DEF OwnerOK, AtWork, Unspawned
<1> QED BY <1>1, <1>2, <1>4, <1>5, <1>6, <1>7, <1>8, <1>9, OnItsPlan

LEMMA ObserveKeeps == ASSUME Inductive, NEW p \in Procs, Observe(p) PROVE Inductive'
<1> DEFINE i == run[p].plan
<1>1. run[p].pc = "observed" /\ run[p].pc \in AtWork \ {"cleanup"}
  BY DEF Observe, At, AtWork
<1>2. /\ i \in DOMAIN plans /\ plans[i] \in Plan /\ child[i] \in Children
      /\ OwnerOK(run[p], plans[i], child[i], i \in dirs, Broken(befell, i))
      /\ RowOK(plans[i], child[i], i \in dirs, Broken(befell, i))
  BY <1>1, Knows
<1>3. PICK outcome \in OutcomesOf(p) :
        Record(p, "observing", After("observing", outcome), outcome) /\ Leave(p, FALSE)
  BY <1>1, <1>2 DEF Observe, Refused, OwnerOK
<1>4. /\ outcome \in Outcomes
      /\ outcome = "failed" => child[i] \in {"nonzero", "signalled"}
      /\ outcome = "incomplete" => child[i] = "signalled"
      /\ outcome \in {"succeeded", "degraded"} => child[i] = "zero"
      /\ outcome = "succeeded" /\ plans[i].client = "omp" => plans[i].rev \notin Partial
      /\ outcome = "degraded" /\ plans[i].client = "omp" => plans[i].rev \in Partial
  <2>1. plans[i].client = run[p].client /\ plans[i].rev = run[p].rev
        /\ child[i] \in {"zero", "nonzero", "signalled"}
    BY <1>1, <1>2 DEF OwnerOK, Children
  <2>2. CASE child[i] = "nonzero"
    <3>1. OutcomesOf(p) = {"failed"}
      BY <2>2 DEF OutcomesOf
    <3> QED BY <2>2, <3>1 DEF Outcomes
  <2>3. CASE child[i] = "signalled"
    <3>1. OutcomesOf(p) = {"failed", "incomplete"}
      BY <2>3 DEF OutcomesOf
    <3> QED BY <2>3, <3>1 DEF Outcomes
  <2>4. CASE child[i] = "zero"
    <3>1. OutcomesOf(p) = {o \in {"succeeded", "degraded"} :
                   run[p].client = "omp" => (o = "degraded" <=> run[p].rev \in Partial)}
      BY <2>4 DEF OutcomesOf
    <3> QED BY <2>1, <2>4, <3>1 DEF Outcomes
  <2> QED BY <2>1, <2>2, <2>3, <2>4
<1>5. Record(p, "observing", outcome, outcome)
  BY <1>3, <1>4, Moves
<1>6. PICK row \in Plan :
        /\ plans' = [plans EXCEPT ![i] = row]
        /\ row.client = plans[i].client /\ row.made = plans[i].made
        /\ row.rev = plans[i].rev /\ row.phase = outcome /\ row.outcome = outcome
  BY <1>1, <1>4, <1>5, Recorded DEF Phases
<1>7. /\ UNCHANGED <<child, dirs, available, clock>>
      /\ accidents' \in Nat /\ befell' = befell /\ Worse(i)
  BY DEF Observe, Worse, Inductive, TypeOK
<1>8. RowOK(row, child[i], i \in dirs, Broken(befell', i))
  BY <1>1, <1>2, <1>4, <1>6, <1>7 DEF RowOK, OwnerOK, Outcomes
<1>9. /\ child[i] # "running"
      /\ row.phase \notin {"applying", "observing", "awaiting-confirmation"}
  BY <1>1, <1>2, <1>4, <1>6 DEF OwnerOK, Outcomes
<1> QED BY <1>1, <1>3, <1>6, <1>7, <1>8, <1>9, LeaveKeeps

LEMMA FailKeeps == ASSUME Inductive, NEW p \in Procs, Fail(p) PROVE Inductive'
<1> DEFINE i == run[p].plan
<1>1. run[p].pc = "fail" /\ run[p].pc \in AtWork \ {"cleanup"}
  BY DEF Fail, At, AtWork, Unspawned
<1>2. /\ i \in DOMAIN plans /\ plans[i] \in Plan /\ child[i] = "none"
      /\ OwnerOK(run[p], plans[i], child[i], i \in dirs, Broken(befell, i))
      /\ RowOK(plans[i], child[i], i \in dirs, Broken(befell, i))
  BY <1>1, Knows DEF OwnerOK, Unspawned
<1>3. Record(p, "applying", "failed", "none") /\ Leave(p, FALSE)
  BY <1>1, <1>2, Moves DEF Fail, Refused, OwnerOK
<1>4. PICK row \in Plan :
        /\ plans' = [plans EXCEPT ![i] = row]
        /\ row.client = plans[i].client /\ row.made = plans[i].made
        /\ row.rev = plans[i].rev /\ row.phase = "failed" /\ row.outcome = "none"
  BY <1>1, <1>3, Recorded DEF Phases, Outcomes
<1>5. /\ UNCHANGED <<child, dirs, available, clock>>
      /\ accidents' \in Nat /\ befell' = befell /\ Worse(i)
  BY DEF Fail, Worse, Inductive, TypeOK
<1>6. RowOK(row, child[i], i \in dirs, Broken(befell', i))
  BY <1>1, <1>2, <1>4, <1>5 DEF RowOK, OwnerOK
<1> QED BY <1>1, <1>2, <1>3, <1>4, <1>5, <1>6, LeaveKeeps

LEMMA CleanupKeeps == ASSUME Inductive, NEW p \in Procs, Cleanup(p) PROVE Inductive'
<1> DEFINE i == run[p].plan
           r == [NoRun EXCEPT !.threw = run[p].threw]
<1>1. run[p].pc = "cleanup" /\ run[p].pc \in AtWork
  BY DEF Cleanup, At, AtWork
<1>2. /\ run[p] \in Runs /\ OwnerOK(run[p], plans[i], child[i], i \in dirs, Broken(befell, i))
  BY <1>1, Knows
<1>3. r \in Runs /\ r.pc = "idle" /\ run' = [run EXCEPT ![p] = r]
  BY <1>2 DEF NoRun, Runs, Pcs, Clients, Cleanup, Set
<1> HIDE DEF r
<1>4. /\ UNCHANGED <<plans, child, available, clock>>
      /\ accidents' \in Nat /\ Worse(i) /\ (Broken(befell', i) => Broken(befell, i))
      /\ \/ dirs' = dirs \ {i}
         \/ dirs' = dirs /\ <<"unremoved", i>> \in befell'
  <2>1. CASE dirs' = dirs \ {i} /\ NoAccident
    BY <2>1 DEF Cleanup, NoAccident, Worse, Inductive, TypeOK
  <2>2. CASE UNCHANGED dirs /\ Befalls("unremoved", {i})
    BY <2>2 DEF Cleanup, Befalls, Worse, Broken, Damages, Inductive, TypeOK
  <2> QED BY <2>1, <2>2 DEF Cleanup
<1>5. /\ child[i] # "running" /\ plans[i].phase \notin {"observing", "awaiting-confirmation"}
      /\ plans[i].phase = "applying" => Broken(befell, i)
  BY <1>1, <1>2 DEF OwnerOK
<1>6. Explained(plans[i], i \in dirs', i, befell', available)
  BY <1>4, <1>5 DEF Explained, Worse, Broken
<1> QED BY <1>1, <1>3, <1>4, <1>5, <1>6, Stop

LEMMA CrashKeeps == ASSUME Inductive, NEW p \in Procs, Crash(p) PROVE Inductive'
<1>1. /\ NoRun \in Runs /\ NoRun.pc = "idle" /\ run' = [run EXCEPT ![p] = NoRun]
      /\ UNCHANGED <<plans, child, dirs, available, clock>>
  BY Knows DEF NoRun, Crash, Exit, Set
<1>2. PICK these : /\ these = {i \in DOMAIN plans : WorksOn(p, i)}
                   /\ Befalls("killed", these)
  BY DEF Crash
<1>3. these \subseteq DOMAIN plans
  BY <1>2
<1>4. accidents' \in Nat /\ befell' = befell \cup ({"killed"} \X these)
  BY <1>2 DEF Befalls, Inductive, TypeOK
<1>5. CASE run[p].pc \in AtWork
  <2>0. PICK i \in Nat : i = run[p].plan
    BY DEF Inductive, TypeOK, Runs
  <2>1. run[p].plan \notin dirs' => child[run[p].plan] # "running" \/ run[p].client = "omp"
    BY <1>1, <1>5, Knows DEF RowOK, OwnerOK, Runs, Clients
  <2>2. these = {i}
    BY <1>2, <1>5, <2>0, Knows DEF WorksOn, AtWork, Unspawned
  <2>3. /\ Worse(i) /\ (Broken(befell', i) => Broken(befell, i)) /\ <<"killed", i>> \in befell'
    BY <1>4, <2>2 DEF Worse, Broken, Damages
  <2>4. Explained(plans[i], i \in dirs', i, befell', available)
    BY <2>3 DEF Explained
  <2> QED BY <1>1, <1>4, <1>5, <2>0, <2>1, <2>3, <2>4, Stop
<1>6. CASE run[p].pc \notin AtWork
  <2>1. NoRun.pc \notin AtWork
    BY <1>1 DEF AtWork, Unspawned
  <2>2. OnlyKilled
    BY <1>3, <1>4 DEF OnlyKilled
  <2> QED BY <1>1, <1>4, <1>6, <2>1, <2>2, OffPlans
<1> QED BY <1>5, <1>6

LEMMA ChildExitsKeeps == ASSUME Inductive, ChildExits PROVE Inductive'
<1>1. PICK i \in DOMAIN child, how \in {"zero", "nonzero", "signalled"} :
        child[i] = "running" /\ child' = [child EXCEPT ![i] = how]
  BY DEF ChildExits
<1>2. UNCHANGED <<plans, dirs, available, clock, run, accidents, befell>>
  BY DEF ChildExits
<1>3. /\ child \in Seq(Children) /\ DOMAIN child = DOMAIN plans /\ how \in Children
  BY DEF Inductive, TypeOK, Children
<1>4. /\ child' \in Seq(Children) /\ Len(child') = Len(child)
      /\ child'[i] = how /\ \A j \in DOMAIN plans \ {i} : child'[j] = child[j]
  BY <1>1, <1>3, ExceptSeq
<1>5. TypeOK' /\ TimeInv'
  BY <1>2, <1>4 DEF Inductive, TypeOK, TimeInv
<1>6. ASSUME NEW j \in DOMAIN plans PROVE RowInv(j)'
  <2>1. RowInv(j)
    BY DEF Inductive, PlansInv
  <2>2. RowOK(plans[j], child'[j], j \in dirs, Broken(befell, j))
    <3>1. CASE j = i
      BY <1>1, <1>4, <2>1, <3>1 DEF RowInv, RowOK
    <3>2. CASE j # i
      BY <1>4, <2>1, <3>2 DEF RowInv
    <3> QED BY <3>1, <3>2
  <2> QED BY <1>2, <2>1, <2>2 DEF RowInv, Worked
<1>7. ASSUME NEW q \in Procs PROVE CommandInv(q)'
  <2>1. CommandInv(q)
    BY DEF Inductive, PlansInv
  <2>2. ASSUME run[q].pc \in AtWork PROVE OwnerInv(q)'
    <3> DEFINE k == run[q].plan
    <3>1. OwnerInv(q)
      BY <2>1, <2>2 DEF CommandInv
    <3>2. OwnerOK(run[q], plans[k], child'[k], k \in dirs, Broken(befell, k))
      <4>1. CASE k = i
        BY <1>1, <1>4, <3>1, <4>1 DEF OwnerInv, OwnerOK
      <4>2. CASE k # i
        BY <1>4, <3>1, <4>2 DEF OwnerInv
      <4> QED BY <4>1, <4>2
    <3> QED BY <1>2, <3>1, <3>2 DEF OwnerInv
  <2> QED BY <1>2, <2>1, <2>2 DEF CommandInv
<1> QED BY <1>2, <1>5, <1>6, <1>7 DEF Inductive, PlansInv

LEMMA Framed ==
  ASSUME Inductive, UNCHANGED <<plans, child, dirs, clock, run, accidents, befell>>,
         available' \subseteq available
  PROVE  Inductive'
<1>1. TypeOK' /\ TimeInv'
  BY DEF Inductive, TypeOK, TimeInv
<1>2. ASSUME NEW j \in DOMAIN plans PROVE RowInv(j)'
  BY DEF Inductive, PlansInv, RowInv, Explained, Worked
<1>3. ASSUME NEW q \in Procs PROVE CommandInv(q)'
  BY DEF Inductive, PlansInv, CommandInv, OwnerInv
<1> QED BY <1>1, <1>2, <1>3 DEF Inductive, PlansInv

LEMMA NextKeeps == Inductive /\ [Next]_vars => Inductive'
<1> SUFFICES ASSUME Inductive, [Next]_vars PROVE Inductive'
  OBVIOUS
<1>1. CASE ChildExits
  BY <1>1, ChildExitsKeeps
<1>2. CASE Withdraw
  BY <1>2, Framed DEF Withdraw, Inductive, TypeOK
<1>3. ASSUME NEW p \in Procs, Step(p) PROVE Inductive'
  BY <1>3, BeginKeeps, FindKeeps, RereadKeeps, MarkKeeps, PrepareKeeps, SaveKeeps,
     ShowKeeps, DecideKeeps, CheckKeeps, MakeDirKeeps, MaterializeKeeps,
     WriteContextKeeps, SpawnKeeps, WaitKeeps, StartedKeeps, ObserveKeeps,
     FailKeeps, CleanupKeeps, CrashKeeps
     DEF Step, LaunchOmp, LaunchClaudeFresh
<1>4. CASE UNCHANGED vars
  BY <1>4, Framed DEF vars, Inductive, TypeOK
<1> QED BY <1>1, <1>2, <1>3, <1>4 DEF Next

-----------------------------------------------------------------------------
(* The theorems.                                                           *)

\* What every command knows of its plan, and what every row says, stays so
\* whatever the other commands do (cli/index.ts:749-966).
THEOREM InductiveInvariant == Spec => []Inductive
BY InitInductive, NextKeeps, PTL DEF Spec

\* Every variable keeps its type.
THEOREM TypeCorrect == Spec => []TypeOK
BY InductiveInvariant, PTL DEF Inductive

\* What a stored plan says of its client is what happened to that client
\* (claude-launch.ts:587-641, launch.ts:341-389).
THEOREM PlansAreTruthful == Spec => []Truthful
<1>1. Inductive => Truthful
  BY DEF Inductive, PlansInv, RowInv, RowOK, Truthful
<1> QED BY <1>1, InductiveInvariant, PTL

\* A running Claude Code keeps its directory (claude-launch.ts:640).
THEOREM DirIsKept == Spec => []DirWhileRunning
<1>1. Inductive => DirWhileRunning
  BY DEF Inductive, PlansInv, RowInv, RowOK, DirWhileRunning
<1> QED BY <1>1, InductiveInvariant, PTL

\* What is left of a plan that no command works on has its cause: the end of
\* its command, a context that could not be written, a directory that could
\* not be removed, a revision that had gone (claude-launch.ts:573, :640,
\* cli/index.ts:802-811).
THEOREM NothingIsLeft == Spec => []NothingLeftBehind
<1>1. ASSUME Inductive PROVE NothingLeftBehind
  <2>1. SUFFICES ASSUME NEW i \in DOMAIN plans, \A p \in Procs : ~WorksOn(p, i)
                 PROVE  /\ plans[i].phase = "applying" =>
                             Befell("killed", i) \/ Befell("unwritten", i)
                        /\ plans[i].phase = "observing" => Befell("killed", i)
                        /\ plans[i].phase = "awaiting-confirmation" =>
                             Befell("killed", i) \/ plans[i].rev \notin available
                        /\ i \in dirs => Befell("killed", i) \/ Befell("unremoved", i)
                        /\ Befell("unwritten", i) =>
                             plans[i].phase = "applying" /\ child[i] = "none"
    BY DEF NothingLeftBehind
  <2>2. ~Worked(i)
    BY <2>1 DEF Worked, WorksOn, AtWork, Unspawned
  <2>3. RowInv(i)
    BY <1>1 DEF Inductive, PlansInv
  <2> QED BY <2>2, <2>3 DEF RowInv, RowOK, Explained, Broken, Befell
<1> QED BY <1>1, InductiveInvariant, PTL

\* What status shows agrees with itself and with what happened to the client
\* (launch.ts:435-470).
THEOREM StatusTellsTheTruth == Spec => []StatusIsTrue
<1>1. ASSUME Inductive PROVE StatusIsTrue
  <2>1. ASSUME NEW i \in DOMAIN plans
        PROVE  LET s == StatusOf(i) IN
               /\ s.apply # "unknown" => /\ child[i] = "zero"
                                         /\ s.phase \in {"succeeded", "degraded", "requires-restart"}
               /\ s.apply = "applied" => s.differences # "some"
               /\ s.apply = "degraded" => s.differences # "none"
    <3>1. RowOK(plans[i], child[i], i \in dirs, Broken(befell, i))
      BY <1>1 DEF Inductive, PlansInv, RowInv
    <3> QED BY <3>1 DEF RowOK, StatusOf, ApplyResult, KnownDifferences
  <2> QED BY <2>1 DEF StatusIsTrue
<1> QED BY <1>1, InductiveInvariant, PTL

-----------------------------------------------------------------------------
(* The state diagram.                                                      *)

Legal == Len(plans') >= Len(plans) /\ \A i \in DOMAIN plans : LegalMove(i)

LEMMA Unmoved == ASSUME TypeOK, UNCHANGED <<plans, child>> PROVE Legal
BY DEF TypeOK, Legal, LegalMove

LEMMA RowMoved ==
  ASSUME TypeOK, NEW i \in DOMAIN plans, NEW row \in Plan,
         plans' = [plans EXCEPT ![i] = row], child' = child,
         row.client = plans[i].client, row.rev = plans[i].rev,
         <<plans[i].phase, row.phase>> \in Diagram \/ row.phase = plans[i].phase,
         plans[i].outcome = "none" \/ row.outcome = plans[i].outcome
  PROVE  Legal
<1>1. plans \in Seq(Plan)
  BY DEF TypeOK
<1>2. Len(plans') = Len(plans) /\ Len(plans) \in Nat
  BY <1>1
<1>3. plans'[i] = row /\ \A j \in DOMAIN plans \ {i} : plans'[j] = plans[j]
  BY <1>1
<1>4. ASSUME NEW j \in DOMAIN plans PROVE LegalMove(j)
  <2>1. CASE j = i
    BY <1>3, <2>1 DEF LegalMove
  <2>2. CASE j # i
    BY <1>3, <2>2 DEF LegalMove
  <2> QED BY <2>1, <2>2
<1> QED BY <1>2, <1>4 DEF Legal

LEMMA RecordIsLegal ==
  ASSUME Inductive, NEW p \in Procs, run[p].pc \in AtWork \ {"cleanup"}, NEW expected,
         NEW phase \in Phases, NEW outcome \in Outcomes \cup {"none"},
         Record(p, expected, phase, outcome), child' = child,
         <<plans[run[p].plan].phase, phase>> \in Diagram
  PROVE  Legal
<1> DEFINE i == run[p].plan
<1>1. PICK row \in Plan :
        /\ plans' = [plans EXCEPT ![i] = row]
        /\ row.client = plans[i].client /\ row.rev = plans[i].rev /\ row.phase = phase
  BY Recorded
<1>2. i \in DOMAIN plans /\ plans[i].outcome = "none"
  BY Knows DEF OwnerOK
<1> QED BY <1>1, <1>2, RowMoved DEF Inductive

\* In the steps that start a launch, write a row or add one.
LEMMA MarkIsLegal == ASSUME Inductive, NEW p \in Procs, Mark(p) PROVE Legal
<1> DEFINE i == run[p].plan
           row == [plans[i] EXCEPT !.phase = "requires-restart"]
<1>1. /\ i \in DOMAIN plans /\ plans[i].phase \in {"succeeded", "degraded", "requires-restart"}
  BY DEF Mark, At, Inductive, PlansInv, CommandInv
<1>2. plans[i] \in Plan /\ plans' = [plans EXCEPT ![i] = row] /\ child' = child
  BY <1>1 DEF Inductive, TypeOK, Mark
<1>3. /\ row \in Plan /\ row.client = plans[i].client /\ row.rev = plans[i].rev
      /\ row.outcome = plans[i].outcome /\ row.phase = "requires-restart"
  BY <1>2 DEF Plan, Phases
<1> HIDE DEF row
<1>4. <<plans[i].phase, row.phase>> \in Diagram \/ row.phase = plans[i].phase
  BY <1>1, <1>3 DEF Diagram
<1> QED BY <1>1, <1>2, <1>3, <1>4, RowMoved DEF Inductive

LEMMA SaveIsLegal == ASSUME Inductive, NEW p \in Procs, Save(p) PROVE Legal
<1>1. plans \in Seq(Plan) /\ child \in Seq(Children) /\ Len(child) = Len(plans)
  BY DEF Inductive, TypeOK
<1>2. PICK row : plans' = Append(plans, row)
  BY DEF Save
<1>3. child' = Append(child, "none")
  BY DEF Save
<1>4. /\ Len(plans') >= Len(plans)
      /\ \A j \in DOMAIN plans : plans'[j] = plans[j] /\ child'[j] = child[j]
  BY <1>1, <1>2, <1>3
<1> QED BY <1>4 DEF Legal, LegalMove

LEMMA DecideIsLegal == ASSUME Inductive, NEW p \in Procs, Decide(p) PROVE Legal
<1> DEFINE i == run[p].plan
<1>1. CASE UNCHANGED plans
  BY <1>1, Unmoved DEF Decide, Inductive
<1>2. ASSUME NEW event \in {"confirmed", "rejected"},
             plans' = [plans EXCEPT ![i].phase = After(@, event)]
      PROVE  Legal
  <2> DEFINE row == [plans[i] EXCEPT !.phase = After("awaiting-confirmation", event)]
  <2>1. /\ i \in DOMAIN plans /\ plans[i] \in Plan /\ plans[i].outcome = "none"
        /\ plans[i].phase = "awaiting-confirmation"
    BY Knows DEF Decide, At, OwnerOK, AtWork, Unspawned
  <2>2. After("awaiting-confirmation", event) \in {"applying", "cancelled"}
    BY Moves
  <2>3. /\ row \in Plan /\ row.client = plans[i].client /\ row.rev = plans[i].rev
        /\ row.phase \in {"applying", "cancelled"}
    BY <2>1, <2>2 DEF Plan, Phases
  <2>4. plans' = [plans EXCEPT ![i] = row]
    BY <1>2, <2>1
  <2> HIDE DEF row
  <2>5. <<plans[i].phase, row.phase>> \in Diagram
    BY <2>1, <2>3 DEF Diagram
  <2> QED BY <2>1, <2>3, <2>4, <2>5, RowMoved DEF Decide, Inductive
<1> QED BY <1>1, <1>2 DEF Decide

LEMMA SpawnIsLegal == ASSUME Inductive, NEW p \in Procs, Spawn(p) PROVE Legal
<1> DEFINE i == run[p].plan
<1>1. CASE UNCHANGED child
  BY <1>1, Unmoved DEF Spawn, Inductive
<1>2. CASE child' = [child EXCEPT ![i] = "running"]
  <2>1. child[i] = "none" /\ plans[i].phase = "applying"
    BY Knows DEF Spawn, At, OwnerOK, AtWork, Unspawned
  <2>2. plans' = plans /\ DOMAIN child = DOMAIN plans /\ Len(plans) \in Nat
    BY DEF Spawn, Inductive, TypeOK
  <2> QED BY <1>2, <2>1, <2>2 DEF Legal, LegalMove
<1> QED BY <1>1, <1>2 DEF Spawn

LEMMA StartedIsLegal == ASSUME Inductive, NEW p \in Procs, Started(p) PROVE Legal
<1>1. CASE UNCHANGED plans
  BY <1>1, Unmoved DEF Started, Inductive
<1>2. CASE Record(p, "applying", After("applying", "process-started"), "none")
  <2>1. run[p].pc = "started" /\ run[p].pc \in AtWork \ {"cleanup"}
    BY DEF Started, At, AtWork
  <2>2. <<plans[run[p].plan].phase, "observing">> \in Diagram
    BY <2>1, Knows DEF OwnerOK, Diagram, AtWork
  <2>3. "observing" \in Phases /\ child' = child
    BY DEF Started, Phases
  <2> QED BY <1>2, <2>1, <2>2, <2>3, Moves, RecordIsLegal
<1> QED BY <1>1, <1>2 DEF Started

LEMMA ObserveIsLegal == ASSUME Inductive, NEW p \in Procs, Observe(p) PROVE Legal
<1>1. CASE UNCHANGED plans
  BY <1>1, Unmoved DEF Observe, Inductive
<1>2. ASSUME NEW outcome \in OutcomesOf(p),
             Record(p, "observing", After("observing", outcome), outcome)
      PROVE  Legal
  <2>1. run[p].pc = "observed" /\ run[p].pc \in AtWork \ {"cleanup"}
    BY DEF Observe, At, AtWork
  <2>2. outcome \in Outcomes
    BY <1>2 DEF OutcomesOf, Outcomes
  <2>3. <<plans[run[p].plan].phase, outcome>> \in Diagram
    BY <2>1, <2>2, Knows DEF OwnerOK, Diagram
  <2>4. outcome \in Phases /\ child' = child
    BY <2>2 DEF Observe, Phases
  <2>5. Record(p, "observing", outcome, outcome)
    BY <1>2, <2>2, Moves
  <2> QED BY <2>1, <2>2, <2>3, <2>4, <2>5, RecordIsLegal
<1> QED BY <1>1, <1>2 DEF Observe

LEMMA FailIsLegal == ASSUME Inductive, NEW p \in Procs, Fail(p) PROVE Legal
<1>1. CASE UNCHANGED plans
  BY <1>1, Unmoved DEF Fail, Inductive
<1>2. CASE Record(p, "applying", After("applying", "apply-failed"), "none")
  <2>1. run[p].pc = "fail" /\ run[p].pc \in AtWork \ {"cleanup"}
    BY DEF Fail, At, AtWork, Unspawned
  <2>2. <<plans[run[p].plan].phase, "failed">> \in Diagram
    BY <2>1, Knows DEF OwnerOK, Diagram
  <2>3. "failed" \in Phases /\ child' = child
    BY DEF Fail, Phases, Outcomes
  <2> QED BY <1>2, <2>1, <2>2, <2>3, Moves, RecordIsLegal
<1> QED BY <1>1, <1>2 DEF Fail

LEMMA ChildExitsIsLegal == ASSUME Inductive, ChildExits PROVE Legal
<1>1. PICK i \in DOMAIN child, how \in {"zero", "nonzero", "signalled"} :
        child' = [child EXCEPT ![i] = how]
  BY DEF ChildExits
<1>2. plans' = plans /\ DOMAIN child = DOMAIN plans /\ Len(plans) \in Nat
  BY DEF ChildExits, Inductive, TypeOK
<1>3. \A j \in DOMAIN plans : child'[j] = "running" => child[j] = "running"
  BY <1>1, <1>2
<1> QED BY <1>2, <1>3 DEF Legal, LegalMove

LEMMA NextIsLegal == Inductive /\ Next => Legal
<1> SUFFICES ASSUME Inductive, Next PROVE Legal
  OBVIOUS
<1> USE DEF Inductive
<1>1. CASE ChildExits
  BY <1>1, ChildExitsIsLegal
<1>2. CASE Withdraw
  BY <1>2, Unmoved DEF Withdraw
<1>3. ASSUME NEW p \in Procs, Step(p) PROVE Legal
  <2>1. CASE UNCHANGED <<plans, child>>
    BY <2>1, Unmoved
  <2>2. CASE ~UNCHANGED <<plans, child>>
    <3>1. \/ Mark(p) \/ Save(p) \/ Decide(p) \/ Spawn(p) \/ Started(p) \/ Observe(p) \/ Fail(p)
      BY <1>3, <2>2 DEF Step, LaunchOmp, LaunchClaudeFresh, Quiet, Begin, Find, Reread,
         Prepare, Show, Check, MakeDir, Materialize, WriteContext, Wait, Cleanup, Crash
    <3> QED BY <3>1, MarkIsLegal, SaveIsLegal, DecideIsLegal, SpawnIsLegal,
               StartedIsLegal, ObserveIsLegal, FailIsLegal
  <2> QED BY <2>1, <2>2
<1> QED BY <1>1, <1>2, <1>3 DEF Next

\* Whatever commands run at the same time, no stored plan leaves the diagram,
\* changes its revision or disappears, and none starts its client twice
\* (domain/activation.ts:173-251).
THEOREM DiagramIsKept == Spec => LegalSteps
<1>1. Inductive /\ [Next]_vars => [Legal]_vars
  BY NextIsLegal
<1> QED BY <1>1, InductiveInvariant, PTL DEF Spec, LegalSteps, Legal

-----------------------------------------------------------------------------
(* What the plan launches: modules Supply and ClaudeContent, for any       *)
(* library, declarations, candidates and versions of the client.           *)
(*                                                                         *)
(* Both sides of a fingerprint read file by file while the library may be  *)
(* edited.  The invariant says of each step between two files what has     *)
(* been read or copied so far: exactly the thing as it is now without the  *)
(* files still to come, if nobody has edited it since.  An edit makes that *)
(* vacuous for one thing and leaves it alone for the others.               *)

LEMMA Least == ASSUME NEW S \in SUBSET Nat, S # {} PROVE Min(S) \in S
<1> DEFINE R == {e \in Nat \X Nat : e[1] < e[2]}
<1>1. IsWellFoundedOn(R, Nat)
  BY NatLessThanWellFounded DEF OpToRel
<1>2. PICK x \in S : \A y \in S : ~(<<y, x>> \in R)
  BY <1>1, WFMin
<1>3. ASSUME NEW y \in S PROVE x <= y
  <2>1. ~(<<y, x>> \in R)
    BY <1>2
  <2>2. x \in Nat /\ y \in Nat /\ <<y, x>> \in Nat \X Nat
    OBVIOUS
  <2> QED BY <2>1, <2>2
<1> QED BY <1>3 DEF Min

LEMMA Entries ==
         /\ Entry \in Files /\ Missing # Link /\ Nothing \in Prints /\ Files \subseteq Nat
         /\ Skills \cap Docs = {} /\ Skills \subseteq Things /\ Docs \subseteq Things
         /\ Unknown \notin Things /\ Unknown \notin References /\ Unknown \notin Prints
         /\ Outside \notin Things
BY SupplyAssumption DEF Entry, Files, Missing, Link, Nothing, Prints, Things

USE DEF Authors

\* A scan step that leaves the disk and the edits alone.
LEMMA ScanStep ==
  ASSUME SupplyTypeOK, UNCHANGED <<library, revisions, edits, edited>>,
         author' \in Authors
  PROVE  SupplyTypeOK'
BY DEF SupplyTypeOK

LEMMA Author ==
  ASSUME SupplyTypeOK
  PROVE  /\ author \in Authors
         /\ library \in [Things -> Contents] /\ edited \in [{"scan", "launch"} -> SUBSET Things]
BY DEF SupplyTypeOK

LEMMA IdleType ==
         /\ Idle \in Authors
         /\ Idle.pc = "idle" /\ Idle.todo = {} /\ Idle.found = {}
BY Entries DEF Idle

\* A refusal needs a reason.
LEMMA RefuseStep ==
  ASSUME SupplyInductive, Refuse, UNCHANGED <<library, revisions, edits, edited>>,
         edited["scan"] = {} =>
           \/ ~Lexical(author.declared)
           \/ \E s \in Supplied(Listed) : Linked(Files, s)
           \/ \E s, u \in Supplied(Listed) : s # u /\ NameOf[s] = NameOf[u]
           \/ \E g \in Listed : Supplied({g}) = {}
  PROVE  SupplyInductive'
<1>1. SupplyTypeOK
  BY DEF SupplyInductive
<1>2. PICK a : a = [author EXCEPT !.pc = "refused"]
  OBVIOUS
<1>3. author' = a /\ a.pc = "refused" /\ a.declared = author.declared
  BY <1>1, <1>2, Author DEF Refuse
<1>4. SupplyTypeOK'
  BY <1>1, <1>2, <1>3, Author, ScanStep
<1>5. RefusedForCause'
  BY <1>3 DEF RefusedForCause, Listed, Supplied, Has, Linked, Lexical
<1> QED BY <1>3, <1>4, <1>5 DEF SupplyInductive

\* ListGroup goes through the groups and PrintCandidate ends the scan.
LEMMA BeginSupplyStep == ASSUME SupplyInductive, BeginSupply PROVE SupplyInductive'
<1>1. PICK declared \in Declarations :
        author' = [Idle EXCEPT !.pc = IF Lexical(declared) THEN "list" ELSE "refused",
                               !.declared = declared, !.groups = Range(declared) \ {Outside}]
  BY DEF BeginSupply
<1>2. PICK a : a = [Idle EXCEPT !.pc = IF Lexical(declared) THEN "list" ELSE "refused",
                                !.declared = declared, !.groups = Range(declared) \ {Outside}]
  OBVIOUS
<1>3. /\ a.pc = IF Lexical(declared) THEN "list" ELSE "refused"
      /\ a.declared = declared /\ a.groups = Range(declared) \ {Outside}
      /\ a.todo = {} /\ a.found = {}
  BY <1>2, IdleType DEF Idle
<1>4. Range(declared) \ {Outside} \subseteq Nat
  BY SupplyAssumption
<1>5. a \in Authors
  BY <1>2, <1>4, IdleType
<1>6. author' = a /\ UNCHANGED <<library, revisions, edits>>
      /\ edited' = [edited EXCEPT !["scan"] = {}]
  BY <1>1, <1>2 DEF BeginSupply, QuietSupply
<1>7. edited' \in [{"scan", "launch"} -> SUBSET Things]
  BY <1>6, Author DEF SupplyInductive
<1>8. SupplyTypeOK'
  BY <1>5, <1>6, <1>7 DEF SupplyInductive, SupplyTypeOK
<1>9. Begun' = {} /\ Listed' = a.groups
  BY <1>3, <1>6 DEF Begun, Listed
<1>10. Scanning'
  BY <1>3, <1>6, <1>9 DEF Scanning
<1>11. RefusedForCause'
  BY <1>3, <1>6 DEF RefusedForCause, Lexical
<1> QED BY <1>3, <1>6, <1>8, <1>10, <1>11 DEF SupplyInductive

LEMMA ListGroupStep == ASSUME SupplyInductive, ListGroup PROVE SupplyInductive'
<1> DEFINE g == Min(author.groups)
           skills == {s \in Skills : GroupOf[s] = g /\ Has(s, Entry)}
<1>1. /\ author.pc = "list" /\ author.groups # {} /\ UNCHANGED <<library, revisions, edits, edited>>
      /\ author.todo = {} /\ Scanning /\ SupplyTypeOK /\ RefusedForCause
  BY DEF ListGroup, QuietSupply, SupplyInductive
<1>2. g \in author.groups /\ g \in Listed
  BY <1>1, Least, Author DEF Scanning
<1>3. skills = Supplied({g})
  BY DEF Supplied
<1> HIDE DEF g, skills
<1>4. CASE Refuse /\ (skills = {} \/ \E s \in skills : library[s][Entry] = Link)
  <2>1. CASE skills = {}
    BY <1>1, <1>2, <1>3, <1>4, <2>1, RefuseStep
  <2>2. CASE \E s \in skills : library[s][Entry] = Link
    <3>1. PICK s \in skills : library[s][Entry] = Link
      BY <2>2
    <3>2. s \in Supplied(Listed) /\ Linked(Files, s)
      BY <1>2, <1>3, <3>1, Entries DEF Supplied, Linked
    <3> QED BY <1>1, <1>4, <3>2, RefuseStep
  <2> QED BY <1>4, <2>1, <2>2
<1>5. CASE author' = [author EXCEPT !.pc = "open", !.todo = skills, !.groups = @ \ {g}]
  <2>1. PICK a : a = [author EXCEPT !.pc = "open", !.todo = skills, !.groups = @ \ {g}]
    OBVIOUS
  <2>2. /\ a.pc = "open" /\ a.todo = skills /\ a.groups = author.groups \ {g}
        /\ a.declared = author.declared /\ a.found = author.found /\ a.at = author.at
    BY <1>1, <2>1, Author
  <2>3. skills \subseteq Skills
    BY <1>3 DEF Supplied
  <2>4. a \in Authors
    BY <1>1, <2>1, <2>3, Author
  <2>5. author' = a
    BY <1>5, <2>1
  <2>6. SupplyTypeOK'
    BY <1>1, <2>4, <2>5, ScanStep
  <2>7. Listed' = Listed /\ Begun' = Begun \cup {s \in Skills : GroupOf[s] = g}
    BY <1>2, <2>2, <2>5 DEF Listed, Begun
  <2>8. \A s \in skills : s \in Begun' /\ Has(s, Entry)
    BY <1>3, <2>7 DEF Supplied
  <2>9. \A s \in Skills : GroupOf[s] = g /\ Has(s, Entry) => s \in skills
    BY <1>3 DEF Supplied
  <2>10. Scanning'
    <3>1. /\ author'.groups \subseteq Listed' /\ author'.todo \subseteq Begun'
          /\ \A s \in author'.todo : Still(s)' => Has(s, Entry)'
      BY <1>1, <2>2, <2>5, <2>7, <2>8 DEF Scanning, Still, Has
    <3>2. \A r \in author'.found :
             /\ r.at \in Begun' /\ r = SkillRef(r.at, r.print)
             /\ Still(r.at)' => Has(r.at, Entry)' /\ r.print = library'[r.at]
      BY <1>1, <2>2, <2>5, <2>7 DEF Scanning, Still, Has
    <3>3. ASSUME NEW s \in Begun', Still(s)', Has(s, Entry)'
          PROVE  s \in author'.todo \/ s \in {r.at : r \in author'.found}
      <4>1. Still(s) /\ Has(s, Entry)
        BY <1>1, <3>3 DEF Still, Has
      <4>2. CASE s \in Begun
        BY <1>1, <2>2, <2>5, <4>1, <4>2 DEF Scanning
      <4>3. CASE GroupOf[s] = g
        <5>1. s \in Skills
          BY <3>3 DEF Begun
        <5>2. s \in skills
          BY <2>9, <4>1, <4>3, <5>1
        <5> QED BY <2>2, <2>5, <5>2
      <4> QED BY <2>7, <3>3, <4>2, <4>3
    <3> QED BY <3>1, <3>2, <3>3 DEF Scanning, SkillRef
  <2>11. RefusedForCause'
    BY <2>2, <2>5 DEF RefusedForCause
  <2> QED BY <2>2, <2>5, <2>6, <2>10, <2>11 DEF SupplyInductive
<1> QED BY <1>4, <1>5 DEF ListGroup, g, skills

LEMMA OpenSkillStep == ASSUME SupplyInductive, OpenSkill PROVE SupplyInductive'
<1>1. /\ author.pc = "open" /\ UNCHANGED <<library, revisions, edits, edited>>
      /\ Scanning /\ SupplyTypeOK
  BY DEF OpenSkill, QuietSupply, SupplyInductive
<1>2. PICK s \in author.todo :
        IF Listing(s) = {} \/ Linked(Files, s) THEN Refuse
        ELSE author' = [author EXCEPT !.pc = "read", !.at = s, !.todo = @ \ {s},
                                      !.left = Listing(s), !.print = Nothing]
  BY DEF OpenSkill
<1>3. s \in Begun /\ s \in Skills /\ (Still(s) => Has(s, Entry))
  BY <1>1, <1>2 DEF Scanning, Begun
<1>4. CASE Refuse /\ (Listing(s) = {} \/ Linked(Files, s))
  <2>1. Still(s) => s \in Supplied(Listed) /\ Linked(Files, s)
    BY <1>3, <1>4, Entries DEF Supplied, Listing, Begun
  <2> QED BY <1>1, <1>4, <2>1, RefuseStep DEF Still
<1>5. CASE /\ ~(Listing(s) = {} \/ Linked(Files, s))
           /\ author' = [author EXCEPT !.pc = "read", !.at = s, !.todo = @ \ {s},
                                       !.left = Listing(s), !.print = Nothing]
  <2>1. PICK a : a = [author EXCEPT !.pc = "read", !.at = s, !.todo = @ \ {s},
                                    !.left = Listing(s), !.print = Nothing]
    OBVIOUS
  <2>2. /\ a.pc = "read" /\ a.todo = author.todo \ {s} /\ a.groups = author.groups
        /\ a.declared = author.declared /\ a.found = author.found /\ a.at = s
        /\ a.left = Listing(s) /\ a.print = Nothing
    BY <1>1, <2>1, Author
  <2>3. Listing(s) \subseteq Files /\ Nothing \in Prints
    BY Entries DEF Listing
  <2>4. a \in Authors
    BY <1>1, <1>3, <2>1, <2>3, Author
  <2>5. author' = a
    BY <1>5, <2>1
  <2>6. SupplyTypeOK'
    BY <1>1, <2>4, <2>5, ScanStep
  <2>7. Listed' = Listed /\ Begun' = Begun
    BY <2>2, <2>5 DEF Listed, Begun
  <2>8. Scanning'
    BY <1>1, <2>2, <2>5, <2>7 DEF Scanning, Still, Has, SkillRef
  <2>9. ReadSoFar'
    <3>1. Listing(s)' = Listing(s) /\ Linked(Files, s)' = Linked(Files, s)
          /\ Has(s, Entry)' = Has(s, Entry) /\ Still(s)' = Still(s)
      BY <1>1 DEF Listing, Linked, Has, Still
    <3>2. \A f \in Files : f \notin Listing(s) => library[s][f] = Missing
      BY DEF Listing, Has
    <3>3. Nothing = [f \in Files |-> IF f \in Listing(s) THEN Missing ELSE library[s][f]]
      BY <3>2 DEF Nothing
    <3> QED BY <1>1, <1>3, <1>5, <2>2, <2>5, <2>7, <3>1, <3>3 DEF ReadSoFar
  <2>10. RefusedForCause'
    BY <2>2, <2>5 DEF RefusedForCause
  <2> QED BY <2>2, <2>5, <2>6, <2>8, <2>9, <2>10 DEF SupplyInductive
<1> QED BY <1>2, <1>4, <1>5

LEMMA ReadFileStep == ASSUME SupplyInductive, ReadFile PROVE SupplyInductive'
<1>1. /\ author.pc = "read" /\ author.left # {} /\ UNCHANGED <<library, revisions, edits, edited>>
      /\ Scanning /\ SupplyTypeOK /\ ReadSoFar
  BY DEF ReadFile, QuietSupply, SupplyInductive
<1>2. PICK s, f, text : s = author.at /\ f = Min(author.left) /\ text = library[s][f]
  OBVIOUS
<1>3. s \in Begun /\ s \in Skills /\ f \in author.left /\ f \in Files
  <2>1. author.left \subseteq Files /\ author.left \in SUBSET Nat
    BY <1>1, Author, Entries
  <2> QED BY <1>1, <1>2, <2>1, Least DEF ReadSoFar, Begun
<1>4. CASE text \notin Texts /\ Refuse
  <2>1. Still(s) => Has(s, f) /\ ~Linked(Files, s)
    BY <1>1, <1>2, <1>3 DEF ReadSoFar, Listing
  <2>2. Still(s) => text \in Texts
    BY <1>1, <1>2, <1>3, <2>1, Author, Entries DEF Has, Linked, Contents
  <2> QED BY <1>1, <1>4, <2>2, RefuseStep DEF Still
<1>5. CASE text \in Texts /\ author' = [author EXCEPT !.left = @ \ {f}, !.print[f] = text]
  <2>1. PICK a : a = [author EXCEPT !.left = @ \ {f}, !.print[f] = text]
    OBVIOUS
  <2>2. /\ a.pc = "read" /\ a.todo = author.todo /\ a.groups = author.groups
        /\ a.declared = author.declared /\ a.found = author.found /\ a.at = s
        /\ a.left = author.left \ {f} /\ a.print = [author.print EXCEPT ![f] = text]
    BY <1>1, <1>2, <2>1, Author
  <2>3. [author.print EXCEPT ![f] = text] \in Prints
    BY <1>1, <1>3, <1>5, Author DEF Prints
  <2>4. a \in Authors
    <3>1. a = [author EXCEPT !.left = author.left \ {f}, !.print = [author.print EXCEPT ![f] = text]]
      BY <1>1, <2>1, Author
    <3> QED BY <1>1, <2>3, <3>1, Author
  <2>5. author' = a
    BY <1>5, <2>1
  <2>6. SupplyTypeOK'
    BY <1>1, <2>4, <2>5, ScanStep
  <2>7. Listed' = Listed /\ Begun' = Begun
    BY <2>2, <2>5 DEF Listed, Begun
  <2>8. Scanning'
    BY <1>1, <1>2, <2>2, <2>5, <2>7 DEF Scanning, Still, Has, SkillRef
  <2>9. ReadSoFar'
    <3>1. Listing(s)' = Listing(s) /\ Linked(Files, s)' = Linked(Files, s)
          /\ Has(s, Entry)' = Has(s, Entry) /\ Still(s)' = Still(s)
      BY <1>1 DEF Listing, Linked, Has, Still
    <3>2. ASSUME Still(s)
          PROVE  a.print = [n \in Files |-> IF n \in a.left THEN Missing ELSE library[s][n]]
      <4>1. author.print = [n \in Files |-> IF n \in author.left THEN Missing ELSE library[s][n]]
        BY <1>1, <1>2, <3>2 DEF ReadSoFar
      <4> QED BY <1>2, <1>3, <2>2, <4>1
    <3> QED BY <1>1, <1>2, <1>3, <2>2, <2>5, <2>7, <3>1, <3>2 DEF ReadSoFar
  <2>10. RefusedForCause'
    BY <2>2, <2>5 DEF RefusedForCause
  <2> QED BY <2>2, <2>5, <2>6, <2>8, <2>9, <2>10 DEF SupplyInductive
<1> QED BY <1>2, <1>4, <1>5 DEF ReadFile

LEMMA CloseSkillStep == ASSUME SupplyInductive, CloseSkill PROVE SupplyInductive'
<1>1. /\ author.pc = "read" /\ author.left = {} /\ UNCHANGED <<library, revisions, edits, edited>>
      /\ Scanning /\ SupplyTypeOK /\ ReadSoFar
  BY DEF CloseSkill, QuietSupply, SupplyInductive
<1>2. PICK s, ref : s = author.at /\ ref = SkillRef(s, author.print)
  OBVIOUS
<1>3. s \in Begun /\ s \in Skills /\ ref.at = s /\ ref.print = author.print
  BY <1>1, <1>2 DEF ReadSoFar, Begun, SkillRef
<1>4. Still(s) => Has(s, Entry) /\ author.print = library[s]
  <2>1. s \in Things
    BY <1>3, Entries
  <2>2. library[s] = [f \in Files |-> library[s][f]]
    BY <1>1, <2>1, Author DEF Contents
  <2> QED BY <1>1, <1>2, <2>2 DEF ReadSoFar
<1>5. PICK a : a = [author EXCEPT !.pc = "open", !.at = Unknown, !.print = Nothing,
                                  !.found = @ \cup {ref}]
  OBVIOUS
<1>6. author' = a
  BY <1>2, <1>5 DEF CloseSkill
<1>7. /\ a.pc = "open" /\ a.todo = author.todo /\ a.groups = author.groups
      /\ a.declared = author.declared /\ a.found = author.found \cup {ref}
  BY <1>1, <1>5, Author
<1>8. ref \in References
  <2>1. NameOf[s] \in Range(NameOf)
    BY <1>3, Entries, SupplyAssumption DEF Range
  <2> QED BY <1>1, <1>2, <1>3, <2>1, Author, Entries DEF References, SkillRef, Kinds
<1>9. a \in Authors
  BY <1>1, <1>5, <1>8, Author, Entries
<1>10. SupplyTypeOK'
  BY <1>1, <1>6, <1>9, ScanStep
<1>11. Listed' = Listed /\ Begun' = Begun
  BY <1>6, <1>7 DEF Listed, Begun
<1>12. Scanning'
  <2>1. /\ author'.groups \subseteq Listed' /\ author'.todo \subseteq Begun'
        /\ \A t \in author'.todo : Still(t)' => Has(t, Entry)'
    BY <1>1, <1>6, <1>7, <1>11 DEF Scanning, Still, Has
  <2>2. \A r \in author'.found :
           /\ r.at \in Begun' /\ r = SkillRef(r.at, r.print)
           /\ Still(r.at)' => Has(r.at, Entry)' /\ r.print = library'[r.at]
    BY <1>1, <1>2, <1>3, <1>4, <1>6, <1>7, <1>11 DEF Scanning, Still, Has
  <2>3. \A t \in Begun' : Still(t)' /\ Has(t, Entry)' =>
           t \in author'.todo \/ t \in {r.at : r \in author'.found}
    BY <1>1, <1>2, <1>3, <1>6, <1>7, <1>11 DEF Scanning, Still, Has
  <2> QED BY <2>1, <2>2, <2>3 DEF Scanning, SkillRef
<1>13. RefusedForCause'
  BY <1>6, <1>7 DEF RefusedForCause
<1> QED BY <1>6, <1>7, <1>10, <1>12, <1>13 DEF SupplyInductive

LEMMA CloseGroupStep == ASSUME SupplyInductive, CloseGroup PROVE SupplyInductive'
<1>1. /\ author.pc = "open" /\ author.todo = {} /\ UNCHANGED <<library, revisions, edits, edited>>
      /\ Scanning /\ SupplyTypeOK
  BY DEF CloseGroup, QuietSupply, SupplyInductive
<1>2. PICK a : a = [author EXCEPT !.pc = "list"]
  OBVIOUS
<1>3. /\ author' = a /\ a.pc = "list" /\ a.todo = {} /\ a.groups = author.groups
      /\ a.declared = author.declared /\ a.found = author.found
  BY <1>1, <1>2, Author DEF CloseGroup
<1>4. SupplyTypeOK'
  BY <1>1, <1>2, <1>3, Author, ScanStep
<1>5. Listed' = Listed /\ Begun' = Begun
  BY <1>3 DEF Listed, Begun
<1>6. Scanning'
  BY <1>1, <1>3, <1>5 DEF Scanning, Still, Has, SkillRef
<1> QED BY <1>3, <1>4, <1>6 DEF SupplyInductive, RefusedForCause

LEMMA PrintStep == ASSUME SupplyInductive, PrintCandidate PROVE SupplyInductive'
<1>1. /\ author.pc = "list" /\ author.groups = {} /\ author.todo = {}
      /\ UNCHANGED <<library, revisions, edits, edited>>
      /\ Scanning /\ SupplyTypeOK
  BY DEF PrintCandidate, QuietSupply, SupplyInductive
<1>2. CASE SameName(author.found) /\ Refuse
  <2>1. PICK r \in author.found, u \in author.found : r # u /\ r.name = u.name
    BY <1>2 DEF SameName
  <2>2. ASSUME edited["scan"] = {}
        PROVE  \E s, t \in Supplied(Listed) : s # t /\ NameOf[s] = NameOf[t]
    <3>1. /\ r.at \in Supplied(Listed) /\ u.at \in Supplied(Listed)
          /\ r = SkillRef(r.at, library[r.at]) /\ u = SkillRef(u.at, library[u.at])
      BY <1>1, <2>1, <2>2 DEF Scanning, Still, Begun, Supplied
    <3>2. r.at # u.at
      BY <2>1, <3>1
    <3>3. NameOf[r.at] = NameOf[u.at]
      BY <2>1, <3>1 DEF SkillRef
    <3> QED BY <3>1, <3>2, <3>3
  <2> QED BY <1>1, <1>2, <2>2, RefuseStep
<1>3. CASE ~SameName(author.found) /\ author' = [author EXCEPT !.pc = "printed"]
  <2>1. PICK a : a = [author EXCEPT !.pc = "printed"]
    OBVIOUS
  <2>2. /\ author' = a /\ a.pc = "printed" /\ a.todo = {} /\ a.groups = {}
        /\ a.declared = author.declared /\ a.found = author.found
    BY <1>1, <1>3, <2>1, Author
  <2>3. SupplyTypeOK'
    BY <1>1, <2>1, <2>2, Author, ScanStep
  <2>4. Listed' = Listed /\ Begun' = Begun
    BY <1>1, <2>2 DEF Listed, Begun
  <2>5. Scanning'
    BY <1>1, <2>2, <2>4 DEF Scanning, Still, Has, SkillRef
  <2> QED BY <1>3, <2>2, <2>3, <2>5 DEF SupplyInductive, RefusedForCause
<1> QED BY <1>2, <1>3 DEF PrintCandidate

\* The command has ended.
LEMMA EndStep ==
  ASSUME SupplyInductive, author' = Idle, revisions' \subseteq SUBSET References,
         UNCHANGED <<library, edits, edited>>
  PROVE  SupplyInductive'
<1>1. SupplyTypeOK'
  BY IdleType DEF SupplyInductive, SupplyTypeOK
<1> QED BY <1>1, IdleType DEF SupplyInductive, RefusedForCause

LEMMA EstablishStep ==
  ASSUME SupplyInductive, GiveUp \/ EstablishSupplied \/ EstablishByHand
  PROVE  SupplyInductive'
<1>1. revisions \subseteq SUBSET References /\ author.found \subseteq References
  BY Author DEF SupplyInductive, SupplyTypeOK
<1>2. CASE GiveUp
  BY <1>1, <1>2, EndStep DEF GiveUp, QuietSupply
<1>3. ASSUME NEW raw, WellFormed(raw) => Parsed(raw) \subseteq References,
             NEW trigger, NEW evidence, Establish(raw, trigger, evidence)
      PROVE  SupplyInductive'
  <2>1. revisions' \subseteq SUBSET References
    BY <1>1, <1>3 DEF Establish
  <2> QED BY <1>3, <2>1, EndStep DEF Establish
<1>4. Parsed(author.found) = author.found
  <2>1. \A ref \in author.found : ParsedRef(ref) = ref
    BY <1>1 DEF ParsedRef, Field, References
  <2> QED BY <2>1 DEF Parsed
<1>5. CASE EstablishSupplied
  BY <1>1, <1>3, <1>4, <1>5 DEF EstablishSupplied
<1>6. CASE EstablishByHand
  BY <1>3, <1>6, CandidateAssumption DEF EstablishByHand
<1> QED BY <1>2, <1>5, <1>6

\* An edit: what nobody has edited since is as it was.
LEMMA EditIs ==
  ASSUME SupplyTypeOK, Edit
  PROVE  /\ UNCHANGED <<author, revisions>> /\ SupplyTypeOK'
         /\ \A thing \in Things :
              \/ library'[thing] = library[thing] /\ \A since \in {"scan", "launch"} :
                   thing \in edited'[since] <=> thing \in edited[since]
              \/ \A since \in {"scan", "launch"} : thing \in edited'[since]
         /\ \A since \in {"scan", "launch"} :
              edited[since] \subseteq edited'[since] /\ edited'[since] # {}
<1>1. PICK thing \in Things, f \in Files, new \in Texts \cup {Missing, Link} :
        /\ thing \in Docs => f = Entry /\ new # Link
        /\ library' = [library EXCEPT ![thing][f] = new]
        /\ edited' = [since \in DOMAIN edited |-> edited[since] \cup {thing}]
  BY DEF Edit
<1>2. /\ library \in [Things -> Contents] /\ edited \in [{"scan", "launch"} -> SUBSET Things]
      /\ edits \in 0..MaxEdits /\ edits' = edits + 1 /\ edits < MaxEdits
      /\ UNCHANGED <<author, revisions>>
  BY Author DEF Edit, SupplyTypeOK
<1>3. library[thing] \in Contents /\ [library[thing] EXCEPT ![f] = new] \in Contents
  BY <1>1, <1>2 DEF Contents
<1>4. library' = [library EXCEPT ![thing] = [library[thing] EXCEPT ![f] = new]]
  BY <1>1
<1>5. /\ library' \in [Things -> Contents]
      /\ library'[thing] = [library[thing] EXCEPT ![f] = new]
      /\ \A other \in Things \ {thing} : library'[other] = library[other]
  BY <1>2, <1>3, <1>4
<1>6. edited' \in [{"scan", "launch"} -> SUBSET Things]
      /\ \A since \in {"scan", "launch"} : edited'[since] = edited[since] \cup {thing}
  BY <1>1, <1>2
<1>7. edits' \in 0..MaxEdits
  BY <1>2, SupplyAssumption
<1>8. ASSUME NEW doc \in Docs PROVE Plain(library'[doc])
  <2>1. doc \in Things /\ Plain(library[doc])
    BY Entries DEF SupplyTypeOK
  <2>2. CASE doc = thing
    BY <1>1, <1>3, <1>5, <2>1, <2>2, Entries DEF Plain, Contents
  <2> QED BY <1>5, <2>1, <2>2
<1>9. SupplyTypeOK'
  BY <1>2, <1>5, <1>6, <1>7, <1>8 DEF SupplyTypeOK, Plain
<1> QED BY <1>2, <1>5, <1>6, <1>9

LEMMA EditStep == ASSUME SupplyInductive, Edit PROVE SupplyInductive'
<1>1. /\ SupplyTypeOK /\ UNCHANGED <<author, revisions>> /\ SupplyTypeOK'
      /\ \A thing \in Things : Still(thing)' => Still(thing) /\ library'[thing] = library[thing]
      /\ edited'["scan"] # {}
  BY EditIs DEF SupplyInductive, Still
<1>2. Listed' = Listed /\ Begun' = Begun /\ Begun \subseteq Things
  BY <1>1, Entries DEF Listed, Begun
<1>3. \A thing \in Things : Still(thing)' =>
        /\ \A f : Has(thing, f)' <=> Has(thing, f)
        /\ Listing(thing)' = Listing(thing)
        /\ Linked(Files, thing)' <=> Linked(Files, thing)
  BY <1>1 DEF Has, Listing, Linked
<1>4. ASSUME Scanning PROVE Scanning'
  <2>1. author.groups \subseteq Listed /\ author.todo \subseteq Begun
        /\ \A s \in author.todo : Still(s)' => Has(s, Entry)'
    BY <1>1, <1>2, <1>3, <1>4 DEF Scanning
  <2>2. \A r \in author.found :
           /\ r.at \in Begun /\ r = SkillRef(r.at, r.print)
           /\ Still(r.at)' => Has(r.at, Entry)' /\ r.print = library'[r.at]
    BY <1>1, <1>2, <1>3, <1>4 DEF Scanning
  <2>3. \A s \in Begun : Still(s)' /\ Has(s, Entry)' =>
           \/ s \in author.todo \/ s \in {r.at : r \in author.found}
           \/ author.pc = "read" /\ s = author.at
    BY <1>1, <1>2, <1>3, <1>4 DEF Scanning
  <2> QED BY <1>1, <1>2, <2>1, <2>2, <2>3 DEF Scanning, SkillRef
<1>5. ASSUME ReadSoFar PROVE ReadSoFar'
  <2>1. author.at \in Begun /\ author.at \in Things
    BY <1>2, <1>5 DEF ReadSoFar
  <2>2. ASSUME Still(author.at)'
        PROVE  /\ Has(author.at, Entry)' /\ ~Linked(Files, author.at)'
               /\ author.left \subseteq Listing(author.at)'
               /\ author.print = [f \in Files |-> IF f \in author.left THEN Missing
                                                  ELSE library'[author.at][f]]
    BY <1>1, <1>3, <1>5, <2>1, <2>2 DEF ReadSoFar
  <2> QED BY <1>1, <1>2, <2>1, <2>2 DEF ReadSoFar, Still, Has, Listing, Linked
<1> QED BY <1>1, <1>4, <1>5 DEF SupplyInductive, RefusedForCause

LEMMA SupplyInitial == ASSUME SupplyInit PROVE SupplyInductive
<1>1. \A doc \in Docs : Plain(library[doc])
  BY SupplyAssumption DEF SupplyInit
<1>2. library \in [Things -> Contents] /\ edits \in 0..MaxEdits
  BY SupplyAssumption DEF SupplyInit
<1>3. SupplyTypeOK
  BY <1>1, <1>2, IdleType DEF SupplyInit, SupplyTypeOK
<1> QED BY <1>3, IdleType DEF SupplyInductive, SupplyInit, RefusedForCause

LEMMA SupplyStep ==
  ASSUME SupplyInductive, Supplying \/ Edit \/ UNCHANGED supplyVars
  PROVE  SupplyInductive'
<1>1. CASE UNCHANGED supplyVars
  BY <1>1 DEF supplyVars, SupplyInductive, SupplyTypeOK, Scanning, ReadSoFar, RefusedForCause,
     Still, Has, Linked, Listing, Begun, Listed, Supplied, Lexical, SameName, Plain, SkillRef
<1> QED BY <1>1, BeginSupplyStep, ListGroupStep, OpenSkillStep, ReadFileStep, CloseSkillStep,
          CloseGroupStep, PrintStep, EstablishStep, EditStep DEF Supplying

LEMMA PrintedIsComplete == ASSUME SupplyInductive PROVE CandidateIsComplete
<1>1. ASSUME author.pc = "printed"
      PROVE  /\ {r.at : r \in author.found} \subseteq {s \in Skills : GroupOf[s] \in Listed}
             /\ ~SameName(author.found)
             /\ \A s \in Supplied(Listed) \ edited["scan"] :
                  SkillRef(s, library[s]) \in author.found
             /\ {r.at : r \in author.found} \subseteq Supplied(Listed) \cup edited["scan"]
  <2>1. Scanning /\ author.todo = {} /\ author.groups = {} /\ ~SameName(author.found)
    BY <1>1 DEF SupplyInductive
  <2>2. Begun = {s \in Skills : GroupOf[s] \in Listed}
    BY <2>1 DEF Begun
  <2>3. \A r \in author.found : r.at \in Begun /\ (Still(r.at) => Has(r.at, Entry))
    BY <2>1 DEF Scanning
  <2>4. ASSUME NEW s \in Supplied(Listed) \ edited["scan"]
        PROVE  SkillRef(s, library[s]) \in author.found
    <3>1. s \in Begun /\ Has(s, Entry) /\ Still(s)
      BY <2>2, <2>4 DEF Supplied, Still
    <3>2. PICK r \in author.found : r.at = s
      BY <1>1, <2>1, <3>1 DEF Scanning
    <3> QED BY <2>1, <3>1, <3>2 DEF Scanning
  <2> QED BY <2>1, <2>2, <2>3, <2>4 DEF Supplied, Still
<1>2. CompleteIfPrinted
  BY <1>1 DEF CompleteIfPrinted
<1> QED BY <1>2 DEF SupplyInductive, CandidateIsComplete

HIDE DEF Authors

-----------------------------------------------------------------------------
(* The launch.                                                             *)

LEMMA ContentTypes ==
  ASSUME ContentTypeOK
  PROVE  /\ job \in Jobs /\ group \in [Delivering -> GroupStates]
         /\ out \in [Delivering -> [Keys -> Prints]] /\ Unknown \notin References
BY SupplyAssumption DEF ContentTypeOK

LEMMA KeyOf == ASSUME NEW ref \in References PROVE Key(ref) \in Keys
<1>1. ref.name \in Range(NameOf) /\ DOMAIN Segment = Range(NameOf)
  BY ContentAssumption DEF References
<1>2. Segment[ref.name] \in Range(Segment)
  BY <1>1 DEF Range
<1> QED BY <1>1, <1>2 DEF Key, Keys

\* As long as library, edits and job are what they were.
LEMMA Steady ==
  ASSUME UNCHANGED <<library, edited, job>>
  PROVE  /\ \A ref : (Apart(ref)' <=> Apart(ref)) /\ (HasCause(ref)' <=> HasCause(ref))
         /\ \A thing : /\ Kept(thing)' <=> Kept(thing)
                       /\ Listing(thing)' = Listing(thing)
                       /\ Linked(Files, thing)' <=> Linked(Files, thing)
         /\ \A left, thing : ButFor(left, thing)' = ButFor(left, thing)
         /\ \A g : Checking(g)' <=> Checking(g)
BY DEF Apart, HasCause, Kept, Listing, Linked, Has, ButFor, Checking, Key, Of

\* A group that another one's step leaves alone.
LEMMA OtherGroup ==
  ASSUME UNCHANGED <<library, edited, job>>, NEW kind \in Delivering,
         group'[kind] = group[kind], out'[kind] = out[kind],
         mishaps.faults > 0 => mishaps'.faults > 0, GroupOK(kind)
  PROVE  GroupOK(kind)'
<1>1. \A ref \in Of(job.rev, kind) : Delivered(ref)' <=> Delivered(ref)
  BY DEF Of, Delivered, Key
<1>2. Delivers(kind, group[kind]) /\ (group[kind].now # Unknown => InWork(kind, group[kind]))
  BY DEF GroupOK
<1>3. PICK g : g = group[kind]
  OBVIOUS
<1>4. (g.todo \subseteq Of(job.rev, kind))'
      /\ (\A ref \in g.todo : Apart(ref) => out[kind][Key(ref)] = Nothing)'
  BY <1>2, <1>3, Steady DEF Delivers, Key
<1>5. (\A ref \in Of(job.rev, kind) \ (g.todo \cup {g.now} \cup g.failed) :
         ref.at \in Things /\ (Kept(ref.at) /\ Apart(ref) => Delivered(ref)))'
  BY <1>1, <1>2, <1>3, Steady DEF Delivers
<1>6. (g.failed # {} => mishaps.faults > 0 \/ \E ref \in Of(job.rev, kind) : HasCause(ref))'
  BY <1>2, <1>3, Steady DEF Delivers
<1>7. Delivers(kind, g)'
  BY <1>4, <1>5, <1>6 DEF Delivers
<1>8. g.now # Unknown => InWork(kind, g)'
  BY <1>2, <1>3, Steady DEF InWork, Key
<1> QED BY <1>3, <1>7, <1>8 DEF GroupOK

\* A step of one group.
LEMMA GroupMove ==
  ASSUME ContentInductive, job.pc = "content", UNCHANGED <<client, job>>, UNCHANGED supplyVars,
         NEW kind \in Delivering, NEW g \in GroupStates, NEW o \in [Keys -> Prints],
         group' = [group EXCEPT ![kind] = g], out' = [out EXCEPT ![kind] = o],
         mishaps' \in [upgrades : 0..MaxUpgrades, upgraded : BOOLEAN, faults : 0..MaxFaults],
         mishaps'.upgraded = mishaps.upgraded,
         mishaps.faults > 0 => mishaps'.faults > 0,
         GroupOK(kind)'
  PROVE  ContentInductive'
<1>1. /\ SupplyInductive' /\ UNCHANGED <<library, edited>>
  BY SupplyStep DEF ContentInductive, supplyVars
<1>2. ContentTypeOK /\ Groups /\ Verdicts /\ Options
  BY DEF ContentInductive
<1>3. ContentTypeOK'
  BY <1>2, ContentTypes DEF ContentTypeOK
<1>4. job.verdict = "none"
  BY <1>2 DEF Verdicts
<1>5. ASSUME NEW k \in Delivering PROVE GroupOK(k)'
  <2>1. GroupOK(k)
    BY <1>2 DEF Groups
  <2>2. k # kind => group'[k] = group[k] /\ out'[k] = out[k]
    BY <1>2, ContentTypes
  <2> QED BY <1>1, <2>1, <2>2, OtherGroup
<1>6. Groups'
  BY <1>4, <1>5 DEF Groups, ClientStarted
<1>7. Verdicts'
  BY <1>4 DEF Verdicts
<1>8. Options'
  BY <1>2, <1>4 DEF Options, ClientStarted, Blocking, PlannedFlags, CapabilityStatus
<1> QED BY <1>1, <1>3, <1>6, <1>7, <1>8 DEF ContentInductive

\* One that writes nothing.
LEMMA LocalMove ==
  ASSUME ContentInductive, job.pc = "content", UNCHANGED <<client, job, out>>, UNCHANGED supplyVars,
         NEW kind \in Delivering, NEW g \in GroupStates,
         group' = [group EXCEPT ![kind] = g], UNCHANGED mishaps,
         Delivers(kind, g), g.now # Unknown => InWork(kind, g)
  PROVE  ContentInductive'
<1>1. ContentTypeOK
  BY DEF ContentInductive
<1>2. PICK o : o = out[kind]
  OBVIOUS
<1>3. o \in [Keys -> Prints] /\ out' = [out EXCEPT ![kind] = o] /\ group'[kind] = g
  BY <1>1, <1>2, ContentTypes
<1>4. UNCHANGED <<library, edited>>
  BY DEF supplyVars
<1>5. Delivers(kind, g)'
  BY <1>4, Steady DEF Delivers, Delivered, Key
<1>6. g.now # Unknown => InWork(kind, g)'
  BY <1>4, Steady DEF InWork, Key
<1>7. GroupOK(kind)'
  BY <1>3, <1>5, <1>6 DEF GroupOK
<1>8. mishaps' \in [upgrades : 0..MaxUpgrades, upgraded : BOOLEAN, faults : 0..MaxFaults]
  BY <1>1 DEF ContentTypeOK
<1> QED BY <1>3, <1>7, <1>8, GroupMove

\* What a step of a working group starts from.
LEMMA InContent ==
  ASSUME ContentInductive, job.pc = "content", NEW kind \in Delivering
  PROVE  /\ group[kind] \in GroupStates /\ out[kind] \in [Keys -> Prints]
         /\ Delivers(kind, group[kind])
         /\ group[kind].now # Unknown => InWork(kind, group[kind])
         /\ Of(job.rev, kind) \subseteq References
<1>1. ContentTypeOK /\ Groups
  BY DEF ContentInductive
<1>2. GroupOK(kind)
  BY <1>1 DEF Groups
<1>3. Of(job.rev, kind) \subseteq References
  BY <1>1, ContentTypes DEF Of, Jobs
<1> QED BY <1>1, <1>2, <1>3, ContentTypes DEF GroupOK

\* A reference that fails has a cause.
LEMMA FailMove ==
  ASSUME ContentInductive, NEW kind \in Delivering, Working(kind),
         UNCHANGED <<client, job, out, mishaps>>, UNCHANGED supplyVars,
         NEW ref, ref = group[kind].now,
         Fails(kind, ref), HasCause(ref)
  PROVE  ContentInductive'
<1>1. /\ job.pc = "content" /\ group[kind].now # Unknown
  BY DEF Working
<1>2. PICK b : b = group[kind]
  OBVIOUS
<1>3. /\ b \in GroupStates /\ Delivers(kind, b) /\ InWork(kind, b) /\ ref = b.now
      /\ Of(job.rev, kind) \subseteq References
  BY <1>1, <1>2, InContent
<1>4. ref \in Of(job.rev, kind) /\ ref \in References
  BY <1>3 DEF InWork
<1>5. PICK g : g = [b EXCEPT !.now = Unknown, !.failed = @ \cup {ref}]
  OBVIOUS
<1>6. group' = [group EXCEPT ![kind] = g]
  BY <1>2, <1>5, ContentTypes DEF Fails, ContentInductive
<1>7. g \in GroupStates /\ g.now = Unknown /\ g.todo = b.todo /\ g.failed = b.failed \cup {ref}
  BY <1>3, <1>4, <1>5 DEF GroupStates
<1>8. Delivers(kind, g)
  BY <1>3, <1>4, <1>7 DEF Delivers
<1> QED BY <1>1, <1>6, <1>7, <1>8, LocalMove

LEMMA TakeStep ==
  ASSUME ContentInductive, NEW kind \in Delivering, Take(kind)
  PROVE  ContentInductive'
<1>1. /\ job.pc = "content" /\ group[kind].now = Unknown
      /\ UNCHANGED <<client, job, out, mishaps>> /\ UNCHANGED supplyVars
  BY DEF Take, KeepJob, KeepLibrary
<1>2. PICK b : b = group[kind]
  OBVIOUS
<1>3. /\ b \in GroupStates /\ Delivers(kind, b) /\ b.now = Unknown
      /\ Of(job.rev, kind) \subseteq References
  BY <1>1, <1>2, InContent
<1>4. PICK ref \in b.todo :
        LET g == [b EXCEPT !.todo = @ \ {ref}] IN
        IF ref.at \notin Things \/ Listing(ref.at) = {}
          THEN group' = [group EXCEPT ![kind] = [g EXCEPT !.failed = @ \cup {ref}]]
        ELSE IF ref.print = Unknown
          THEN group' = [group EXCEPT ![kind] = Copying(g, ref)]
        ELSE IF Linked(Files, ref.at)
          THEN group' = [group EXCEPT ![kind] = [g EXCEPT !.failed = @ \cup {ref}]]
        ELSE group' = [group EXCEPT ![kind] =
               [g EXCEPT !.now = ref, !.step = "check", !.left = Listing(ref.at),
                         !.print = Nothing]]
  BY <1>2 DEF Take
<1>5. /\ ref \in Of(job.rev, kind) /\ ref \in References /\ Unknown \notin References
      /\ Apart(ref) => out[kind][Key(ref)] = Nothing
  BY <1>3, <1>4, ContentTypes DEF Delivers, ContentInductive
<1>6. PICK g : g = [b EXCEPT !.todo = @ \ {ref}]
  OBVIOUS
<1>7. /\ g \in GroupStates /\ g.todo = b.todo \ {ref} /\ g.now = Unknown /\ g.failed = b.failed
      /\ b.todo \subseteq Of(job.rev, kind)
  BY <1>3, <1>6 DEF GroupStates, Delivers
<1>8. CASE /\ group' = [group EXCEPT ![kind] = [g EXCEPT !.failed = @ \cup {ref}]]
           /\ (ref.at \notin Things \/ Listing(ref.at) = {} \/ Linked(Files, ref.at))
  <2>1. PICK h : h = [g EXCEPT !.failed = @ \cup {ref}]
    OBVIOUS
  <2>2. /\ h \in GroupStates /\ h.todo = b.todo \ {ref} /\ h.now = Unknown
        /\ h.failed = b.failed \cup {ref}
    BY <1>5, <1>7, <2>1 DEF GroupStates
  <2>3. HasCause(ref)
    BY <1>8 DEF HasCause
  <2>4. Delivers(kind, h)
    BY <1>3, <1>5, <2>2, <2>3 DEF Delivers
  <2> QED BY <1>1, <1>8, <2>1, <2>2, <2>4, LocalMove
<1>9. ASSUME NEW h \in GroupStates, h.todo = b.todo \ {ref}, h.now = ref, h.failed = b.failed
      PROVE  Delivers(kind, h)
  BY <1>3, <1>5, <1>9 DEF Delivers
<1>10. CASE /\ group' = [group EXCEPT ![kind] = Copying(g, ref)] /\ ref.print = Unknown
            /\ ref.at \in Things
  <2>1. PICK h : h = Copying(g, ref)
    OBVIOUS
  <2>2. /\ h \in GroupStates /\ h.todo = b.todo \ {ref} /\ h.now = ref /\ h.failed = b.failed
        /\ h.step = "list"
    BY <1>5, <1>7, <2>1, Entries DEF GroupStates, Copying
  <2>3. InWork(kind, h)
    BY <1>5, <1>10, <2>2 DEF InWork
  <2> QED BY <1>1, <1>9, <1>10, <2>1, <2>2, <2>3, LocalMove
<1>11. CASE /\ group' = [group EXCEPT ![kind] =
                  [g EXCEPT !.now = ref, !.step = "check", !.left = Listing(ref.at),
                            !.print = Nothing]]
            /\ ref.print # Unknown /\ ref.at \in Things /\ ~Linked(Files, ref.at)
  <2>1. PICK h : h = [g EXCEPT !.now = ref, !.step = "check", !.left = Listing(ref.at),
                               !.print = Nothing]
    OBVIOUS
  <2>2. Listing(ref.at) \subseteq Files
    BY DEF Listing
  <2>3. /\ h \in GroupStates /\ h.todo = b.todo \ {ref} /\ h.now = ref /\ h.failed = b.failed
        /\ h.step = "check" /\ h.left = Listing(ref.at) /\ h.print = Nothing
    BY <1>5, <1>7, <2>1, <2>2, Entries DEF GroupStates
  <2>4. Nothing = ButFor(Listing(ref.at), ref.at)
    BY DEF Nothing, ButFor, Listing, Has
  <2>5. Checking(h)
    BY <1>11, <2>3, <2>4 DEF Checking
  <2>6. InWork(kind, h)
    BY <1>5, <1>11, <2>3, <2>5 DEF InWork
  <2> QED BY <1>1, <1>9, <1>11, <2>1, <2>3, <2>6, LocalMove
<1> QED BY <1>4, <1>6, <1>8, <1>10, <1>11

LEMMA CheckStep ==
  ASSUME ContentInductive, NEW kind \in Delivering, CheckFile(kind)
  PROVE  ContentInductive'
<1>1. /\ job.pc = "content" /\ group[kind].now # Unknown /\ Working(kind)
      /\ UNCHANGED <<client, job, out, mishaps>> /\ UNCHANGED supplyVars
  BY DEF CheckFile, KeepJob, KeepLibrary, Working
<1>2. PICK b, ref, f, text :
        b = group[kind] /\ ref = b.now /\ f = Min(b.left) /\ text = library[ref.at][f]
  OBVIOUS
<1>3. /\ b \in GroupStates /\ Delivers(kind, b) /\ InWork(kind, b)
      /\ b.left # {} /\ b.step = "check"
  BY <1>1, <1>2, InContent DEF CheckFile
<1>4. ref.at \in Things /\ f \in b.left /\ f \in Files
  <2>1. b.left \subseteq Files /\ b.left \in SUBSET Nat
    BY <1>3, Entries DEF GroupStates
  <2> QED BY <1>2, <1>3, <2>1, Least DEF InWork
<1>5. library[ref.at] \in Contents
  BY <1>4, Author DEF ContentInductive, SupplyInductive
<1>6. CASE text \notin Texts /\ Fails(kind, ref)
  <2>1. Kept(ref.at) => ~Linked(Files, ref.at) /\ f \in Listing(ref.at)
    BY <1>2, <1>3, <1>4 DEF InWork, Checking
  <2>2. ~Kept(ref.at)
    BY <1>2, <1>4, <1>5, <1>6, <2>1 DEF Contents, Linked, Listing, Has
  <2>3. HasCause(ref)
    BY <2>2 DEF HasCause, Kept
  <2> QED BY <1>1, <1>2, <1>6, <2>3, FailMove
<1>7. CASE /\ text \in Texts
           /\ group' = [group EXCEPT ![kind].left = @ \ {f}, ![kind].print[f] = text]
  <2>1. PICK rest, print : rest = b.left \ {f} /\ print = [b.print EXCEPT ![f] = text]
    OBVIOUS
  <2>2. rest \subseteq Files /\ print \in Prints
    BY <1>3, <1>4, <1>7, <2>1 DEF GroupStates, Prints
  <2>3. PICK g : g = [b EXCEPT !.left = rest, !.print = print]
    OBVIOUS
  <2>4. group' = [group EXCEPT ![kind] = g]
    BY <1>2, <1>3, <1>7, <2>1, <2>3, ContentTypes DEF ContentInductive, GroupStates
  <2>5. /\ g \in GroupStates /\ g.todo = b.todo /\ g.now = ref /\ g.failed = b.failed
        /\ g.step = "check" /\ g.left = rest /\ g.print = print
    BY <1>2, <1>3, <2>2, <2>3 DEF GroupStates
  <2>6. Delivers(kind, g)
    BY <1>2, <1>3, <2>5 DEF Delivers
  <2>7. ASSUME Kept(ref.at) PROVE Checking(g)
    <3>1. /\ ~Linked(Files, ref.at) /\ b.left \subseteq Listing(ref.at)
          /\ b.print = ButFor(b.left, ref.at)
      BY <1>2, <1>3, <2>7 DEF InWork, Checking
    <3>2. print = ButFor(rest, ref.at)
      BY <1>2, <1>4, <2>1, <3>1 DEF ButFor
    <3> QED BY <2>1, <2>5, <3>1, <3>2 DEF Checking
  <2>8. InWork(kind, g)
    BY <1>2, <1>3, <2>5, <2>7 DEF InWork
  <2> QED BY <1>1, <2>4, <2>5, <2>6, <2>8, LocalMove
<1> QED BY <1>2, <1>6, <1>7 DEF CheckFile

LEMMA CompareStep ==
  ASSUME ContentInductive, NEW kind \in Delivering, Compare(kind)
  PROVE  ContentInductive'
<1>1. /\ job.pc = "content" /\ group[kind].now # Unknown /\ Working(kind)
      /\ UNCHANGED <<client, job, out, mishaps>> /\ UNCHANGED supplyVars
  BY DEF Compare, KeepJob, KeepLibrary, Working
<1>2. PICK b, ref : b = group[kind] /\ ref = b.now
  OBVIOUS
<1>3. /\ b \in GroupStates /\ Delivers(kind, b) /\ InWork(kind, b)
      /\ b.left = {} /\ b.step = "check"
  BY <1>1, <1>2, InContent DEF Compare
<1>4. ref.at \in Things /\ ref.print # Unknown
  BY <1>2, <1>3 DEF InWork
<1>5. Kept(ref.at) => b.print = library[ref.at]
  <2>1. library[ref.at] = [f \in Files |-> library[ref.at][f]]
    BY <1>4, Author DEF ContentInductive, SupplyInductive, Contents
  <2> QED BY <1>2, <1>3, <2>1 DEF InWork, Checking, ButFor
<1>6. CASE b.print # ref.print /\ Fails(kind, ref)
  <2>1. HasCause(ref)
    BY <1>4, <1>5, <1>6 DEF HasCause, Kept
  <2> QED BY <1>1, <1>2, <1>6, <2>1, FailMove
<1>7. CASE b.print = ref.print /\ group' = [group EXCEPT ![kind] = Copying(b, ref)]
  <2>1. PICK g : g = Copying(b, ref)
    OBVIOUS
  <2>2. /\ g \in GroupStates /\ g.todo = b.todo /\ g.now = ref /\ g.failed = b.failed
        /\ g.step = "list"
    BY <1>2, <1>3, <2>1, Entries DEF GroupStates, Copying
  <2>3. Delivers(kind, g)
    BY <1>2, <1>3, <2>2 DEF Delivers
  <2>4. InWork(kind, g)
    BY <1>2, <1>3, <1>5, <1>7, <2>2 DEF InWork
  <2> QED BY <1>1, <1>7, <2>1, <2>2, <2>3, <2>4, LocalMove
<1> QED BY <1>2, <1>6, <1>7 DEF Compare

LEMMA ListStep ==
  ASSUME ContentInductive, NEW kind \in Delivering, List(kind)
  PROVE  ContentInductive'
<1>1. /\ job.pc = "content" /\ group[kind].now # Unknown /\ Working(kind)
      /\ UNCHANGED <<client, job, out, mishaps>> /\ UNCHANGED supplyVars
  BY DEF List, KeepJob, KeepLibrary, Working
<1>2. PICK b, ref : b = group[kind] /\ ref = b.now
  OBVIOUS
<1>3. b \in GroupStates /\ Delivers(kind, b) /\ InWork(kind, b) /\ b.step = "list"
  BY <1>1, <1>2, InContent DEF List
<1>4. ref.kind = kind
  BY <1>2, <1>3 DEF InWork, Of
<1>5. CASE /\ (((kind = "skill") # (ref.at \in Skills)) \/ Listing(ref.at) = {})
           /\ Fails(kind, ref)
  <2>1. HasCause(ref)
    BY <1>4, <1>5 DEF HasCause
  <2> QED BY <1>1, <1>2, <1>5, <2>1, FailMove
<1>6. CASE /\ ~((kind = "skill") # (ref.at \in Skills))
           /\ group' = [group EXCEPT ![kind].step = "copy", ![kind].left = Listing(ref.at)]
  <2>1. PICK g : g = [b EXCEPT !.step = "copy", !.left = Listing(ref.at)]
    OBVIOUS
  <2>2. group' = [group EXCEPT ![kind] = g]
    BY <1>2, <1>6, <2>1, ContentTypes DEF ContentInductive
  <2>3. Listing(ref.at) \subseteq Files
    BY DEF Listing
  <2>4. /\ g \in GroupStates /\ g.todo = b.todo /\ g.now = ref /\ g.failed = b.failed
        /\ g.step = "copy" /\ g.left = Listing(ref.at)
    BY <1>2, <1>3, <2>1, <2>3 DEF GroupStates
  <2>5. Delivers(kind, g)
    BY <1>2, <1>3, <2>4 DEF Delivers
  <2>6. Nothing = ButFor(Listing(ref.at), ref.at)
    BY DEF Nothing, ButFor, Listing, Has
  <2>7. (kind = "skill") <=> (ref.at \in Skills)
    BY <1>6
  <2>8. InWork(kind, g)
    BY <1>2, <1>3, <2>4, <2>6, <2>7 DEF InWork
  <2> QED BY <1>1, <2>2, <2>4, <2>5, <2>8, LocalMove
<1> QED BY <1>2, <1>5, <1>6 DEF List

LEMMA CopyStep ==
  ASSUME ContentInductive, NEW kind \in Delivering, Copy(kind)
  PROVE  ContentInductive'
<1>1. /\ job.pc = "content" /\ group[kind].now # Unknown /\ Working(kind)
      /\ UNCHANGED <<client, job, mishaps>> /\ UNCHANGED supplyVars
  BY DEF Copy, KeepJob, KeepLibrary, Working
<1>2. PICK b, ref : b = group[kind] /\ ref = b.now
  OBVIOUS
<1>3. /\ b \in GroupStates /\ Delivers(kind, b) /\ InWork(kind, b) /\ b.step = "copy"
      /\ out[kind] \in [Keys -> Prints] /\ Of(job.rev, kind) \subseteq References
  BY <1>1, <1>2, InContent DEF Copy
<1>3a. PICK f \in b.left :
        LET text == library[ref.at][f] IN
        IF text \notin Texts \/ (kind = "mcp" /\ text \in NotJson)
          THEN Fails(kind, ref) /\ UNCHANGED out
        ELSE /\ group' = [group EXCEPT ![kind].left = @ \ {f}]
             /\ out' = [out EXCEPT ![kind][Key(ref)][f] = text]
  BY <1>2 DEF Copy
<1>4. PICK text : text = library[ref.at][f]
  OBVIOUS
<1>5. ref.kind = kind /\ ref.at \in Things /\ f \in Files /\ ref \in References
      /\ ref \in Of(job.rev, kind) /\ ref \notin b.todo
  BY <1>2, <1>3 DEF InWork, Of, GroupStates
<1>6. library[ref.at] \in Contents
  BY <1>5, Author DEF ContentInductive, SupplyInductive
<1>7. CASE Fails(kind, ref) /\ UNCHANGED out /\ (text \notin Texts \/ (kind = "mcp" /\ text \in NotJson))
  <2>1. Kept(ref.at) => f \in Listing(ref.at)
    BY <1>2, <1>3, <1>4 DEF InWork
  <2>2. ASSUME text \notin Texts PROVE HasCause(ref)
    <3>1. Kept(ref.at) => Linked(Files, ref.at)
      BY <1>4, <1>5, <1>6, <2>1, <2>2 DEF Contents, Linked, Listing, Has
    <3> QED BY <3>1 DEF HasCause, Kept
  <2>3. ASSUME kind = "mcp", text \in NotJson PROVE HasCause(ref)
    <3>1. ref.at \notin Skills
      BY <1>2, <1>3, <2>3 DEF InWork
    <3>2. Plain(library[ref.at])
      BY <1>5, <3>1 DEF ContentInductive, SupplyInductive, SupplyTypeOK, Things
    <3>3. Kept(ref.at) => f = Entry
      BY <1>4, <1>5, <2>1, <3>2 DEF Plain, Listing, Has
    <3> QED BY <1>4, <1>5, <2>3, <3>3 DEF HasCause, Kept
  <2>4. HasCause(ref)
    BY <1>7, <2>2, <2>3
  <2> QED BY <1>1, <1>2, <1>7, <2>4, FailMove
<1>8. CASE /\ text \in Texts /\ group' = [group EXCEPT ![kind].left = @ \ {f}]
           /\ out' = [out EXCEPT ![kind][Key(ref)][f] = text]
  <2>1. PICK rest : rest = b.left \ {f}
    OBVIOUS
  <2>2. PICK g : g = [b EXCEPT !.left = rest]
    OBVIOUS
  <2>3. /\ g \in GroupStates /\ g.todo = b.todo /\ g.now = ref /\ g.failed = b.failed
        /\ g.step = "copy" /\ g.left = rest
    BY <1>2, <1>3, <2>1, <2>2 DEF GroupStates
  <2>4. group' = [group EXCEPT ![kind] = g]
    BY <1>2, <1>8, <2>1, <2>2, ContentTypes DEF ContentInductive
  <2>5. PICK key, old : key = Key(ref) /\ old = out[kind][key]
    OBVIOUS
  <2>6. PICK new : new = [old EXCEPT ![f] = text]
    OBVIOUS
  <2>7. key \in Keys /\ old \in Prints /\ new \in Prints
    <3>1. key \in Keys
      BY <1>5, <2>5, KeyOf
    <3>2. old \in Prints
      BY <1>3, <2>5, <3>1
    <3> QED BY <1>5, <1>8, <2>6, <3>1, <3>2 DEF Prints
  <2>8. PICK o : o = [out[kind] EXCEPT ![key] = new]
    OBVIOUS
  <2>9. /\ o \in [Keys -> Prints] /\ o[key] = new
        /\ \A k \in Keys \ {key} : o[k] = out[kind][k]
    BY <1>3, <2>7, <2>8
  <2>10. out' = [out EXCEPT ![kind] = o]
    BY <1>8, <2>5, <2>6, <2>8
  <2>11. group'[kind] = g /\ out'[kind] = o
    BY <2>4, <2>10, ContentTypes DEF ContentInductive
  <2>12. UNCHANGED <<library, edited, job, mishaps>>
    BY <1>1 DEF supplyVars
  \* The other references of the group that go to places of their own.
  <2>13. ASSUME NEW other \in Of(job.rev, kind), other # ref, Apart(other)
         PROVE  o[Key(other)] = out[kind][Key(other)]
    <3>1. Key(other) # key
      BY <1>5, <2>5, <2>13 DEF Apart, Of
    <3>2. Key(other) \in Keys
      BY <1>3, <2>13, KeyOf
    <3> QED BY <2>9, <3>1, <3>2
  <2>14. Delivers(kind, g)'
    <3>1. (g.todo \subseteq Of(job.rev, kind))'
      BY <1>3, <2>3, <2>12 DEF Delivers
    <3>2. ASSUME NEW r \in g.todo, Apart(r)' PROVE (out[kind][Key(r)] = Nothing)'
      <4>1. r \in Of(job.rev, kind) /\ r # ref /\ Apart(r) /\ out[kind][Key(r)] = Nothing
        BY <1>3, <1>5, <2>3, <2>12, <3>2, Steady DEF Delivers
      <4>2. o[Key(r)] = Nothing
        BY <2>13, <4>1
      <4> QED BY <2>11, <4>2 DEF Key
    <3>3. ASSUME NEW r \in Of(job.rev, kind)' \ (g.todo \cup {g.now} \cup g.failed)
          PROVE  r.at \in Things /\ (Kept(r.at)' /\ Apart(r)' => Delivered(r)')
      <4>1. r \in Of(job.rev, kind) \ (b.todo \cup {b.now} \cup b.failed) /\ r # ref
        BY <1>2, <2>3, <2>12, <3>3
      <4>2. r.at \in Things /\ (Kept(r.at) /\ Apart(r) => Delivered(r))
        BY <1>3, <4>1 DEF Delivers
      <4>3. ASSUME Kept(r.at)', Apart(r)' PROVE Delivered(r)'
        <5>1. Delivered(r) /\ Apart(r)
          BY <2>12, <4>2, <4>3, Steady
        <5>2. o[Key(r)] = out[kind][Key(r)] /\ r.kind = kind
          BY <2>13, <4>1, <5>1 DEF Of
        <5> QED BY <2>11, <2>12, <5>1, <5>2 DEF Delivered, Key
      <4> QED BY <4>2, <4>3
    <3>4. (g.failed # {} => mishaps.faults > 0 \/ \E r \in Of(job.rev, kind) : HasCause(r))'
      BY <1>3, <2>3, <2>12, Steady DEF Delivers
    <3> QED BY <3>1, <3>2, <3>3, <3>4 DEF Delivers
  <2>15. InWork(kind, g)'
    <3>1. (g.now \in Of(job.rev, kind) \ g.todo /\ g.now.at \in Things)'
          /\ ((kind = "skill") <=> (g.now.at \in Skills))
      BY <1>2, <1>3, <2>3, <2>12 DEF InWork
    <3>2. ASSUME Kept(ref.at)'
          PROVE  /\ ref.print # Unknown => library'[ref.at] = ref.print
                 /\ rest \subseteq Listing(ref.at)'
                 /\ Apart(ref)' => out'[kind][Key(ref)'] = ButFor(rest, ref.at)'
      <4>1. Kept(ref.at)
        BY <2>12, <3>2, Steady
      <4>2. /\ ref.print # Unknown => library[ref.at] = ref.print
            /\ b.left \subseteq Listing(ref.at)
            /\ Apart(ref) => old = ButFor(b.left, ref.at)
        BY <1>2, <1>3, <2>5, <4>1 DEF InWork
      <4>3. Apart(ref) => new = ButFor(rest, ref.at)
        BY <1>4, <1>5, <2>1, <2>6, <4>2 DEF ButFor
      <4>4. Key(ref)' = key
        BY <2>5 DEF Key
      <4> QED BY <2>1, <2>9, <2>11, <2>12, <4>2, <4>3, <4>4, Steady
    <3> QED BY <2>3, <3>1, <3>2 DEF InWork
  <2>16. GroupOK(kind)'
    BY <2>11, <2>14, <2>15 DEF GroupOK
  <2>17. mishaps' \in [upgrades : 0..MaxUpgrades, upgraded : BOOLEAN, faults : 0..MaxFaults]
    BY <1>1 DEF ContentInductive, ContentTypeOK
  <2> QED BY <1>1, <2>3, <2>4, <2>9, <2>10, <2>16, <2>17, GroupMove
<1> QED BY <1>3a, <1>4, <1>7, <1>8

LEMMA CopiedStep ==
  ASSUME ContentInductive, NEW kind \in Delivering, Copied(kind)
  PROVE  ContentInductive'
<1>1. /\ job.pc = "content" /\ group[kind].now # Unknown
      /\ UNCHANGED <<client, job, out, mishaps>> /\ UNCHANGED supplyVars
  BY DEF Copied, KeepJob, KeepLibrary, Working
<1>2. PICK b, ref : b = group[kind] /\ ref = b.now
  OBVIOUS
<1>3. /\ b \in GroupStates /\ Delivers(kind, b) /\ InWork(kind, b)
      /\ b.step = "copy" /\ b.left = {}
  BY <1>1, <1>2, InContent DEF Copied
<1>4. ref.kind = kind /\ ref.at \in Things
  BY <1>2, <1>3 DEF InWork, Of
<1>5. ASSUME Kept(ref.at), Apart(ref) PROVE Delivered(ref)
  <2>1. library[ref.at] = [f \in Files |-> library[ref.at][f]]
    BY <1>4, Author DEF ContentInductive, SupplyInductive, Contents
  <2>2. out[kind][Key(ref)] = library[ref.at]
        /\ (ref.print # Unknown => library[ref.at] = ref.print)
    BY <1>2, <1>3, <1>5, <2>1 DEF InWork, ButFor
  <2> QED BY <1>4, <2>2 DEF Delivered
<1>6. PICK g : g = [b EXCEPT !.now = Unknown, !.step = "check"]
  OBVIOUS
<1>7. group' = [group EXCEPT ![kind] = g]
  BY <1>2, <1>6, ContentTypes DEF Copied, ContentInductive
<1>8. g \in GroupStates /\ g.now = Unknown /\ g.todo = b.todo /\ g.failed = b.failed
  BY <1>3, <1>6 DEF GroupStates
<1>9. Delivers(kind, g)
  BY <1>2, <1>3, <1>4, <1>5, <1>8 DEF Delivers
<1> QED BY <1>1, <1>7, <1>8, <1>9, LocalMove

LEMMA WriteFailsStep ==
  ASSUME ContentInductive, NEW kind \in Delivering, WriteFails(kind)
  PROVE  ContentInductive'
<1>1. /\ job.pc = "content" /\ group[kind].now = Unknown /\ mishaps.faults < MaxFaults
      /\ UNCHANGED <<client, job, out>> /\ UNCHANGED supplyVars
      /\ mishaps' = [mishaps EXCEPT !.faults = @ + 1]
  BY DEF WriteFails, KeepLibrary
<1>2. PICK b : b = group[kind]
  OBVIOUS
<1>3. b \in GroupStates /\ Delivers(kind, b) /\ out[kind] \in [Keys -> Prints]
  BY <1>1, <1>2, InContent
<1>4. PICK g : g = [b EXCEPT !.failed = @ \cup {Manifest}]
  OBVIOUS
<1>5. group' = [group EXCEPT ![kind] = g] /\ group'[kind] = g
  BY <1>2, <1>4, ContentTypes DEF WriteFails, ContentInductive
<1>6. /\ g \in GroupStates /\ g.now = Unknown /\ g.todo = b.todo
      /\ g.failed = b.failed \cup {Manifest}
  BY <1>1, <1>2, <1>3, <1>4 DEF GroupStates
<1>7. /\ mishaps \in [upgrades : 0..MaxUpgrades, upgraded : BOOLEAN, faults : 0..MaxFaults]
      /\ MaxFaults \in Nat
  BY ContentAssumption DEF ContentInductive, ContentTypeOK
<1>8. mishaps.faults + 1 \in 0..MaxFaults
  BY <1>1, <1>7
<1>9. /\ mishaps' \in [upgrades : 0..MaxUpgrades, upgraded : BOOLEAN, faults : 0..MaxFaults]
      /\ mishaps'.upgraded = mishaps.upgraded /\ mishaps'.faults > 0
  BY <1>1, <1>7, <1>8
<1>10. UNCHANGED <<library, edited, job, out>>
  BY <1>1 DEF supplyVars
<1>11. Delivers(kind, g)'
  <2>1. (g.todo \subseteq Of(job.rev, kind))'
        /\ (\A r \in g.todo : Apart(r) => out[kind][Key(r)] = Nothing)'
    BY <1>3, <1>6, <1>10, Steady DEF Delivers, Key
  <2>2. (\A r \in Of(job.rev, kind) \ (g.todo \cup {g.now} \cup g.failed) :
           r.at \in Things /\ (Kept(r.at) /\ Apart(r) => Delivered(r)))'
    BY <1>1, <1>2, <1>3, <1>6, <1>10, Steady DEF Delivers, Delivered, Key
  <2> QED BY <1>9, <2>1, <2>2 DEF Delivers
<1>12. GroupOK(kind)'
  BY <1>5, <1>6, <1>11 DEF GroupOK
<1>13. PICK o : o = out[kind]
  OBVIOUS
<1>14. out' = [out EXCEPT ![kind] = o] /\ o \in [Keys -> Prints]
  BY <1>1, <1>3, <1>13, ContentTypes DEF ContentInductive
<1> QED BY <1>1, <1>5, <1>6, <1>9, <1>12, <1>14, GroupMove

LEMMA DecideStep == ASSUME ContentInductive, DecideDelivery PROVE ContentInductive'
<1>1. /\ job.pc = "content" /\ UNCHANGED <<client, group, out, mishaps>> /\ UNCHANGED supplyVars
      /\ \A kind \in Delivering : group[kind].now = Unknown /\ group[kind].todo = {}
  BY DEF DecideDelivery, KeepLibrary
<1>2. /\ ContentTypeOK /\ Groups /\ Verdicts /\ Options /\ job \in Jobs
      /\ job.verdict = "none" /\ \A kind \in Delivering : GroupOK(kind)
  BY <1>1, ContentTypes DEF ContentInductive, Groups, Verdicts
<1>3. SupplyInductive' /\ UNCHANGED <<library, edited>>
  BY <1>1, SupplyStep DEF ContentInductive, supplyVars
<1>4. ASSUME job'.rev = job.rev PROVE \A kind \in Delivering : GroupOK(kind)'
  BY <1>1, <1>2, <1>3, <1>4 DEF GroupOK, Delivers, InWork, HasCause, Kept, Delivered, Apart, Key, Of,
     Checking, ButFor, Listing, Linked, Has
<1>5. CASE /\ Failing # {}
           /\ job' = [job EXCEPT !.pc = "idle", !.verdict = "undelivered",
                                 !.blamed = {Governing(kind) : kind \in Failing}]
  <2>1. PICK blamed : blamed = {Governing(kind) : kind \in Failing}
    OBVIOUS
  <2>2. blamed \subseteq Capabilities
    BY <2>1 DEF Governing, Capabilities, Failing
  <2>3. /\ job' \in Jobs /\ job'.rev = job.rev /\ job'.pc = "idle" /\ job'.verdict = "undelivered"
        /\ job'.blamed = blamed /\ job'.main = job.main
    BY <1>2, <1>5, <2>1, <2>2 DEF Jobs
  <2>4. ContentTypeOK'
    BY <1>1, <1>2, <2>3 DEF ContentTypeOK
  <2>5. Groups'
    BY <1>4, <2>3 DEF Groups, ClientStarted
  <2>6. Failing' = Failing
    BY <1>1 DEF Failing
  <2>7. Verdicts'
    BY <1>5, <2>1, <2>3, <2>6 DEF Verdicts
  <2>8. Options'
    BY <1>1, <1>2, <2>3 DEF Options, ClientStarted
  <2> QED BY <1>3, <2>4, <2>5, <2>7, <2>8 DEF ContentInductive
<1>6. CASE /\ Failing = {}
           /\ job' = [job EXCEPT !.pc = "spawn",
                !.argv = @ \cup UNION {DeliveryFlags(kind) : kind \in {k \in Delivering : Uses(job.rev, k)}}]
  <2>1. PICK more : more = UNION {DeliveryFlags(kind) : kind \in {k \in Delivering : Uses(job.rev, k)}}
    OBVIOUS
  <2>2. more \subseteq MainFlags \cup {"--mcp-config"}
    BY <2>1 DEF DeliveryFlags, MainFlags
  <2>3. PICK argv : argv = job.argv \cup more
    OBVIOUS
  <2>4. job' = [job EXCEPT !.pc = "spawn", !.argv = argv] /\ argv \subseteq MainFlags \cup {"--mcp-config"}
    BY <1>2, <1>6, <2>1, <2>2, <2>3 DEF Jobs
  <2>5. /\ job' \in Jobs /\ job'.rev = job.rev /\ job'.pc = "spawn" /\ job'.verdict = "none"
        /\ job'.argv = argv /\ job'.main = job.main /\ job'.scope = job.scope
    BY <1>2, <2>4 DEF Jobs
  <2>6. ContentTypeOK'
    BY <1>1, <1>2, <2>5 DEF ContentTypeOK
  <2>7. Groups'
    <3>1. \A kind \in Delivering : Uses(job.rev, kind) => DeliveryFlags(kind) \subseteq argv
      BY <2>1, <2>3
    <3>2. \A kind \in Delivering : group'[kind].todo = {} /\ group'[kind].now = Unknown
                                   /\ group'[kind].failed = {}
      BY <1>1, <1>6 DEF Failing
    <3> QED BY <1>4, <2>5, <3>1, <3>2 DEF Groups, ClientStarted, Uses
  <2>8. Verdicts'
    BY <2>5 DEF Verdicts
  <2>9. Options'
    <3>1. Blocking' = Blocking /\ PlannedFlags' = PlannedFlags
      BY <2>5 DEF Blocking, PlannedFlags, CapabilityStatus
    <3>2. /\ Blocking = {} /\ PlannedFlags \subseteq argv /\ argv \subseteq PlannedFlags \cup more
      <4>1. Blocking = {} /\ PlannedFlags \subseteq job.argv
            /\ job.argv \subseteq PlannedFlags \cup more
        BY <1>1, <1>2, <2>1 DEF Options
      <4> QED BY <2>3, <4>1
    <3>3. more = UNION {DeliveryFlags(kind) : kind \in {k \in Delivering : Uses(job'.rev, k)}}
      BY <2>1, <2>5
    <3> QED BY <1>1, <1>2, <2>5, <3>1, <3>2, <3>3 DEF Options
  <2> QED BY <1>3, <2>6, <2>7, <2>8, <2>9 DEF ContentInductive
<1> QED BY <1>5, <1>6 DEF DecideDelivery

LEMMA SpawnStep == ASSUME ContentInductive, SpawnClient PROVE ContentInductive'
<1>1. /\ job.pc = "spawn" /\ UNCHANGED <<client, group, out, mishaps>> /\ UNCHANGED supplyVars
  BY DEF SpawnClient, KeepLibrary
<1>2. /\ ContentTypeOK /\ Groups /\ Verdicts /\ Options /\ job \in Jobs
      /\ job.verdict = "none" /\ \A kind \in Delivering : GroupOK(kind)
  BY <1>1, ContentTypes DEF ContentInductive, Groups, Verdicts
<1>3. SupplyInductive' /\ UNCHANGED <<library, edited>>
  BY <1>1, SupplyStep DEF ContentInductive, supplyVars
<1>4. PICK verdict \in {"applied", "degraded", "unspawned"} :
        /\ job' = [job EXCEPT !.pc = "idle", !.verdict = verdict]
        /\ verdict = "applied" => ~Differences
  BY DEF SpawnClient
<1>5. /\ job' \in Jobs /\ job'.rev = job.rev /\ job'.pc = "idle" /\ job'.verdict = verdict
      /\ job'.argv = job.argv /\ job'.main = job.main /\ job'.scope = job.scope
  BY <1>2, <1>4 DEF Jobs
<1>6. \A kind \in Delivering : GroupOK(kind)'
  BY <1>1, <1>2, <1>3, <1>5 DEF GroupOK, Delivers, InWork, HasCause, Kept, Delivered, Apart, Key, Of,
     Checking, ButFor, Listing, Linked, Has
<1>7. ContentTypeOK'
  BY <1>1, <1>2, <1>5 DEF ContentTypeOK
<1>8. Groups'
  BY <1>1, <1>2, <1>5, <1>6 DEF Groups, ClientStarted
<1>9. Blocking' = Blocking /\ PlannedFlags' = PlannedFlags /\ (Differences' <=> Differences)
  BY <1>5 DEF Blocking, PlannedFlags, CapabilityStatus, Differences, Degraded
<1>10. Verdicts'
  BY <1>4, <1>5, <1>9 DEF Verdicts
<1>11. Options'
  BY <1>1, <1>2, <1>5, <1>9 DEF Options, ClientStarted
<1> QED BY <1>3, <1>7, <1>8, <1>10, <1>11 DEF ContentInductive

LEMMA CompileStep == ASSUME ContentInductive, Compile PROVE ContentInductive'
<1>1. /\ job.pc = "compile" /\ UNCHANGED <<client, out, mishaps>> /\ UNCHANGED supplyVars
  BY DEF Compile, KeepLibrary
<1>2. /\ ContentTypeOK /\ Groups /\ Verdicts /\ Options /\ job \in Jobs
      /\ job.verdict = "none"
      /\ \A kind \in Delivering : \A key \in Keys : out[kind][key] = Nothing
  BY <1>1, ContentTypes DEF ContentInductive, Groups, Verdicts
<1>3. SupplyInductive' /\ UNCHANGED <<library, edited>>
  BY <1>1, SupplyStep DEF ContentInductive, supplyVars
<1>4. CASE /\ Blocking # {} /\ UNCHANGED group
           /\ job' = [job EXCEPT !.pc = "idle", !.verdict = "incapable", !.blamed = Blocking]
  <2>1. Blocking \subseteq Capabilities
    BY DEF Blocking, Relevant
  <2>2. /\ job' \in Jobs /\ job'.rev = job.rev /\ job'.pc = "idle" /\ job'.verdict = "incapable"
        /\ job'.blamed = Blocking /\ job'.main = job.main /\ job'.scope = job.scope
    BY <1>2, <1>4, <2>1 DEF Jobs
  <2>3. ContentTypeOK'
    BY <1>1, <1>2, <1>4, <2>2 DEF ContentTypeOK
  <2>4. Groups'
    BY <2>2 DEF Groups, ClientStarted
  <2>5. Blocking' = Blocking
    BY <2>2 DEF Blocking, CapabilityStatus
  <2>6. Verdicts'
    BY <1>4, <2>2, <2>5 DEF Verdicts
  <2>7. Options'
    BY <1>1, <1>2, <2>2 DEF Options, ClientStarted
  <2> QED BY <1>3, <2>3, <2>4, <2>6, <2>7 DEF ContentInductive
<1>5. CASE /\ Blocking = {} /\ job' = [job EXCEPT !.pc = "content", !.argv = PlannedFlags]
           /\ group' = [kind \in Delivering |-> [NoGroup EXCEPT !.todo = Of(job.rev, kind)]]
  <2>1. PlannedFlags \subseteq MainFlags
    BY DEF PlannedFlags, FlagOf, MainFlags
  <2>2. /\ job' \in Jobs /\ job'.rev = job.rev /\ job'.pc = "content" /\ job'.verdict = "none"
        /\ job'.argv = PlannedFlags /\ job'.main = job.main /\ job'.scope = job.scope
    BY <1>2, <1>5, <2>1 DEF Jobs
  <2>3. \A kind \in Delivering :
          /\ group'[kind] \in GroupStates /\ group'[kind].todo = Of(job.rev, kind)
          /\ group'[kind].now = Unknown /\ group'[kind].failed = {}
    BY <1>2, <1>5, Entries DEF GroupStates, NoGroup, Jobs, Of
  <2>4. group' \in [Delivering -> GroupStates]
    BY <1>5, <2>3
  <2>5. ContentTypeOK'
    BY <1>1, <1>2, <2>2, <2>4 DEF ContentTypeOK
  <2>6. ASSUME NEW kind \in Delivering PROVE GroupOK(kind)'
    <3>1. \A ref \in Of(job.rev, kind) : Key(ref) \in Keys
      BY <1>2, KeyOf DEF Jobs, Of
    <3> QED BY <1>1, <1>2, <2>2, <2>3, <3>1 DEF GroupOK, Delivers, Key, Of
  <2>7. Groups'
    BY <2>2, <2>6 DEF Groups, ClientStarted
  <2>8. Verdicts'
    BY <2>2 DEF Verdicts
  <2>9. Blocking' = Blocking /\ PlannedFlags' = PlannedFlags
    BY <2>2 DEF Blocking, PlannedFlags, CapabilityStatus
  <2>10. Options'
    BY <1>1, <1>2, <1>5, <2>2, <2>9 DEF Options
  <2> QED BY <1>3, <2>5, <2>7, <2>8, <2>10 DEF ContentInductive
<1> QED BY <1>4, <1>5 DEF Compile

LEMMA ProbeStep == ASSUME ContentInductive, ProbeMain \/ ProbeScope PROVE ContentInductive'
<1>1. /\ UNCHANGED <<client, group, out, mishaps>> /\ UNCHANGED supplyVars
      /\ ContentTypeOK /\ Groups /\ Verdicts /\ Options /\ job \in Jobs
  BY ContentTypes DEF ProbeMain, ProbeScope, KeepLibrary, ContentInductive
<1>2. SupplyInductive'
  BY <1>1, SupplyStep DEF ContentInductive
<1>3. client.main \in [MainFlags -> Readings] /\ client.scope \in Readings
      /\ \A flag \in Valueless : client.main[flag] # "other"
  BY <1>1, ContentAssumption DEF ContentTypeOK
<1>4. PICK main \in {client.main, job.main, Unknown}, scope \in {client.scope, job.scope, Unknown},
           pc \in {"mainProbed", "compile"} :
        job' = [job EXCEPT !.main = main, !.scope = scope, !.pc = pc]
  <2>1. ASSUME NEW main \in {client.main, Unknown}, job' = [job EXCEPT !.main = main, !.pc = "mainProbed"]
        PROVE  job' = [job EXCEPT !.main = main, !.scope = job.scope, !.pc = "mainProbed"]
    BY <1>1, <2>1 DEF Jobs
  <2>2. ASSUME NEW scope \in {client.scope, Unknown}, job' = [job EXCEPT !.scope = scope, !.pc = "compile"]
        PROVE  job' = [job EXCEPT !.main = job.main, !.scope = scope, !.pc = "compile"]
    BY <1>1, <2>2 DEF Jobs
  <2>3. CASE ProbeMain
    BY <2>1, <2>3 DEF ProbeMain
  <2>4. CASE ProbeScope
    BY <2>2, <2>4 DEF ProbeScope
  <2> QED BY <2>3, <2>4
<1>5. /\ job' \in Jobs /\ job'.verdict = job.verdict /\ job'.pc = pc /\ job'.main = main
      /\ job.verdict = "none" /\ job.pc \in {"probe", "mainProbed"}
  BY <1>1, <1>3, <1>4 DEF Jobs, ProbeMain, ProbeScope, Verdicts
<1>6. ContentTypeOK'
  BY <1>1, <1>5 DEF ContentTypeOK
<1>7. Groups'
  BY <1>1, <1>5 DEF Groups, ClientStarted
<1>8. Verdicts'
  BY <1>5 DEF Verdicts
<1>9. Options'
  BY <1>1, <1>3, <1>5 DEF Options, ClientStarted
<1> QED BY <1>2, <1>6, <1>7, <1>8, <1>9 DEF ContentInductive

LEMMA BeginLaunchStep == ASSUME ContentInductive, BeginLaunch PROVE ContentInductive'
<1>1. /\ ContentTypeOK /\ Groups /\ SupplyInductive /\ SupplyTypeOK
      /\ UNCHANGED <<library, author, revisions, edits, client, group, out>>
      /\ edited' = [edited EXCEPT !["launch"] = {}]
      /\ mishaps' = [mishaps EXCEPT !.upgraded = FALSE]
      /\ job.pc = "idle" /\ job.verdict = "none"
  BY DEF BeginLaunch, ContentInductive, SupplyInductive
<1>2. PICK rev \in revisions : job' = [NoJob EXCEPT !.pc = "probe", !.rev = rev]
  BY DEF BeginLaunch
<1>3. rev \subseteq References
  BY <1>1 DEF SupplyTypeOK
<1>4. /\ job' \in Jobs /\ job'.pc = "probe" /\ job'.verdict = "none" /\ job'.main = Unknown
  BY <1>2, <1>3 DEF NoJob, Jobs
<1>5. /\ edited' \in [{"scan", "launch"} -> SUBSET Things] /\ edited'["scan"] = edited["scan"]
  BY <1>1, Author
<1>6. SupplyInductive'
  BY <1>1, <1>5 DEF SupplyInductive, SupplyTypeOK, Scanning, ReadSoFar, RefusedForCause,
     Still, Has, Linked, Listing, Begun, Listed, Supplied, Lexical, SameName, Plain, SkillRef
<1>7. mishaps' \in [upgrades : 0..MaxUpgrades, upgraded : BOOLEAN, faults : 0..MaxFaults]
  BY <1>1 DEF ContentTypeOK
<1>8. ContentTypeOK'
  BY <1>1, <1>4, <1>7 DEF ContentTypeOK
<1>9. Groups'
  BY <1>1, <1>4 DEF Groups, ClientStarted
<1>10. Verdicts' /\ Options'
  BY <1>4 DEF Verdicts, Options, ClientStarted
<1> QED BY <1>6, <1>8, <1>9, <1>10 DEF ContentInductive

LEMMA UpgradeStep == ASSUME ContentInductive, Upgrade PROVE ContentInductive'
<1>1. /\ ContentTypeOK /\ Groups /\ Verdicts /\ Options /\ UNCHANGED <<job, group, out>>
      /\ UNCHANGED supplyVars /\ client' \in Versions /\ mishaps.upgrades < MaxUpgrades
      /\ mishaps' = [mishaps EXCEPT !.upgrades = @ + 1, !.upgraded = TRUE]
  BY DEF Upgrade, KeepLibrary, ContentInductive
<1>2. SupplyInductive' /\ UNCHANGED <<library, edited>>
  BY <1>1, SupplyStep DEF ContentInductive, supplyVars
<1>3. mishaps \in [upgrades : 0..MaxUpgrades, upgraded : BOOLEAN, faults : 0..MaxFaults]
      /\ MaxUpgrades \in Nat
  BY <1>1, ContentAssumption DEF ContentTypeOK
<1>4. mishaps.upgrades + 1 \in 0..MaxUpgrades
  BY <1>1, <1>3
<1>5. /\ mishaps' \in [upgrades : 0..MaxUpgrades, upgraded : BOOLEAN, faults : 0..MaxFaults]
      /\ mishaps'.upgraded /\ mishaps'.faults = mishaps.faults
  BY <1>1, <1>3, <1>4
<1>6. ContentTypeOK'
  BY <1>1, <1>5 DEF ContentTypeOK
<1>7. \A kind \in Delivering : GroupOK(kind) => GroupOK(kind)'
  BY <1>1, <1>2, <1>5, OtherGroup
<1>8. Groups'
  BY <1>1, <1>7 DEF Groups, ClientStarted, Uses
<1>9. Blocking' = Blocking /\ PlannedFlags' = PlannedFlags /\ (Differences' <=> Differences)
      /\ Failing' = Failing
  BY <1>1 DEF Blocking, PlannedFlags, CapabilityStatus, Differences, Degraded, Failing
<1>10. Verdicts'
  BY <1>1, <1>9 DEF Verdicts
<1>11. Options'
  BY <1>1, <1>5, <1>9 DEF Options, ClientStarted
<1> QED BY <1>2, <1>6, <1>8, <1>10, <1>11 DEF ContentInductive

\* The author's commands touch neither the library nor the launch.
LEMMA AuthorStep == ASSUME ContentInductive, Supplying, UNCHANGED jobVars PROVE ContentInductive'
<1>1. /\ ContentTypeOK /\ Groups /\ Verdicts /\ Options
      /\ UNCHANGED <<client, job, group, out, mishaps>> /\ SupplyInductive
  BY DEF ContentInductive, jobVars
<1>2. SupplyInductive'
  BY <1>1, SupplyStep
<1>3. library' = library /\ edited'["launch"] = edited["launch"]
  BY <1>1, Author DEF SupplyInductive, Supplying, BeginSupply, ListGroup, OpenSkill, ReadFile,
     CloseSkill, CloseGroup, PrintCandidate, GiveUp, EstablishSupplied, EstablishByHand,
     Establish, QuietSupply
<1>4. ASSUME NEW kind \in Delivering, GroupOK(kind) PROVE GroupOK(kind)'
  <2>1. /\ \A ref : (Apart(ref)' <=> Apart(ref)) /\ (HasCause(ref)' <=> HasCause(ref))
                    /\ (Delivered(ref)' <=> Delivered(ref))
        /\ \A thing : Kept(thing)' <=> Kept(thing)
        /\ \A left, thing : ButFor(left, thing)' = ButFor(left, thing)
        /\ \A g : Checking(g)' <=> Checking(g)
    BY <1>1, <1>3 DEF Apart, HasCause, Delivered, Kept, Listing, Linked, Has, ButFor, Checking, Key, Of
  <2>2. Delivers(kind, group[kind])'
    BY <1>1, <1>4, <2>1 DEF GroupOK, Delivers, Key
  <2>3. ASSUME group[kind].now # Unknown PROVE InWork(kind, group[kind])'
    <3>1. InWork(kind, group[kind])
      BY <1>4, <2>3 DEF GroupOK
    <3>2. \A thing : Listing(thing)' = Listing(thing)
      BY <1>3 DEF Listing, Has
    <3> QED BY <1>1, <1>3, <2>1, <3>1, <3>2 DEF InWork, Key
  <2> QED BY <1>1, <2>2, <2>3 DEF GroupOK
<1>5. Groups'
  BY <1>1, <1>4 DEF Groups, ClientStarted, Uses
<1>6. ContentTypeOK'
  BY <1>1 DEF ContentTypeOK
<1>7. Verdicts' /\ Options'
  BY <1>1 DEF Verdicts, Options, ClientStarted, Blocking, PlannedFlags, CapabilityStatus, Failing,
     Differences, Degraded
<1> QED BY <1>2, <1>5, <1>6, <1>7 DEF ContentInductive

LEMMA OwnerStep ==
  ASSUME ContentInductive, job.verdict = "none", Edit, UNCHANGED jobVars
  PROVE  ContentInductive'
<1>1. /\ ContentTypeOK /\ Groups /\ Verdicts /\ Options
      /\ UNCHANGED <<client, job, group, out, mishaps>> /\ SupplyInductive /\ SupplyTypeOK
  BY DEF ContentInductive, SupplyInductive, jobVars
<1>2. SupplyInductive'
  BY <1>1, SupplyStep
<1>3. \A thing \in Things :
        /\ Kept(thing)' => Kept(thing) /\ library'[thing] = library[thing]
        /\ Kept(thing) => library'[thing] = library[thing] \/ ~Kept(thing)'
  BY <1>1, EditIs DEF Kept
<1>4. \A thing \in Things : library'[thing] = library[thing] \/ ~Kept(thing)'
  BY <1>1, EditIs DEF Kept
<1>5. \A thing \in Things : Kept(thing)' =>
        /\ Listing(thing)' = Listing(thing) /\ (Linked(Files, thing)' <=> Linked(Files, thing))
        /\ \A left : ButFor(left, thing)' = ButFor(left, thing)
  BY <1>3 DEF Listing, Linked, Has, ButFor
<1>6. \A ref : Apart(ref)' <=> Apart(ref)
  BY <1>1 DEF Apart, Key, Of
<1>7. ASSUME NEW ref, HasCause(ref) PROVE HasCause(ref)'
  <2>1. CASE ref.at \notin Things
    BY <2>1 DEF HasCause
  <2>2. CASE ref.at \in Things /\ ~Kept(ref.at)'
    BY <2>2 DEF HasCause, Kept
  <2>3. CASE ref.at \in Things /\ Kept(ref.at)'
    <3>1. /\ Kept(ref.at) /\ library'[ref.at] = library[ref.at]
          /\ Listing(ref.at)' = Listing(ref.at)
          /\ Linked(Files, ref.at)' <=> Linked(Files, ref.at)
      BY <1>3, <1>5, <2>3
    <3> QED BY <1>7, <3>1 DEF HasCause, Kept
  <2> QED BY <2>1, <2>2, <2>3
<1>8. ASSUME NEW kind \in Delivering, GroupOK(kind) PROVE GroupOK(kind)'
  <2>1. PICK g : g = group[kind]
    OBVIOUS
  <2>2. group'[kind] = g /\ Delivers(kind, g) /\ (g.now # Unknown => InWork(kind, g))
    BY <1>1, <1>8, <2>1 DEF GroupOK
  <2>3. Delivers(kind, g)'
    <3>1. (g.todo \subseteq Of(job.rev, kind))'
          /\ (\A ref \in g.todo : Apart(ref) => out[kind][Key(ref)] = Nothing)'
      BY <1>1, <1>6, <2>2 DEF Delivers, Key
    <3>2. ASSUME NEW ref \in Of(job.rev, kind) \ (g.todo \cup {g.now} \cup g.failed)
          PROVE  ref.at \in Things /\ (Kept(ref.at)' /\ Apart(ref)' => Delivered(ref)')
      <4>1. ref.at \in Things /\ (Kept(ref.at) /\ Apart(ref) => Delivered(ref))
        BY <2>2, <3>2 DEF Delivers
      <4> QED BY <1>1, <1>3, <1>6, <4>1 DEF Delivered, Key
    <3>3. (g.failed # {} => mishaps.faults > 0 \/ \E ref \in Of(job.rev, kind) : HasCause(ref))'
      BY <1>1, <1>7, <2>2 DEF Delivers
    <3> QED BY <1>1, <3>1, <3>2, <3>3 DEF Delivers
  <2>4. ASSUME g.now # Unknown PROVE InWork(kind, g)'
    <3>1. InWork(kind, g) /\ g.now.at \in Things
      BY <2>2, <2>4 DEF InWork
    <3>2. Kept(g.now.at)' /\ Checking(g) => Checking(g)'
      BY <1>5, <3>1 DEF Checking
    <3> QED BY <1>1, <1>3, <1>5, <1>6, <3>1, <3>2 DEF InWork, Key
  <2> QED BY <2>2, <2>3, <2>4 DEF GroupOK
<1>9. Groups'
  BY <1>1, <1>8 DEF Groups, ClientStarted, Uses
<1>10. ContentTypeOK'
  BY <1>1 DEF ContentTypeOK
<1>11. Verdicts' /\ Options'
  BY <1>1 DEF Verdicts, Options, ClientStarted, Blocking, PlannedFlags, CapabilityStatus, Failing,
     Differences, Degraded
<1> QED BY <1>2, <1>9, <1>10, <1>11 DEF ContentInductive

LEMMA ContentInitial == ASSUME ContentInit PROVE ContentInductive
<1>1. /\ job = NoJob /\ group = [kind \in Delivering |-> NoGroup]
      /\ out = [kind \in Delivering |-> [key \in Keys |-> Nothing]]
      /\ mishaps = [upgrades |-> 0, upgraded |-> FALSE, faults |-> 0]
      /\ client \in Versions /\ SupplyInductive
  BY SupplyInitial DEF ContentInit
<1>2. job \in Jobs /\ NoGroup \in GroupStates
  BY <1>1, Entries DEF NoJob, Jobs, NoGroup, GroupStates
<1>3. ContentTypeOK
  BY <1>1, <1>2, Entries, ContentAssumption DEF ContentTypeOK
<1>4. Groups /\ Verdicts /\ Options
  BY <1>1 DEF Groups, Verdicts, Options, ClientStarted, NoJob
<1> QED BY <1>1, <1>3, <1>4 DEF ContentInductive

LEMMA ContentStep == ASSUME ContentInductive, [ContentNext]_contentVars PROVE ContentInductive'
<1>1. CASE UNCHANGED contentVars
  <2>1. /\ UNCHANGED <<client, job, group, out, mishaps>> /\ UNCHANGED supplyVars
        /\ UNCHANGED <<library, edited>> /\ ContentTypeOK /\ Groups /\ Verdicts /\ Options
    BY <1>1 DEF contentVars, supplyVars, ContentInductive
  <2>2. SupplyInductive'
    BY <2>1, SupplyStep DEF ContentInductive
  <2>3. \A kind \in Delivering : GroupOK(kind) => GroupOK(kind)'
    BY <2>1, OtherGroup
  <2>4. Groups'
    BY <2>1, <2>3 DEF Groups, ClientStarted, Uses
  <2>5. ContentTypeOK'
    BY <2>1 DEF ContentTypeOK
  <2>6. Verdicts' /\ Options'
    BY <2>1 DEF Verdicts, Options, ClientStarted, Blocking, PlannedFlags, CapabilityStatus, Failing,
       Differences, Degraded
  <2> QED BY <2>2, <2>4, <2>5, <2>6 DEF ContentInductive
<1>2. CASE Launching
  BY <1>2, ProbeStep, CompileStep, DecideStep, SpawnStep, TakeStep, CheckStep, CompareStep,
     ListStep, CopyStep, CopiedStep DEF Launching, MaterializeGroup
<1> QED BY <1>1, <1>2, AuthorStep, OwnerStep, BeginLaunchStep, UpgradeStep, WriteFailsStep
        DEF ContentNext

-----------------------------------------------------------------------------
\* What the scan of the author and the three groups of a launch have made of a
\* thing stays right until somebody edits the thing, whatever else happens
\* (supply-fs.ts, content-materializer.ts).
THEOREM ContentInvariance == ContentSpec => []ContentInductive
<1>1. ContentInit => ContentInductive
  BY ContentInitial
<1>2. ContentInductive /\ [ContentNext]_contentVars => ContentInductive'
  BY ContentStep
<1> QED BY <1>1, <1>2, PTL DEF ContentSpec

\* A printed candidate has every skill of every declared group as it is on the
\* disk, but for what was edited meanwhile, and a scan of a library at rest is
\* refused for a reason (supply-fs.ts:300-454).
THEOREM CandidateComplete == ContentSpec => []CandidateIsComplete
<1>1. ContentInductive => CandidateIsComplete
  BY PrintedIsComplete DEF ContentInductive
<1> QED BY <1>1, ContentInvariance, PTL

\* A client that is started has everything its revision references, as it was
\* fingerprinted, but for what was edited during the launch or shares its place
\* (content-materializer.ts:97-263, claude-launch.ts:543-571).
THEOREM DeliveredAsRecorded == ContentSpec => []DeliveredIsRecorded
<1>1. ASSUME ContentInductive, ClientStarted, NEW ref \in job.rev, ref.kind \in Delivering
      PROVE  /\ DeliveryFlags(ref.kind) \subseteq job.argv /\ ref.at \in Things
             /\ ref.at \notin edited["launch"] /\ Apart(ref) => Delivered(ref)
  <2>1. PICK kind \in Delivering : kind = ref.kind
    BY <1>1
  <2>2. /\ GroupOK(kind) /\ group[kind].todo = {} /\ group[kind].now = Unknown
        /\ group[kind].failed = {}
        /\ Uses(job.rev, kind) => DeliveryFlags(kind) \subseteq job.argv
    BY <1>1 DEF ContentInductive, Groups, ClientStarted
  <2>3. ref \in Of(job.rev, kind) /\ ref \in References /\ ref # Unknown
    BY <1>1, <2>1, ContentTypes DEF ContentInductive, Of, Jobs
  <2>4. ref.at \in Things /\ (Kept(ref.at) /\ Apart(ref) => Delivered(ref))
    BY <2>2, <2>3 DEF GroupOK, Delivers
  <2> QED BY <2>1, <2>2, <2>3, <2>4 DEF Kept, Uses
<1>2. ContentInductive => DeliveredIsRecorded
  BY <1>1 DEF DeliveredIsRecorded
<1> QED BY <1>2, ContentInvariance, PTL

\* What the status of a capability says of its evidence.
LEMMA StatusSays ==
  ASSUME ContentInductive, NEW c \in Capabilities, c # "hook-deny"
  PROVE  /\ CapabilityStatus(c) \in {"supported", "degraded", "unsupported", "unknown"}
         /\ CapabilityStatus(c) = "unknown" <=>
              job.main = Unknown \/ (c = "mcp-scope" /\ job.scope = Unknown)
         /\ CapabilityStatus(c) = "unsupported" => Evidence(c) = {"absent"}
         /\ CapabilityStatus(c) \in {"supported", "degraded"} => Evidence(c) # {"absent"}
         /\ CapabilityStatus(c) = "supported" => Evidence(c) = {"exact"}
<1>1. job \in Jobs /\ (job.main # Unknown => \A flag \in Valueless : job.main[flag] # "other")
  BY ContentTypes DEF ContentInductive, Options
<1>2. CASE job.main = Unknown
  BY <1>2 DEF CapabilityStatus, Status
<1>3. CASE job.main # Unknown
  <2>1. PICK main \in [MainFlags -> Readings] : main = job.main
    BY <1>1, <1>3 DEF Jobs
  <2>2. PICK permission, sources, strict, plugin, prompt :
          /\ permission = main["--permission-mode"] /\ sources = main["--setting-sources"]
          /\ strict = main["--strict-mcp-config"] /\ plugin = main["--plugin-dir"]
          /\ prompt = main["--append-system-prompt"]
    OBVIOUS
  <2>3. /\ permission \in Readings /\ sources \in Readings
        /\ strict \in {"absent", "exact"} /\ plugin \in {"absent", "exact"}
        /\ prompt \in {"absent", "exact"}
    BY <1>1, <1>3, <2>1, <2>2 DEF Readings, MainFlags, Valueless
  <2>4. CASE c = "permission-mode"
    BY <1>3, <2>1, <2>2, <2>3, <2>4 DEF CapabilityStatus, Status, Evidence, Enumerated, Readings
  <2>5. CASE c = "setting-sources"
    BY <1>3, <2>1, <2>2, <2>3, <2>5 DEF CapabilityStatus, Status, Evidence, Enumerated, Readings
  <2>6. CASE c = "plugin-dir"
    BY <1>3, <2>1, <2>2, <2>3, <2>6 DEF CapabilityStatus, Status, Evidence, Present, Readings
  <2>7. CASE c = "append-prompt"
    BY <1>3, <2>1, <2>2, <2>3, <2>7 DEF CapabilityStatus, Status, Evidence, Present, Readings
  <2>8. CASE c = "mcp-scope"
    BY <1>3, <2>1, <2>2, <2>3, <2>8 DEF CapabilityStatus, Status, Evidence, McpScope
  <2> QED BY <2>4, <2>5, <2>6, <2>7, <2>8 DEF Capabilities
<1> QED BY <1>2, <1>3

\* A launch that is called applied or degraded has the controls it claims, and
\* passes no option that the help of the probed client does not have, but for
\* --mcp-config and, in a degraded launch with servers, --strict-mcp-config
\* (assembly-manifest.ts:214-264, claude-launch.ts:107-132).
THEOREM ClaimsTrue == ContentSpec => []ClaimsAreTrue
<1>1. ASSUME ContentInductive, ClientStarted PROVE ClaimsAreTrue
  <2>1. /\ job \in Jobs /\ Blocking = {} /\ PlannedFlags \subseteq job.argv
        /\ job.argv \subseteq
             PlannedFlags \cup UNION {DeliveryFlags(kind) : kind \in {k \in Delivering : Uses(job.rev, k)}}
        /\ (job.verdict = "applied" => ~Differences)
        /\ (~mishaps.upgraded /\ job.main # Unknown => job.main = client.main)
    BY <1>1, ContentTypes DEF ContentInductive, Options, Verdicts
  <2>2. ASSUME NEW c \in Relevant(job.rev), c # "hook-deny"
        PROVE  /\ CapabilityStatus(c) \in {"supported", "degraded"} /\ Evidence(c) # {"absent"}
               /\ FlagOf(c) \subseteq job.argv /\ job.main # Unknown
               /\ job.verdict = "applied" => Evidence(c) = {"exact"}
    <3>1. c \in Capabilities /\ Required(c)
      BY <2>2 DEF Relevant, Required
    <3>2. CapabilityStatus(c) \in {"supported", "degraded"}
      BY <1>1, <2>1, <2>2, <3>1, StatusSays DEF Blocking
    <3>3. FlagOf(c) \subseteq PlannedFlags
      BY <2>2, <3>2 DEF PlannedFlags
    <3>4. job.verdict = "applied" => CapabilityStatus(c) = "supported"
      BY <2>1, <2>2 DEF Differences, Degraded
    <3> QED BY <1>1, <2>1, <2>2, <3>1, <3>2, <3>3, <3>4, StatusSays
  <2>3. ASSUME job.verdict = "applied", NEW ref \in job.rev PROVE ref.kind \in Delivering
    <3>1. ref.kind \in Kinds /\ ref.kind \notin {"hook", "plugin"}
      BY <2>1, <2>3 DEF Jobs, References, Differences, Uses, Of
    <3> QED BY <3>1 DEF Kinds, Delivering
  <2>4. ASSUME NEW flag \in job.argv, flag \notin {"--strict-mcp-config", "--mcp-config"}
        PROVE  flag \in MainFlags /\ job.main[flag] # "absent"
    <3>1. CASE flag \in PlannedFlags
      <4>1. PICK c \in Relevant(job.rev) : flag \in FlagOf(c)
        BY <3>1 DEF PlannedFlags
      <4>2. \/ c = "permission-mode" /\ flag = "--permission-mode"
            \/ c = "setting-sources" /\ flag = "--setting-sources"
        BY <2>4, <4>1 DEF FlagOf
      <4>3. Evidence(c) # {"absent"}
        BY <2>2, <4>1, <4>2
      <4> QED BY <4>2, <4>3 DEF Evidence, MainFlags
    <3>2. ASSUME NEW kind \in Delivering, Uses(job.rev, kind), flag \in DeliveryFlags(kind)
          PROVE  flag \in MainFlags /\ job.main[flag] # "absent"
      <4>1. \/ kind = "instruction" /\ flag = "--append-system-prompt"
            \/ kind = "skill" /\ flag = "--plugin-dir"
        BY <2>4, <3>2 DEF DeliveryFlags, Delivering
      <4>2. CASE kind = "instruction"
        <5>1. "append-prompt" \in Relevant(job.rev)
          BY <3>2, <4>2 DEF Relevant, Capabilities
        <5>2. Evidence("append-prompt") # {"absent"}
          BY <2>2, <5>1
        <5> QED BY <4>1, <4>2, <5>2 DEF Evidence, MainFlags
      <4>3. CASE kind = "skill"
        <5>1. "plugin-dir" \in Relevant(job.rev)
          BY <3>2, <4>3 DEF Relevant, Capabilities
        <5>2. Evidence("plugin-dir") # {"absent"}
          BY <2>2, <5>1
        <5> QED BY <4>1, <4>3, <5>2 DEF Evidence, MainFlags
      <4> QED BY <4>1, <4>2, <4>3
    <3> QED BY <2>1, <2>4, <3>1, <3>2
  <2>5. ASSUME NEW flag \in job.argv, flag \in {"--strict-mcp-config", "--mcp-config"}
        PROVE  Uses(job.rev, "mcp")
    <3>1. CASE flag \in PlannedFlags
      BY <2>5, <3>1 DEF PlannedFlags, FlagOf, Relevant
    <3>2. ASSUME NEW kind \in Delivering, Uses(job.rev, kind), flag \in DeliveryFlags(kind)
          PROVE  Uses(job.rev, "mcp")
      BY <2>5, <3>2 DEF DeliveryFlags, Delivering
    <3> QED BY <2>1, <2>5, <3>1, <3>2
  <2>6. ASSUME "--strict-mcp-config" \in job.argv
        PROVE  \/ job.main["--strict-mcp-config"] # "absent"
               \/ job.scope = "exact" /\ job.verdict = "degraded"
    <3>1. "mcp-scope" \in Relevant(job.rev)
      BY <2>5, <2>6 DEF Relevant, Capabilities
    <3>2. /\ Evidence("mcp-scope") # {"absent"}
          /\ job.verdict = "applied" => Evidence("mcp-scope") = {"exact"}
      BY <2>2, <3>1
    <3>3. Evidence("mcp-scope") = {job.main["--strict-mcp-config"],
                                   IF job.scope = "exact" THEN "exact" ELSE "absent"}
      BY DEF Evidence
    <3> QED BY <1>1, <3>2, <3>3 DEF ClientStarted
  <2>7. mishaps.upgraded \/ job.main = client.main
    <3>1. "permission-mode" \in Relevant(job.rev)
      BY DEF Relevant, Capabilities
    <3> QED BY <2>1, <2>2, <3>1
  <2>8. ASSUME NEW flag \in job.argv
        PROVE  \/ flag \in MainFlags /\ job.main[flag] # "absent"
               \/ flag = "--mcp-config" /\ Uses(job.rev, "mcp")
               \/ /\ flag = "--strict-mcp-config"
                  /\ job.scope = "exact" /\ job.verdict = "degraded"
    BY <2>4, <2>5, <2>6, <2>8 DEF MainFlags
  <2> QED BY <2>2, <2>3, <2>7, <2>8 DEF ClaimsAreTrue
<1>2. ContentInductive => ClaimsAreTrue
  BY <1>1 DEF ClaimsAreTrue
<1> QED BY <1>2, ContentInvariance, PTL

\* What a refused launch blames is to blame (assembly-manifest.ts:214-264, claude-launch.ts:158-178).
THEOREM BlameHasCause == ContentSpec => []BlamedForCause
<1>1. ASSUME ContentInductive, job.verdict = "incapable", NEW c \in job.blamed
      PROVE  /\ c \in Relevant(job.rev)
             /\ job.main = Unknown \/ job.scope = Unknown \/ Evidence(c) = {"absent"}
  <2>1. c \in Relevant(job.rev) /\ Required(c) /\ CapabilityStatus(c) \in {"unsupported", "unknown"}
    BY <1>1 DEF ContentInductive, Verdicts, Blocking
  <2>2. c \in Capabilities /\ c # "hook-deny"
    BY <2>1 DEF Relevant, Required
  <2> QED BY <1>1, <2>1, <2>2, StatusSays
<1>2. ASSUME ContentInductive, job.verdict = "undelivered", NEW c \in job.blamed
      PROVE  \E kind \in Delivering :
               /\ Governing(kind) = c
               /\ mishaps.faults > 0 \/ \E ref \in Of(job.rev, kind) : HasCause(ref)
  <2>1. PICK kind \in Failing : c = Governing(kind)
    BY <1>2 DEF ContentInductive, Verdicts
  <2>2. kind \in Delivering /\ group[kind].failed # {}
    BY DEF Failing
  <2>3. GroupOK(kind)
    BY <1>2, <2>2 DEF ContentInductive, Groups
  <2> QED BY <2>1, <2>2, <2>3 DEF GroupOK, Delivers
<1>3. ASSUME ContentInductive, job.verdict \in {"incapable", "undelivered"} PROVE job.blamed # {}
  BY <1>3 DEF ContentInductive, Verdicts
<1>4. ContentInductive => BlamedForCause
  BY <1>1, <1>2, <1>3 DEF BlamedForCause
<1> QED BY <1>4, ContentInvariance, PTL
=============================================================================
