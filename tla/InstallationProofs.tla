-------------------------- MODULE InstallationProofs --------------------------
(***************************************************************************)
(* Proofs about Installation, for any commands, bundles, files and edits.  *)
(***************************************************************************)
EXTENDS Installation, TLAPS

-----------------------------------------------------------------------------
(* What a command is about.                                                *)

Removing == {"inspect", "check", "remove", "receipt", "directories", "root"}

RunOK(r) ==
  /\ r.pc = "idle" <=> r.command = None
  /\ r.pc \in {"look", "stage", "commit"} => r.command = "apply"
  /\ r.pc = "read" => r.command \in {"status", "uninstall"}
  /\ r.pc = "examine" => r.command \in {"apply", "status"}
  /\ r.pc \in Removing => r.command = "uninstall"
  /\ r.pc \notin {"idle", "read"} => r.bundle \in Bundles
  /\ r.pc = "remove" => r.file \in Names
  /\ r.pc # "examine" => r.drift = FALSE
  /\ r.answer # None => r.pc = "idle"
  /\ r.answer \in {"configured", "drifted"} => r.bundle \in Bundles

\* The files of a receipt are all that apply has made.
ReceiptInv ==
  receipt \in Bundles => \A f \in Names : file[f] \in Contents => f \in Owned(receipt)

\* Unless that has happened once, no apply is at work beside an uninstallation.
ApartInv ==
  ~overlap => \A p, q \in Processes :
    ~(run[p].command = "apply" /\ run[q].command = "uninstall")

\* What is about to be removed is not the user's.
UsersInv ==
  ~raced => ~lost /\ \A p \in Processes : run[p].pc = "remove" => file[run[p].file] \notin Mine

\* While nobody changes the tree: what has been looked at is as it was found.
ExamineOK(r) ==
  r.pc = "examine" /\ ~r.disturbed =>
    /\ receipt = r.bundle /\ r.todo \subseteq Owned(r.bundle)
    /\ \A f \in Owned(r.bundle) \ r.todo : r.drift \/ Unchanged(r.bundle, f)
    /\ r.drift /\ faults = 0 => \E f \in Owned(r.bundle) : ~Unchanged(r.bundle, f)

\* What apply has made, and an uninstallation has yet to remove.
Left(files) == \A f \in Names : file[f] \in Contents => f \in files
RemoveOK(r) ==
  /\ r.pc = "inspect" => Left(r.todo \cup r.removals)
  /\ r.pc = "check"   => Left(r.removals)
  /\ r.pc = "remove"  => Left(r.removals \cup {r.file})
  /\ r.pc = "receipt" => Left({})
  /\ r.pc \in {"directories", "root"} \/ r.answer = "removed" => receipt = None /\ Left({})

AnswerOK(r) ==
  /\ r.answer = "configured" => Whole(r.bundle)
  /\ r.answer = "drifted" /\ faults = 0 => ~Whole(r.bundle)

RunsInv ==
  \A p \in Processes : /\ RunOK(run[p]) /\ ExamineOK(run[p]) /\ AnswerOK(run[p])
                       /\ ~overlap => RemoveOK(run[p])

Inductive == TypeOK /\ ReceiptInv /\ ApartInv /\ UsersInv /\ RunsInv

-----------------------------------------------------------------------------
(* What a step of one command leaves of the others.                        *)

LEMMA ContentsApart ==
  /\ \A c \in Contents : c \notin Mine /\ c # None
  /\ \A b \in Bundles, f \in Names : Content(b, f) \in Contents
  /\ None \notin Bundles /\ Spoilt \notin Bundles
BY InstallationAssumption DEF Contents, Content, Mine, None, Spoilt

LEMMA Knows ==
  ASSUME Inductive, NEW p \in Processes
  PROVE  /\ run[p] \in Runs /\ RunOK(run[p]) /\ ExamineOK(run[p]) /\ AnswerOK(run[p])
         /\ ~overlap => RemoveOK(run[p])
         /\ Idle \in Runs
BY DEF Inductive, TypeOK, RunsInv, Idle, Runs, Pcs, Answers

\* The bounds, and what is counted.
Counted ==
  /\ applies' \in 0..MaxApplies /\ edits' \in 0..MaxEdits
  /\ crashes' \in Nat /\ faults' \in Nat /\ crashes' + faults' <= MaxMishaps
  /\ faults' = 0 => faults = 0

LEMMA FaultIsCounted ==
  ASSUME Inductive, UNCHANGED <<applies, crashes, edits>>, Fault \/ Fine
  PROVE  Counted
<1>1. /\ crashes \in Nat /\ faults \in Nat /\ crashes + faults <= MaxMishaps
      /\ MaxMishaps \in Nat /\ applies' \in 0..MaxApplies /\ edits' \in 0..MaxEdits
  BY InstallationAssumption DEF Inductive, TypeOK
<1>2. CASE Fault
  <2>1. faults' = faults + 1 /\ crashes + faults < MaxMishaps
    BY <1>2 DEF Fault, Mishap
  <2>2. faults' \in Nat /\ crashes + faults' <= MaxMishaps /\ faults' # 0
    BY <1>1, <2>1
  <2>3. crashes' = crashes
    OBVIOUS
  <2> QED BY <1>1, <2>2, <2>3 DEF Counted
<1>3. CASE Fine
  BY <1>1, <1>3 DEF Counted, Fine
<1> QED BY <1>2, <1>3

\* An uninstallation beside an apply is remembered.
Together(p, to) ==
  \/ to.command \in {None, run[p].command}
  \/ \A q \in Processes \ {p} :
       run[q].pc # "idle" => {to.command, run[q].command} # {"apply", "uninstall"}

\* A step that leaves the tree.
LEMMA Quiet ==
  ASSUME Inductive, stranded' \in BOOLEAN, NEW p \in Processes,
         NEW to \in Runs, run' = [run EXCEPT ![p] = to],
         RunOK(to), UNCHANGED <<dirs, receipt, file, extra, lost, raced>>,
         overlap' \in BOOLEAN, overlap => overlap', Counted,
         overlap' \/ Together(p, to),
         ~raced /\ to.pc = "remove" => file[to.file] \notin Mine,
         ExamineOK(to)', AnswerOK(to)', ~overlap' => RemoveOK(to)'
  PROVE  Inductive'
<1>1. /\ run' \in [Processes -> Runs] /\ run'[p] = to
      /\ \A q \in Processes \ {p} : run'[q] = run[q]
  BY DEF Inductive, TypeOK
<1>2. TypeOK'
  BY <1>1 DEF Inductive, TypeOK, Counted, There
<1>3. ReceiptInv'
  BY DEF Inductive, ReceiptInv
<1>4. ApartInv'
  <2> SUFFICES ASSUME ~overlap', NEW q1 \in Processes, NEW q2 \in Processes,
                      run'[q1].command = "apply", run'[q2].command = "uninstall"
               PROVE  FALSE
    BY DEF ApartInv
  <2>1. \A q, r \in Processes : ~(run[q].command = "apply" /\ run[r].command = "uninstall")
    BY DEF Inductive, ApartInv
  <2>2. \A q \in Processes : run[q].command # None => run[q].pc # "idle"
    BY Knows DEF RunOK
  <2>3. CASE q1 = p
    <3>1. to.command = "apply" /\ q2 # p /\ run[q2].command = "uninstall" /\ run[q2].pc # "idle"
      BY <1>1, <2>2, <2>3 DEF None
    <3> QED BY <2>1, <2>3, <3>1 DEF Together, None
  <2>4. CASE q2 = p
    <3>1. to.command = "uninstall" /\ q1 # p /\ run[q1].command = "apply" /\ run[q1].pc # "idle"
      BY <1>1, <2>2, <2>4 DEF None
    <3> QED BY <2>1, <2>4, <3>1 DEF Together, None
  <2> QED BY <1>1, <2>1, <2>3, <2>4
<1>5. UsersInv'
  BY <1>1 DEF Inductive, UsersInv
<1>6. RunsInv'
  <2>1. ASSUME NEW q \in Processes, q # p
        PROVE  /\ RunOK(run[q])' /\ ExamineOK(run[q])' /\ AnswerOK(run[q])'
               /\ ~overlap' => RemoveOK(run[q])'
    <3>1. run'[q] = run[q]
      BY <1>1, <2>1
    <3>2. ExamineOK(run[q])' /\ AnswerOK(run[q])'
      BY <3>1, Knows DEF Counted, ExamineOK, AnswerOK, Whole, Unchanged
    <3>3. ~overlap' => RemoveOK(run[q])'
      BY <3>1, Knows DEF RemoveOK, Left
    <3> QED BY <3>1, <3>2, <3>3, Knows DEF RunOK
  <2>2. RunOK(to)'
    BY DEF RunOK
  <2> QED BY <1>1, <2>1, <2>2 DEF RunsInv
<1> QED BY <1>2, <1>3, <1>4, <1>5, <1>6 DEF Inductive

\* A command of which nobody knows whether the tree is still what it has seen.
LEMMA DisturbedIs ==
  ASSUME Inductive, NEW q \in Processes
  PROVE  /\ Disturbed(q) \in Runs /\ RunOK(Disturbed(q)) /\ Disturbed(q).answer = None
         /\ Disturbed(q).pc = run[q].pc /\ Disturbed(q).command = run[q].command
         /\ run[q].pc # "idle" =>
              /\ Disturbed(q).disturbed /\ Disturbed(q).file = run[q].file
              /\ Disturbed(q).todo = run[q].todo /\ Disturbed(q).removals = run[q].removals
<1>1. run[q] \in Runs /\ RunOK(run[q]) /\ Idle \in Runs
  BY Knows
<1>2. CASE At(q, "idle")
  BY <1>1, <1>2 DEF Disturbed, At, Idle, RunOK, None, Removing
<1>3. CASE ~At(q, "idle")
  <2> DEFINE d == [run[q] EXCEPT !.disturbed = TRUE]
  <2>1. Disturbed(q) = d
    BY <1>3 DEF Disturbed
  <2>2. /\ d \in Runs /\ d.disturbed /\ d.pc = run[q].pc /\ d.command = run[q].command
        /\ d.file = run[q].file /\ d.todo = run[q].todo /\ d.removals = run[q].removals
        /\ d.answer = run[q].answer /\ d.bundle = run[q].bundle
        /\ d.drift = run[q].drift
    BY <1>1 DEF Runs
  <2> HIDE DEF d
  <2>3. RunOK(d) /\ d.answer = None
    BY <1>1, <1>3, <2>2 DEF RunOK, At
  <2> QED BY <2>1, <2>2, <2>3
<1> QED BY <1>2, <1>3

\* The type of the tree.
TreeOK ==
  /\ dirs \in SUBSET Directories /\ (dirs # {} => There("root"))
  /\ receipt \in Bundles \cup {None, Spoilt} /\ (receipt # None => There(".agx"))
  /\ file \in [Names -> Contents \cup Mine \cup {None}] /\ extra \in BOOLEAN
  /\ (\E f \in Names : file[f] # None) => There("components")

\* A step that changes the tree.
LEMMA Disturbing ==
  ASSUME Inductive, stranded' \in BOOLEAN, NEW p \in Processes,
         run[p].pc # "idle", NEW to \in Runs, Disturbs(p, to),
         RunOK(to), to.command \in {None, run[p].command}, to.pc \notin {"remove", "examine"},
         TreeOK', ReceiptInv', UNCHANGED <<raced, overlap>>, lost' \in BOOLEAN, Counted,
         ~raced => ~lost' /\ \A q \in Processes :
                     run[q].pc = "remove" => file'[run[q].file] \notin Mine,
         AnswerOK(to)', ~overlap => RemoveOK(to)',
         \/ run[p].command = "apply"
         \/ /\ receipt = None => receipt' = None
            /\ \A f \in Names : file'[f] \in Contents => file[f] \in Contents
  PROVE  Inductive'
<1>1. /\ run' \in [Processes -> Runs] /\ run'[p] = to
      /\ \A q \in Processes \ {p} : run'[q] = Disturbed(q)
  BY DisturbedIs DEF Disturbs
<1>2. TypeOK'
  BY <1>1 DEF Inductive, TypeOK, TreeOK, Counted
<1>4. ApartInv'
  <2>1. \A q \in Processes : run'[q].command \in {None, run[q].command}
    BY <1>1, DisturbedIs
  <2> QED BY <2>1 DEF Inductive, ApartInv, None
<1>5. UsersInv'
  <2>1. \A q \in Processes : run'[q].pc = "remove" =>
          run[q].pc = "remove" /\ run'[q].file = run[q].file
    BY <1>1, DisturbedIs
  <2> QED BY <2>1 DEF UsersInv
<1>6. RunsInv'
  <2>1. ASSUME NEW q \in Processes, q # p
        PROVE  /\ RunOK(run[q])' /\ ExamineOK(run[q])' /\ AnswerOK(run[q])'
               /\ ~overlap' => RemoveOK(run[q])'
    <3>1. PICK d \in Runs : d = Disturbed(q)
      BY DisturbedIs
    <3>2. /\ run'[q] = d /\ RunOK(d) /\ d.answer = None
          /\ d.pc = run[q].pc /\ d.command = run[q].command
          /\ d.pc # "idle" => /\ d.disturbed /\ d.file = run[q].file
                              /\ d.todo = run[q].todo /\ d.removals = run[q].removals
      BY <1>1, <2>1, <3>1, DisturbedIs
    <3>3. RunOK(run[q])' /\ ExamineOK(run[q])' /\ AnswerOK(run[q])'
      BY <3>2 DEF RunOK, ExamineOK, AnswerOK, None
    <3>4. ASSUME ~overlap PROVE RemoveOK(d)'
      <4>1. CASE run[p].command = "apply"
        <5>1. d.pc \notin Removing
          BY <3>2, <3>4, <4>1 DEF Inductive, ApartInv, RunOK
        <5> QED BY <3>2, <5>1 DEF RemoveOK, Removing, None
      <4>2. CASE /\ receipt = None => receipt' = None
                 /\ \A f \in Names : file'[f] \in Contents => file[f] \in Contents
        <5>1. RemoveOK(run[q]) /\ RunOK(run[q])
          BY <3>4, Knows
        <5>2. \A files : Left(files) => Left(files)'
          BY <4>2 DEF Left
        <5> QED BY <3>2, <4>2, <5>1, <5>2 DEF RemoveOK, None
      <4> QED BY <4>1, <4>2
    <3>5. ~overlap' => RemoveOK(run[q])'
      BY <3>2, <3>4 DEF RemoveOK
    <3> QED BY <3>3, <3>5
  <2>2. RunOK(to)' /\ ExamineOK(to)'
    BY DEF RunOK, ExamineOK
  <2> QED BY <1>1, <2>1, <2>2 DEF RunsInv
<1> QED BY <1>2, <1>4, <1>5, <1>6 DEF Inductive

-----------------------------------------------------------------------------
(* The steps of a command, one lemma for each.                             *)

LEMMA FinishTo ==
  ASSUME Inductive, NEW p \in Processes, NEW answer \in {"failed", "configured", "drifted"},
         Finish(p, answer), answer # "failed" => run[p].bundle \in Bundles
  PROVE  \E to \in Runs :
           /\ run' = [run EXCEPT ![p] = to] /\ RunOK(to) /\ to.pc = "idle" /\ to.command = None
           /\ \/ to.answer = None
              \/ /\ ~run[p].disturbed /\ to.answer = answer /\ answer # "failed"
                 /\ to.bundle = run[p].bundle
<1>1. Idle \in Runs /\ RunOK(Idle) /\ Idle.answer = None /\ Idle.pc = "idle" /\ Idle.command = None
  BY Knows DEF Idle, RunOK, None, Removing
<1>2. CASE run[p].disturbed \/ answer = "failed"
  BY <1>1, <1>2 DEF Finish, Becomes
<1>3. CASE ~run[p].disturbed /\ answer # "failed"
  <2> DEFINE to == [Idle EXCEPT !.bundle = run[p].bundle, !.answer = answer]
  <2>1. run' = [run EXCEPT ![p] = to]
    BY <1>3 DEF Finish, Becomes
  <2>2. /\ to \in Runs /\ to.pc = "idle" /\ to.command = None /\ to.answer = answer
        /\ to.bundle = run[p].bundle /\ to.drift = FALSE
    BY <1>1, <1>3 DEF Runs, Answers, RunOK
  <2> HIDE DEF to
  <2>3. RunOK(to)
    BY <1>3, <2>2 DEF RunOK, Removing
  <2> QED BY <1>3, <2>1, <2>2, <2>3
<1> QED BY <1>2, <1>3

LEMMA FailedKeeps ==
  ASSUME Inductive, stranded' \in BOOLEAN, NEW p \in Processes,
         Finish(p, "failed"), UNCHANGED <<tree, lost>>, Rest,
         Fault \/ Fine
  PROVE  Inductive'
<1>1. PICK to \in Runs : /\ run' = [run EXCEPT ![p] = to] /\ RunOK(to) /\ to.pc = "idle"
                         /\ to.command = None /\ to.answer = None
  BY FinishTo
<1>2. Counted
  BY FaultIsCounted DEF Rest
<1>3. Together(p, to)
  BY <1>1 DEF Together
<1>4. ExamineOK(to)' /\ AnswerOK(to)' /\ RemoveOK(to)'
  BY <1>1 DEF ExamineOK, AnswerOK, RemoveOK, None
<1>5. overlap \in BOOLEAN /\ UNCHANGED <<dirs, receipt, file, extra, lost, raced, overlap>>
  BY DEF Inductive, TypeOK, tree, Rest
<1> QED BY <1>1, <1>2, <1>3, <1>4, <1>5, Quiet

\* A command goes on, and nothing else about it changes.
LEMMA GotoTo ==
  ASSUME Inductive, NEW p \in Processes, NEW pc \in Pcs, Goto(p, pc)
  PROVE  \E to \in Runs :
           /\ run' = [run EXCEPT ![p] = to] /\ to.pc = pc /\ to.command = run[p].command
           /\ to.bundle = run[p].bundle /\ to.todo = run[p].todo
           /\ to.removals = run[p].removals /\ to.answer = run[p].answer
           /\ to.drift = run[p].drift
<1> DEFINE to == [run[p] EXCEPT !.pc = pc]
<1>1. /\ to \in Runs /\ to.pc = pc /\ to.command = run[p].command
      /\ to.bundle = run[p].bundle /\ to.todo = run[p].todo
      /\ to.removals = run[p].removals /\ to.answer = run[p].answer
      /\ to.drift = run[p].drift
  BY Knows DEF Runs
<1> QED BY <1>1 DEF Goto, Becomes

LEMMA GotoKeeps ==
  ASSUME Inductive, stranded' \in BOOLEAN, NEW p \in Processes,
         Fine, UNCHANGED <<tree, lost>>, Rest,
         \/ run[p].pc = "look" /\ Goto(p, "stage")
         \/ run[p].pc = "stage" /\ Goto(p, "commit")
         \/ run[p].pc = "inspect" /\ run[p].todo = {} /\ Goto(p, "check")
         \/ run[p].pc = "check" /\ run[p].removals = {} /\ Goto(p, "receipt")
  PROVE  Inductive'
<1>1. PICK pc \in {"stage", "commit", "check", "receipt"} :
        /\ Goto(p, pc)
        /\ pc = "stage" => run[p].pc = "look"
        /\ pc = "commit" => run[p].pc = "stage"
        /\ pc = "check" => run[p].pc = "inspect" /\ run[p].todo = {}
        /\ pc = "receipt" => run[p].pc = "check" /\ run[p].removals = {}
  OBVIOUS
<1>2. PICK to \in Runs :
           /\ run' = [run EXCEPT ![p] = to] /\ to.pc = pc /\ to.command = run[p].command
           /\ to.bundle = run[p].bundle /\ to.todo = run[p].todo
           /\ to.removals = run[p].removals /\ to.answer = run[p].answer
           /\ to.drift = run[p].drift
  BY <1>1, GotoTo DEF Pcs
<1>3. RunOK(to) /\ to.answer = None
  BY <1>1, <1>2, Knows DEF RunOK, Removing
<1>4. Counted
  BY FaultIsCounted DEF Rest
<1>5. overlap \in BOOLEAN /\ UNCHANGED <<dirs, receipt, file, extra, lost, raced, overlap>>
  BY DEF Inductive, TypeOK, tree, Rest
<1>6. Together(p, to) /\ ExamineOK(to)' /\ AnswerOK(to)'
  BY <1>1, <1>2, <1>3 DEF Together, ExamineOK, AnswerOK, None
<1>7. ASSUME ~overlap PROVE RemoveOK(to)'
  <2>1. RemoveOK(run[p])
    BY <1>7, Knows
  <2>2. to.pc = "check" => Left(to.removals)
    BY <1>1, <1>2, <2>1 DEF RemoveOK, Left
  <2>3. to.pc = "receipt" => Left({})
    BY <1>1, <1>2, <2>1 DEF RemoveOK, Left
  <2> QED BY <1>1, <1>2, <1>3, <1>5, <2>2, <2>3 DEF RemoveOK, Left, None
<1> QED BY <1>1, <1>2, <1>3, <1>4, <1>5, <1>6, <1>7, Quiet

\* Status, and apply for a root that is there, begin to look at the files.
LEMMA ExamineKeeps ==
  ASSUME Inductive, stranded' \in BOOLEAN, NEW p \in Processes,
         Examine(p, receipt), receipt \in Bundles, Fine,
         UNCHANGED <<tree, lost>>, Rest, run[p].pc \in {"look", "read"},
         run[p].command \in {"apply", "status"}, run[p].drift = FALSE
  PROVE  Inductive'
<1>1. PICK to \in Runs :
        /\ run' = [run EXCEPT ![p] = to] /\ to.pc = "examine" /\ to.command = run[p].command
        /\ to.bundle = receipt /\ to.todo = Owned(receipt) /\ to.answer = run[p].answer
        /\ to.drift = FALSE
  <2> DEFINE to == [run[p] EXCEPT !.pc = "examine", !.bundle = receipt, !.todo = Owned(receipt)]
  <2>1. Owned(receipt) \in SUBSET Names
    BY InstallationAssumption DEF Owned
  <2>2. /\ to \in Runs /\ to.pc = "examine" /\ to.command = run[p].command
        /\ to.bundle = receipt /\ to.todo = Owned(receipt) /\ to.answer = run[p].answer
        /\ to.drift = FALSE
    BY <2>1, Knows DEF Runs, Pcs
  <2> QED BY <2>2 DEF Examine, Becomes
<1>2. RunOK(to) /\ to.answer = None
  BY <1>1, Knows DEF RunOK, Removing, None
<1>3. Counted
  BY FaultIsCounted DEF Rest
<1>4. overlap \in BOOLEAN /\ UNCHANGED <<dirs, receipt, file, extra, lost, raced, overlap>>
  BY DEF Inductive, TypeOK, tree, Rest
<1>5. Together(p, to) /\ ExamineOK(to)' /\ AnswerOK(to)' /\ RemoveOK(to)'
  BY <1>1, <1>2, <1>4 DEF Together, ExamineOK, AnswerOK, RemoveOK, None
<1> QED BY <1>1, <1>2, <1>3, <1>4, <1>5, Quiet

LEMMA LookKeeps ==
  ASSUME Inductive, stranded' \in BOOLEAN, NEW p \in Processes, Look(p)
  PROVE  Inductive'
<1>1. /\ run[p].pc = "look" /\ UNCHANGED <<tree, lost>> /\ Rest
      /\ run[p].command = "apply" /\ run[p].bundle \in Bundles
  BY Knows DEF Look, At, RunOK
<1>2. CASE ~There("root") /\ Goto(p, "stage") /\ Fine
  BY <1>1, <1>2, GotoKeeps
<1>3. CASE There("root") /\ receipt = run[p].bundle /\ Examine(p, receipt) /\ Fine
  BY <1>1, <1>3, ExamineKeeps, Knows DEF RunOK
<1>4. CASE (Fault \/ Fine) /\ Finish(p, "failed")
  BY <1>1, <1>4, FailedKeeps
<1> QED BY <1>2, <1>3, <1>4 DEF Look, FailsOr

LEMMA StageKeeps ==
  ASSUME Inductive, stranded' \in BOOLEAN, NEW p \in Processes, Stage(p)
  PROVE  Inductive'
BY GotoKeeps, FailedKeeps DEF Stage, At

LEMMA CommitKeeps ==
  ASSUME Inductive, stranded' \in BOOLEAN, NEW p \in Processes, Commit(p)
  PROVE  Inductive'
<1> DEFINE b == run[p].bundle
<1>1. /\ run[p].pc = "commit" /\ UNCHANGED lost /\ Rest
      /\ run[p].command = "apply" /\ b \in Bundles
  BY Knows DEF Commit, At, RunOK
<1>2. CASE /\ ~There("root") /\ Fine
           /\ dirs' = Directories /\ receipt' = b /\ extra' = FALSE
           /\ file' = [f \in Names |-> IF f \in Owned(b) THEN Content(b, f) ELSE None]
           /\ Disturbs(p, [Idle EXCEPT !.bundle = b, !.answer = "configured"])
  <2>1. PICK to \in Runs : /\ Disturbs(p, to) /\ to.pc = "idle" /\ to.command = None
                           /\ to.bundle = b /\ to.answer = "configured" /\ to.drift = FALSE
    <3> DEFINE to == [Idle EXCEPT !.bundle = b, !.answer = "configured"]
    <3>1. to \in Runs /\ to.bundle = b /\ to.answer = "configured"
      BY <1>1, Knows DEF Runs, Answers
    <3>2. to.pc = "idle" /\ to.command = None /\ to.drift = FALSE
      BY DEF Idle
    <3> QED BY <1>2, <3>1, <3>2
  <2>2. RunOK(to)
    BY <1>1, <2>1 DEF RunOK, Removing, None
  <2>3. TreeOK'
    BY <1>1, <1>2, ContentsApart DEF TreeOK, Directories, There
  <2>4. ReceiptInv'
    BY <1>2, ContentsApart DEF ReceiptInv
  <2>5. Counted
    BY <1>1, <1>2, FaultIsCounted DEF Rest
  <2>6. \A f \in Names : file'[f] \notin Mine
    BY <1>1, <1>2, ContentsApart DEF Mine, None
  <2>7. UNCHANGED <<raced, overlap>> /\ lost' \in BOOLEAN /\ (~raced => ~lost')
    BY <1>1 DEF Rest, Inductive, TypeOK, UsersInv
  <2>8. \A q \in Processes : run[q].pc = "remove" => run[q].file \in Names
    BY Knows DEF RunOK
  <2>9. AnswerOK(to)'
    <3>1. Owned(b) \subseteq Names
      BY <1>1, InstallationAssumption DEF Owned
    <3> QED BY <1>2, <2>1, <3>1 DEF AnswerOK, Whole, Unchanged, Content, Owned
  <2>10. RemoveOK(to)'
    BY <2>1 DEF RemoveOK
  <2> QED BY <1>1, <2>1, <2>2, <2>3, <2>4, <2>5, <2>6, <2>7, <2>8, <2>9, <2>10, Disturbing
<1>3. CASE FailsOr(There("root")) /\ Finish(p, "failed") /\ UNCHANGED tree
  BY <1>1, <1>3, FailedKeeps DEF FailsOr
<1> QED BY <1>2, <1>3 DEF Commit

LEMMA StartKeeps ==
  ASSUME Inductive, stranded' \in BOOLEAN, NEW p \in Processes, NEW command, NEW bundle, NEW pc,
         Start(p, command, bundle, pc), applies' \in 0..MaxApplies,
         \/ command = "apply" /\ bundle \in Bundles /\ pc = "look"
         \/ command \in {"status", "uninstall"} /\ bundle = None /\ pc = "read"
  PROVE  Inductive'
<1>1. PICK to \in Runs :
        /\ run' = [run EXCEPT ![p] = to] /\ to.pc = pc /\ to.command = command
        /\ to.bundle = bundle /\ to.answer = None /\ to.drift = FALSE
  <2> DEFINE to == [Idle EXCEPT !.pc = pc, !.command = command, !.bundle = bundle]
  <2>1. to \in Runs /\ to.pc = pc /\ to.command = command /\ to.bundle = bundle
    BY Knows DEF Runs, Pcs
  <2>2. to.answer = None /\ to.drift = FALSE
    BY DEF Idle
  <2> QED BY <2>1, <2>2 DEF Start
<1>2. RunOK(to)
  BY <1>1 DEF RunOK, Removing, None
<1>3. Counted
  BY DEF Counted, Start, Inductive, TypeOK
<1>4. overlap' \/ Together(p, to)
  BY <1>1 DEF Start, Together, At
<1>5. ExamineOK(to)' /\ AnswerOK(to)' /\ RemoveOK(to)'
  BY <1>1 DEF ExamineOK, AnswerOK, RemoveOK, None
<1>6. /\ UNCHANGED <<dirs, receipt, file, extra, lost, raced>>
      /\ overlap' \in BOOLEAN /\ (overlap => overlap')
  BY DEF Start, tree, Inductive, TypeOK
<1>7. to.pc # "remove"
  BY <1>1
<1> QED BY <1>1, <1>2, <1>3, <1>4, <1>5, <1>6, <1>7, Quiet

LEMMA ReadKeeps ==
  ASSUME Inductive, stranded' \in BOOLEAN, NEW p \in Processes, Read(p)
  PROVE  Inductive'
<1>1. /\ run[p].pc = "read" /\ UNCHANGED <<tree, lost>> /\ Rest
      /\ run[p].command \in {"status", "uninstall"} /\ run[p].drift = FALSE /\ RunOK(run[p])
  BY Knows DEF Read, At, RunOK
<1>2. CASE (Fault \/ Fine) /\ Finish(p, "failed")
  BY <1>1, <1>2, FailedKeeps
<1>3. CASE run[p].command = "status" /\ receipt \in Bundles /\ Fine /\ Examine(p, receipt)
  BY <1>1, <1>3, ExamineKeeps
<1>4. CASE /\ run[p].command # "status" /\ receipt \in Bundles /\ Fine
           /\ Becomes(p, [run[p] EXCEPT !.pc = "inspect", !.bundle = receipt,
                                        !.todo = Owned(receipt)])
  <2>1. PICK to \in Runs :
          /\ run' = [run EXCEPT ![p] = to] /\ to.pc = "inspect" /\ to.command = "uninstall"
          /\ to.bundle = receipt /\ to.todo = Owned(receipt) /\ to.answer = None
          /\ to.drift = FALSE
    <3> DEFINE to == [run[p] EXCEPT !.pc = "inspect", !.bundle = receipt, !.todo = Owned(receipt)]
    <3>1. Owned(receipt) \in SUBSET Names
      BY <1>4, InstallationAssumption DEF Owned
    <3>2. /\ to \in Runs /\ to.pc = "inspect" /\ to.command = run[p].command
          /\ to.bundle = receipt /\ to.todo = Owned(receipt) /\ to.answer = run[p].answer
          /\ to.drift = run[p].drift
      BY <1>4, <3>1, Knows DEF Runs, Pcs
    <3>3. run[p].answer = None /\ run[p].command = "uninstall"
      BY <1>1, <1>4 DEF RunOK
    <3> QED BY <1>1, <1>4, <3>2, <3>3 DEF Becomes
  <2>2. RunOK(to)
    BY <1>4, <2>1 DEF RunOK, Removing, None
  <2>3. Counted
    BY <1>1, <1>4, FaultIsCounted DEF Rest
  <2>4. overlap \in BOOLEAN /\ UNCHANGED <<dirs, receipt, file, extra, lost, raced, overlap>>
    BY <1>1 DEF Inductive, TypeOK, tree, Rest
  <2>5. Together(p, to) /\ ExamineOK(to)' /\ AnswerOK(to)'
    BY <1>1, <1>4, <2>1 DEF Together, ExamineOK, AnswerOK, None
  <2>6. RemoveOK(to)'
    BY <1>4, <2>1, <2>4 DEF RemoveOK, Left, Inductive, ReceiptInv, None
  <2> QED BY <2>1, <2>2, <2>3, <2>4, <2>5, <2>6, Quiet
<1> QED BY <1>2, <1>3, <1>4 DEF Read, FailsOr

LEMMA ExamineFileKeeps ==
  ASSUME Inductive, stranded' \in BOOLEAN, NEW p \in Processes, ExamineFile(p)
  PROVE  Inductive'
<1>1. /\ run[p].pc = "examine" /\ UNCHANGED <<tree, lost>> /\ Rest
      /\ run[p].command \in {"apply", "status"} /\ run[p].bundle \in Bundles
      /\ run[p] \in Runs /\ RunOK(run[p]) /\ run[p].answer = None /\ ExamineOK(run[p])
  BY Knows DEF ExamineFile, At, RunOK
<1>2. overlap \in BOOLEAN /\ UNCHANGED <<dirs, receipt, file, extra, lost, raced, overlap>>
  BY <1>1 DEF Inductive, TypeOK, tree, Rest
<1>3. CASE /\ run[p].todo = {} /\ Fine
           /\ Finish(p, IF run[p].drift
                          THEN IF run[p].command = "apply" THEN "failed" ELSE "drifted"
                          ELSE "configured")
  <2>1. PICK answer \in {"failed", "configured", "drifted"} :
          /\ Finish(p, answer)
          /\ answer = "drifted" => run[p].drift
          /\ answer = "configured" => ~run[p].drift
    BY <1>3
  <2>2. PICK to \in Runs :
           /\ run' = [run EXCEPT ![p] = to] /\ RunOK(to) /\ to.pc = "idle" /\ to.command = None
           /\ \/ to.answer = None
              \/ /\ ~run[p].disturbed /\ to.answer = answer /\ answer # "failed"
                 /\ to.bundle = run[p].bundle
    BY <1>1, <2>1, FinishTo
  <2>3. Counted
    BY <1>1, <1>3, FaultIsCounted DEF Rest
  <2>4. AnswerOK(to)'
    <3>1. ASSUME to.answer # None PROVE AnswerOK(to)'
      <4>1. /\ ~run[p].disturbed /\ to.answer = answer /\ to.bundle = run[p].bundle
            /\ receipt = to.bundle
            /\ \A f \in Owned(to.bundle) : run[p].drift \/ Unchanged(to.bundle, f)
            /\ run[p].drift /\ faults = 0 => \E f \in Owned(to.bundle) : ~Unchanged(to.bundle, f)
        BY <1>1, <1>3, <2>2, <3>1 DEF ExamineOK
      <4>2. answer = "configured" => Whole(to.bundle)
        BY <2>1, <4>1 DEF Whole
      <4>3. answer = "drifted" /\ faults = 0 => ~Whole(to.bundle)
        BY <2>1, <4>1 DEF Whole
      <4>4. Whole(to.bundle)' <=> Whole(to.bundle)
        BY <1>2 DEF Whole, Unchanged
      <4>5. faults' = 0 => faults = 0
        BY <2>3 DEF Counted
      <4> QED BY <4>1, <4>2, <4>3, <4>4, <4>5 DEF AnswerOK
    <3>2. CASE to.answer = None
      BY <3>2 DEF AnswerOK, None
    <3> QED BY <3>1, <3>2
  <2>5. Together(p, to) /\ ExamineOK(to)' /\ RemoveOK(to)'
    BY <2>1, <2>2 DEF Together, ExamineOK, RemoveOK, None
  <2> QED BY <1>2, <2>2, <2>3, <2>4, <2>5, Quiet
<1>4. ASSUME NEW f \in run[p].todo, NEW wrong \in {TRUE, ~Unchanged(run[p].bundle, f)},
             IF wrong /\ Unchanged(run[p].bundle, f) THEN Fault ELSE Fine,
             Becomes(p, [run[p] EXCEPT !.todo = @ \ {f}, !.drift = @ \/ wrong])
      PROVE  Inductive'
  <2>1. wrong \in BOOLEAN /\ (~wrong => Unchanged(run[p].bundle, f))
    BY Zenon
  <2>2. PICK drift \in BOOLEAN : drift = (run[p].drift \/ wrong)
    <3>1. (run[p].drift \/ wrong) \in BOOLEAN
      OBVIOUS
    <3> QED BY <3>1, Zenon
  <2>3. PICK to \in Runs :
          /\ run' = [run EXCEPT ![p] = to] /\ to.pc = "examine" /\ to.command = run[p].command
          /\ to.bundle = run[p].bundle /\ to.todo = run[p].todo \ {f} /\ to.answer = None
          /\ to.disturbed = run[p].disturbed /\ to.drift = drift
    <3> DEFINE to == [run[p] EXCEPT !.todo = @ \ {f}, !.drift = drift]
    <3>1. /\ to \in Runs /\ to.pc = "examine" /\ to.command = run[p].command
          /\ to.bundle = run[p].bundle /\ to.todo = run[p].todo \ {f} /\ to.answer = None
          /\ to.disturbed = run[p].disturbed /\ to.drift = drift
      BY <1>1 DEF Runs
    <3>2. Becomes(p, to)
      BY <1>4, <2>2, Zenon
    <3> QED BY <3>1, <3>2 DEF Becomes
  <2>4. RunOK(to)
    BY <1>1, <2>3 DEF RunOK, Removing
  <2>5. Counted
    BY <1>1, <1>4, FaultIsCounted DEF Rest
  <2>6. ExamineOK(to)'
    <3> SUFFICES ASSUME ~run[p].disturbed
                 PROVE  /\ receipt = to.bundle /\ to.todo \subseteq Owned(to.bundle)
                        /\ \A g \in Owned(to.bundle) \ to.todo : drift \/ Unchanged(to.bundle, g)
                        /\ drift /\ faults' = 0 =>
                             \E g \in Owned(to.bundle) : ~Unchanged(to.bundle, g)
      BY <1>2, <2>3 DEF ExamineOK, Unchanged
    <3>1. /\ receipt = to.bundle /\ run[p].todo \subseteq Owned(to.bundle)
          /\ \A g \in Owned(to.bundle) \ run[p].todo : run[p].drift \/ Unchanged(to.bundle, g)
          /\ run[p].drift /\ faults = 0 => \E g \in Owned(to.bundle) : ~Unchanged(to.bundle, g)
      BY <1>1, <2>3 DEF ExamineOK
    <3>2. drift <=> run[p].drift \/ wrong
      BY <2>2, Zenon
    <3>3. \A g \in Owned(to.bundle) \ to.todo : drift \/ Unchanged(to.bundle, g)
      BY <2>1, <2>3, <3>1, <3>2
    <3>4. wrong /\ faults' = 0 => ~Unchanged(to.bundle, f)
      <4>1. Fault => faults' # 0
        BY DEF Fault, Inductive, TypeOK
      <4> QED BY <1>4, <2>3, <4>1
    <3>5. faults' = 0 => faults = 0
      BY <2>5 DEF Counted
    <3> QED BY <2>3, <3>1, <3>2, <3>3, <3>4, <3>5
  <2>7. Together(p, to) /\ AnswerOK(to)' /\ RemoveOK(to)'
    BY <2>3 DEF Together, AnswerOK, RemoveOK, None
  <2> QED BY <1>2, <2>3, <2>4, <2>5, <2>6, <2>7, Quiet
<1> QED BY <1>3, <1>4 DEF ExamineFile

\* A step of one of the two passes over the files.
LEMMA PassKeeps ==
  ASSUME Inductive, stranded' \in BOOLEAN, NEW p \in Processes,
         NEW to \in Runs, run' = [run EXCEPT ![p] = to],
         Fine, UNCHANGED <<tree, lost>>, Rest,
         run[p].pc \in {"inspect", "check"}, to.pc \in {"inspect", "check", "remove"},
         to.command = run[p].command, to.bundle = run[p].bundle, to.answer = run[p].answer,
         to.drift = run[p].drift,
         to.pc = "remove" => to.file \in Names /\ file[to.file] \notin Mine,
         ~overlap => RemoveOK(to)
  PROVE  Inductive'
<1>1. RunOK(to) /\ to.answer = None
  BY Knows DEF RunOK, Removing
<1>2. Counted
  BY FaultIsCounted DEF Rest
<1>3. overlap \in BOOLEAN /\ UNCHANGED <<dirs, receipt, file, extra, lost, raced, overlap>>
  BY DEF Inductive, TypeOK, tree, Rest
<1>4. Together(p, to) /\ ExamineOK(to)' /\ AnswerOK(to)'
  BY <1>1 DEF Together, ExamineOK, AnswerOK, None
<1>5. ~overlap' => RemoveOK(to)'
  BY <1>3 DEF RemoveOK, Left
<1> QED BY <1>1, <1>2, <1>3, <1>4, <1>5, Quiet

LEMMA InspectKeeps ==
  ASSUME Inductive, stranded' \in BOOLEAN, NEW p \in Processes, Inspect(p)
  PROVE  Inductive'
<1>1. /\ run[p].pc = "inspect" /\ UNCHANGED <<tree, lost>> /\ Rest
      /\ run[p] \in Runs /\ RunOK(run[p]) /\ run[p].answer = None
  BY Knows DEF Inspect, At, RunOK
<1>2. CASE run[p].todo = {} /\ Goto(p, "check") /\ Fine
  BY <1>1, <1>2, GotoKeeps
<1>3. CASE (Fault \/ Fine) /\ Finish(p, "failed")
  BY <1>1, <1>3, FailedKeeps
<1>4. ASSUME NEW f \in run[p].todo, Fine,
             Becomes(p, [run[p] EXCEPT !.todo = @ \ {f},
                  !.removals = IF file[f] = None THEN @ ELSE @ \cup {f}])
      PROVE  Inductive'
  <2> DEFINE removals == IF file[f] = None THEN run[p].removals ELSE run[p].removals \cup {f}
  <2>1. PICK to \in Runs :
          /\ run' = [run EXCEPT ![p] = to] /\ to.pc = "inspect" /\ to.command = run[p].command
          /\ to.bundle = run[p].bundle /\ to.answer = run[p].answer /\ to.drift = run[p].drift
          /\ to.todo = run[p].todo \ {f} /\ to.removals = removals
    <3> DEFINE to == [run[p] EXCEPT !.todo = @ \ {f}, !.removals = removals]
    <3>1. /\ to \in Runs /\ to.pc = "inspect" /\ to.command = run[p].command
          /\ to.bundle = run[p].bundle /\ to.answer = run[p].answer /\ to.drift = run[p].drift
          /\ to.todo = run[p].todo \ {f} /\ to.removals = removals
      BY <1>1 DEF Runs
    <3>2. run' = [run EXCEPT ![p] = to]
      BY <1>4 DEF Becomes
    <3> QED BY <3>1, <3>2
  <2>2. ASSUME ~overlap PROVE RemoveOK(to)
    <3>1. Left(run[p].todo \cup run[p].removals)
      BY <1>1, <2>2, Knows DEF RemoveOK
    <3>2. Left(to.todo \cup to.removals)
      BY <2>1, <3>1, ContentsApart DEF Left
    <3> QED BY <1>1, <2>1, <3>2 DEF RemoveOK, None
  <2> QED BY <1>1, <1>4, <2>1, <2>2, PassKeeps
<1> QED BY <1>2, <1>3, <1>4 DEF Inspect, FailsOr

LEMMA CheckKeeps ==
  ASSUME Inductive, stranded' \in BOOLEAN, NEW p \in Processes, Check(p)
  PROVE  Inductive'
<1>1. /\ run[p].pc = "check" /\ UNCHANGED <<tree, lost>> /\ Rest
      /\ run[p] \in Runs /\ RunOK(run[p]) /\ run[p].answer = None
  BY Knows DEF Check, At, RunOK
<1>2. ~overlap => Left(run[p].removals)
  BY <1>1, Knows DEF RemoveOK
<1>3. CASE run[p].removals = {} /\ Goto(p, "receipt") /\ Fine
  BY <1>1, <1>3, GotoKeeps
<1>4. CASE (Fault \/ Fine) /\ Finish(p, "failed")
  BY <1>1, <1>4, FailedKeeps
<1>5. ASSUME NEW f \in run[p].removals, file[f] = None, Fine,
             Becomes(p, [run[p] EXCEPT !.removals = @ \ {f}])
      PROVE  Inductive'
  <2>1. PICK to \in Runs :
          /\ run' = [run EXCEPT ![p] = to] /\ to.pc = "check" /\ to.command = run[p].command
          /\ to.bundle = run[p].bundle /\ to.answer = run[p].answer /\ to.drift = run[p].drift
          /\ to.removals = run[p].removals \ {f}
    <3> DEFINE to == [run[p] EXCEPT !.removals = @ \ {f}]
    <3>1. /\ to \in Runs /\ to.pc = "check" /\ to.command = run[p].command
          /\ to.bundle = run[p].bundle /\ to.answer = run[p].answer /\ to.drift = run[p].drift
          /\ to.removals = run[p].removals \ {f}
      BY <1>1 DEF Runs
    <3> QED BY <1>5, <3>1 DEF Becomes
  <2>2. ASSUME ~overlap PROVE RemoveOK(to)
    <3>1. Left(to.removals)
      BY <1>2, <1>5, <2>1, <2>2, ContentsApart DEF Left
    <3> QED BY <1>1, <2>1, <3>1 DEF RemoveOK, None
  <2> QED BY <1>1, <1>5, <2>1, <2>2, PassKeeps
<1>6. ASSUME NEW f \in run[p].removals, Unchanged(run[p].bundle, f), Fine,
             Becomes(p, [run[p] EXCEPT !.pc = "remove", !.removals = @ \ {f}, !.file = f])
      PROVE  Inductive'
  <2>1. PICK to \in Runs :
          /\ run' = [run EXCEPT ![p] = to] /\ to.pc = "remove" /\ to.command = run[p].command
          /\ to.bundle = run[p].bundle /\ to.answer = run[p].answer /\ to.drift = run[p].drift
          /\ to.removals = run[p].removals \ {f} /\ to.file = f
    <3> DEFINE to == [run[p] EXCEPT !.pc = "remove", !.removals = @ \ {f}, !.file = f]
    <3>1. /\ to \in Runs /\ to.pc = "remove" /\ to.command = run[p].command
          /\ to.bundle = run[p].bundle /\ to.answer = run[p].answer /\ to.drift = run[p].drift
          /\ to.removals = run[p].removals \ {f} /\ to.file = f
      BY <1>1 DEF Runs, Pcs
    <3> QED BY <1>6, <3>1 DEF Becomes
  <2>2. f \in Names /\ run[p].bundle \in Bundles
    BY <1>1 DEF Runs, RunOK
  <2>3. file[f] \notin Mine
    BY <1>6, <2>2, ContentsApart DEF Unchanged
  <2>4. ASSUME ~overlap PROVE RemoveOK(to)
    <3>1. Left(to.removals \cup {to.file})
      BY <1>2, <2>1, <2>4 DEF Left
    <3> QED BY <1>1, <2>1, <3>1 DEF RemoveOK, None
  <2> QED BY <1>1, <1>6, <2>1, <2>2, <2>3, <2>4, PassKeeps
<1> QED BY <1>3, <1>4, <1>5, <1>6 DEF Check, FailsOr

\* An uninstallation goes on, having changed the tree.
LEMMA RemovedKeeps ==
  ASSUME Inductive, stranded' \in BOOLEAN, NEW p \in Processes, NEW to \in Runs, Disturbs(p, to),
         run[p].pc \in Removing, to.answer \in {None, "removed"}, to.drift = FALSE,
         \/ /\ to.pc \in {"check", "directories", "root"} /\ to.command = "uninstall"
            /\ to.bundle \in Bundles /\ to.answer = None
         \/ to.pc = "idle" /\ to.command = None,
         TreeOK', receipt' \in {receipt, None}, \A f \in Names : file'[f] \in {file[f], None},
         lost' \in BOOLEAN, ~raced => lost' = lost, Rest, Fault \/ Fine,
         ~overlap => RemoveOK(to)'
  PROVE  Inductive'
<1>1. RunOK(to)
  BY DEF RunOK, Removing, None
<1>2. run[p].pc # "idle" /\ to.command \in {None, run[p].command}
  BY Knows DEF RunOK, Removing
<1>3. \A f \in Names : file'[f] \in Mine \cup Contents => file'[f] = file[f]
  BY ContentsApart DEF Mine, None
<1>4. ReceiptInv'
  BY <1>3, ContentsApart DEF ReceiptInv, Inductive
<1>5. Counted
  BY FaultIsCounted DEF Rest
<1>6. UNCHANGED <<raced, overlap>> /\ AnswerOK(to)'
  BY DEF Rest, AnswerOK, None
<1>7. ~raced => ~lost' /\ \A q \in Processes :
                  run[q].pc = "remove" => file'[run[q].file] \notin Mine
  <2>1. \A q \in Processes : run[q].pc = "remove" => run[q].file \in Names
    BY Knows DEF RunOK
  <2> QED BY <1>3, <2>1 DEF Inductive, UsersInv
<1>8. to.pc \notin {"remove", "examine"}
  OBVIOUS
<1>9. /\ receipt = None => receipt' = None
      /\ \A f \in Names : file'[f] \in Contents => file[f] \in Contents
  BY <1>3
<1> QED BY <1>1, <1>2, <1>4, <1>5, <1>6, <1>7, <1>8, <1>9, Disturbing

LEMMA RemoveKeeps ==
  ASSUME Inductive, stranded' \in BOOLEAN, NEW p \in Processes, Remove(p)
  PROVE  Inductive'
<1>1. /\ run[p].pc = "remove" /\ run[p].pc \in Removing
      /\ UNCHANGED <<dirs, receipt, extra>> /\ Rest
      /\ run[p] \in Runs /\ RunOK(run[p]) /\ run[p].file \in Names
  BY Knows DEF Remove, At, RunOK, Removing
<1>2. CASE /\ file' = [file EXCEPT ![run[p].file] = None] /\ Fine
           /\ lost' = (lost \/ file[run[p].file] \in Mine)
           /\ Disturbs(p, [run[p] EXCEPT !.pc = "check", !.file = None])
  <2>1. PICK to \in Runs :
          /\ Disturbs(p, to) /\ to.pc = "check" /\ to.command = run[p].command
          /\ to.bundle = run[p].bundle /\ to.answer = run[p].answer /\ to.drift = run[p].drift
          /\ to.removals = run[p].removals
    <3> DEFINE to == [run[p] EXCEPT !.pc = "check", !.file = None]
    <3>1. /\ to \in Runs /\ to.pc = "check" /\ to.command = run[p].command
          /\ to.bundle = run[p].bundle /\ to.answer = run[p].answer /\ to.drift = run[p].drift
          /\ to.removals = run[p].removals
      BY <1>1 DEF Runs, Pcs
    <3> QED BY <1>2, <3>1
  <2>2. to.answer = None /\ to.drift = FALSE /\ to.command = "uninstall" /\ to.bundle \in Bundles
    BY <1>1, <2>1 DEF RunOK
  <2>3. TreeOK' /\ \A f \in Names : file'[f] \in {file[f], None}
    BY <1>1, <1>2 DEF TreeOK, Inductive, TypeOK, There
  <2>4. lost' \in BOOLEAN /\ (~raced => lost' = lost)
    BY <1>1, <1>2 DEF Inductive, TypeOK, UsersInv
  <2>5. ASSUME ~overlap PROVE RemoveOK(to)'
    <3>1. Left(run[p].removals \cup {run[p].file})
      BY <1>1, <2>5, Knows DEF RemoveOK
    <3>2. Left(to.removals)'
      <4>1. file'[run[p].file] \notin Contents
        BY <1>1, <1>2, ContentsApart DEF Inductive, TypeOK
      <4>2. \A f \in Names : file'[f] \in Contents => file[f] \in Contents
        BY <1>2, <4>1 DEF Inductive, TypeOK
      <4> QED BY <2>1, <3>1, <4>1, <4>2 DEF Left
    <3> QED BY <2>1, <2>2, <3>2 DEF RemoveOK, None
  <2> QED BY <1>1, <1>2, <2>1, <2>2, <2>3, <2>4, <2>5, RemovedKeeps
<1>3. CASE Fault /\ Finish(p, "failed") /\ UNCHANGED <<file, lost>>
  BY <1>1, <1>3, FailedKeeps DEF tree
<1> QED BY <1>2, <1>3 DEF Remove

LEMMA GoesOn ==
  ASSUME Inductive, NEW p \in Processes, NEW pc \in {"directories", "root"}, DisturbsGoto(p, pc),
         run[p].pc \in Removing
  PROVE  \E to \in Runs :
           /\ Disturbs(p, to) /\ to.pc = pc /\ to.command = "uninstall"
           /\ to.bundle \in Bundles /\ to.answer = None /\ to.drift = FALSE
<1> DEFINE to == [run[p] EXCEPT !.pc = pc]
<1>1. run[p] \in Runs /\ RunOK(run[p])
  BY Knows
<1>2. /\ to \in Runs /\ to.pc = pc /\ to.command = run[p].command
      /\ to.bundle = run[p].bundle /\ to.answer = run[p].answer /\ to.drift = run[p].drift
  BY <1>1 DEF Runs, Pcs
<1>3. /\ run[p].command = "uninstall" /\ run[p].bundle \in Bundles /\ run[p].answer = None
      /\ run[p].drift = FALSE
  BY <1>1 DEF RunOK, Removing
<1> QED BY <1>2, <1>3 DEF DisturbsGoto

LEMMA RemoveReceiptKeeps ==
  ASSUME Inductive, stranded' \in BOOLEAN, NEW p \in Processes, RemoveReceipt(p) PROVE Inductive'
<1>1. /\ run[p].pc = "receipt" /\ run[p].pc \in Removing
      /\ UNCHANGED <<dirs, file, extra, lost>> /\ Rest
  BY DEF RemoveReceipt, At, Removing
<1>2. CASE receipt' = None /\ Fine /\ DisturbsGoto(p, "directories")
  <2>1. PICK to \in Runs :
           /\ Disturbs(p, to) /\ to.pc = "directories" /\ to.command = "uninstall"
           /\ to.bundle \in Bundles /\ to.answer = None /\ to.drift = FALSE
    BY <1>1, <1>2, GoesOn
  <2>2. TreeOK' /\ lost' \in BOOLEAN
    BY <1>1, <1>2 DEF TreeOK, Inductive, TypeOK, There
  <2>3. ~overlap => RemoveOK(to)'
    BY <1>1, <1>2, <2>1, Knows DEF RemoveOK, Left, None
  <2> QED BY <1>1, <1>2, <2>1, <2>2, <2>3, RemovedKeeps
<1>3. CASE (Fault \/ Fine) /\ Finish(p, "failed") /\ UNCHANGED receipt
  BY <1>1, <1>3, FailedKeeps DEF tree
<1> QED BY <1>2, <1>3 DEF RemoveReceipt, FailsOr

LEMMA RemoveDirectoriesKeeps ==
  ASSUME Inductive, stranded' \in BOOLEAN, NEW p \in Processes, RemoveDirectories(p)
  PROVE  Inductive'
<1>1. /\ run[p].pc = "directories" /\ run[p].pc \in Removing
      /\ UNCHANGED <<receipt, file, extra, lost>> /\ Rest /\ (Fault \/ Fine)
      /\ dirs' \subseteq dirs
      /\ \A d \in dirs : d \notin dirs' => d \in {".agx", "components"} /\ Empty(d)
      /\ DisturbsGoto(p, "root")
  BY DEF RemoveDirectories, At, Removing
<1>2. PICK to \in Runs :
           /\ Disturbs(p, to) /\ to.pc = "root" /\ to.command = "uninstall"
           /\ to.bundle \in Bundles /\ to.answer = None /\ to.drift = FALSE
  BY <1>1, GoesOn
<1>3. TreeOK' /\ lost' \in BOOLEAN
  <2>1. There("root") => There("root")'
    BY <1>1 DEF There
  <2>2. receipt # None /\ There(".agx") => There(".agx")'
    BY <1>1 DEF There, Empty
  <2>3. (\E f \in Names : file[f] # None) /\ There("components") => There("components")'
    BY <1>1 DEF There, Empty
  <2> QED BY <1>1, <2>1, <2>2, <2>3 DEF TreeOK, Inductive, TypeOK, There
<1>4. ~overlap => RemoveOK(to)'
  BY <1>1, <1>2, Knows DEF RemoveOK, Left, None
<1> QED BY <1>1, <1>2, <1>3, <1>4, RemovedKeeps

LEMMA RemoveRootKeeps ==
  ASSUME Inductive, stranded' \in BOOLEAN, NEW p \in Processes, RemoveRoot(p) PROVE Inductive'
<1>1. /\ run[p].pc = "root" /\ run[p].pc \in Removing
      /\ UNCHANGED <<receipt, file, extra, lost>> /\ Rest /\ (Fault \/ Fine)
      /\ dirs' = dirs \/ (Empty("root") /\ dirs' = {})
      /\ Disturbs(p, [Idle EXCEPT !.answer = "removed"])
  BY DEF RemoveRoot, At, Removing
<1>2. PICK to \in Runs : /\ Disturbs(p, to) /\ to.pc = "idle" /\ to.command = None
                         /\ to.answer = "removed" /\ to.drift = FALSE
  <2> DEFINE to == [Idle EXCEPT !.answer = "removed"]
  <2>1. to \in Runs /\ to.answer = "removed"
    BY Knows DEF Runs, Answers
  <2>2. to.pc = "idle" /\ to.command = None /\ to.drift = FALSE
    BY DEF Idle
  <2> QED BY <1>1, <2>1, <2>2
<1>3. TreeOK' /\ lost' \in BOOLEAN
  <2>1. Empty("root") => dirs \subseteq {"root"}
    BY DEF Empty
  <2> QED BY <1>1, <2>1 DEF TreeOK, Inductive, TypeOK, There
<1>4. ~overlap => RemoveOK(to)'
  BY <1>1, <1>2, Knows DEF RemoveOK, Left, None
<1> QED BY <1>1, <1>2, <1>3, <1>4, RemovedKeeps

-----------------------------------------------------------------------------
(* The user, and the end of a process.                                     *)

LEMMA EditKeeps == ASSUME Inductive, stranded' \in BOOLEAN, Edit PROVE Inductive'
<1>1. /\ edits < MaxEdits /\ edits' = edits + 1
      /\ run' = [q \in Processes |-> Disturbed(q)]
      /\ UNCHANGED <<lost, overlap, applies, crashes, faults>>
  BY DEF Edit
<1>2. /\ TreeOK'
      /\ \A f \in Names : file'[f] = file[f] \/ file'[f] \in Mine \cup {None}
      /\ (receipt' = receipt \/ (receipt \in Bundles /\ receipt' = Spoilt))
      /\ raced' \in BOOLEAN
      /\ ~raced' => ~raced /\ \A q \in Processes :
           run[q].pc = "remove" => file'[run[q].file] = file[run[q].file]
  <2>0. TreeOK /\ raced \in BOOLEAN /\ None \notin Bundles /\ Spoilt # None
    BY ContentsApart DEF Inductive, TypeOK, TreeOK, Spoilt, None
  <2>1. CASE EditFile
    <3>1a. PICK f \in Names : \E now \in ({None} \cup Mine) \ {file[f]} :
            /\ There("root") /\ file' = [file EXCEPT ![f] = now]
            /\ dirs' = (IF now = None THEN dirs ELSE dirs \cup {"components"})
            /\ raced' = (raced \/ \E q \in Processes : At(q, "remove") /\ run[q].file = f)
            /\ UNCHANGED <<receipt, extra>>
      BY <2>1 DEF EditFile
    <3>1. PICK now \in ({None} \cup Mine) \ {file[f]} :
            /\ There("root") /\ file' = [file EXCEPT ![f] = now]
            /\ dirs' = (IF now = None THEN dirs ELSE dirs \cup {"components"})
            /\ raced' = (raced \/ \E q \in Processes : At(q, "remove") /\ run[q].file = f)
            /\ UNCHANGED <<receipt, extra>>
      BY <3>1a
    <3>2. TreeOK'
      <4>1. dirs' \in SUBSET Directories /\ (dirs' # {} => There("root")')
        BY <2>0, <3>1 DEF TreeOK, Directories, There
      <4>2. receipt' # None => There(".agx")'
        BY <2>0, <3>1 DEF TreeOK, There
      <4>3. file' \in [Names -> Contents \cup Mine \cup {None}]
        BY <2>0, <3>1 DEF TreeOK, Mine
      <4>4. (\E g \in Names : file'[g] # None) => There("components")'
        BY <2>0, <3>1 DEF TreeOK, There
      <4> QED BY <2>0, <3>1, <4>1, <4>2, <4>3, <4>4 DEF TreeOK
    <3>3. /\ \A g \in Names : file'[g] = file[g] \/ file'[g] \in Mine \cup {None}
          /\ \A g : g # f => file'[g] = file[g]
      BY <2>0, <3>1 DEF TreeOK, Mine
    <3>4. raced' \in BOOLEAN /\ (~raced' => ~raced)
      BY <2>0, <3>1
    <3>5. ~raced' => \A q \in Processes : run[q].pc = "remove" => run[q].file # f
      BY <3>1 DEF At
    <3> QED BY <3>1, <3>2, <3>3, <3>4, <3>5
  <2>2. CASE EditBeside
    BY <2>0, <2>2 DEF EditBeside, TreeOK, There
  <2>3. CASE SpoilReceipt
    BY <2>0, <2>3 DEF SpoilReceipt, TreeOK, There
  <2> QED BY <2>1, <2>2, <2>3 DEF Edit
<1>3. \A q \in Processes : run'[q] = Disturbed(q)
  BY <1>1
<1>4. TypeOK'
  <2>1. run' \in [Processes -> Runs]
    BY <1>1, DisturbedIs
  <2>2. edits' \in 0..MaxEdits
    BY <1>1, InstallationAssumption DEF Inductive, TypeOK
  <2> QED BY <1>1, <1>2, <2>1, <2>2 DEF Inductive, TypeOK, TreeOK
<1>5. ReceiptInv'
  BY <1>2, ContentsApart DEF Inductive, ReceiptInv
<1>6. ApartInv'
  <2>1. \A q \in Processes : run'[q].pc = run[q].pc /\ run'[q].command = run[q].command
    BY <1>3, DisturbedIs
  <2> QED BY <1>1, <2>1 DEF Inductive, ApartInv
<1>7. UsersInv'
  <2>1. \A q \in Processes : run'[q].pc = "remove" =>
          run[q].pc = "remove" /\ run'[q].file = run[q].file
    BY <1>3, DisturbedIs
  <2> QED BY <1>1, <1>2, <2>1 DEF Inductive, UsersInv
<1>8. RunsInv'
  <2> SUFFICES ASSUME NEW q \in Processes
               PROVE  /\ RunOK(run[q])' /\ ExamineOK(run[q])' /\ AnswerOK(run[q])'
                      /\ ~overlap' => RemoveOK(run[q])'
    BY DEF RunsInv
  <2>1. PICK d \in Runs : d = Disturbed(q)
    BY DisturbedIs
  <2>2. /\ run'[q] = d /\ RunOK(d) /\ d.answer = None
        /\ d.pc = run[q].pc
        /\ d.pc # "idle" => /\ d.disturbed /\ d.file = run[q].file
                            /\ d.todo = run[q].todo /\ d.removals = run[q].removals
    BY <1>3, <2>1, DisturbedIs
  <2>3. RunOK(d)' /\ ExamineOK(d)' /\ AnswerOK(d)'
    BY <2>2 DEF RunOK, ExamineOK, AnswerOK, None
  <2>4. ASSUME ~overlap PROVE RemoveOK(d)'
    <3>1. RemoveOK(run[q]) /\ RunOK(run[q])
      BY <2>4, Knows
    <3>2. \A files : Left(files) => Left(files)'
      BY <1>2, ContentsApart DEF Left
    <3>3. receipt = None => receipt' = None
      BY <1>2, ContentsApart
    <3> QED BY <2>2, <3>1, <3>2, <3>3 DEF RemoveOK, None
  <2> QED BY <1>1, <2>2, <2>3, <2>4 DEF RunOK, ExamineOK, AnswerOK, RemoveOK
<1> QED BY <1>4, <1>5, <1>6, <1>7, <1>8 DEF Inductive

LEMMA CrashKeeps ==
  ASSUME Inductive, stranded' \in BOOLEAN, NEW p \in Processes, Crash(p)
  PROVE  Inductive'
<1>1. /\ run' = [run EXCEPT ![p] = Idle] /\ Mishap /\ crashes' = crashes + 1
      /\ UNCHANGED <<dirs, receipt, file, extra, lost, raced, overlap, applies, edits, faults>>
  BY DEF Crash, Becomes, tree
<1>2. /\ Idle \in Runs /\ Idle.pc = "idle" /\ Idle.command = None /\ Idle.answer = None
      /\ Idle.drift = FALSE
  BY Knows DEF Idle
<1>3. RunOK(Idle) /\ Together(p, Idle) /\ ExamineOK(Idle)' /\ AnswerOK(Idle)' /\ RemoveOK(Idle)'
  BY <1>2 DEF RunOK, Removing, Together, ExamineOK, AnswerOK, RemoveOK, None
<1>4. Counted
  <2>1. /\ crashes \in Nat /\ faults \in Nat /\ MaxMishaps \in Nat
        /\ crashes + faults < MaxMishaps
    BY <1>1, InstallationAssumption DEF Inductive, TypeOK, Mishap
  <2>2. crashes' \in Nat /\ crashes' + faults <= MaxMishaps
    BY <1>1, <2>1
  <2> QED BY <1>1, <2>1, <2>2 DEF Counted, Inductive, TypeOK
<1>5. overlap \in BOOLEAN
  BY DEF Inductive, TypeOK
<1> QED BY <1>1, <1>2, <1>3, <1>4, <1>5, Quiet

-----------------------------------------------------------------------------
(* The theorems.                                                           *)

\* The inductive invariant of the whole machine.
THEOREM InductiveInvariant == Spec => []Inductive
<1>1. Init => Inductive
  <2> SUFFICES ASSUME Init PROVE Inductive
    OBVIOUS
  <2>1. /\ \A p \in Processes : run[p] = Idle
        /\ run = [p \in Processes |-> Idle]
        /\ Idle \in Runs /\ Idle.pc = "idle" /\ Idle.command = None /\ Idle.answer = None
        /\ Idle.drift = FALSE
    BY DEF Init, Idle, Runs, Pcs, Answers
  <2>2. run \in [Processes -> Runs] /\ run = [p \in Processes |-> Idle]
    BY <2>1
  <2>3. /\ dirs \in SUBSET Directories /\ (dirs # {} => There("root"))
        /\ \A f \in Names : file[f] = None
        /\ file \in [Names -> Contents \cup Mine \cup {None}]
    BY DEF Init, Directories, There
  <2>4. extra \in BOOLEAN
    BY DEF Init
  <2>5. {lost, raced, overlap, stranded} \subseteq BOOLEAN
    BY DEF Init
  <2>6. /\ applies \in 0..MaxApplies /\ edits \in 0..MaxEdits
        /\ {crashes, faults} \subseteq Nat /\ crashes + faults <= MaxMishaps
    BY InstallationAssumption DEF Init
  <2>7. TypeOK
    BY <2>2, <2>3, <2>4, <2>5, <2>6 DEF TypeOK, Init
  <2>8. ReceiptInv /\ ApartInv /\ UsersInv
    BY <2>1, ContentsApart DEF Init, ReceiptInv, ApartInv, UsersInv
  <2>9. RunsInv
    BY <2>1 DEF RunsInv, RunOK, ExamineOK, AnswerOK, RemoveOK, Removing, None
  <2> QED BY <2>7, <2>8, <2>9 DEF Inductive
<1>2. Inductive /\ [Next]_vars => Inductive'
  <2> SUFFICES ASSUME Inductive, [Next]_vars PROVE Inductive'
    OBVIOUS
  <2>0. Strands \/ UNCHANGED stranded => stranded' \in BOOLEAN
    <3>1. stranded \in BOOLEAN
      BY DEF Inductive, TypeOK
    <3> QED BY <3>1 DEF Strands
  <2>1. ASSUME NEW p \in Processes, Step(p) PROVE Inductive'
    BY <2>0, <2>1, LookKeeps, StageKeeps, CommitKeeps, ReadKeeps, ExamineFileKeeps, InspectKeeps,
       CheckKeeps, RemoveKeeps, RemoveReceiptKeeps, RemoveDirectoriesKeeps, RemoveRootKeeps DEF Step
  <2>2. ASSUME NEW p \in Processes, BeginApply(p) PROVE Inductive'
    <3>1. PICK b \in Bundles :
            applies < MaxApplies /\ applies' = applies + 1 /\ Start(p, "apply", b, "look")
      BY <2>2 DEF BeginApply
    <3>2. applies' \in 0..MaxApplies
      BY <3>1, InstallationAssumption DEF Inductive, TypeOK
    <3> QED BY <2>0, <3>1, <3>2, StartKeeps DEF Start
  <2>3. ASSUME NEW p \in Processes, BeginStatus(p) \/ BeginUninstall(p) PROVE Inductive'
    <3>1. applies' \in 0..MaxApplies
      BY <2>3 DEF BeginStatus, BeginUninstall, Inductive, TypeOK
    <3>2. PICK command \in {"status", "uninstall"} : Start(p, command, None, "read")
      BY <2>3 DEF BeginStatus, BeginUninstall
    <3> QED BY <2>0, <3>1, <3>2, StartKeeps DEF Start
  <2>4. CASE UNCHANGED vars
    <3>1. UNCHANGED <<dirs, receipt, file, extra, run, lost, raced, overlap, stranded, applies,
                      crashes, edits, faults>>
      BY <2>4 DEF vars, tree, story, bounds
    <3>2. TypeOK' /\ ReceiptInv' /\ ApartInv' /\ UsersInv'
      BY <3>1 DEF Inductive, TypeOK, ReceiptInv, ApartInv, UsersInv, There
    <3>3. RunsInv'
      BY <3>1 DEF Inductive, RunsInv, RunOK, ExamineOK, AnswerOK, RemoveOK, Left, Whole, Unchanged
    <3> QED BY <3>2, <3>3 DEF Inductive
  <2> QED BY <2>0, <2>1, <2>2, <2>3, <2>4, CrashKeeps, EditKeeps DEF Next
<1> QED BY <1>1, <1>2, PTL DEF Spec

\* Every variable has its type; no file, receipt or directory without its parent.
THEOREM TypeCorrect == Spec => []TypeOK
BY InductiveInvariant, PTL DEF Inductive

\* A file the user has changed is never removed, unless it is changed between its
\* last check and its removal.
THEOREM UsersFilesStay == Spec => []KeepsTheUsers
<1>1. Inductive => KeepsTheUsers
  BY DEF Inductive, UsersInv, KeepsTheUsers
<1> QED BY <1>1, InductiveInvariant, PTL

\* What status, apply and uninstall answer is so, if nobody has changed the tree
\* meanwhile.
THEOREM AnswersAreTrue == Spec => []ReportsAreTrue
<1>1. Inductive => ReportsAreTrue
  <2> SUFFICES ASSUME Inductive PROVE ReportsAreTrue
    OBVIOUS
  <2>1. \A p \in Processes : /\ AnswerOK(run[p])
                             /\ ~overlap => RemoveOK(run[p])
    BY DEF Inductive, RunsInv
  <2> QED BY <2>1 DEF ReportsAreTrue, AnswerOK, RemoveOK, Left
<1> QED BY <1>1, InductiveInvariant, PTL
=============================================================================
