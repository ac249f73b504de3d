----------------------------- MODULE Installation -----------------------------
(***************************************************************************)
(* `agx apply`, `agx status` and `agx uninstall` on one root directory     *)
(* (internal/install).  Apply stages a bundle with its receipt next to the *)
(* root and renames it there; Uninstall removes the files the receipt      *)
(* lists, if they are unchanged, then the receipt, then what is empty.     *)
(*                                                                         *)
(* Several commands may run, none takes a lock, each may be killed, and    *)
(* the user edits files.  A reading or removal of one file is one step.    *)
(***************************************************************************)
EXTENDS Integers, FiniteSets

CONSTANTS
  Processes,
  Names,          \* the files of all bundles
  Bundles,
  OwnedFiles,     \* per bundle the files it installs
  Shared,         \* the files whose content does not depend on the bundle
  MaxApplies, MaxEdits,
  MaxMishaps      \* bounds, the last on crashes and failures together

ASSUME InstallationAssumption ==
  /\ OwnedFiles \in [Bundles -> SUBSET Names \ {{}}] /\ Shared \subseteq Names
  /\ Bundles \cap {"none", "spoilt", "shared", "user"} = {}
  /\ MaxApplies \in Nat /\ MaxEdits \in Nat /\ MaxMishaps \in Nat

VARIABLES
  dirs,      \* which directories exist: the root, .agx, that of the components
  receipt,   \* .agx/receipt.json
  file,      \* per name, what is there
  extra,     \* a file of the user's own beside the components
  run,       \* the command of each process
  lost,      \* something of the user's has been removed
  raced,     \* the user has changed a file between its last check and its removal
  overlap,   \* an uninstallation has run beside an apply
  stranded,  \* see Strands
  applies, crashes, edits, faults

tree   == <<dirs, receipt, file, extra>>
story  == <<lost, raced, overlap, stranded>>
bounds == <<applies, crashes, edits, faults>>
vars   == <<tree, run, story, bounds>>

Directories == {"root", ".agx", "components"}
None   == "none"
Spoilt == "spoilt"                        \* a receipt that readReceipt refuses
\* A file has the content of a bundle, or is the user's: another content, no
\* regular file, or one behind a link.
Content(b, f) == IF f \in Shared THEN "shared" ELSE b
Contents == {Content(b, f) : b \in Bundles, f \in Names}
Mine     == {"user"}
Answers  == {None, "configured", "drifted", "removed"}

\* todo: the files not yet looked at.  removals: those to remove.  bundle: of
\* the receipt read, or to be applied.  file: between its check and its removal.
\* drift: status has found one.  disturbed: the tree has changed meanwhile.
Idle == [pc |-> "idle", command |-> None, bundle |-> None, todo |-> {},
         removals |-> {}, file |-> None, drift |-> FALSE, disturbed |-> FALSE,
         answer |-> None]

Init ==
  /\ dirs \in {{}, {"root"}} /\ receipt = None
  /\ file = [f \in Names |-> None] /\ extra = (dirs # {})
  /\ run = [p \in Processes |-> Idle]
  /\ lost = FALSE /\ raced = FALSE /\ overlap = FALSE /\ stranded = FALSE
  /\ applies = 0 /\ crashes = 0 /\ edits = 0 /\ faults = 0

-----------------------------------------------------------------------------
At(p, pc) == run[p].pc = pc
Mishap    == crashes + faults < MaxMishaps
Fault     == Mishap /\ faults' = faults + 1
Fine      == UNCHANGED faults
FailsOr(problem) == Fault \/ (problem /\ Fine)

Becomes(p, to)    == run' = [run EXCEPT ![p] = to]
Goto(p, pc)       == Becomes(p, [run[p] EXCEPT !.pc = pc])
\* "failed" stands for every other answer, the absence of the root included.
\* An answer is remembered as long as the tree is the one it is about.
Finish(p, answer) == Becomes(p,
  IF run[p].disturbed \/ answer = "failed" THEN Idle
  ELSE [Idle EXCEPT !.bundle = run[p].bundle, !.answer = answer])
Disturbed(q) == IF At(q, "idle") THEN Idle ELSE [run[q] EXCEPT !.disturbed = TRUE]
Disturbs(p, to) == run' = [q \in Processes |-> IF q = p THEN to ELSE Disturbed(q)]
DisturbsGoto(p, pc) == Disturbs(p, [run[p] EXCEPT !.pc = pc])
Rest == UNCHANGED <<applies, crashes, edits, raced, overlap>>

There(d) == d \in dirs
Owned(b) == OwnedFiles[b]
Unchanged(b, f) == file[f] = Content(b, f)
Whole(b) == receipt = b /\ \A f \in Owned(b) : Unchanged(b, f)

\* A command begins.  The answer of the last one is forgotten.
Start(p, command, bundle, pc) ==
  /\ At(p, "idle")
  /\ run' = [run EXCEPT ![p] = [Idle EXCEPT !.pc = pc, !.command = command, !.bundle = bundle]]
  /\ overlap' = (overlap \/ \E q \in Processes \ {p} :
                   {command, run[q].command} = {"apply", "uninstall"})
  /\ UNCHANGED <<tree, lost, raced, stranded, crashes, edits, faults>>

BeginApply(p) == \E b \in Bundles :
  applies < MaxApplies /\ applies' = applies + 1 /\ Start(p, "apply", b, "look")
BeginStatus(p)    == Start(p, "status", None, "read") /\ UNCHANGED applies
BeginUninstall(p) == Start(p, "uninstall", None, "read") /\ UNCHANGED applies

-----------------------------------------------------------------------------
(* Apply and Status.                                                       *)

Examine(p, b) == Becomes(p, [run[p] EXCEPT !.pc = "examine", !.bundle = b, !.todo = Owned(b)])

\* A root that is there is never written to: it is this bundle and intact, or
\* the command is refused.
Look(p) ==
  /\ At(p, "look") /\ UNCHANGED <<tree, lost>> /\ Rest
  /\ \/ ~There("root") /\ Goto(p, "stage") /\ Fine
     \/ There("root") /\ receipt = run[p].bundle /\ Examine(p, receipt) /\ Fine
     \/ FailsOr(There("root") /\ receipt # run[p].bundle) /\ Finish(p, "failed")

\* The staging directory: the archive and the runtime with their digests, the
\* extracted files and the receipt.  It is private, and a crash leaves it.
Stage(p) ==
  /\ At(p, "stage") /\ UNCHANGED <<tree, lost>> /\ Rest
  /\ (Goto(p, "commit") /\ Fine) \/ (Finish(p, "failed") /\ Fault)

\* os.Rename: the root must not be there.
Commit(p) ==
  LET b == run[p].bundle IN
  /\ At(p, "commit") /\ UNCHANGED lost /\ Rest
  /\ \/ /\ ~There("root") /\ Fine
        /\ dirs' = Directories /\ receipt' = b /\ extra' = FALSE
        /\ file' = [f \in Names |-> IF f \in Owned(b) THEN Content(b, f) ELSE None]
        /\ Disturbs(p, [Idle EXCEPT !.bundle = b, !.answer = "configured"])
     \/ FailsOr(There("root")) /\ Finish(p, "failed") /\ UNCHANGED tree

Read(p) ==
  /\ At(p, "read") /\ UNCHANGED <<tree, lost>> /\ Rest
  /\ \/ /\ run[p].command = "status" /\ ~There("root")
        /\ Finish(p, "failed") /\ Fine
     \/ /\ receipt \in Bundles /\ Fine
        /\ IF run[p].command = "status" THEN Examine(p, receipt)
           ELSE Becomes(p, [run[p] EXCEPT !.pc = "inspect", !.bundle = receipt,
                                          !.todo = Owned(receipt)])
     \/ FailsOr(receipt \notin Bundles) /\ Finish(p, "failed")

\* Mistaken: that a file is there is enough.
ExamineMissing(p) ==
  /\ At(p, "examine") /\ UNCHANGED <<tree, lost>> /\ Rest /\ Fine
  /\ \/ run[p].todo = {} /\ Finish(p, IF run[p].drift THEN "drifted" ELSE "configured")
     \/ \E f \in run[p].todo :
          Becomes(p, [run[p] EXCEPT !.todo = @ \ {f}, !.drift = @ \/ file[f] = None])

\* Status, file by file; Apply calls it too.
ExamineFile(p) ==
  LET drifted == IF run[p].command = "apply" THEN "failed" ELSE "drifted" IN
  /\ At(p, "examine") /\ UNCHANGED <<tree, lost>> /\ Rest
  /\ \/ run[p].todo = {} /\ Finish(p, IF run[p].drift THEN drifted ELSE "configured") /\ Fine
     \/ \E f \in run[p].todo : \E wrong \in {TRUE, ~Unchanged(run[p].bundle, f)} :
          /\ IF wrong /\ Unchanged(run[p].bundle, f) THEN Fault ELSE Fine
          /\ Becomes(p, [run[p] EXCEPT !.todo = @ \ {f}, !.drift = @ \/ wrong])

-----------------------------------------------------------------------------
(* Uninstall.                                                              *)

\* Mistaken: a file that is missing is a difference too.
InspectStrictly(p) ==
  /\ At(p, "inspect") /\ UNCHANGED <<tree, lost>> /\ Rest /\ Fine
  /\ \/ run[p].todo = {} /\ Goto(p, "check")
     \/ \E f \in run[p].todo :
          IF Unchanged(run[p].bundle, f)
            THEN Becomes(p, [run[p] EXCEPT !.todo = @ \ {f}, !.removals = @ \cup {f}])
            ELSE Finish(p, "failed")

\* The first pass: nothing is removed before every file has been looked at.
Inspect(p) ==
  /\ At(p, "inspect") /\ UNCHANGED <<tree, lost>> /\ Rest
  /\ \/ run[p].todo = {} /\ Goto(p, "check") /\ Fine
     \/ \E f \in run[p].todo :
          \/ /\ file[f] = None \/ Unchanged(run[p].bundle, f)
             /\ Fine
             /\ Becomes(p, [run[p] EXCEPT !.todo = @ \ {f},
                  !.removals = IF file[f] = None THEN @ ELSE @ \cup {f}])
          \/ /\ FailsOr(file[f] # None /\ ~Unchanged(run[p].bundle, f))
             /\ Finish(p, "failed")

\* Mistaken: what the first pass has seen is not looked at again.
CheckNothing(p) ==
  /\ At(p, "check") /\ UNCHANGED <<tree, lost>> /\ Rest /\ Fine
  /\ \/ run[p].removals = {} /\ Goto(p, "receipt")
     \/ \E f \in run[p].removals :
          Becomes(p, [run[p] EXCEPT !.pc = "remove", !.removals = @ \ {f}, !.file = f])

\* The second pass: each file once more, just before it is removed.
Check(p) ==
  /\ At(p, "check") /\ UNCHANGED <<tree, lost>> /\ Rest
  /\ \/ run[p].removals = {} /\ Goto(p, "receipt") /\ Fine
     \/ \E f \in run[p].removals :
          \/ /\ file[f] = None /\ Fine
             /\ Becomes(p, [run[p] EXCEPT !.removals = @ \ {f}])
          \/ /\ Unchanged(run[p].bundle, f) /\ Fine
             /\ Becomes(p, [run[p] EXCEPT !.pc = "remove", !.removals = @ \ {f}, !.file = f])
          \/ /\ FailsOr(file[f] # None /\ ~Unchanged(run[p].bundle, f))
             /\ Finish(p, "failed")

Remove(p) ==
  LET f == run[p].file IN
  /\ At(p, "remove") /\ UNCHANGED <<dirs, receipt, extra>> /\ Rest
  /\ \/ /\ file' = [file EXCEPT ![f] = None] /\ Fine
        /\ lost' = (lost \/ file[f] \in Mine)
        /\ Disturbs(p, [run[p] EXCEPT !.pc = "check", !.file = None])
     \/ Fault /\ Finish(p, "failed") /\ UNCHANGED <<file, lost>>

\* Whatever receipt is there now, if it is a regular file.
RemoveReceipt(p) ==
  /\ At(p, "receipt") /\ UNCHANGED <<dirs, file, extra, lost>> /\ Rest
  /\ \/ receipt' = None /\ Fine /\ DisturbsGoto(p, "directories")
     \/ FailsOr(receipt = Spoilt) /\ Finish(p, "failed") /\ UNCHANGED receipt

Empty(d) ==
  CASE d = ".agx"       -> receipt = None
    [] d = "components" -> \A f \in Names : file[f] = None
    [] d = "root"       -> dirs \subseteq {"root"} /\ ~extra

\* Mistaken: .agx, which is not among the directories of the owned files.
RemoveOthers(p) ==
  /\ At(p, "directories") /\ UNCHANGED <<receipt, file, extra, lost>> /\ Rest /\ Fine
  /\ dirs' = dirs \ {d \in {"components"} : Empty(d)}
  /\ DisturbsGoto(p, "root")

\* The deepest first; what is not empty stays, and that is no error.  Nor is a
\* removal that fails.
RemoveDirectories(p) ==
  LET empty == {d \in {".agx", "components"} : Empty(d)} IN
  /\ At(p, "directories") /\ UNCHANGED <<receipt, file, extra, lost>> /\ Rest
  /\ \/ dirs' = dirs \ empty /\ Fine
     \/ \E kept \in SUBSET empty : dirs' = dirs \ (empty \ kept) /\ Fault
  /\ DisturbsGoto(p, "root")

RemoveRoot(p) ==
  /\ At(p, "root") /\ UNCHANGED <<receipt, file, extra, lost>> /\ Rest
  /\ \/ dirs' = (IF Empty("root") THEN {} ELSE dirs) /\ Fine
     \/ UNCHANGED dirs /\ Fault
  /\ Disturbs(p, [Idle EXCEPT !.answer = "removed"])

-----------------------------------------------------------------------------
(* The user, and the end of a process.                                     *)

\* Where a directory is missing the user makes it again.
EditFile == \E f \in Names : \E now \in ({None} \cup Mine) \ {file[f]} :
  /\ There("root")
  /\ file' = [file EXCEPT ![f] = now]
  /\ dirs' = IF now = None THEN dirs ELSE dirs \cup {"components"}
  /\ raced' = (raced \/ \E p \in Processes : At(p, "remove") /\ run[p].file = f)
  /\ UNCHANGED <<receipt, extra>>
EditBeside ==
  /\ There("root") /\ extra' = ~extra
  /\ UNCHANGED <<dirs, receipt, file, raced>>
SpoilReceipt ==
  /\ receipt \in Bundles /\ receipt' = Spoilt
  /\ UNCHANGED <<dirs, file, extra, raced>>

Edit ==
  /\ edits < MaxEdits /\ edits' = edits + 1
  /\ EditFile \/ EditBeside \/ SpoilReceipt
  /\ run' = [p \in Processes |-> Disturbed(p)]
  /\ UNCHANGED <<lost, overlap, applies, crashes, faults>>

Crash(p) ==
  /\ ~At(p, "idle") /\ Mishap /\ crashes' = crashes + 1 /\ Becomes(p, Idle)
  /\ UNCHANGED <<tree, lost, raced, overlap, applies, edits, faults>>

-----------------------------------------------------------------------------
\* An accident or the user changes a root of which no receipt tells any more: an
\* uninstallation is cut short after the receipt is gone, for one.
Strands ==
  stranded' = (stranded \/ (/\ receipt = None /\ There("root")
                            /\ <<crashes, edits, faults>>' # <<crashes, edits, faults>>))

Step(p) ==
  /\ \/ Look(p) \/ Stage(p) \/ Commit(p) \/ Read(p) \/ ExamineFile(p) \/ Inspect(p)
     \/ Check(p) \/ Remove(p) \/ RemoveReceipt(p) \/ RemoveDirectories(p) \/ RemoveRoot(p)
  /\ Strands

Next ==
  \/ \E p \in Processes : \/ BeginApply(p) \/ BeginStatus(p) \/ BeginUninstall(p)
                          \/ Step(p) \/ (Crash(p) /\ Strands)
  \/ Edit /\ Strands

Spec == Init /\ [][Next]_vars
\* Commands go on, and agx uninstall is run again and again.
FairSpec ==
  /\ Spec /\ \A p \in Processes : WF_vars(Step(p))
  /\ []<><<\E p \in Processes : BeginUninstall(p)>>_vars

-----------------------------------------------------------------------------
(* Properties.                                                             *)

Pcs == {"idle", "look", "stage", "commit", "read", "examine", "inspect", "check",
        "remove", "receipt", "directories", "root"}

Runs == [pc : Pcs, command : {None, "apply", "status", "uninstall"},
         bundle : Bundles \cup {None}, todo : SUBSET Names, removals : SUBSET Names,
         file : Names \cup {None}, drift : BOOLEAN, disturbed : BOOLEAN, answer : Answers]

TypeOK ==
  /\ dirs \in SUBSET Directories /\ (dirs # {} => There("root"))
  /\ receipt \in Bundles \cup {None, Spoilt} /\ (receipt # None => There(".agx"))
  /\ file \in [Names -> Contents \cup Mine \cup {None}] /\ extra \in BOOLEAN
  /\ (\E f \in Names : file[f] # None) => There("components")
  /\ run \in [Processes -> Runs]
  /\ {lost, raced, overlap, stranded} \subseteq BOOLEAN
  /\ applies \in 0..MaxApplies /\ edits \in 0..MaxEdits
  /\ {crashes, faults} \subseteq Nat /\ crashes + faults <= MaxMishaps

\* What AGX does not know stays (README.md:107): a file the user has changed is
\* never removed, unless it is changed between its last check and its removal.
KeepsTheUsers == ~raced => ~lost

\* What status, and apply for an installation that is already there, report was
\* so, if nobody has changed the tree meanwhile; so too with two installers.  What
\* uninstall reports was so unless it has run beside an apply.
ReportsAreTrue ==
  \A p \in Processes :
    /\ run[p].answer = "configured" => Whole(run[p].bundle)
    /\ run[p].answer = "drifted" /\ faults = 0 => ~Whole(run[p].bundle)
    /\ run[p].answer = "removed" /\ ~overlap =>
         receipt = None /\ \A f \in Names : file[f] \notin Contents

\* Crashes and failures being finite, agx uninstall, run again and again, also by
\* two at once, takes everything away in the end, its directories and the root
\* included, but for what is not empty; unless a file it owns was changed or the
\* receipt was spoilt.  The missing files of an interrupted run do not stop it.
\* Two things are excused (README.md, section 5): an uninstallation beside an
\* apply may take its receipt; and directories stay for ever when one is cut
\* short after the receipt is gone, or when the user changes what no receipt
\* tells of.
CleansUp == <>[](
  \/ overlap \/ receipt = Spoilt
  \/ receipt \in Bundles /\ \E f \in Owned(receipt) : file[f] # None /\ ~Unchanged(receipt, f)
  \/ /\ receipt = None /\ \A f \in Names : file[f] \notin Contents
     /\ stranded \/ \A d \in dirs : ~Empty(d))
=============================================================================
